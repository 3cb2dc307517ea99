-------------------- MODULE WebSocketServerStreamProofs --------------------
(***************************************************************************)
(* Theorems about WebSocketServer, for every number of connections,        *)
(* clients, scripts and bounds: the way of a client's data through the     *)
(* queue, the answers, and what the user is promised.  They are about a    *)
(* server that is initialised once (runs <= 1): Close does not clear the   *)
(* queue, so after a restart a new client may find the entry of an old one.*)
(***************************************************************************)
EXTENDS WebSocketServerProofs

-----------------------------------------------------------------------------
(* The inductive invariant.                                                *)

\* What of a connection's data is still to be put into the queue.
Put(i) == IF worker[i].pc = "put" THEN Len(worker[i].chunk) ELSE 0

\* The numbers of the messages of a client to which it got the answers; what
\* reaches it and is meant for another client does not count.
Own(p) == {got[p][j].msg : j \in {l \in 1 .. Len(got[p]) : got[p][l].peer = p}}

\* Nothing has come from the client or been answered to it, and the user was
\* told nothing about it.
Untold(p) ==
  /\ fed[p] = 0 /\ Own(p) = {} /\ handled[p] = << >> /\ told[p] = "nothing"
  /\ push.peer # p
  /\ \A k \in 1 .. Len(requestQueue) : requestQueue[k].remote # p

\* A client is unknown until it is announced.
NewInv ==
  /\ \A p \in Peers : phase[p] = "new" => Untold(p)
  /\ \A c \in Indices : worker[c].pc = "init" => Untold(Client(c))

\* No two entries are of one connection or of one client.
Apart ==
  \A k, l \in 1 .. Len(requestQueue) :
    (\/ requestQueue[k].connID = requestQueue[l].connID
     \/ requestQueue[k].remote = requestQueue[l].remote) => k = l

\* An entry of a connection is of the client that is on it, if one is.
Owned ==
  \A k \in 1 .. Len(requestQueue) :
    requestQueue[k].connID # Stray =>
      session[requestQueue[k].connID] \in {requestQueue[k].remote, Nobody}

\* A connection that was announced has an entry; that of a client that was
\* not announced before its connection was freed never has.
Listed ==
  \A i \in Slots :
    session[i] # Nobody /\ worker[i].pc # "init" /\ ~ (Freed(i) /\ worker[i].pc = "idle") =>
      \E k \in 1 .. Len(requestQueue) : requestQueue[k].connID = i

\* Until Cleanup begins, an entry's client is still on the connection.
Serving == socket # "closed" /\ app.pc \notin {"cut", "reap"}
Fresh ==
  Serving => \A k \in 1 .. Len(requestQueue) :
               /\ requestQueue[k].connID # Stray
               /\ session[requestQueue[k].connID] # Nobody

Started == socket = "none" <=> runs = 0

\* A chunk is the latest of its client's data.
ChunkInv ==
  \A i \in Slots : worker[i].pc = "put" =>
    LET p == session[i]
        n == Len(worker[i].chunk)
    IN n <= fed[p] /\ worker[i].chunk = SubSeq(Stream(p), fed[p] - n + 1, fed[p])

\* Of the first put units of its client's data the entry has parsed m whole
\* messages and has the rest; of the messages the list has the last.  The
\* request is parsed alone, and answered before anything else is parsed.
Carried(e, put, m) ==
  /\ put = m * Parts + Len(e.data)
  /\ e.data = SubSeq(Stream(e.remote), m * Parts + 1, put)
  /\ Len(e.list) <= m
  /\ \A n \in 1 .. Len(e.list) :
       e.list[n] = [peer |-> e.remote, msg |-> m - Len(e.list) + n]
  /\ ~ e.handshake => e.list = << >> /\ m = IF e.ready THEN 1 ELSE 0
  /\ e.handshake => m - Len(e.list) >= 1 /\ (e.ready <=> e.list # << >>)

\* The client got answers, and its handler messages, only up to the last one
\* that has left the list, or x more; it got the answer to the request,
\* unless it was gone.
Accounted(e, m, x) ==
  /\ ~ e.handshake => Own(e.remote) = {} /\ handled[e.remote] = << >> /\ push.peer # e.remote
  /\ e.handshake /\ phase[e.remote] = "open" => 1 \in Own(e.remote)
  /\ \A n \in Own(e.remote) : n <= m - Len(e.list)
  /\ \A j \in 1 .. Len(handled[e.remote]) : handled[e.remote][j] <= m - Len(e.list) + x

\* The message that is being replied to was handled but is still in the list.
Replying(k) == IF req.pc = "reply" /\ req.pos = k THEN 1 ELSE 0

EntryInv(k, m) ==
  LET e == requestQueue[k]
  IN /\ Carried(e, fed[e.remote] - Put(e.connID), m)
     /\ Accounted(e, m, Replying(k))

\* The entry of the index -1 never gets as far as to be upgraded.
Entered(k) ==
  IF requestQueue[k].connID = Stray
  THEN ~ requestQueue[k].handshake /\ requestQueue[k].list = << >>
  ELSE \E m \in Nat : EntryInv(k, m)

DataInv == \A k \in 1 .. Len(requestQueue) : Entered(k)

\* What the user was told about the client of an entry: nothing until the
\* worker comes back from its announcement, before which it has no data.
TellInv ==
  \A k \in 1 .. Len(requestQueue) :
    LET e == requestQueue[k]
        pc == worker[e.connID].pc
    IN /\ told[e.remote] = "disconnected" <=> pc = "remove"
       /\ told[e.remote] = "nothing" =>
            pc = "greet" /\ e.data = << >> /\ ~ e.handshake /\ ~ e.ready

\* The clients whose connections are open have descriptors of their own.
FileInv ==
  /\ \A p \in Peers : phase[p] \in {"open", "closed"} => file[p] # None
  /\ \A p, q \in Peers :
       p \in OnFile(file[q]) /\ q \in OnFile(file[p]) => p = q

\* A response under way is to a client that was upgraded, on the descriptor
\* that it had.
PushInv ==
  push.peer # Nobody =>
    /\ phase[push.peer] # "new"
    /\ push.file \in {None, file[push.peer]}
    /\ phase[push.peer] = "open" => 1 \in Own(push.peer)

Core ==
  /\ NewInv
  /\ Apart /\ Owned /\ Listed /\ Fresh /\ Started
  /\ ChunkInv /\ DataInv /\ TellInv
  /\ FileInv /\ PushInv /\ AnswersInOrder

StreamInv == runs <= 1 => Core

-----------------------------------------------------------------------------
(* What the invariant says of one connection or one entry.                 *)

\* A worker that has announced its client finds the client's entry, which is
\* the only one of the connection.
LEMMA OwnEntry ==
  ASSUME IInv, Core, NEW i \in Slots, session[i] # Nobody, worker[i].pc # "init",
         worker[i].pc # "idle" \/ ~ Freed(i)
  PROVE  /\ session[i] \in Peers
         /\ \E k \in 1 .. Len(requestQueue) :
              /\ requestQueue[k].connID = i
              /\ requestQueue[k].remote = session[i]
              /\ Entries(i) = {k}
              /\ \A l \in 1 .. Len(requestQueue) :
                   requestQueue[l].remote = session[i] \/ requestQueue[l].connID = i => l = k
<1>1. session[i] \in Peers
  BY Types DEF IInv, SocketTypes
<1>2. PICK k \in 1 .. Len(requestQueue) : requestQueue[k].connID = i
  BY DEF Core, Listed
<1>3. requestQueue[k].remote = session[i]
  BY <1>2, States DEF Core, Owned
<1>4. \A l \in 1 .. Len(requestQueue) :
        requestQueue[l].remote = session[i] \/ requestQueue[l].connID = i => l = k
  BY <1>2, <1>3 DEF Core, Apart
<1>5. Entries(i) = {k}
  BY <1>2, <1>4 DEF Entries
<1>. QED
  BY <1>1, <1>2, <1>3, <1>4, <1>5

\* A client that is being announced has no entry, and neither has its
\* connection.
LEMMA NoEntry ==
  ASSUME IInv, Core, NEW c \in Indices, worker[c].pc = "init"
  PROVE  /\ Client(c) \in Peers
         /\ Untold(Client(c))
         /\ c \in Slots => session[c] = Client(c) /\ Entries(c) = {}
<1>1. Client(c) \in Peers /\ Client(c) # Nobody
  BY Busy, ServerAssumption
<1>2. Untold(Client(c))
  BY DEF Core, NewInv
<1>3. c \in Slots => session[c] = Client(c)
  BY States DEF Client
<1>4. c \in Slots => \A k \in 1 .. Len(requestQueue) : requestQueue[k].connID # c
  BY <1>1, <1>2, <1>3, States DEF Core, Owned, Untold
<1>. QED
  BY <1>1, <1>2, <1>3, <1>4 DEF Entries

\* The entries of an index are one at most.
LEMMA OneEntry ==
  ASSUME IInv, Core, NEW c \in Indices
  PROVE  \/ Entries(c) = {}
         \/ \E k \in 1 .. Len(requestQueue), p \in Peers :
              /\ requestQueue[k].connID = c /\ requestQueue[k].remote = p
              /\ Entries(c) = {k}
              /\ \A l \in 1 .. Len(requestQueue) :
                   requestQueue[l].remote = p \/ requestQueue[l].connID = c => l = k
<1>1. ASSUME Entries(c) # {}
      PROVE  \E k \in 1 .. Len(requestQueue), p \in Peers :
               /\ requestQueue[k].connID = c /\ requestQueue[k].remote = p
               /\ Entries(c) = {k}
               /\ \A l \in 1 .. Len(requestQueue) :
                    requestQueue[l].remote = p \/ requestQueue[l].connID = c => l = k
  <2>1. PICK k \in 1 .. Len(requestQueue) : requestQueue[k].connID = c
    BY <1>1 DEF Entries
  <2>2. PICK p \in Peers : requestQueue[k].remote = p
    BY Types, QueueFacts DEF IInv
  <2>3. \A l \in 1 .. Len(requestQueue) :
          requestQueue[l].remote = p \/ requestQueue[l].connID = c => l = k
    BY <2>1, <2>2 DEF Core, Apart
  <2>4. Entries(c) = {k}
    BY <2>1, <2>3 DEF Entries
  <2>. QED
    BY <2>1, <2>2, <2>3, <2>4
<1>. QED
  BY <1>1

\* A client of an entry is not unknown.
LEMMA EntryMet ==
  ASSUME IInv, Core, NEW k \in 1 .. Len(requestQueue)
  PROVE  /\ requestQueue[k].remote \in Peers
         /\ ~ Untold(requestQueue[k].remote)
         /\ phase[requestQueue[k].remote] # "new"
<1>1. requestQueue[k].remote \in Peers
  BY Types, QueueFacts DEF IInv
<1>2. ~ Untold(requestQueue[k].remote)
  BY DEF Untold
<1>. QED
  BY <1>1, <1>2 DEF Core, NewInv

\* Clients go on from one phase to the next.
Onward ==
  \A p \in Peers :
    \/ phase'[p] = phase[p]
    \/ phase[p] = "open" /\ phase'[p] = "closed"
    \/ phase[p] \in {"open", "closed"} /\ phase'[p] \in {"shut", "cut"}

LEMMA OwnSame ==
  ASSUME NEW p, got'[p] = got[p]
  PROVE  Own(p)' = Own(p)
BY DEF Own

\* An entry's account is the same if all that it is about is the same.
LEMMA EntryKept ==
  ASSUME NEW k, NEW l, NEW c, NEW p, Entered(k),
         requestQueue[k].connID = c, requestQueue[k].remote = p,
         requestQueue'[l] = requestQueue[k],
         script' = script, c # Stray => fed'[p] - Put(c)' = fed[p] - Put(c),
         Own(p)' = Own(p), handled'[p] = handled[p], push.peer # p => push'.peer # p,
         phase'[p] = "open" => phase[p] = "open",
         Replying(l)' = Replying(k)
  PROVE  Entered(l)'
<1>. DEFINE e == requestQueue[k]
            put == fed[p] - Put(c)
<1>1. requestQueue'[l] = e /\ e.connID = c /\ e.remote = p
  OBVIOUS
<1>2. CASE c = Stray
  BY <1>1, <1>2 DEF Entered
<1>3. CASE c # Stray
  <2>1. PICK m \in Nat : EntryInv(k, m)
    BY <1>1, <1>3 DEF Entered
  <2>2. Carried(e, put, m) /\ Accounted(e, m, Replying(k))
    BY <2>1 DEF EntryInv
  <2>. DEFINE f == Stream(p)
  <2>3. Stream(p)' = f
    BY DEF Stream
  <2>4. (fed[p] - Put(c))' = put
    BY <1>3
  <2>5. Carried(requestQueue[l], fed[p] - Put(c), m)'
    BY <1>1, <2>2, <2>3, <2>4 DEF Carried
  <2>6. Accounted(requestQueue[l], m, Replying(l))'
    BY <1>1, <2>2 DEF Accounted
  <2>7. EntryInv(l, m)'
    BY <1>1, <2>5, <2>6 DEF EntryInv
  <2>. QED
    BY <1>1, <1>3, <2>7 DEF Entered
<1>. QED
  BY <1>2, <1>3

\* The answers stay as they are.
LEMMA AnswersKept ==
  ASSUME IInv, Core, UNCHANGED <<file, got, push>>, Onward
  PROVE  FileInv' /\ PushInv' /\ AnswersInOrder'
<1>0. phase \in [Peers -> {"new", "open", "closed", "shut", "cut"}]
      /\ push.peer \in Peers \cup {Nobody} /\ got \in [Peers -> Seq(Answer)]
  BY Types DEF IInv, ClientTypes, LifeTypes
<1>1. \A p \in Peers :
        /\ phase'[p] \in {"open", "closed"} => phase[p] \in {"open", "closed"}
        /\ phase'[p] = "open" => phase[p] = "open"
        /\ phase'[p] = "new" => phase[p] = "new"
        /\ phase[p] \in {"shut", "cut"} => phase'[p] \in {"shut", "cut"}
  BY <1>0 DEF Onward
<1>2. \A p \in Peers : Own(p)' = Own(p)
  BY OwnSame
<1>3. FileInv'
  BY <1>1 DEF Core, FileInv, OnFile
<1>4. PushInv'
  <2>1. ASSUME push.peer # Nobody
        PROVE  PushInv'
    <3>1. PICK p \in Peers : push.peer = p
      BY <1>0, <2>1
    <3>2. /\ phase[p] # "new" /\ push.file \in {None, file[p]}
          /\ phase[p] = "open" => 1 \in Own(p)
      BY <2>1, <3>1 DEF Core, PushInv
    <3>3. /\ phase'[p] # "new" /\ push'.file \in {None, file'[p]}
          /\ phase'[p] = "open" => 1 \in Own(p)'
      BY <1>1, <1>2, <3>2
    <3>4. push'.peer = p
      BY <3>1
    <3>. QED
      BY <3>3, <3>4 DEF PushInv
  <2>. QED
    BY <2>1 DEF PushInv
<1>5. AnswersInOrder'
  <2>1. ASSUME NEW p \in Peers, NEW j \in 1 .. Len(got[p]), got[p][j].peer # p
        PROVE  phase'[got[p][j].peer] \in {"shut", "cut"}
    <3>1. phase[got[p][j].peer] \in {"shut", "cut"}
      BY <2>1 DEF Core, AnswersInOrder
    <3>2. got[p] \in Seq(Answer)
      BY <1>0
    <3>3. got[p][j] \in Answer
      BY <3>2, ElementOfSeq
    <3>4. got[p][j].peer \in Peers
      BY <3>3 DEF Answer
    <3>. QED
      BY <1>1, <3>1, <3>4
  <2>. QED
    BY <2>1 DEF Core, AnswersInOrder
<1>. QED
  BY <1>3, <1>4, <1>5

\* The chunks stay the latest of their clients' data.
LEMMA ChunksKept ==
  ASSUME Core, UNCHANGED <<script, fed>>,
         \A i \in Slots :
           worker'[i].pc = "put" => worker'[i] = worker[i] /\ session'[i] = session[i]
  PROVE  ChunkInv'
<1>1. ASSUME NEW i \in Slots, worker'[i].pc = "put"
      PROVE  LET p == session'[i]
                 n == Len(worker'[i].chunk)
             IN n <= fed'[p] /\ worker'[i].chunk = SubSeq(Stream(p), fed'[p] - n + 1, fed'[p])
  <2>1. worker'[i] = worker[i] /\ session'[i] = session[i] /\ worker[i].pc = "put"
    BY <1>1
  <2>. QED
    BY <2>1 DEF Core, ChunkInv
<1>2. \A i \in Slots : Stream(session[i])' = Stream(session'[i])
  BY DEF Stream
<1>. QED
  BY <1>1, <1>2 DEF ChunkInv

\* The data stays where it is.
LEMMA DataKept ==
  ASSUME IInv, Core, UNCHANGED <<script, fed, got, handled, requestQueue, push>>,
         \A p \in Peers : phase'[p] = "open" => phase[p] \in {"open", "new"},
         \A i \in Slots :
           \/ worker'[i] = worker[i] /\ (worker[i].pc = "put" => session'[i] = session[i])
           \/ worker[i].pc # "put" /\ worker'[i].pc # "put",
         \A k : Replying(k)' = Replying(k)
  PROVE  ChunkInv' /\ DataInv'
<1>1. \A i \in Slots : Put(i)' = Put(i)
  BY DEF Put
<1>2. ChunkInv'
  BY ChunksKept
<1>3. ASSUME NEW k \in 1 .. Len(requestQueue)
      PROVE  Entered(k)'
  <2>1. Entered(k)
    BY DEF Core, DataInv
  <2>2. PICK c \in Indices, p \in Peers :
          requestQueue[k].connID = c /\ requestQueue[k].remote = p
    BY Types, QueueFacts DEF IInv
  <2>3. c # Stray => Put(c)' = Put(c)
    BY <1>1, States
  <2>4. phase'[p] = "open" => phase[p] = "open"
    BY <2>2, EntryMet
  <2>5. Own(p)' = Own(p)
    BY OwnSame
  <2>. QED
    BY <2>1, <2>2, <2>3, <2>4, <2>5, EntryKept
<1>. QED
  BY <1>2, <1>3 DEF DataInv

\* Who is announced is so after a step in which its worker and the freed
\* connection stay the same.
LEMMA NewKept ==
  ASSUME IInv, Core, Onward,
         \A c \in Indices : worker'[c].pc = "init" =>
           worker[c].pc = "init" /\ Client(c)' = Client(c),
         \A p \in Peers :
           (\/ phase[p] = "new"
            \/ \E c \in Indices : /\ worker[c].pc = "init" /\ worker'[c].pc = "init"
                                  /\ Client(c) = p)
           /\ Untold(p) => Untold(p)'
  PROVE  NewInv'
<1>1. \A p \in Peers : phase'[p] = "new" => Untold(p)'
  BY DEF Core, NewInv, Onward
<1>2. ASSUME NEW c \in Indices, worker'[c].pc = "init"
      PROVE  Untold(Client(c))'
  <2>1. PICK p \in Peers : Client(c) = p /\ Untold(p)
    BY <1>2, NoEntry
  <2>2. Untold(p)'
    BY <1>2, <2>1
  <2>3. Client(c)' = p
    BY <1>2, <2>1
  <2>. QED
    BY <2>2, <2>3 DEF Untold
<1>. QED
  BY <1>1, <1>2 DEF NewInv

-----------------------------------------------------------------------------
(* The steps that do not touch the queue, the data or the answers.         *)

LEMMA QuietCore ==
  ASSUME IInv, Core,
         UNCHANGED <<script, file, fed, got, handled, told, requestQueue, session, push, runs>>,
         Onward,
         \A c \in Indices :
           \/ worker'[c] = worker[c]
           \/ worker[c].pc = "signal" /\ worker'[c].pc = "idle"
           \/ worker[c].pc = "idle" /\ ~ Freed(c) /\ worker'[c].pc = "bye",
         app' = app \/ (app.pc # "reap" /\ app'.pc # "reap"),
         app.pc \in {"cut", "reap"} => app'.pc \in {"cut", "reap"},
         \/ socket' = socket
         \/ socket \in {"running", "stopping"} /\ socket' = "stopping"
         \/ socket = "ready" /\ socket' = "running",
         req'.pc = "reply" <=> req.pc = "reply",
         req.pc = "reply" => req'.pos = req.pos
  PROVE  Core'
<1>1. \A c \in Indices : /\ worker'[c].pc = "init" <=> worker[c].pc = "init"
                         /\ worker'[c].pc = "remove" <=> worker[c].pc = "remove"
                         /\ worker'[c].pc = "greet" <=> worker[c].pc = "greet"
  OBVIOUS
<1>2. NewInv'
  <2>1. ASSUME NEW c \in Indices, worker'[c].pc = "init"
        PROVE  worker[c].pc = "init" /\ Client(c)' = Client(c)
    <3>1. worker[c].pc = "init"
      BY <1>1, <2>1
    <3>2. c = Stray => app' = app
      BY <3>1 DEF IInv, TableInv
    <3>. QED
      BY <3>1, <3>2 DEF Client
  <2>2. \A p \in Peers : Untold(p) => Untold(p)'
    <3>1. \A p : Own(p)' = Own(p)
      BY OwnSame
    <3>. QED
      BY <3>1 DEF Untold
  <2>. QED
    BY <2>1, <2>2, NewKept
<1>3. Apart' /\ Owned'
  BY DEF Core, Apart, Owned
<1>4. Listed'
  <2>1. ASSUME NEW i \in Slots, session'[i] # Nobody, worker'[i].pc # "init",
               ~ (Freed(i)' /\ worker'[i].pc = "idle")
        PROVE  \E k \in 1 .. Len(requestQueue') : requestQueue'[k].connID = i
    <3>1. worker[i].pc # "init"
      BY <1>1, <2>1, States
    <3>2. ~ (Freed(i) /\ worker[i].pc = "idle")
      <4>1. CASE app' = app
        <5>1. Freed(i)' <=> Freed(i)
          BY <4>1 DEF Freed
        <5>. QED
          BY <2>1, <5>1, States
      <4>2. CASE app.pc # "reap"
        BY <4>2 DEF Freed
      <4>. QED
        BY <4>1, <4>2
    <3>. QED
      BY <2>1, <3>1, <3>2 DEF Core, Listed
  <2>. QED
    BY <2>1 DEF Listed
<1>5. Fresh' /\ Started'
  BY DEF Core, Fresh, Started, Serving
<1>6. TellInv'
  <2>1. \A k \in 1 .. Len(requestQueue) : requestQueue[k].connID \in Indices
    BY Types, QueueFacts DEF IInv
  <2>. QED
    BY <1>1, <2>1 DEF Core, TellInv
<1>7. ChunkInv' /\ DataInv'
  <2>1. \A k : Replying(k)' = Replying(k)
    BY DEF Replying
  <2>2. \A i \in Slots :
           \/ worker'[i] = worker[i] /\ (worker[i].pc = "put" => session'[i] = session[i])
           \/ worker[i].pc # "put" /\ worker'[i].pc # "put"
    BY States
  <2>. QED
    BY <2>1, <2>2, DataKept DEF Onward
<1>8. FileInv' /\ PushInv' /\ AnswersInOrder'
  BY AnswersKept
<1>. QED
  BY <1>2, <1>3, <1>4, <1>5, <1>6, <1>7, <1>8 DEF Core

\* The clients' steps that the server does not notice, and the ends of the
\* socket server but for Cleanup.
LEMMA QuietOthers ==
  ASSUME IInv, Core,
         \/ \E p \in Peers : Hangup(p) \/ Stall(p) \/ Resume(p)
         \/ \E i \in Slots : Drop(i) \/ End(i) \/ Exhausted(i)
         \/ \E c \in Indices : WorkerSignal(c)
         \/ OnMessage \/ Run \/ CloseWait \/ CloseNoWait \/ WaitFor \/ Destroy
         \/ StopNoWait \/ StopSignal \/ StopJoin \/ Unwind \/ Rejoin
  PROVE  Core'
<1>0. /\ phase \in [Peers -> {"new", "open", "closed", "shut", "cut"}]
      /\ worker \in [Indices -> WorkerState]
      /\ session \in [Slots -> Peers \cup {Nobody}]
      /\ app \in AppState
  BY Types DEF IInv, ClientTypes, SocketTypes, LifeTypes
<1>1. ASSUME NEW p \in Peers, Hangup(p) \/ Stall(p) \/ Resume(p)
      PROVE  Core'
  <2>1. /\ UNCHANGED <<script, file, fed, got, handled, told, requestQueue, session, worker,
                       socket, app, push, runs, req>>
        /\ Onward
    BY <1>0, <1>1 DEF Hangup, Stall, Resume, socketVars, queueVars, lifeVars, userVars, Onward
  <2>. QED
    BY <2>1, QuietCore
<1>2. ASSUME NEW c \in Indices, WorkerSignal(c)
      PROVE  Core'
  <2>1. /\ UNCHANGED <<script, file, fed, got, handled, told, requestQueue, session, phase,
                       socket, app, push, runs, req>>
        /\ worker[c].pc = "signal" /\ Begin(c, "idle", << >>) /\ Onward
    BY <1>2 DEF WorkerSignal, clientVars, queueVars, lifeVars, userVars, Onward
  <2>2. /\ worker'[c].pc = "idle"
        /\ \A j \in Indices : j # c => worker'[j] = worker[j]
    BY <1>0, <2>1 DEF Begin
  <2>3. \A j \in Indices :
          \/ worker'[j] = worker[j]
          \/ worker[j].pc = "signal" /\ worker'[j].pc = "idle"
    BY <2>1, <2>2
  <2>. QED
    BY <2>1, <2>3, QuietCore
<1>3. ASSUME NEW i \in Slots, End(i)
      PROVE  Core'
  <2>1. /\ UNCHANGED <<script, file, fed, got, handled, told, requestQueue, session, phase,
                       socket, app, push, runs, req>>
        /\ worker[i].pc = "idle" /\ ~ Freed(i) /\ Begin(i, "bye", << >>) /\ Onward
    BY <1>3 DEF End, clientVars, queueVars, lifeVars, userVars, Onward
  <2>2. /\ worker'[i].pc = "bye"
        /\ \A j \in Indices : j # i => worker'[j] = worker[j]
    BY <1>0, <2>1, States DEF Begin
  <2>3. \A j \in Indices :
          \/ worker'[j] = worker[j]
          \/ worker[j].pc = "idle" /\ ~ Freed(j) /\ worker'[j].pc = "bye"
    BY <2>1, <2>2
  <2>. QED
    BY <2>1, <2>3, QuietCore
<1>4. ASSUME NEW i \in Slots, Drop(i) \/ Exhausted(i)
      PROVE  Core'
  <2>1. /\ UNCHANGED <<script, file, fed, got, handled, told, requestQueue, session, worker,
                       app, push, runs, req>>
        /\ socket \in {"running", "stopping"} /\ socket' \in {socket, "stopping"}
        /\ phase[session[i]] \in {"open", "closed"}
        /\ phase' = [phase EXCEPT ![session[i]] = "shut"]
    BY <1>4 DEF Drop, Exhausted, PollingThread, socketVars, queueVars, lifeVars, userVars
  <2>2. Onward
    BY <1>0, <2>1 DEF Onward
  <2>. QED
    BY <2>1, <2>2, QuietCore
<1>5. CASE OnMessage \/ WaitFor \/ StopNoWait \/ StopSignal \/ StopJoin \/ Unwind \/ Rejoin
  <2>1. UNCHANGED <<script, file, fed, got, handled, told, requestQueue, session, phase,
                    worker, socket, push, runs, req>>
    BY <1>5 DEF OnMessage, WaitFor, StopNoWait, StopSignal, StopJoin, Unwind, Rejoin,
       clientVars, socketVars, queueVars, lifeVars, userVars
  <2>2. /\ app' = app \/ (app.pc # "reap" /\ app'.pc # "reap")
        /\ app.pc \in {"cut", "reap"} => app'.pc \in {"cut", "reap"}
    BY <1>0, <1>5 DEF OnMessage, WaitFor, StopNoWait, StopSignal, StopJoin, Unwind, Rejoin,
       lifeVars, AppState
  <2>3. Onward
    BY <2>1 DEF Onward
  <2>. QED
    BY <2>1, <2>2, <2>3, QuietCore
<1>6. CASE Run \/ CloseWait \/ CloseNoWait \/ Destroy
  <2>1. /\ UNCHANGED <<script, file, fed, got, handled, told, requestQueue, session, phase,
                       worker, push, runs, req>>
        /\ \/ socket' = socket
           \/ socket = "running" /\ socket' = "stopping"
           \/ socket = "ready" /\ socket' = "running"
    BY <1>6 DEF Run, CloseWait, CloseNoWait, Destroy, CloseAndWait, Stopped, Polling,
       clientVars, queueVars, userVars
  <2>2. /\ app' = app \/ (app.pc # "reap" /\ app'.pc # "reap")
        /\ app.pc \in {"cut", "reap"} => app'.pc \in {"cut", "reap"}
    <3>1. CASE Run
      BY <3>1 DEF Run
    <3>2. CASE CloseWait
      BY <3>2 DEF CloseWait, CloseAndWait
    <3>3. CASE CloseNoWait
      BY <1>0, <3>3 DEF CloseNoWait, AppState
    <3>4. CASE Destroy
      <4>1. app.pc = "idle"
        BY <3>4 DEF Destroy
      <4>2. app'.pc \in {"cut", "unwind"}
        <5>1. [app EXCEPT !.pc = "unwind", !.dying = TRUE].pc = "unwind"
          BY <1>0 DEF AppState
        <5>2. CASE CloseAndWait(TRUE)
          BY <5>2 DEF CloseAndWait
        <5>3. CASE app' = [app EXCEPT !.pc = "unwind", !.dying = TRUE]
          BY <5>1, <5>3
        <5>. QED
          BY <3>4, <5>2, <5>3, Zenon DEF Destroy
      <4>. QED
        BY <4>1, <4>2
    <3>. QED
      BY <1>6, <3>1, <3>2, <3>3, <3>4
  <2>3. Onward
    BY <2>1 DEF Onward
  <2>. QED
    BY <2>1, <2>2, <2>3, QuietCore
<1>. QED
  BY <1>1, <1>2, <1>3, <1>4, <1>5, <1>6

\* The steps of the request thread outside the queue, and past an entry.
LEMMA QuietRequests ==
  ASSUME IInv, Core, ReqCheck \/ ReqLook \/ WaitForSignal \/ ServeEnd \/ Skip
  PROVE  Core'
<1>1. UNCHANGED <<script, file, fed, got, handled, told, requestQueue, session, phase, worker,
                  socket, app, push, runs>>
  BY DEF ReqCheck, ReqLook, WaitForSignal, ServeEnd, Skip, clientVars, socketVars,
     queueVars, lifeVars, userVars
<1>2. req.pc # "reply"
  BY DEF ReqCheck, ReqLook, WaitForSignal, ServeEnd, Skip
<1>3. req'.pc # "reply"
  <2>1. req \in ReqState
    BY Types DEF IInv, ReqTypes
  <2>2. CASE ReqCheck \/ ReqLook \/ WaitForSignal \/ ServeEnd
    BY <2>1, <2>2 DEF ReqCheck, ReqLook, WaitForSignal, ServeEnd, ReqState
  <2>3. CASE Skip
    <3>1. req' = [req EXCEPT !.pc = "serve", !.pos = @ + 1]
      BY <2>3 DEF Skip, NextEntry
    <3>2. req'.pc = "serve"
      BY <3>1, ReqMoves, Types, Zenon DEF IInv
    <3>. QED
      BY <3>2
  <2>. QED
    BY <2>2, <2>3
<1>4. Onward
  BY <1>1 DEF Onward
<1>. QED
  BY <1>1, <1>2, <1>3, <1>4, QuietCore

\* Cleanup frees a connection: a client that was not announced yet may be so
\* with the index -1 or never; no entry is touched.
LEMMA CutCore ==
  ASSUME IInv, Core, Cut
  PROVE  Core'
<1>0. /\ phase \in [Peers -> {"new", "open", "closed", "shut", "cut"}]
      /\ worker \in [Indices -> WorkerState]
      /\ session \in [Slots -> Peers \cup {Nobody}]
      /\ app \in AppState /\ SocketTypes
  BY Types DEF IInv, ClientTypes, SocketTypes, LifeTypes
<1>1. PICK i \in Slots : app.slot = i
  BY <1>0 DEF AppState
<1>2. /\ UNCHANGED <<script, file, fed, got, handled, told, requestQueue, session, socket,
                     push, runs, req>>
      /\ app.pc = "cut" /\ app'.pc = "reap" /\ app'.slot = i
      /\ LastTask(i)
  BY <1>0, <1>1 DEF Cut, queueVars, userVars, AppState
<1>3. Onward
  <2>1. phase' = [p \in Peers |-> IF p \in OnFile(Fd(app.slot)) THEN "cut" ELSE phase[p]]
    BY DEF Cut
  <2>. QED
    BY <2>1 DEF Onward, OnFile
<1>4. worker[Stray].pc = "idle"
  BY <1>2 DEF IInv, TableInv
<1>5. /\ \A j \in Slots : j # i => worker'[j] = worker[j]
      /\ worker'[i] = worker[i] \/ (worker[i].pc \in {"init", "idle"} /\ worker'[i].pc = "idle")
      /\ \/ worker'[Stray] = worker[Stray]
         \/ worker'[Stray].pc \in {"put", "bye"}
         \/ worker'[Stray].pc = "init" /\ worker[i].pc = "init" /\ worker'[i].pc = "idle"
  <2>1. CASE worker' = worker
    BY <2>1
  <2>2. CASE /\ worker[i].pc = "init"
             /\ worker' = [worker EXCEPT ![i] = [pc |-> "idle", chunk |-> << >>]]
    BY <1>0, <2>2, States
  <2>3. ASSUME NEW pc \in {"init", "put", "bye"}, NEW chunk,
               worker' = [worker EXCEPT ![i] = [pc |-> "idle", chunk |-> << >>],
                                        ![Stray] = [pc |-> pc, chunk |-> chunk]],
               pc = "init" => worker[i].pc = "init", pc # "init" => worker[i].pc = "idle"
        PROVE  /\ \A j \in Slots : j # i => worker'[j] = worker[j]
               /\ worker[i].pc \in {"init", "idle"} /\ worker'[i].pc = "idle"
               /\ \/ worker'[Stray].pc \in {"put", "bye"}
                  \/ worker'[Stray].pc = "init" /\ worker[i].pc = "init"
    BY <1>0, <2>3, States
  <2>4. \/ worker' = worker
        \/ /\ worker[i].pc = "init"
           /\ worker' = [worker EXCEPT ![i] = [pc |-> "idle", chunk |-> << >>]]
        \/ \E pc \in {"init", "put", "bye"} : \E chunk :
             /\ worker' = [worker EXCEPT ![i] = [pc |-> "idle", chunk |-> << >>],
                                         ![Stray] = [pc |-> pc, chunk |-> chunk]]
             /\ pc = "init" => worker[i].pc = "init"
             /\ pc # "init" => worker[i].pc = "idle"
    <3>1. \/ worker' = worker
          \/ /\ worker[i].pc = "init"
             /\ worker' = [worker EXCEPT ![i] = [pc |-> "idle", chunk |-> << >>]]
          \/ \E pc \in {"init", "put", "bye"} : \E chunk :
               /\ worker' = [worker EXCEPT ![i] = [pc |-> "idle", chunk |-> << >>],
                                           ![Stray] = [pc |-> pc, chunk |-> chunk]]
               /\ \/ pc = "init" /\ worker[i].pc = "init" /\ chunk = << >>
                  \/ /\ pc = "put" /\ worker[i].pc = "idle" /\ session[i] \in Peers
                     /\ \E n \in fed[session[i]] + 1 .. Len(Stream(session[i])) :
                          chunk = SubSeq(Stream(session[i]), fed[session[i]] + 1, n)
                  \/ /\ pc = "bye" /\ worker[i].pc = "idle" /\ session[i] \in Peers
                     /\ phase[session[i]] = "shut" /\ chunk = << >>
      BY <1>0, <1>2, LastTaskFacts
    <3>2. ASSUME NEW pc \in {"init", "put", "bye"}, NEW chunk,
                 worker' = [worker EXCEPT ![i] = [pc |-> "idle", chunk |-> << >>],
                                          ![Stray] = [pc |-> pc, chunk |-> chunk]],
                 \/ pc = "init" /\ worker[i].pc = "init"
                 \/ pc \in {"put", "bye"} /\ worker[i].pc = "idle"
          PROVE  /\ pc = "init" => worker[i].pc = "init"
                 /\ pc # "init" => worker[i].pc = "idle"
      BY <3>2
    <3>. QED
      BY Zenon, <3>1, <3>2
  <2>. QED
    BY <2>1, <2>2, <2>3, <2>4
<1>6. \A p \in Peers : Untold(p) => Untold(p)'
  <2>1. \A p : Own(p)' = Own(p)
    BY <1>2, OwnSame
  <2>. QED
    BY <1>2, <2>1 DEF Untold
<1>7. NewInv'
  <2>1. \A p \in Peers : phase'[p] = "new" => Untold(p)'
    BY <1>3, <1>6 DEF Core, NewInv, Onward
  <2>2. ASSUME NEW c \in Indices, worker'[c].pc = "init"
        PROVE  Untold(Client(c))'
    <3>1. PICK j \in Slots : worker[j].pc = "init" /\ Client(c)' = session[j]
      <4>1. CASE c = Stray
        BY <1>1, <1>2, <1>4, <1>5, <2>2, <4>1 DEF Client
      <4>2. CASE c # Stray
        BY <1>2, <1>5, <2>2, <4>2, States DEF Client
      <4>. QED
        BY <4>1, <4>2
    <3>2. PICK p \in Peers : p = session[j] /\ Untold(p)
      BY <3>1, NoEntry, States
    <3>3. Untold(p)' /\ Client(c)' = p
      BY <1>6, <3>1, <3>2
    <3>. QED
      BY <3>3 DEF Untold
  <2>. QED
    BY <2>1, <2>2 DEF NewInv
<1>8. Apart' /\ Owned'
  BY <1>2 DEF Core, Apart, Owned
<1>9. Listed'
  <2>1. ASSUME NEW j \in Slots, session'[j] # Nobody, worker'[j].pc # "init",
               ~ (Freed(j)' /\ worker'[j].pc = "idle")
        PROVE  \E k \in 1 .. Len(requestQueue') : requestQueue'[k].connID = j
    <3>1. worker'[j] = worker[j]
      <4>1. CASE j = i
        BY <1>2, <1>5, <2>1, <4>1 DEF Freed
      <4>. QED
        BY <1>5, <4>1
    <3>2. ~ Freed(j)
      BY <1>2 DEF Freed
    <3>. QED
      BY <1>2, <2>1, <3>1, <3>2 DEF Core, Listed
  <2>. QED
    BY <2>1 DEF Listed
<1>10. Fresh' /\ Started'
  BY <1>2 DEF Core, Fresh, Started, Serving
<1>11. TellInv'
  <2>1. ASSUME NEW k \in 1 .. Len(requestQueue)
        PROVE  LET e == requestQueue[k]
                   pc == worker[e.connID].pc
                   qc == worker'[e.connID].pc
               IN (qc = "remove" <=> pc = "remove") /\ (pc = "greet" => qc = "greet")
    <3>1. PICK c \in Indices : c = requestQueue[k].connID
      BY Types, QueueFacts DEF IInv
    <3>2. CASE c = Stray
      BY <1>4, <1>5, <3>1, <3>2
    <3>3. CASE c # Stray /\ c # i
      BY <1>5, <3>1, <3>3, States
    <3>4. CASE c = i
      BY <1>5, <3>1, <3>4
    <3>. QED
      BY <3>2, <3>3, <3>4
  <2>. QED
    BY <1>2, <2>1 DEF Core, TellInv
<1>12. ChunkInv' /\ DataInv'
  <2>1. \A k : Replying(k)' = Replying(k)
    BY <1>2 DEF Replying
  <2>2. \A j \in Slots :
           \/ worker'[j] = worker[j] /\ (worker[j].pc = "put" => session'[j] = session[j])
           \/ worker[j].pc # "put" /\ worker'[j].pc # "put"
    BY <1>2, <1>5
  <2>. QED
    BY <1>2, <1>3, <2>1, <2>2, DataKept DEF Onward
<1>13. FileInv' /\ PushInv' /\ AnswersInOrder'
  BY <1>2, <1>3, AnswersKept
<1>. QED
  BY <1>7, <1>8, <1>9, <1>10, <1>11, <1>12, <1>13 DEF Core

\* The user is told about the client of an entry.
LEMMA TellCore ==
  ASSUME IInv, Core, NEW c \in Indices, ConnectCallback(c) \/ DisconnectCallback(c)
  PROVE  Core'
<1>0. /\ told \in [Peers -> {"nothing", "connected", "disconnected"}]
      /\ worker \in [Indices -> WorkerState]
      /\ Len(requestQueue) \in Nat
  BY Types, QueueFacts DEF IInv, SocketTypes, UserTypes
<1>1. /\ UNCHANGED <<script, file, fed, got, handled, requestQueue, session, phase, socket,
                     app, push, runs, req>>
      /\ worker[c].pc \in {"greet", "bye"}
  BY DEF ConnectCallback, DisconnectCallback, clientVars, queueVars, lifeVars
<1>2. PICK what \in {"connected", "disconnected"} :
        /\ Tell(c, what)
        /\ worker[c].pc = IF what = "connected" THEN "greet" ELSE "bye"
        /\ Begin(c, IF what = "connected" THEN "idle" ELSE "remove", << >>)
  BY DEF ConnectCallback, DisconnectCallback
<1>3. /\ worker'[c].pc = IF what = "connected" THEN "idle" ELSE "remove"
      /\ \A d \in Indices : d # c => worker'[d] = worker[d]
  BY <1>0, <1>2 DEF Begin
<1>4. ASSUME NEW k \in 1 .. Len(requestQueue), requestQueue[k].connID = c
      PROVE  \A p \in Peers :
               told'[p] = IF p = requestQueue[k].remote THEN what ELSE told[p]
  <2>1. \A l \in 1 .. Len(requestQueue) : requestQueue[l].connID = c => l = k
    BY <1>4 DEF Core, Apart
  <2>2. Entries(c) = {k}
    BY <1>4, <2>1 DEF Entries
  <2>. QED
    BY <1>0, <1>2, <2>2 DEF Tell
<1>5. \A p \in Peers : \/ told'[p] = told[p]
                       \/ /\ told'[p] = what
                          /\ \E k \in 1 .. Len(requestQueue) : requestQueue[k].remote = p
  BY <1>2 DEF Tell, Entries
<1>6. Onward
  BY <1>1 DEF Onward
<1>7. NewInv'
  <2>1. ASSUME NEW p \in Peers, Untold(p)
        PROVE  Untold(p)'
    <3>1. told'[p] = told[p]
      BY <1>5, <2>1 DEF Untold
    <3>2. Own(p)' = Own(p)
      BY <1>1, OwnSame
    <3>. QED
      BY <1>1, <2>1, <3>1, <3>2 DEF Untold
  <2>2. \A d \in Indices : worker'[d].pc = "init" =>
           worker[d].pc = "init" /\ Client(d)' = Client(d)
    BY <1>1, <1>3 DEF Client
  <2>. QED
    BY <1>6, <2>1, <2>2, NewKept
<1>8. Apart' /\ Owned' /\ Fresh' /\ Started'
  BY <1>1 DEF Core, Apart, Owned, Fresh, Started, Serving
<1>9. Listed'
  <2>1. ASSUME NEW i \in Slots, session'[i] # Nobody, worker'[i].pc # "init",
               ~ (Freed(i)' /\ worker'[i].pc = "idle")
        PROVE  \E k \in 1 .. Len(requestQueue') : requestQueue'[k].connID = i
    <3>1. Freed(i)' <=> Freed(i)
      BY <1>1 DEF Freed
    <3>2. worker[i].pc # "init" /\ ~ (Freed(i) /\ worker[i].pc = "idle")
      BY <1>1, <1>3, <2>1, <3>1, States
    <3>. QED
      BY <1>1, <2>1, <3>2 DEF Core, Listed
  <2>. QED
    BY <2>1 DEF Listed
<1>10. TellInv'
  <2>1. ASSUME NEW k \in 1 .. Len(requestQueue)
        PROVE  LET e == requestQueue[k]
                   pc == worker'[e.connID].pc
               IN /\ told'[e.remote] = "disconnected" <=> pc = "remove"
                  /\ told'[e.remote] = "nothing" =>
                       pc = "greet" /\ e.data = << >> /\ ~ e.handshake /\ ~ e.ready
    <3>1. PICK d \in Indices, p \in Peers :
            d = requestQueue[k].connID /\ p = requestQueue[k].remote
      BY Types, QueueFacts DEF IInv
    <3>2. CASE d = c
      <4>1. told'[p] = what
        BY <1>4, <3>1, <3>2
      <4>. QED
        BY <1>3, <3>1, <3>2, <4>1
    <3>3. CASE d # c
      <4>1. told'[p] = told[p]
        <5>1. \A l \in 1 .. Len(requestQueue) :
                requestQueue[l].connID = c => requestQueue[l].remote # p
          BY <3>1, <3>3 DEF Core, Apart
        <5>. QED
          BY <1>2, <5>1 DEF Tell, Entries
      <4>2. worker'[d] = worker[d]
        BY <1>3, <3>3
      <4>. QED
        BY <3>1, <4>1, <4>2 DEF Core, TellInv
    <3>. QED
      BY <3>2, <3>3
  <2>. QED
    BY <1>1, <2>1 DEF TellInv
<1>11. ChunkInv' /\ DataInv'
  <2>1. \A k : Replying(k)' = Replying(k)
    BY <1>1 DEF Replying
  <2>2. \A i \in Slots :
           \/ worker'[i] = worker[i] /\ (worker[i].pc = "put" => session'[i] = session[i])
           \/ worker[i].pc # "put" /\ worker'[i].pc # "put"
    BY <1>1, <1>3, States
  <2>. QED
    BY <1>1, <2>1, <2>2, DataKept
<1>12. FileInv' /\ PushInv' /\ AnswersInOrder'
  BY <1>1, <1>6, AnswersKept
<1>. QED
  BY <1>7, <1>8, <1>9, <1>10, <1>11, <1>12 DEF Core

-----------------------------------------------------------------------------
(* The steps that change the table of connections.                         *)

\* A client arrives on a connection that has no entry and on a descriptor
\* that nobody has.
LEMMA ArriveCore ==
  ASSUME IInv, Core, NEW p \in Peers, Arrive(p)
  PROVE  Core'
<1>0. /\ phase \in [Peers -> {"new", "open", "closed", "shut", "cut"}]
      /\ file \in [Peers -> Slots \cup {None}]
      /\ worker \in [Indices -> WorkerState]
      /\ session \in [Slots -> Peers \cup {Nobody}]
      /\ got \in [Peers -> Seq(Answer)] /\ push.peer \in Peers \cup {Nobody}
  BY Types DEF IInv, ClientTypes, SocketTypes, LifeTypes
<1>1. PICK i \in Slots :
        /\ session[i] = Nobody /\ worker[i].pc = "idle"
        /\ session' = [session EXCEPT ![i] = p]
        /\ Begin(i, "init", << >>)
  BY DEF Arrive
<1>2. PICK f \in Slots : OnFile(f) = {} /\ file' = [file EXCEPT ![p] = f]
  BY DEF Arrive
<1>3. /\ UNCHANGED <<script, fed, got, handled, told, requestQueue, socket, app, push, runs, req>>
      /\ phase[p] = "new" /\ PollingThread
      /\ phase' = [phase EXCEPT ![p] = "open"]
  BY DEF Arrive, queueVars, lifeVars, userVars
<1>4. /\ session'[i] = p /\ worker'[i].pc = "init" /\ phase'[p] = "open" /\ file'[p] = f
      /\ \A j \in Slots : j # i => session'[j] = session[j]
      /\ \A c \in Indices : c # i => worker'[c] = worker[c]
      /\ \A q \in Peers : q # p => phase'[q] = phase[q] /\ file'[q] = file[q]
  BY <1>0, <1>1, <1>2, <1>3, States DEF Begin
<1>5. Untold(p)
  BY <1>3 DEF Core, NewInv
<1>6. Serving
  BY <1>3 DEF PollingThread, Serving
<1>7. \A k \in 1 .. Len(requestQueue) :
        /\ requestQueue[k].connID # i /\ requestQueue[k].connID # Stray
        /\ requestQueue[k].remote # p /\ requestQueue[k].connID \in Slots
  <2>1. \A k \in 1 .. Len(requestQueue) : requestQueue[k].connID \in Indices
    BY Types, QueueFacts DEF IInv
  <2>. QED
    BY <1>1, <1>5, <1>6, <2>1, States DEF Core, Fresh, Untold
<1>8. \A q \in Peers : Untold(q) => Untold(q)'
  <2>1. \A q : Own(q)' = Own(q)
    BY <1>3, OwnSame
  <2>. QED
    BY <1>3, <2>1 DEF Untold
<1>9. NewInv'
  <2>1. \A q \in Peers : phase'[q] = "new" => Untold(q)'
    BY <1>4, <1>8 DEF Core, NewInv
  <2>2. ASSUME NEW c \in Indices, worker'[c].pc = "init"
        PROVE  Untold(Client(c))'
    <3>1. PICK q \in Peers : Client(c)' = q /\ Untold(q)
      <4>1. CASE c = i
        BY <1>4, <1>5, <4>1, States DEF Client
      <4>2. CASE c # i
        <5>1. worker[c].pc = "init"
          BY <1>4, <2>2, <4>2
        <5>2. c # Stray
          BY <1>3, <5>1 DEF PollingThread, IInv, TableInv
        <5>3. Client(c)' = Client(c)
          BY <1>4, <4>2, <5>2, States DEF Client
        <5>. QED
          BY <5>1, <5>3, NoEntry
      <4>. QED
        BY <4>1, <4>2
    <3>2. Untold(q)'
      BY <1>8, <3>1
    <3>. QED
      BY <3>1, <3>2 DEF Untold
  <2>. QED
    BY <2>1, <2>2 DEF NewInv
<1>10. Apart' /\ Owned' /\ Fresh' /\ Started'
  <2>1. \A k \in 1 .. Len(requestQueue) :
          session'[requestQueue[k].connID] = session[requestQueue[k].connID]
    BY <1>4, <1>7
  <2>. QED
    BY <1>3, <1>6, <1>7, <2>1 DEF Core, Apart, Owned, Fresh, Started
<1>11. Listed'
  <2>1. \A j \in Slots : Freed(j)' <=> Freed(j)
    BY <1>3 DEF Freed
  <2>. QED
    BY <1>3, <1>4, <2>1, States DEF Core, Listed
<1>12. TellInv'
  <2>1. \A k \in 1 .. Len(requestQueue) :
          worker'[requestQueue[k].connID] = worker[requestQueue[k].connID]
    BY <1>4, <1>7, States
  <2>. QED
    BY <1>3, <2>1 DEF Core, TellInv
<1>13. ChunkInv' /\ DataInv'
  <2>1. \A k : Replying(k)' = Replying(k)
    BY <1>3 DEF Replying
  <2>2. \A j \in Slots :
           \/ worker'[j] = worker[j] /\ (worker[j].pc = "put" => session'[j] = session[j])
           \/ worker[j].pc # "put" /\ worker'[j].pc # "put"
    BY <1>1, <1>4, States
  <2>3. \A q \in Peers : phase'[q] = "open" => phase[q] \in {"open", "new"}
    BY <1>3, <1>4
  <2>. QED
    BY <1>3, <2>1, <2>2, <2>3, DataKept
<1>14. FileInv'
  <2>1. f # None
    BY ServerAssumption DEF Slots, None
  <2>2. \A q \in Peers : q # p /\ phase[q] \in {"open", "closed"} => file[q] # f
    BY <1>2 DEF OnFile
  <2>. QED
    BY <1>3, <1>4, <2>1, <2>2 DEF Core, FileInv, OnFile
<1>15. PushInv'
  <2>1. ASSUME push.peer # Nobody
        PROVE  PushInv'
    <3>1. PICK q \in Peers : push.peer = q
      BY <1>0, <2>1
    <3>2. /\ phase[q] # "new" /\ push.file \in {None, file[q]}
          /\ phase[q] = "open" => 1 \in Own(q)
      BY <2>1, <3>1 DEF Core, PushInv
    <3>3. q # p /\ Own(q)' = Own(q)
      BY <1>3, <3>2, OwnSame
    <3>4. push'.peer = q /\ phase'[q] = phase[q] /\ push'.file \in {None, file'[q]}
      BY <1>3, <1>4, <3>1, <3>2, <3>3
    <3>. QED
      BY <3>2, <3>3, <3>4 DEF PushInv
  <2>. QED
    BY <1>3, <2>1 DEF PushInv
<1>16. AnswersInOrder'
  <2>1. ASSUME NEW q \in Peers, NEW j \in 1 .. Len(got[q]), got[q][j].peer # q
        PROVE  phase'[got[q][j].peer] \in {"shut", "cut"}
    <3>1. phase[got[q][j].peer] \in {"shut", "cut"}
      BY <2>1 DEF Core, AnswersInOrder
    <3>2. got[q] \in Seq(Answer)
      BY <1>0
    <3>3. got[q][j] \in Answer
      BY <3>2, ElementOfSeq
    <3>4. got[q][j].peer \in Peers
      BY <3>3 DEF Answer
    <3>. QED
      BY <1>3, <1>4, <3>1, <3>4
  <2>. QED
    BY <1>3, <2>1 DEF Core, AnswersInOrder
<1>. QED
  BY <1>9, <1>10, <1>11, <1>12, <1>13, <1>14, <1>15, <1>16 DEF Core

\* What is read is the next part of the client's data.
LEMMA ReadCore ==
  ASSUME IInv, Core, NEW i \in Slots, Read(i)
  PROVE  Core'
<1>0. /\ fed \in [Peers -> Nat] /\ worker \in [Indices -> WorkerState] /\ ClientTypes
      /\ session \in [Slots -> Peers \cup {Nobody}]
  BY Types DEF IInv, ClientTypes, SocketTypes
<1>1. PICK p \in Peers : p = session[i] /\ p # Nobody
  BY <1>0 DEF Read
<1>2. PICK n \in fed[p] + 1 .. Len(Stream(p)) :
        /\ fed' = [fed EXCEPT ![p] = n]
        /\ Begin(i, "put", SubSeq(Stream(p), fed[p] + 1, n))
  BY <1>1 DEF Read
<1>. DEFINE chunk == SubSeq(Stream(p), fed[p] + 1, n)
<1>3. /\ UNCHANGED <<script, phase, file, got, handled, told, requestQueue, session, socket,
                     app, push, runs, req>>
      /\ worker[i].pc = "idle" /\ ~ Freed(i)
  BY <1>1 DEF Read, queueVars, lifeVars, userVars
<1>4. Len(chunk) = n - fed[p]
  BY <1>0, ChunkTyped
<1>5. fed[p] \in Nat /\ n \in Nat /\ n >= fed[p] + 1
  BY <1>0
<1>6. /\ worker'[i] = [pc |-> "put", chunk |-> chunk] /\ fed'[p] = n
      /\ \A c \in Indices : c # i => worker'[c] = worker[c]
      /\ \A q \in Peers : q # p => fed'[q] = fed[q]
  BY <1>0, <1>2, States DEF Begin
<1>7. \A j \in Slots : j # i => session[j] # p
  BY <1>1 DEF IInv, TableInv
<1>8. phase[p] # "new"
  BY <1>1 DEF IInv, TableInv
<1>9. PICK k0 \in 1 .. Len(requestQueue) :
        /\ requestQueue[k0].connID = i /\ requestQueue[k0].remote = p
        /\ \A l \in 1 .. Len(requestQueue) :
             requestQueue[l].remote = p \/ requestQueue[l].connID = i => l = k0
  BY <1>1, <1>3, OwnEntry
<1>. HIDE DEF chunk
<1>10. Onward /\ \A q : Own(q)' = Own(q)
  BY <1>3, OwnSame DEF Onward
<1>11. NewInv'
  <2>1. ASSUME NEW c \in Indices, worker'[c].pc = "init"
        PROVE  worker[c].pc = "init" /\ Client(c)' = Client(c)
    BY <1>3, <1>6, <2>1 DEF Client
  <2>2. ASSUME NEW q \in Peers, Untold(q),
               \/ phase[q] = "new"
               \/ \E c \in Indices : /\ worker[c].pc = "init" /\ worker'[c].pc = "init"
                                     /\ Client(c) = q
        PROVE  Untold(q)'
    <3>1. q # p
      BY <1>9, <2>2 DEF Untold
    <3>. QED
      BY <1>3, <1>6, <1>10, <2>2, <3>1 DEF Untold
  <2>. QED
    BY <1>10, <2>1, <2>2, NewKept
<1>12. Apart' /\ Owned' /\ Fresh' /\ Started'
  BY <1>3 DEF Core, Apart, Owned, Fresh, Started, Serving
<1>13. Listed'
  <2>1. ASSUME NEW j \in Slots, session'[j] # Nobody, worker'[j].pc # "init",
               ~ (Freed(j)' /\ worker'[j].pc = "idle")
        PROVE  \E k \in 1 .. Len(requestQueue') : requestQueue'[k].connID = j
    <3>1. Freed(j)' <=> Freed(j)
      BY <1>3 DEF Freed
    <3>2. CASE j = i
      BY <1>3, <1>9, <3>2
    <3>3. CASE j # i
      BY <1>3, <1>6, <2>1, <3>1, <3>3, States DEF Core, Listed
    <3>. QED
      BY <3>2, <3>3
  <2>. QED
    BY <2>1 DEF Listed
<1>14. TellInv'
  <2>1. ASSUME NEW k \in 1 .. Len(requestQueue)
        PROVE  LET e == requestQueue[k]
                   pc == worker'[e.connID].pc
               IN /\ told'[e.remote] = "disconnected" <=> pc = "remove"
                  /\ told'[e.remote] = "nothing" =>
                       pc = "greet" /\ e.data = << >> /\ ~ e.handshake /\ ~ e.ready
    <3>1. PICK c \in Indices : c = requestQueue[k].connID
      BY Types, QueueFacts DEF IInv
    <3>2. PICK e : e = requestQueue[k]
      OBVIOUS
    <3>3. /\ told[e.remote] = "disconnected" <=> worker[c].pc = "remove"
          /\ told[e.remote] = "nothing" =>
               worker[c].pc = "greet" /\ e.data = << >> /\ ~ e.handshake /\ ~ e.ready
      BY <3>1, <3>2 DEF Core, TellInv
    <3>4. worker'[c].pc = worker[c].pc \/ (worker[c].pc = "idle" /\ worker'[c].pc = "put")
      BY <1>3, <1>6, <3>1
    <3>. QED
      BY <1>3, <3>1, <3>2, <3>3, <3>4
  <2>. QED
    BY <1>3, <2>1 DEF TellInv
<1>15. ChunkInv'
  <2>1. ASSUME NEW j \in Slots, worker'[j].pc = "put"
        PROVE  LET q == session'[j]
                   m == Len(worker'[j].chunk)
               IN /\ m <= fed'[q]
                  /\ worker'[j].chunk = SubSeq(Stream(q), fed'[q] - m + 1, fed'[q])
    <3>1. CASE j = i
      <4>1. session'[j] = p /\ worker'[j].chunk = chunk /\ fed'[p] = n
        BY <1>1, <1>3, <1>6, <3>1
      <4>2. n - (n - fed[p]) + 1 = fed[p] + 1 /\ n - fed[p] <= n
        BY <1>5
      <4>. QED
        BY <1>4, <4>1, <4>2 DEF chunk
    <3>2. CASE j # i
      <4>1. worker'[j] = worker[j] /\ session'[j] = session[j]
        BY <1>3, <1>6, <3>2, States
      <4>2. session[j] \in Peers /\ session[j] # p
        BY <1>7, <2>1, <3>2, <4>1, Busy, States
      <4>3. fed'[session[j]] = fed[session[j]]
        BY <1>6, <4>2
      <4>. QED
        BY <2>1, <4>1, <4>3 DEF Core, ChunkInv
    <3>. QED
      BY <3>1, <3>2
  <2>2. ASSUME NEW j \in Slots, worker'[j].pc = "put"
        PROVE  Stream(session[j])' = Stream(session'[j])
    BY <1>3 DEF Stream
  <2>. QED
    BY <2>1, <2>2 DEF ChunkInv
<1>16. Put(i) = 0 /\ Put(i)' = n - fed[p]
       /\ \A c \in Indices : c # i => Put(c)' = Put(c)
  BY <1>3, <1>4, <1>6 DEF Put
<1>17. DataInv'
  <2>1. ASSUME NEW k \in 1 .. Len(requestQueue)
        PROVE  Entered(k)'
    <3>1. Entered(k)
      BY DEF Core, DataInv
    <3>2. PICK c \in Indices, q \in Peers :
            requestQueue[k].connID = c /\ requestQueue[k].remote = q
      BY Types, QueueFacts DEF IInv
    <3>3. Replying(k)' = Replying(k)
      BY <1>3 DEF Replying
    <3>4. fed'[q] - Put(c)' = fed[q] - Put(c)
      <4>1. CASE k = k0
        <5>1. c = i /\ q = p
          BY <1>9, <3>2, <4>1
        <5>. QED
          BY <1>5, <1>6, <1>16, <5>1
      <4>2. CASE k # k0
        <5>1. c # i /\ q # p
          BY <1>9, <3>2, <4>2
        <5>. QED
          BY <1>6, <1>16, <5>1
      <4>. QED
        BY <4>1, <4>2
    <3>. QED
      BY <1>3, <1>10, <3>1, <3>2, <3>3, <3>4, EntryKept
  <2>. QED
    BY <1>3, <2>1 DEF DataInv
<1>18. FileInv' /\ PushInv' /\ AnswersInOrder'
  BY <1>3, <1>10, AnswersKept
<1>. QED
  BY <1>11, <1>12, <1>13, <1>14, <1>15, <1>17, <1>18 DEF Core

\* A reaped connection loses its client and keeps its entry.
LEMMA ReapCore ==
  ASSUME IInv, Core, Reap
  PROVE  Core'
<1>0. /\ session \in [Slots -> Peers \cup {Nobody}]
      /\ app \in AppState
  BY Types DEF IInv, SocketTypes, LifeTypes
<1>1. PICK i \in Slots : app.slot = i
  BY <1>0 DEF AppState
<1>2. /\ UNCHANGED <<script, phase, file, fed, got, handled, told, requestQueue, worker, push,
                     runs, req>>
      /\ app.pc = "reap" /\ worker[i].pc = "idle" /\ worker[Stray].pc = "idle"
      /\ session' = [session EXCEPT ![i] = Nobody]
  BY <1>1 DEF Reap, clientVars, queueVars, userVars
<1>3. /\ session'[i] = Nobody
      /\ \A j \in Slots : j # i => session'[j] = session[j]
  BY <1>0, <1>2
<1>4. socket \in {"stopping", "closed"} /\ ~ Serving'
  <2>1. socket \in {"stopping", "closed"}
    BY DEF Reap, IInv, LifeInv
  <2>2. app'.pc = "cut" \/ socket' = "closed"
    BY <1>0 DEF Reap, AppState
  <2>. QED
    BY <2>1, <2>2 DEF Serving
<1>5. Onward /\ \A q : Own(q)' = Own(q)
  BY <1>2, OwnSame DEF Onward
<1>6. NewInv'
  <2>1. ASSUME NEW c \in Indices, worker'[c].pc = "init"
        PROVE  worker[c].pc = "init" /\ Client(c)' = Client(c)
    BY <1>2, <1>3, <2>1, States DEF Client
  <2>2. \A q \in Peers : Untold(q) => Untold(q)'
    BY <1>2, <1>5 DEF Untold
  <2>. QED
    BY <1>5, <2>1, <2>2, NewKept
<1>7. Apart' /\ Started' /\ Fresh'
  BY <1>2, <1>4 DEF Core, Apart, Started, Fresh, Reap
<1>8. Owned'
  <2>1. ASSUME NEW k \in 1 .. Len(requestQueue), requestQueue[k].connID # Stray
        PROVE  session'[requestQueue[k].connID] \in {requestQueue[k].remote, Nobody}
    <3>1. PICK c \in Slots : c = requestQueue[k].connID
      BY <2>1, Types, QueueFacts, States DEF IInv
    <3>2. session[c] \in {requestQueue[k].remote, Nobody}
      BY <2>1, <3>1 DEF Core, Owned
    <3>. QED
      BY <1>3, <3>1, <3>2
  <2>. QED
    BY <1>2, <2>1 DEF Owned
<1>9. Listed'
  <2>1. ASSUME NEW j \in Slots, session'[j] # Nobody, worker'[j].pc # "init"
        PROVE  \E k \in 1 .. Len(requestQueue') : requestQueue'[k].connID = j
    <3>1. j # i /\ ~ Freed(j)
      BY <1>1, <1>3, <2>1 DEF Freed
    <3>. QED
      BY <1>2, <1>3, <2>1, <3>1 DEF Core, Listed
  <2>. QED
    BY <2>1 DEF Listed
<1>10. TellInv'
  BY <1>2 DEF Core, TellInv
<1>11. ChunkInv' /\ DataInv'
  <2>1. \A k : Replying(k)' = Replying(k)
    BY <1>2 DEF Replying
  <2>2. \A j \in Slots :
           \/ worker'[j] = worker[j] /\ (worker[j].pc = "put" => session'[j] = session[j])
           \/ worker[j].pc # "put" /\ worker'[j].pc # "put"
    BY <1>2, <1>3
  <2>. QED
    BY <1>2, <2>1, <2>2, DataKept
<1>12. FileInv' /\ PushInv' /\ AnswersInOrder'
  BY <1>2, <1>5, AnswersKept
<1>. QED
  BY <1>6, <1>7, <1>8, <1>9, <1>10, <1>11, <1>12 DEF Core

\* The first Init finds the queue empty.
LEMMA InitServerCore ==
  ASSUME IInv, Core, InitServer, runs' <= 1
  PROVE  Core'
<1>1. /\ UNCHANGED <<script, phase, file, fed, got, handled, told, requestQueue, session,
                     worker, app, push>>
      /\ app.pc = "idle"
      /\ socket \in {"none", "closed"} /\ socket' = "ready" /\ runs' = runs + 1
  BY DEF InitServer, clientVars, queueVars, userVars
<1>2. socket = "none" /\ runs' = 1
  BY <1>1, Types DEF IInv, LifeTypes, Core, Started
<1>3. \A i \in Slots : session[i] = Nobody
  BY <1>2 DEF IInv, TableInv
<1>4. \A k \in 1 .. Len(requestQueue) : FALSE
  <2>1. \A k \in 1 .. Len(requestQueue) : requestQueue[k].connID \in Indices
    BY Types, QueueFacts DEF IInv
  <2>2. Serving
    BY <1>1, <1>2 DEF Serving
  <2>. QED
    BY <1>3, <2>1, <2>2, States DEF Core, Fresh
<1>5. \A i \in Slots : worker[i].pc = "idle"
  BY <1>3 DEF IInv, TableInv
<1>6. Onward /\ \A q : Own(q)' = Own(q)
  BY <1>1, OwnSame DEF Onward
<1>7. NewInv'
  <2>1. ASSUME NEW c \in Indices, worker'[c].pc = "init"
        PROVE  worker[c].pc = "init" /\ Client(c)' = Client(c)
    BY <1>1, <2>1 DEF Client
  <2>2. \A q \in Peers : Untold(q) => Untold(q)'
    BY <1>1, <1>6 DEF Untold
  <2>. QED
    BY <1>6, <2>1, <2>2, NewKept
<1>8. Apart' /\ Owned' /\ Fresh' /\ TellInv' /\ DataInv'
  BY <1>1, <1>4 DEF Apart, Owned, Fresh, TellInv, DataInv
<1>9. Listed' /\ ChunkInv' /\ Started'
  BY <1>1, <1>2, <1>3, <1>5 DEF Listed, ChunkInv, Started
<1>10. FileInv' /\ PushInv' /\ AnswersInOrder'
  BY <1>1, <1>6, AnswersKept
<1>. QED
  BY <1>7, <1>8, <1>9, <1>10 DEF Core

-----------------------------------------------------------------------------
(* The steps that change the queue: the callbacks.                         *)

\* An entry's account when the entry is given by its parts.
LEMMA EntryBuilt ==
  ASSUME NEW l, NEW m \in Nat, NEW c, NEW p, NEW e, NEW put, NEW x,
         requestQueue'[l] = e, e.connID = c, e.remote = p, c # Stray,
         script' = script, fed'[p] - Put(c)' = put, Replying(l)' = x,
         Carried(e, put, m), Accounted(e, m, x)'
  PROVE  Entered(l)'
<1>. DEFINE f == Stream(p)
<1>1. Stream(p)' = f
  BY DEF Stream
<1>2. Carried(e, put, m)'
  BY <1>1 DEF Carried
<1>3. EntryInv(l, m)'
  BY <1>2 DEF EntryInv
<1>. QED
  BY <1>3 DEF Entered

\* Of a client that has sent nothing nothing is carried.
LEMMA EmptyEntry ==
  ASSUME IInv, NEW p \in Peers, NEW e \in EntryType, e.remote = p,
         e.data = << >>, e.list = << >>, ~ e.handshake, ~ e.ready
  PROVE  Carried(e, 0, 0)
<1>1. Stream(p) \in Seq(Unit) /\ Parts \in Nat
  BY StreamFacts, Types, ServerAssumption DEF IInv
<1>2. 0 * Parts = 0 /\ Len(e.data) = 0 /\ Len(e.list) = 0
  BY <1>1
<1>. DEFINE s == Stream(p)
            r == SubSeq(s, 1, 0)
<1>3. r = << >>
  <2>. HIDE DEF s
  <2>1. \A k \in 1 .. 0 : s[k] \in Unit
    OBVIOUS
  <2>2. r \in Seq(Unit) /\ Len(r) = 0
    BY <2>1, SubSeqProperties
  <2>. HIDE DEF r
  <2>. QED
    BY <2>2, EmptySeq
<1>. QED
  BY <1>2, <1>3 DEF Carried

\* Two adjacent parts of a stream make one.
LEMMA Adjacent ==
  ASSUME NEW s \in Seq(Unit), NEW a \in Nat, NEW b \in Nat, NEW c \in Nat,
         a <= b, b <= c, c <= Len(s)
  PROVE  SubSeq(s, a + 1, b) \o SubSeq(s, b + 1, c) = SubSeq(s, a + 1, c)
<1>1. a + 1 \in 1 .. Len(s) + 1 /\ b \in a + 1 - 1 .. Len(s) /\ c \in b .. Len(s)
  BY LenProperties
<1>. QED
  BY <1>1, ConcatAdjacentSubSeq

\* A chunk put behind the data of its client's entry continues it.
LEMMA Continued ==
  ASSUME IInv, NEW p \in Peers, NEW e \in EntryType, e.remote = p,
         NEW chunk \in Seq(Unit), NEW m \in Nat,
         Len(chunk) <= fed[p], chunk = SubSeq(Stream(p), fed[p] - Len(chunk) + 1, fed[p]),
         Carried(e, fed[p] - Len(chunk), m),
         NEW f, f.remote = p, f.data = e.data \o chunk, f.list = e.list,
         f.handshake = e.handshake, f.ready = e.ready
  PROVE  Carried(f, fed[p], m)
<1>0. ClientTypes
  BY Types DEF IInv
<1>1. PICK a \in Nat, b \in Nat, c \in Nat :
        a = m * Parts /\ b = fed[p] - Len(chunk) /\ c = fed[p]
  <2>1. m * Parts \in Nat /\ fed[p] \in Nat /\ Len(chunk) \in Nat
    BY <1>0, ServerAssumption, LenProperties DEF ClientTypes
  <2>2. fed[p] - Len(chunk) \in Nat
    BY <2>1
  <2>. QED
    BY Zenon, <2>1, <2>2
<1>2. Len(e.data) \in Nat /\ e.data \in Seq(Unit) /\ Len(chunk) \in Nat
  BY LenProperties DEF EntryType
<1>3. /\ b = a + Len(e.data) /\ e.data = SubSeq(Stream(p), a + 1, b)
  BY <1>1 DEF Carried
<1>4. chunk = SubSeq(Stream(p), b + 1, c) /\ a <= b /\ b <= c /\ c = b + Len(chunk)
  <2>. DEFINE x == Len(e.data)
              y == Len(chunk)
  <2>0. x \in Nat /\ y \in Nat /\ b = a + x /\ b = c - y
    BY <1>1, <1>2, <1>3
  <2>. HIDE DEF x, y
  <2>1. a <= b /\ b <= c /\ c = b + y
    BY <2>0
  <2>. QED
    BY <1>1, <2>1 DEF y
<1>5. c <= Len(Stream(p)) /\ Stream(p) \in Seq(Unit) /\ Len(Stream(p)) \in Nat
  <2>1. Stream(p) \in Seq(Unit) /\ Len(Stream(p)) \in Nat
    BY Zenon, <1>0, StreamFacts DEF ClientTypes
  <2>2. fed[p] \in 0 .. Len(Stream(p))
    BY Zenon, <1>0 DEF ClientTypes
  <2>. QED
    BY <1>1, <2>1, <2>2
<1>6. SubSeq(Stream(p), a + 1, b) \o SubSeq(Stream(p), b + 1, c) = SubSeq(Stream(p), a + 1, c)
  <2>1. ASSUME NEW s \in Seq(Unit), c <= Len(s)
        PROVE  SubSeq(s, a + 1, b) \o SubSeq(s, b + 1, c) = SubSeq(s, a + 1, c)
    BY <1>4, <2>1, Adjacent
  <2>. QED
    BY Zenon, <1>5, <2>1
<1>7. e.data \o chunk = SubSeq(Stream(p), a + 1, c)
  BY Zenon, <1>3, <1>4, <1>6
<1>8. Len(e.data \o chunk) = Len(e.data) + Len(chunk)
  BY <1>2, ConcatProperties
<1>9. c = a + Len(e.data \o chunk)
  <2>. DEFINE x == Len(e.data)
              y == Len(chunk)
              z == Len(e.data \o chunk)
  <2>1. x \in Nat /\ y \in Nat /\ z = x + y /\ b = a + x /\ c = b + y
    BY <1>2, <1>3, <1>4, <1>8
  <2>. HIDE DEF x, y, z
  <2>2. c = a + z
    BY <2>1
  <2>. QED
    BY <2>2 DEF z
<1>10. c = m * Parts + Len(f.data)
  BY <1>1, <1>9
<1>11. f.data = SubSeq(Stream(f.remote), m * Parts + 1, c)
  BY Zenon, <1>1, <1>7
<1>12. /\ Len(f.list) <= m
       /\ \A n \in 1 .. Len(f.list) :
            f.list[n] = [peer |-> f.remote, msg |-> m - Len(f.list) + n]
  <2>1. /\ Len(e.list) <= m
        /\ \A n \in 1 .. Len(e.list) :
             e.list[n] = [peer |-> e.remote, msg |-> m - Len(e.list) + n]
    BY Zenon DEF Carried
  <2>2. f.list = e.list /\ f.remote = e.remote
    OBVIOUS
  <2>. QED
    BY Zenon, <2>1, <2>2
<1>13. /\ ~ f.handshake => f.list = << >> /\ m = IF f.ready THEN 1 ELSE 0
       /\ f.handshake => m - Len(f.list) >= 1 /\ (f.ready <=> f.list # << >>)
  BY Zenon DEF Carried
<1>14. Carried(f, c, m)
  BY Zenon, <1>10, <1>11, <1>12, <1>13 DEF Carried
<1>. QED
  BY <1>1, <1>14

\* Who is on a connection with a callback was accepted, and has no other.
LEMMA OneCallback ==
  ASSUME IInv, NEW c \in Indices, worker[c].pc # "idle"
  PROVE  /\ phase[Client(c)] # "new"
         /\ \A d \in Indices : worker[d].pc # "idle" /\ Client(d) = Client(c) => d = c
<1>1. app.slot \in Slots
  BY Types DEF IInv, LifeTypes, AppState
<1>2. phase[Client(c)] # "new"
  BY <1>1, States DEF IInv, TableInv, Client
<1>3. ASSUME NEW d \in Indices, worker[d].pc # "idle", Client(d) = Client(c)
      PROVE  d = c
  <2>1. CASE c = Stray
    BY <1>1, <1>3, <2>1, States DEF IInv, TableInv, Client
  <2>2. CASE d = Stray
    BY <1>1, <1>3, <2>2, States DEF IInv, TableInv, Client
  <2>3. CASE c # Stray /\ d # Stray
    BY <1>3, <2>3, States DEF IInv, TableInv, Client
  <2>. QED
    BY <2>1, <2>2, <2>3
<1>. QED
  BY <1>2, <1>3

\* A callback without an index that does not touch the queue.
LEMMA StrayCore ==
  ASSUME IInv, Core,
         UNCHANGED <<script, phase, file, fed, got, handled, told, requestQueue, session, socket,
                     app, push, runs, req>>,
         \A i \in Slots : worker'[i] = worker[i],
         worker'[Stray].pc # "init", TellInv'
  PROVE  Core'
<1>1. Onward /\ \A q : Own(q)' = Own(q)
  BY OwnSame DEF Onward
<1>2. NewInv'
  <2>1. ASSUME NEW c \in Indices, worker'[c].pc = "init"
        PROVE  worker[c].pc = "init" /\ Client(c)' = Client(c)
    BY <2>1, States DEF Client
  <2>2. \A q \in Peers : Untold(q) => Untold(q)'
    BY <1>1 DEF Untold
  <2>. QED
    BY <1>1, <2>1, <2>2, NewKept
<1>3. Apart' /\ Owned' /\ Fresh' /\ Started'
  BY DEF Core, Apart, Owned, Fresh, Started, Serving
<1>4. Listed'
  BY DEF Core, Listed, Freed
<1>5. ChunkInv' /\ DataInv'
  <2>1. \A k : Replying(k)' = Replying(k)
    BY DEF Replying
  <2>. QED
    BY <2>1, DataKept
<1>6. FileInv' /\ PushInv' /\ AnswersInOrder'
  BY <1>1, AnswersKept
<1>. QED
  BY <1>2, <1>3, <1>4, <1>5, <1>6 DEF Core

\* The new entry has nothing, of a client from which nothing has come.
LEMMA InitConnectionCore ==
  ASSUME IInv, Core, NEW c \in Indices, InitConnection(c)
  PROVE  Core'
<1>0. /\ QueueTypes /\ worker \in [Indices -> WorkerState] /\ Len(requestQueue) \in Nat
      /\ session \in [Slots -> Peers \cup {Nobody}]
  BY Types, QueueFacts DEF IInv, SocketTypes
<1>1. /\ UNCHANGED <<script, phase, file, fed, got, handled, told, session, socket, app, push,
                     runs, req>>
      /\ worker[c].pc = "init" /\ QueueFree /\ Begin(c, "greet", << >>)
  BY DEF InitConnection, clientVars, lifeVars, userVars
<1>2. /\ worker'[c].pc = "greet"
      /\ \A d \in Indices : d # c => worker'[d] = worker[d]
  BY <1>0, <1>1 DEF Begin
<1>3. PICK p \in Peers : p = Client(c) /\ Untold(p) /\ (c \in Slots => session[c] = p)
  BY <1>1, NoEntry
<1>4. CASE Entries(c) # {}
  <2>1. c = Stray
    BY <1>1, <1>4, NoEntry, States
  <2>2. requestQueue' = requestQueue
    BY <1>4 DEF InitConnection
  <2>3. TellInv'
    <3>1. ASSUME NEW k \in 1 .. Len(requestQueue)
          PROVE  LET e == requestQueue[k]
                     pc == worker'[e.connID].pc
                 IN /\ told'[e.remote] = "disconnected" <=> pc = "remove"
                    /\ told'[e.remote] = "nothing" =>
                         pc = "greet" /\ e.data = << >> /\ ~ e.handshake /\ ~ e.ready
      <4>1. PICK d \in Indices : d = requestQueue[k].connID
        BY <1>0, QueueFacts
      <4>2. PICK e : e = requestQueue[k]
        OBVIOUS
      <4>3. /\ told[e.remote] = "disconnected" <=> worker[d].pc = "remove"
            /\ told[e.remote] = "nothing" =>
                 worker[d].pc = "greet" /\ e.data = << >> /\ ~ e.handshake /\ ~ e.ready
        BY <4>1, <4>2 DEF Core, TellInv
      <4>4. worker'[d].pc = worker[d].pc \/ (worker[d].pc = "init" /\ worker'[d].pc = "greet")
        BY <1>1, <1>2
      <4>. QED
        BY <1>1, <4>1, <4>2, <4>3, <4>4
    <3>. QED
      BY <2>2, <3>1 DEF TellInv
  <2>. QED
    BY <1>1, <1>2, <2>1, <2>2, <2>3, StrayCore, States
<1>5. CASE Entries(c) = {}
  <2>0. PICK n \in Nat : n = Len(requestQueue)
    BY <1>0
  <2>. DEFINE e == [connID |-> c, remote |-> p, data |-> << >>, list |-> << >>,
                    handshake |-> FALSE, ready |-> FALSE]
  <2>1. /\ requestQueue' \in Seq(EntryType)
        /\ Len(requestQueue') = n + 1
        /\ \A k \in 1 .. n : requestQueue'[k] = requestQueue[k]
        /\ requestQueue'[n + 1] = e
    BY <1>0, <1>3, <1>5, <2>0, InitConnectionQueue
  <2>2. \A k \in 1 .. n : requestQueue[k].connID # c /\ requestQueue[k].remote # p
    BY <1>3, <1>5, <2>0 DEF Entries, Untold
  <2>3. /\ phase[p] # "new" /\ p # Nobody
        /\ \A d \in Indices : worker[d].pc = "init" /\ d # c => Client(d) # p
    BY <1>1, <1>3, OneCallback, ServerAssumption
  <2>4. \A k \in 1 .. n + 1 : k \in 1 .. n \/ k = n + 1
    BY <1>0
  <2>5. n + 1 \in 1 .. n + 1 /\ \A k \in 1 .. n : k \in 1 .. n + 1
    BY <1>0
  <2>6. e \in EntryType
    BY <2>1, <2>5, ElementOfSeq
  <2>7. e.connID = c /\ e.remote = p /\ e.data = << >> /\ e.list = << >>
        /\ ~ e.handshake /\ ~ e.ready
    OBVIOUS
  <2>. HIDE DEF e
  <2>8. Onward /\ \A q : Own(q)' = Own(q)
    BY <1>1, OwnSame DEF Onward
  <2>9. NewInv'
    <3>1. ASSUME NEW d \in Indices, worker'[d].pc = "init"
          PROVE  worker[d].pc = "init" /\ Client(d)' = Client(d) /\ d # c
      BY <1>1, <1>2, <3>1 DEF Client
    <3>2. ASSUME NEW q \in Peers, Untold(q), q # p
          PROVE  Untold(q)'
      <4>1. \A k \in 1 .. Len(requestQueue') : requestQueue'[k].remote # q
        BY <2>0, <2>1, <2>4, <2>7, <3>2 DEF Untold
      <4>. QED
        BY <1>1, <2>8, <3>2, <4>1 DEF Untold
    <3>. QED
      BY <2>3, <2>8, <3>1, <3>2, NewKept
  <2>10. Apart'
    <3>1. ASSUME NEW k \in 1 .. n + 1, NEW l \in 1 .. n + 1,
                 \/ requestQueue'[k].connID = requestQueue'[l].connID
                 \/ requestQueue'[k].remote = requestQueue'[l].remote
          PROVE  k = l
      <4>1. CASE k \in 1 .. n /\ l \in 1 .. n
        BY <2>0, <2>1, <3>1, <4>1 DEF Core, Apart
      <4>2. CASE k = n + 1 /\ l \in 1 .. n
        BY <2>1, <2>2, <2>7, <3>1, <4>2
      <4>3. CASE l = n + 1 /\ k \in 1 .. n
        BY <2>1, <2>2, <2>7, <3>1, <4>3
      <4>. QED
        BY <2>4, <4>1, <4>2, <4>3
    <3>. QED
      BY <2>1, <3>1 DEF Apart
  <2>11. Owned' /\ Fresh' /\ Started'
    <3>1. \A k \in 1 .. n + 1 : requestQueue'[k].connID # Stray =>
            session'[requestQueue'[k].connID] \in {requestQueue'[k].remote, Nobody}
      BY <1>1, <1>3, <2>0, <2>1, <2>4, <2>7, States DEF Core, Owned
    <3>2. c = Stray => ~ Serving
      BY <1>1 DEF IInv, TableInv, Serving
    <3>3. Serving => c \in Slots /\ session[c] # Nobody
      BY <1>3, <2>3, <3>2, States
    <3>4. Serving' => \A k \in 1 .. n + 1 :
            /\ requestQueue'[k].connID # Stray
            /\ session'[requestQueue'[k].connID] # Nobody
      BY <1>1, <2>0, <2>1, <2>4, <2>7, <3>2, <3>3 DEF Core, Fresh, Serving
    <3>. QED
      BY <1>1, <2>1, <3>1, <3>4 DEF Core, Owned, Fresh, Started
  <2>12. Listed'
    <3>1. ASSUME NEW j \in Slots, session'[j] # Nobody, worker'[j].pc # "init",
                 ~ (Freed(j)' /\ worker'[j].pc = "idle")
          PROVE  \E k \in 1 .. n + 1 : requestQueue'[k].connID = j
      <4>1. CASE j = c
        BY <2>1, <2>5, <2>7, <4>1
      <4>2. CASE j # c
        <5>1. worker'[j] = worker[j] /\ (Freed(j)' <=> Freed(j))
          BY <1>1, <1>2, <4>2, States DEF Freed
        <5>2. PICK k \in 1 .. n : requestQueue[k].connID = j
          BY <1>1, <2>0, <3>1, <5>1 DEF Core, Listed
        <5>. QED
          BY <2>1, <2>5, <5>2
      <4>. QED
        BY <4>1, <4>2
    <3>. QED
      BY <2>1, <3>1 DEF Listed
  <2>13. TellInv'
    <3>1. ASSUME NEW k \in 1 .. n + 1
          PROVE  LET f == requestQueue'[k]
                     pc == worker'[f.connID].pc
                 IN /\ told'[f.remote] = "disconnected" <=> pc = "remove"
                    /\ told'[f.remote] = "nothing" =>
                         pc = "greet" /\ f.data = << >> /\ ~ f.handshake /\ ~ f.ready
      <4>1. CASE k = n + 1
        <5>1. told'[p] = "nothing"
          BY <1>1, <1>3 DEF Untold
        <5>. QED
          BY <1>2, <2>1, <2>7, <4>1, <5>1
      <4>2. CASE k \in 1 .. n
        <5>1. requestQueue'[k] = requestQueue[k] /\ requestQueue[k].connID # c
              /\ requestQueue[k].connID \in Indices
          BY <1>0, <2>0, <2>1, <2>2, <4>2, QueueFacts
        <5>2. worker'[requestQueue[k].connID] = worker[requestQueue[k].connID]
          BY <1>2, <5>1
        <5>. QED
          BY <1>1, <2>0, <4>2, <5>1, <5>2 DEF Core, TellInv
      <4>. QED
        BY <2>4, <4>1, <4>2
    <3>. QED
      BY <2>1, <3>1 DEF TellInv
  <2>14. ChunkInv'
    BY <1>1, <1>2, ChunksKept, States
  <2>15. /\ \A d \in Indices : d # c => Put(d)' = Put(d)
         /\ Put(c)' = 0
    BY <1>2 DEF Put
  <2>16. \A k : Replying(k)' = 0 /\ Replying(k) = 0
    BY <1>1 DEF Replying, QueueFree
  <2>17. ASSUME NEW k \in 1 .. n
         PROVE  Entered(k)'
    <3>1. Entered(k)
      BY <2>0 DEF Core, DataInv
    <3>2. PICK d \in Indices, q \in Peers :
            requestQueue[k].connID = d /\ requestQueue[k].remote = q
      BY <1>0, <2>0, QueueFacts
    <3>3. requestQueue'[k] = requestQueue[k] /\ Put(d)' = Put(d) /\ Replying(k)' = Replying(k)
      BY <2>1, <2>2, <2>15, <2>16, <3>2
    <3>. QED
      BY <1>1, <2>8, <3>1, <3>2, <3>3, EntryKept
  <2>18. Entered(n + 1)'
    <3>1. CASE c = Stray
      <4>1. requestQueue'[n + 1] = e /\ e.connID = Stray
        BY <2>1, <2>7, <3>1
      <4>. QED
        BY <2>7, <4>1 DEF Entered
    <3>2. CASE c # Stray
      <4>1. Carried(e, 0, 0)
        BY <2>6, <2>7, EmptyEntry
      <4>2. Own(p)' = {} /\ handled'[p] = << >> /\ fed'[p] = 0 /\ push'.peer # p
        BY <1>1, <1>3, <2>8 DEF Untold
      <4>3. Accounted(e, 0, 0)'
        BY <2>7, <4>2 DEF Accounted
      <4>4. fed'[p] - Put(c)' = 0
        BY <2>15, <4>2
      <4>5. requestQueue'[n + 1] = e /\ Replying(n + 1)' = 0
        BY <2>1, <2>16
      <4>. QED
        BY <1>1, <2>7, <3>2, <4>1, <4>3, <4>4, <4>5, EntryBuilt
    <3>. QED
      BY <3>1, <3>2
  <2>19. DataInv'
    BY <2>1, <2>4, <2>17, <2>18 DEF DataInv
  <2>20. FileInv' /\ PushInv' /\ AnswersInOrder'
    BY <1>1, <2>8, AnswersKept
  <2>. QED
    BY <2>9, <2>10, <2>11, <2>12, <2>13, <2>14, <2>19, <2>20 DEF Core
<1>. QED
  BY <1>4, <1>5

\* What is put continues the data of the entry, if there is one.
LEMMA PutToQueueCore ==
  ASSUME IInv, Core, NEW c \in Indices, PutToQueue(c)
  PROVE  Core'
<1>0. /\ QueueTypes /\ worker \in [Indices -> WorkerState] /\ ClientTypes
  BY Types DEF IInv, SocketTypes
<1>1. /\ UNCHANGED <<script, phase, file, fed, got, handled, told, session, socket, app, push,
                     runs, req>>
      /\ worker[c].pc = "put" /\ QueueFree /\ Begin(c, "signal", << >>)
  BY DEF PutToQueue, clientVars, lifeVars, userVars
<1>2. PICK n \in Nat : n = Len(requestQueue)
  BY <1>0, QueueFacts
<1>3. PICK chunk \in Seq(Unit) : chunk = worker[c].chunk
  BY <1>0, States
<1>4. /\ worker'[c].pc = "signal"
      /\ \A d \in Indices : d # c => worker'[d] = worker[d]
  BY <1>0, <1>1 DEF Begin
<1>5. /\ Len(requestQueue') = n
      /\ \A k \in 1 .. n :
           /\ requestQueue'[k].connID = requestQueue[k].connID
           /\ requestQueue'[k].remote = requestQueue[k].remote
           /\ requestQueue'[k].list = requestQueue[k].list
           /\ requestQueue'[k].handshake = requestQueue[k].handshake
           /\ requestQueue'[k].ready = requestQueue[k].ready
           /\ requestQueue[k].connID # c => requestQueue'[k] = requestQueue[k]
           /\ Entries(c) = {k} => requestQueue'[k].data = requestQueue[k].data \o chunk
  <2>1. /\ Len(requestQueue') = Len(requestQueue)
        /\ \A k \in 1 .. Len(requestQueue) :
              LET e == requestQueue[k]
              IN /\ k \in Entries(c) /\ (\A l \in Entries(c) : k <= l) =>
                      requestQueue'[k] =
                        [connID |-> e.connID, remote |-> e.remote,
                         data |-> e.data \o worker[c].chunk, list |-> e.list,
                         handshake |-> e.handshake, ready |-> e.ready]
                 /\ ~ (k \in Entries(c) /\ \A l \in Entries(c) : k <= l) =>
                      requestQueue'[k] = e
        /\ \A k \in 1 .. Len(requestQueue) :
              /\ requestQueue'[k].connID = requestQueue[k].connID
              /\ requestQueue'[k].remote = requestQueue[k].remote
              /\ requestQueue'[k].list = requestQueue[k].list
              /\ requestQueue'[k].handshake = requestQueue[k].handshake
              /\ requestQueue'[k].ready = requestQueue[k].ready
    BY Zenon, <1>0, <1>3, PutToQueueQueue
  <2>2. ASSUME NEW k \in 1 .. n
        PROVE  /\ requestQueue[k].connID # c => requestQueue'[k] = requestQueue[k]
               /\ Entries(c) = {k} => requestQueue'[k].data = requestQueue[k].data \o chunk
    <3>. DEFINE e == requestQueue[k]
    <3>1. /\ k \in Entries(c) /\ (\A l \in Entries(c) : k <= l) =>
               requestQueue'[k] =
                 [connID |-> e.connID, remote |-> e.remote,
                  data |-> e.data \o chunk, list |-> e.list,
                  handshake |-> e.handshake, ready |-> e.ready]
          /\ k \notin Entries(c) => requestQueue'[k] = e
      BY Zenon, <1>2, <1>3, <2>1
    <3>2. e.connID # c => k \notin Entries(c)
      BY DEF Entries
    <3>3. Entries(c) = {k} => k \in Entries(c) /\ \A l \in Entries(c) : k <= l
      BY <1>2
    <3>. HIDE DEF e
    <3>4. ASSUME Entries(c) = {k}
          PROVE  requestQueue'[k].data = e.data \o chunk
      <4>1. requestQueue'[k] = [connID |-> e.connID, remote |-> e.remote,
                                data |-> e.data \o chunk, list |-> e.list,
                                handshake |-> e.handshake, ready |-> e.ready]
        BY Zenon, <3>1, <3>3, <3>4
      <4>. QED
        BY <4>1
    <3>. QED
      BY Zenon, <3>1, <3>2, <3>4 DEF e
  <2>. QED
    BY Zenon, <1>2, <2>1, <2>2
<1>6. \A k \in 1 .. n : requestQueue[k].connID \in Indices /\ requestQueue[k] \in EntryType
  BY <1>0, <1>2, QueueFacts
<1>7. Onward /\ \A q : Own(q)' = Own(q)
  BY <1>1, OwnSame DEF Onward
<1>8. NewInv'
  <2>1. ASSUME NEW d \in Indices, worker'[d].pc = "init"
        PROVE  worker[d].pc = "init" /\ Client(d)' = Client(d)
    BY <1>1, <1>4, <2>1 DEF Client
  <2>2. \A q \in Peers : Untold(q) => Untold(q)'
    BY <1>1, <1>2, <1>5, <1>7 DEF Untold
  <2>. QED
    BY <1>7, <2>1, <2>2, NewKept
<1>9. Apart' /\ Owned' /\ Fresh' /\ Started'
  BY <1>1, <1>2, <1>5 DEF Core, Apart, Owned, Fresh, Started, Serving
<1>10. Listed'
  <2>1. ASSUME NEW j \in Slots, session'[j] # Nobody, worker'[j].pc # "init",
               ~ (Freed(j)' /\ worker'[j].pc = "idle")
        PROVE  \E k \in 1 .. n : requestQueue'[k].connID = j
    <3>1. Freed(j)' <=> Freed(j)
      BY <1>1 DEF Freed
    <3>2. worker[j].pc # "init" /\ ~ (Freed(j) /\ worker[j].pc = "idle")
      BY <1>1, <1>4, <2>1, <3>1, States
    <3>3. PICK k \in 1 .. n : requestQueue[k].connID = j
      BY <1>1, <1>2, <2>1, <3>2 DEF Core, Listed
    <3>. QED
      BY <1>5, <3>3
  <2>. QED
    BY <1>5, <2>1 DEF Listed
<1>11. TellInv'
  <2>1. ASSUME NEW k \in 1 .. n
        PROVE  LET f == requestQueue'[k]
                   pc == worker'[f.connID].pc
               IN /\ told'[f.remote] = "disconnected" <=> pc = "remove"
                  /\ told'[f.remote] = "nothing" =>
                       pc = "greet" /\ f.data = << >> /\ ~ f.handshake /\ ~ f.ready
    <3>1. PICK d \in Indices, e \in EntryType : d = requestQueue[k].connID /\ e = requestQueue[k]
      BY <1>6
    <3>2. /\ told[e.remote] = "disconnected" <=> worker[d].pc = "remove"
          /\ told[e.remote] = "nothing" =>
               worker[d].pc = "greet" /\ e.data = << >> /\ ~ e.handshake /\ ~ e.ready
      BY <1>2, <3>1 DEF Core, TellInv
    <3>3. requestQueue'[k].connID = d /\ requestQueue'[k].remote = e.remote
      BY <1>5, <3>1
    <3>4. CASE d = c
      BY <1>1, <1>4, <3>2, <3>3, <3>4
    <3>5. CASE d # c
      <4>1. worker'[d] = worker[d] /\ requestQueue'[k] = e
        BY <1>4, <1>5, <3>1, <3>5
      <4>. QED
        BY <1>1, <3>1, <3>2, <4>1
    <3>. QED
      BY <3>4, <3>5
  <2>. QED
    BY <1>5, <2>1 DEF TellInv
<1>12. ChunkInv'
  BY <1>1, <1>4, ChunksKept, States
<1>13. /\ \A d \in Indices : d # c => Put(d)' = Put(d)
       /\ Put(c)' = 0 /\ Put(c) = Len(chunk)
  BY <1>1, <1>3, <1>4 DEF Put
<1>14. \A k : Replying(k)' = 0 /\ Replying(k) = 0
  BY <1>1 DEF Replying, QueueFree
<1>15. ASSUME NEW k \in 1 .. n
       PROVE  Entered(k)'
  <2>1. Entered(k)
    BY <1>2 DEF Core, DataInv
  <2>2. PICK d \in Indices, q \in Peers :
          requestQueue[k].connID = d /\ requestQueue[k].remote = q
    BY <1>0, <1>2, QueueFacts
  <2>3. CASE d = Stray
    BY <1>5, <2>1, <2>2, <2>3 DEF Entered
  <2>4. CASE d # c
    <3>1. requestQueue'[k] = requestQueue[k] /\ Put(d)' = Put(d) /\ Replying(k)' = Replying(k)
      BY <1>5, <1>13, <1>14, <2>2, <2>4
    <3>. QED
      BY <1>1, <1>7, <2>1, <2>2, <3>1, EntryKept
  <2>5. CASE d = c /\ d # Stray
    <3>1. session[c] # Nobody /\ c \in Slots
      BY <1>1, <2>5, Busy, ServerAssumption, States
    <3>2. session[c] = q /\ Entries(c) = {k}
      BY <1>1, <1>2, <2>2, <2>5, <3>1, OwnEntry
    <3>3. PICK e \in EntryType : e = requestQueue[k]
      BY <1>6
    <3>4. PICK f : f = requestQueue'[k]
      OBVIOUS
    <3>5. /\ f.connID = c /\ f.remote = q /\ f.data = e.data \o chunk /\ f.list = e.list
          /\ f.handshake = e.handshake /\ f.ready = e.ready /\ e.remote = q /\ e.connID = c
      BY <1>5, <2>2, <2>5, <3>2, <3>3, <3>4
    <3>6. PICK m \in Nat : EntryInv(k, m)
      BY <2>1, <2>2, <2>5 DEF Entered
    <3>7. Carried(e, fed[q] - Len(chunk), m) /\ Accounted(e, m, 0)
      BY <1>13, <1>14, <3>3, <3>5, <3>6 DEF EntryInv
    <3>8. Len(chunk) <= fed[q] /\ chunk = SubSeq(Stream(q), fed[q] - Len(chunk) + 1, fed[q])
      BY <1>1, <1>3, <3>1, <3>2 DEF Core, ChunkInv
    <3>9. Carried(f, fed[q], m)
      BY Zenon, <3>5, <3>7, <3>8, Continued
    <3>10. Accounted(f, m, 0)'
      BY <1>1, <1>7, <3>5, <3>7 DEF Accounted
    <3>11. fed'[q] - Put(c)' = fed[q]
      BY <1>0, <1>1, <1>13 DEF ClientTypes
    <3>12. requestQueue'[k] = f /\ Replying(k)' = 0
      BY <1>14, <3>4
    <3>. QED
      BY <1>1, <2>5, <3>5, <3>9, <3>10, <3>11, <3>12, EntryBuilt
  <2>. QED
    BY <2>3, <2>4, <2>5
<1>16. DataInv'
  BY <1>5, <1>15 DEF DataInv
<1>17. FileInv' /\ PushInv' /\ AnswersInOrder'
  BY <1>1, <1>7, AnswersKept
<1>. QED
  BY <1>8, <1>9, <1>10, <1>11, <1>12, <1>16, <1>17 DEF Core

\* The entry goes with the connection; the entries behind it move up.  At
\* the index -1 there may be none.
LEMMA RemoveFromQueueCore ==
  ASSUME IInv, Core, NEW c \in Indices, RemoveFromQueue(c)
  PROVE  Core'
<1>0. /\ QueueTypes /\ worker \in [Indices -> WorkerState] /\ Len(requestQueue) \in Nat
      /\ session \in [Slots -> Peers \cup {Nobody}]
  BY Types, QueueFacts DEF IInv, SocketTypes
<1>1. /\ UNCHANGED <<script, phase, file, fed, got, handled, told, socket, app, push, runs, req>>
      /\ worker[c].pc = "remove" /\ QueueFree /\ Begin(c, "idle", << >>)
      /\ session' = [i \in Slots |-> IF i = c THEN Nobody ELSE session[i]]
  BY DEF RemoveFromQueue, clientVars, lifeVars, userVars
<1>2. /\ worker'[c].pc = "idle"
      /\ \A d \in Indices : d # c => worker'[d] = worker[d]
      /\ \A i \in Slots : i # c => session'[i] = session[i]
      /\ c \in Slots => session'[c] = Nobody
  BY <1>0, <1>1 DEF Begin
<1>3. CASE Entries(c) = {}
  <2>1. c = Stray
    <3>1. ASSUME c # Stray
          PROVE  FALSE
      <4>1. c \in Slots /\ session[c] # Nobody
        BY <1>1, <3>1, Busy, ServerAssumption, States
      <4>. QED
        BY <1>1, <1>3, <4>1, OwnEntry
    <3>. QED
      BY <3>1
  <2>2. requestQueue' = requestQueue /\ session' = session
    BY <1>0, <1>1, <1>3, <2>1, States DEF RemoveFromQueue
  <2>3. TellInv'
    <3>1. \A k \in 1 .. Len(requestQueue) :
            requestQueue[k].connID \in Indices /\ requestQueue[k].connID # c
      BY <1>0, <1>3, QueueFacts DEF Entries
    <3>. QED
      BY <1>1, <1>2, <2>2, <3>1 DEF Core, TellInv
  <2>. QED
    BY <1>1, <1>2, <2>1, <2>2, <2>3, StrayCore, States
<1>4. CASE Entries(c) # {}
  <2>0. PICK n \in Nat : n = Len(requestQueue)
    BY <1>0
  <2>1. PICK k0 \in 1 .. n, p \in Peers :
          /\ requestQueue[k0].connID = c /\ requestQueue[k0].remote = p
          /\ Entries(c) = {k0}
          /\ \A l \in 1 .. n :
               requestQueue[l].remote = p \/ requestQueue[l].connID = c => l = k0
    BY <1>4, <2>0, OneEntry
  <2>. DEFINE Old(k) == IF k < k0 THEN k ELSE k + 1
  <2>2. /\ requestQueue' \in Seq(EntryType)
        /\ Len(requestQueue') = n - 1
        /\ \A k \in 1 .. n - 1 : requestQueue'[k] = requestQueue[Old(k)]
    <3>1. /\ requestQueue' \in Seq(EntryType)
          /\ Min(Entries(c)) \in 1 .. Len(requestQueue)
          /\ requestQueue[Min(Entries(c))].connID = c
          /\ Len(requestQueue') = Len(requestQueue) - 1
          /\ \A k \in 1 .. Len(requestQueue) - 1 :
               requestQueue'[k] = IF k < Min(Entries(c)) THEN requestQueue[k]
                                  ELSE requestQueue[k + 1]
      BY <1>0, <1>4, RemoveFromQueueQueue
    <3>2. Min(Entries(c)) = k0
      BY <2>0, <2>1, <3>1
    <3>. QED
      BY <2>0, <3>1, <3>2
  <2>3. \A k \in 1 .. n - 1 : Old(k) \in 1 .. n /\ Old(k) # k0
    OBVIOUS
  <2>4. \A k, l \in 1 .. n - 1 : Old(k) = Old(l) => k = l
    OBVIOUS
  <2>5. ASSUME NEW k \in 1 .. n, k # k0
        PROVE  \E l \in 1 .. n - 1 : Old(l) = k
    <3>1. CASE k < k0
      <4>1. k \in 1 .. n - 1 /\ Old(k) = k
        BY <3>1
      <4>. QED
        BY <4>1
    <3>2. CASE k > k0
      <4>1. k - 1 \in 1 .. n - 1 /\ Old(k - 1) = k
        BY <3>2
      <4>. QED
        BY <4>1
    <3>3. k < k0 \/ k > k0
      BY <2>5
    <3>. QED
      BY <3>1, <3>2, <3>3
  <2>. HIDE DEF Old
  <2>6. ASSUME NEW k \in 1 .. n - 1
        PROVE  /\ requestQueue'[k] = requestQueue[Old(k)]
               /\ requestQueue'[k].connID = requestQueue[Old(k)].connID
               /\ requestQueue'[k].remote = requestQueue[Old(k)].remote
               /\ requestQueue'[k].connID # c /\ requestQueue'[k].connID \in Indices
               /\ requestQueue'[k].connID # Stray =>
                    session'[requestQueue'[k].connID] = session[requestQueue[Old(k)].connID]
    <3>1. Old(k) \in 1 .. n /\ Old(k) # k0 /\ requestQueue'[k] = requestQueue[Old(k)]
      BY <2>2, <2>3
    <3>2. requestQueue[Old(k)].connID # c /\ requestQueue[Old(k)].connID \in Indices
      BY <1>0, <2>0, <2>1, <3>1, QueueFacts
    <3>3. requestQueue[Old(k)].connID # Stray =>
            session'[requestQueue[Old(k)].connID] = session[requestQueue[Old(k)].connID]
      BY <1>2, <3>2, States
    <3>. QED
      BY <3>1, <3>2, <3>3
  <2>7. Onward /\ \A q : Own(q)' = Own(q)
    BY <1>1, OwnSame DEF Onward
  <2>8. NewInv'
    <3>1. ASSUME NEW d \in Indices, worker'[d].pc = "init"
          PROVE  worker[d].pc = "init" /\ Client(d)' = Client(d)
      <4>1. d # c /\ worker[d].pc = "init"
        BY <1>2, <3>1
      <4>2. CASE d = Stray
        <5>1. app.slot \in Slots /\ app.slot # c
          BY <1>1, <4>1, <4>2, Types DEF IInv, LifeTypes, AppState, TableInv
        <5>. QED
          BY <1>1, <1>2, <4>1, <4>2, <5>1 DEF Client
      <4>3. CASE d # Stray
        BY <1>2, <4>1, <4>3, States DEF Client
      <4>. QED
        BY <4>1, <4>2, <4>3
    <3>2. ASSUME NEW q \in Peers, Untold(q)
          PROVE  Untold(q)'
      <4>1. \A k \in 1 .. Len(requestQueue') : requestQueue'[k].remote # q
        BY <2>0, <2>2, <2>3, <2>6, <3>2 DEF Untold
      <4>. QED
        BY <1>1, <2>7, <3>2, <4>1 DEF Untold
    <3>. QED
      BY <2>7, <3>1, <3>2, NewKept
  <2>9. Apart'
    <3>1. ASSUME NEW k \in 1 .. n - 1, NEW l \in 1 .. n - 1,
                 \/ requestQueue'[k].connID = requestQueue'[l].connID
                 \/ requestQueue'[k].remote = requestQueue'[l].remote
          PROVE  k = l
      <4>1. Old(k) \in 1 .. n /\ Old(l) \in 1 .. n
        BY <2>3
      <4>2. \/ requestQueue[Old(k)].connID = requestQueue[Old(l)].connID
            \/ requestQueue[Old(k)].remote = requestQueue[Old(l)].remote
        BY <2>6, <3>1
      <4>3. Old(k) = Old(l)
        BY <2>0, <4>1, <4>2 DEF Core, Apart
      <4>. QED
        BY <2>4, <4>3
    <3>. QED
      BY <2>2, <3>1 DEF Apart
  <2>10. Owned' /\ Fresh' /\ Started'
    <3>1. \A k \in 1 .. n - 1 : requestQueue'[k].connID # Stray =>
            session'[requestQueue'[k].connID] \in {requestQueue'[k].remote, Nobody}
      BY <2>0, <2>3, <2>6 DEF Core, Owned
    <3>2. Serving' => \A k \in 1 .. n - 1 :
            /\ requestQueue'[k].connID # Stray
            /\ session'[requestQueue'[k].connID] # Nobody
      BY <1>1, <2>0, <2>3, <2>6 DEF Core, Fresh, Serving
    <3>. QED
      BY <1>1, <2>2, <3>1, <3>2 DEF Core, Owned, Fresh, Started
  <2>11. Listed'
    <3>1. ASSUME NEW j \in Slots, session'[j] # Nobody, worker'[j].pc # "init",
                 ~ (Freed(j)' /\ worker'[j].pc = "idle")
          PROVE  \E k \in 1 .. n - 1 : requestQueue'[k].connID = j
      <4>1. j # c /\ session[j] # Nobody /\ worker'[j] = worker[j] /\ (Freed(j)' <=> Freed(j))
        BY <1>1, <1>2, <3>1, States DEF Freed
      <4>2. PICK k \in 1 .. n : requestQueue[k].connID = j
        BY <2>0, <3>1, <4>1 DEF Core, Listed
      <4>3. k # k0
        BY <2>1, <4>1, <4>2
      <4>4. PICK l \in 1 .. n - 1 : Old(l) = k
        BY <2>5, <4>3
      <4>. QED
        BY <2>6, <4>2, <4>4
    <3>. QED
      BY <2>2, <3>1 DEF Listed
  <2>12. TellInv'
    <3>1. ASSUME NEW k \in 1 .. n - 1
          PROVE  LET e == requestQueue'[k]
                     pc == worker'[e.connID].pc
                 IN /\ told'[e.remote] = "disconnected" <=> pc = "remove"
                    /\ told'[e.remote] = "nothing" =>
                         pc = "greet" /\ e.data = << >> /\ ~ e.handshake /\ ~ e.ready
      <4>1. PICK l \in 1 .. n : l = Old(k)
        BY <2>3
      <4>2. requestQueue'[k] = requestQueue[l]
            /\ worker'[requestQueue[l].connID] = worker[requestQueue[l].connID]
        BY <1>2, <2>6, <4>1
      <4>. QED
        BY <1>1, <2>0, <4>2 DEF Core, TellInv
    <3>. QED
      BY <2>2, <3>1 DEF TellInv
  <2>13. ChunkInv'
    BY <1>1, <1>2, ChunksKept, States
  <2>14. \A d \in Indices : Put(d)' = Put(d)
    BY <1>1, <1>2 DEF Put
  <2>15. \A k : Replying(k)' = 0 /\ Replying(k) = 0
    BY <1>1 DEF Replying, QueueFree
  <2>16. ASSUME NEW k \in 1 .. n - 1
         PROVE  Entered(k)'
    <3>1. PICK l \in 1 .. n : l = Old(k)
      BY <2>3
    <3>2. requestQueue'[k] = requestQueue[l]
      BY <2>6, <3>1
    <3>3. Entered(l)
      BY <2>0 DEF Core, DataInv
    <3>4. PICK d \in Indices, q \in Peers :
            requestQueue[l].connID = d /\ requestQueue[l].remote = q
      BY <1>0, <2>0, QueueFacts
    <3>5. Put(d)' = Put(d) /\ Replying(k)' = Replying(l)
      BY <2>14, <2>15
    <3>. QED
      BY <1>1, <2>7, <3>2, <3>3, <3>4, <3>5, EntryKept
  <2>17. DataInv'
    BY <2>2, <2>16 DEF DataInv
  <2>18. FileInv' /\ PushInv' /\ AnswersInOrder'
    BY <1>1, <2>7, AnswersKept
  <2>. QED
    BY <2>8, <2>9, <2>10, <2>11, <2>12, <2>13, <2>17, <2>18 DEF Core
<1>. QED
  BY <1>3, <1>4

-----------------------------------------------------------------------------
(* The steps that change the queue: the request thread.                    *)

\* The steps that change entries where they are, and the answers.
LEMMA InPlaceCore ==
  ASSUME IInv, Core,
         UNCHANGED <<script, phase, file, fed, told, session, worker, socket, app, runs>>,
         push' = push \/ push'.peer = Nobody,
         Len(requestQueue') = Len(requestQueue),
         \A k \in 1 .. Len(requestQueue) :
           LET e == requestQueue[k]
           IN /\ requestQueue'[k].connID = e.connID /\ requestQueue'[k].remote = e.remote
              /\ e.data = << >> /\ ~ e.handshake /\ ~ e.ready => requestQueue'[k] = e,
         \A p \in Peers : Untold(p) => Own(p)' = {} /\ handled'[p] = << >>,
         \A p \in Peers : 1 \in Own(p) => 1 \in Own(p)',
         \A k \in 1 .. Len(requestQueue) : Entered(k)',
         AnswersInOrder'
  PROVE  Core'
<1>1. Onward
  BY DEF Onward
<1>2. NewInv'
  <2>1. \A p \in Peers : Untold(p) => Untold(p)'
    BY ServerAssumption DEF Untold
  <2>2. ASSUME NEW c \in Indices, worker'[c].pc = "init"
        PROVE  worker[c].pc = "init" /\ Client(c)' = Client(c)
    BY <2>2 DEF Client
  <2>. QED
    BY <1>1, <2>1, <2>2, NewKept
<1>3. Apart' /\ Owned' /\ Listed'
  <2>1. Apart'
    BY DEF Core, Apart
  <2>2. Owned'
    BY DEF Core, Owned
  <2>3. Listed'
    BY DEF Core, Listed, Freed
  <2>. QED
    BY <2>1, <2>2, <2>3
<1>4. Fresh' /\ Started'
  BY DEF Core, Fresh, Started, Serving
<1>5. TellInv'
  <2>1. ASSUME NEW k \in 1 .. Len(requestQueue)
        PROVE  LET e == requestQueue'[k]
                   pc == worker[e.connID].pc
               IN /\ told[e.remote] = "disconnected" <=> pc = "remove"
                  /\ told[e.remote] = "nothing" =>
                       pc = "greet" /\ e.data = << >> /\ ~ e.handshake /\ ~ e.ready
    <3>1. PICK e, f : e = requestQueue[k] /\ f = requestQueue'[k]
      OBVIOUS
    <3>2. /\ f.connID = e.connID /\ f.remote = e.remote
          /\ e.data = << >> /\ ~ e.handshake /\ ~ e.ready => f = e
      BY <3>1
    <3>3. /\ told[e.remote] = "disconnected" <=> worker[e.connID].pc = "remove"
          /\ told[e.remote] = "nothing" =>
               worker[e.connID].pc = "greet" /\ e.data = << >> /\ ~ e.handshake /\ ~ e.ready
      BY <3>1 DEF Core, TellInv
    <3>. QED
      BY <3>1, <3>2, <3>3
  <2>. QED
    BY <2>1 DEF TellInv
<1>6. ChunkInv'
  BY ChunksKept
<1>7. DataInv'
  BY DEF DataInv
<1>8. FileInv'
  BY DEF Core, FileInv, OnFile
<1>9. PushInv'
  <2>1. ASSUME push.peer # Nobody, push' = push
        PROVE  PushInv'
    <3>1. PICK p \in Peers : push.peer = p
      BY <2>1, Types DEF IInv, LifeTypes
    <3>2. /\ phase[p] # "new" /\ push.file \in {None, file[p]}
          /\ phase[p] = "open" => 1 \in Own(p)
      BY <2>1, <3>1 DEF Core, PushInv
    <3>3. phase'[p] = "open" => 1 \in Own(p)'
      BY <3>2
    <3>. QED
      BY <3>1, <3>2, <3>3 DEF PushInv
  <2>. QED
    BY <2>1 DEF PushInv
<1>. QED
  BY <1>2, <1>3, <1>4, <1>5, <1>6, <1>7, <1>8, <1>9 DEF Core

\* The messages that the parser takes are the next ones of the client.
LEMMA ParsedEntry ==
  ASSUME IInv, NEW e \in EntryType, NEW put \in Nat, NEW m \in Nat,
         Carried(e, put, m), put <= Len(Stream(e.remote))
  PROVE  \E m1 \in Nat :
           /\ Carried(Checked(e), put, m1)
           /\ e.handshake => m1 - Len(Checked(e).list) = m - Len(e.list)
<1>. DEFINE n == Parsed(e.data, Frames)
            M == [k \in 1 .. n |-> Message(e.data, k)]
            c == Checked(e)
            s == Stream(e.remote)
<1>1. /\ e.remote \in Peers /\ e.data \in Seq(Unit) /\ Len(e.data) \in Nat
      /\ e.handshake \in BOOLEAN /\ e.ready \in BOOLEAN
      /\ Parts \in Nat \ {0}
  BY EntryFields, LenProperties, ServerAssumption
<1>2. /\ s \in Seq(Unit) /\ Len(s) \in Nat /\ put <= Len(s)
      /\ \A j \in 1 .. Len(s) :
           s[j] = [peer |-> e.remote, msg |-> (j - 1) \div Parts + 1,
                   part |-> ((j - 1) % Parts) + 1]
  BY <1>1, StreamFacts, Types DEF IInv
<1>3. /\ c \in EntryType /\ c.remote = e.remote /\ c.handshake = e.handshake
      /\ \/ c = e
         \/ /\ ~ e.ready /\ ~ e.handshake
            /\ Parts \in 1 .. Len(e.data)
            /\ c.data = SubSeq(e.data, Parts + 1, Len(e.data))
            /\ c.list = e.list
            /\ c.ready
         \/ /\ ~ e.ready /\ e.handshake
            /\ n \in Nat \ {0} /\ n * Parts \in 1 .. Len(e.data)
            /\ c.data = SubSeq(e.data, n * Parts + 1, Len(e.data))
            /\ M \in Seq(MessageRef)
            /\ Len(M) = n
            /\ c.list = e.list \o M
            /\ c.ready
  BY CheckedFacts
<1>4. PICK a \in Nat : a = m * Parts
  BY <1>1, Multiples
<1>5. put = a + Len(e.data) /\ e.data = SubSeq(s, a + 1, put)
  BY <1>4 DEF Carried
<1>6. ASSUME NEW d \in Nat, d <= Len(e.data)
      PROVE  /\ put = (a + d) + Len(SubSeq(e.data, d + 1, Len(e.data)))
             /\ SubSeq(e.data, d + 1, Len(e.data)) = SubSeq(s, a + d + 1, put)
  <2>. DEFINE L == Len(e.data)
              x == Len(SubSeq(e.data, d + 1, Len(e.data)))
  <2>1. x = L - d
    <3>1. d \in 0 .. Len(e.data)
      BY <1>1, <1>6
    <3>. QED
      BY <1>1, <3>1, RestOfData
  <2>2. L \in Nat /\ put = a + L /\ d <= L
    BY <1>1, <1>5, <1>6
  <2>3. put = (a + d) + x
    <3>. HIDE DEF L, x
    <3>. QED
      BY <2>1, <2>2
  <2>4. PICK b \in Nat : b = a + d
    OBVIOUS
  <2>5. a <= b /\ b <= put /\ b - a + 1 = d + 1 /\ put - a = L
    <3>. HIDE DEF L
    <3>. QED
      BY <2>2, <2>4
  <2>6. SubSeq(SubSeq(s, a + 1, put), b - a + 1, put - a) = SubSeq(s, b + 1, put)
    <3>. HIDE DEF s
    <3>. QED
      BY <1>2, <2>5, RestOfSubSeq
  <2>7. SubSeq(e.data, d + 1, L) = SubSeq(s, b + 1, put)
    <3>. HIDE DEF s, L
    <3>. QED
      BY <1>5, <2>5, <2>6
  <2>. QED
    BY <2>3, <2>4, <2>7
<1>. HIDE DEF s
<1>7. CASE c = e
  BY <1>7
<1>8. CASE /\ ~ e.ready /\ ~ e.handshake
           /\ Parts \in 1 .. Len(e.data)
           /\ c.data = SubSeq(e.data, Parts + 1, Len(e.data))
           /\ c.list = e.list
           /\ c.ready
  <2>. HIDE DEF c
  <2>1. m = 0 /\ e.list = << >> /\ a = 0
    BY <1>1, <1>4, <1>8 DEF Carried
  <2>2. /\ put = (a + Parts) + Len(c.data)
        /\ c.data = SubSeq(s, a + Parts + 1, put)
    <3>1. PICK d \in Nat : d = Parts /\ d <= Len(e.data)
      BY <1>1, <1>8
    <3>2. /\ put = (a + d) + Len(SubSeq(e.data, d + 1, Len(e.data)))
          /\ SubSeq(e.data, d + 1, Len(e.data)) = SubSeq(s, a + d + 1, put)
      BY <1>6, <3>1
    <3>3. c.data = SubSeq(e.data, d + 1, Len(e.data))
      BY <1>8, <3>1
    <3>. QED
      BY <3>1, <3>2, <3>3
  <2>3. 1 * Parts = a + Parts
    BY <1>1, <2>1
  <2>4. Carried(c, put, 1)
    <3>1. Len(c.list) <= 1 /\ \A j \in 1 .. Len(c.list) : FALSE
      BY <1>8, <2>1
    <3>. QED
      BY <1>3, <1>8, <2>1, <2>2, <2>3, <3>1 DEF Carried, s
  <2>. QED
    BY <1>8, <2>4 DEF c
<1>9. CASE /\ ~ e.ready /\ e.handshake
           /\ n \in Nat \ {0} /\ n * Parts \in 1 .. Len(e.data)
           /\ c.data = SubSeq(e.data, n * Parts + 1, Len(e.data))
           /\ M \in Seq(MessageRef)
           /\ Len(M) = n
           /\ c.list = e.list \o M
           /\ c.ready
  <2>. HIDE DEF c, n, M
  <2>1. e.list = << >> /\ m >= 1
    BY <1>9 DEF Carried
  <2>2. c.list = M
    <3>1. << >> \o M = M
      BY <1>9, ConcatEmptySeq
    <3>. QED
      BY <1>9, <2>1, <3>1
  <2>3. PICK d \in Nat : d = n * Parts /\ d <= Len(e.data)
    BY <1>1, <1>9, Multiples
  <2>4. /\ put = (a + d) + Len(c.data)
        /\ c.data = SubSeq(s, a + d + 1, put)
    BY <1>6, <1>9, <2>3
  <2>5. (m + n) * Parts = a + d
    BY <1>1, <1>4, <1>9, <2>3, Multiples
  <2>6. ASSUME NEW k \in 1 .. n
        PROVE  M[k] = [peer |-> e.remote, msg |-> m + k]
    <3>1. PICK h \in Nat : h = k * Parts
      BY <1>1, <1>9, Multiples
    <3>2. h <= d
      BY <1>1, <1>9, <2>3, <3>1, Multiples
    <3>3. h >= 1
      <4>1. k - 1 \in Nat /\ k - 1 + 1 = k
        BY <1>9
      <4>2. (k - 1 + 1) * Parts >= 1
        BY <1>1, <4>1, Multiples
      <4>. QED
        BY <3>1, <4>1, <4>2
    <3>4. e.data[h] = s[a + h] /\ a + h \in 1 .. Len(s)
      <4>1. h \in 1 .. Len(e.data) /\ a + 1 + h - 1 = a + h
        BY <1>1, <2>3, <3>2, <3>3
      <4>. DEFINE L == Len(e.data)
      <4>2. L \in Nat /\ put = a + L
        BY <1>1, <1>5
      <4>3. h \in 1 .. L /\ a + h \in 1 .. Len(s) /\ put - (a + 1) + 1 = L
        <5>. HIDE DEF L
        <5>1. h \in 1 .. L
          BY <4>1 DEF L
        <5>. QED
          BY <1>2, <4>2, <5>1
      <4>4. \A j \in a + 1 .. put : s[j] \in Unit
        <5>1. \A j \in a + 1 .. put : j \in 1 .. Len(s)
          BY <1>2
        <5>. QED
          BY <1>2, <5>1, ElementOfSeq
      <4>5. \A j \in 1 .. put - (a + 1) + 1 : SubSeq(s, a + 1, put)[j] = s[a + 1 + j - 1]
        BY <1>2, <4>4, SubSeqProperties
      <4>6. SubSeq(s, a + 1, put)[h] = s[a + 1 + h - 1]
        <5>. HIDE DEF L
        <5>. QED
          BY <4>3, <4>5
      <4>. QED
        BY <1>5, <4>1, <4>3, <4>6
    <3>5. (a + h - 1) \div Parts + 1 = m + k
      <4>1. PICK q \in Nat : q = m + k - 1
        BY <1>9, <2>1
      <4>2. q + 1 = m + k /\ (m + k) * Parts = a + h
        BY <1>1, <1>4, <1>9, <3>1, <4>1, Multiples
      <4>3. ((q + 1) * Parts - 1) \div Parts + 1 = q + 1
        BY <1>1, Multiples
      <4>. QED
        BY <4>2, <4>3
    <3>6. s[a + h] = [peer |-> e.remote, msg |-> (a + h - 1) \div Parts + 1,
                      part |-> ((a + h - 1) % Parts) + 1]
      BY <1>2, <3>4
    <3>7. e.data[k * Parts].peer = e.remote /\ e.data[k * Parts].msg = m + k
      BY <3>1, <3>4, <3>5, <3>6
    <3>. QED
      BY <3>7 DEF M, Message
  <2>7. PICK m1 \in Nat : m1 = m + n
    BY <1>9
  <2>8. Carried(c, put, m1)
    <3>1. Len(c.list) = n /\ n <= m1 /\ m1 - n = m /\ m1 - n >= 1 /\ c.list # << >>
      <4>1. Len(c.list) = n /\ n \in Nat \ {0}
        BY <1>9, <2>2
      <4>2. c.list # << >>
        BY <4>1
      <4>. QED
        BY <2>1, <2>7, <4>1, <4>2
    <3>2. \A j \in 1 .. n : c.list[j] = [peer |-> c.remote, msg |-> m1 - n + j]
      BY <1>3, <2>2, <2>6, <3>1
    <3>3. put = m1 * Parts + Len(c.data) /\ c.data = SubSeq(s, m1 * Parts + 1, put)
      BY <2>4, <2>5, <2>7
    <3>4. c.handshake /\ c.ready
      BY <1>3, <1>9
    <3>. QED
      BY <1>3, <3>1, <3>2, <3>3, <3>4 DEF Carried, s
  <2>9. m1 - Len(c.list) = m - Len(e.list)
    <3>1. Len(c.list) = n /\ Len(e.list) = 0
      BY <1>9, <2>1, <2>2
    <3>. QED
      BY <1>9, <2>7, <3>1
  <2>. QED
    BY <2>8, <2>9 DEF c
<1>. QED
  BY <1>3, <1>7, <1>8, <1>9

\* The entry of a connection has a place in its client's data.
LEMMA EntryPut ==
  ASSUME IInv, Core, NEW k \in 1 .. Len(requestQueue), requestQueue[k].connID # Stray
  PROVE  \E e \in EntryType, c \in Slots, p \in Peers : \E put \in Nat, m \in Nat :
           /\ requestQueue[k] = e /\ e.connID = c /\ e.remote = p
           /\ put = fed[p] - Put(c) /\ put <= Len(Stream(p))
           /\ Carried(e, put, m) /\ Accounted(e, m, Replying(k))
<1>1. PICK e \in EntryType, c \in Slots, p \in Peers :
        requestQueue[k] = e /\ e.connID = c /\ e.remote = p
  BY Types, QueueFacts, States DEF IInv
<1>2. fed[p] \in Nat /\ fed[p] <= Len(Stream(p)) /\ Len(Stream(p)) \in Nat
  BY StreamFacts, Types DEF IInv, ClientTypes
<1>3. Put(c) \in Nat
  BY States, Types, LenProperties DEF IInv, SocketTypes, Put
<1>4. PICK m \in Nat : Carried(e, fed[p] - Put(c), m) /\ Accounted(e, m, Replying(k))
  <2>1. Entered(k)
    BY DEF Core, DataInv
  <2>. QED
    BY <1>1, <2>1 DEF Entered, EntryInv
<1>5. fed[p] - Put(c) \in Nat
  <2>1. m * Parts \in Nat /\ Len(e.data) \in Nat
    BY ServerAssumption, EntryFields, LenProperties
  <2>2. fed[p] - Put(c) = m * Parts + Len(e.data)
    BY <1>4 DEF Carried
  <2>. QED
    BY <2>1, <2>2
<1>6. fed[p] - Put(c) <= Len(Stream(p))
  <2>. DEFINE L == Len(Stream(p))
  <2>. HIDE DEF L
  <2>1. fed[p] \in Nat /\ fed[p] <= L /\ L \in Nat
    BY <1>2 DEF L
  <2>2. fed[p] - Put(c) <= L
    BY <1>3, <2>1
  <2>. QED
    BY <2>2 DEF L
<1>. QED
  BY <1>1, <1>4, <1>5, <1>6

\* The parser takes nothing from an entry without data, and finds no frame
\* in an entry that is not upgraded.
LEMMA Unparsed ==
  ASSUME NEW e \in EntryType
  PROVE  /\ e.data = << >> => Checked(e) = e
         /\ ~ e.handshake => Checked(e).list = e.list
<1>. DEFINE n == Parsed(e.data, Frames)
<1>1. /\ Len(e.data) \in Nat /\ Parts \in Nat \ {0}
      /\ e.data = << >> => Len(e.data) = 0
  BY ServerAssumption, EntryFields, LenProperties
<1>2. \/ Checked(e) = e
      \/ /\ ~ e.handshake /\ Parts \in 1 .. Len(e.data)
         /\ Checked(e).list = e.list
      \/ e.handshake /\ n * Parts \in 1 .. Len(e.data)
  BY CheckedFacts
<1>. HIDE DEF n
<1>3. CASE /\ ~ e.handshake /\ Parts \in 1 .. Len(e.data)
           /\ Checked(e).list = e.list
  BY <1>1, <1>3
<1>4. CASE e.handshake /\ n * Parts \in 1 .. Len(e.data)
  <2>1. Len(e.data) # 0
    <3>1. PICK d : d = n * Parts
      OBVIOUS
    <3>. QED
      BY <1>1, <1>4, <3>1
  <2>. QED
    BY <1>1, <1>4, <2>1
<1>. QED
  BY <1>2, <1>3, <1>4

\* The parser keeps every entry's account.
LEMMA ReqParseCore ==
  ASSUME IInv, Core, ReqParse
  PROVE  Core'
<1>0. QueueTypes /\ Len(requestQueue) \in Nat /\ ReqTypes
  BY Types, QueueFacts DEF IInv
<1>1. /\ UNCHANGED <<script, phase, file, fed, got, handled, told, session, worker, socket, app,
                     push, runs>>
      /\ req.pc = "parse"
  BY DEF ReqParse, clientVars, socketVars, lifeVars, userVars
<1>2. req'.pc # "reply"
  <2>1. req' = [pc |-> "serve", pos |-> 1] \/ req' = [req EXCEPT !.pc = "check"]
    BY DEF ReqParse
  <2>2. CASE req' = [req EXCEPT !.pc = "check"]
    BY <1>0, <2>2, ReqMoves
  <2>. QED
    BY <2>1, <2>2
<1>3. /\ Len(requestQueue') = Len(requestQueue)
      /\ \A k \in 1 .. Len(requestQueue) : requestQueue'[k] = Checked(requestQueue[k])
  BY <1>0, ParseQueue
<1>4. \A k : Replying(k)' = 0 /\ Replying(k) = 0
  BY <1>1, <1>2 DEF Replying
<1>5. \A c : Put(c)' = Put(c)
  BY <1>1 DEF Put
<1>6. \A q : Own(q)' = Own(q)
  BY <1>1, OwnSame
<1>7. ASSUME NEW k \in 1 .. Len(requestQueue)
      PROVE  LET e == requestQueue[k]
             IN /\ requestQueue'[k].connID = e.connID /\ requestQueue'[k].remote = e.remote
                /\ e.data = << >> /\ ~ e.handshake /\ ~ e.ready => requestQueue'[k] = e
  <2>1. PICK e \in EntryType : e = requestQueue[k]
    BY <1>0, QueueFacts
  <2>2. Checked(e).connID = e.connID /\ Checked(e).remote = e.remote
        /\ (e.data = << >> => Checked(e) = e)
    BY <2>1, CheckedFacts, Unparsed
  <2>. QED
    BY <1>3, <2>1, <2>2
<1>8. ASSUME NEW k \in 1 .. Len(requestQueue)
      PROVE  Entered(k)'
  <2>1. CASE requestQueue[k].connID = Stray
    <3>1. Entered(k)
      BY DEF Core, DataInv
    <3>2. PICK e \in EntryType : e = requestQueue[k] /\ e.connID = Stray
      BY <1>0, <2>1, QueueFacts
    <3>3. ~ e.handshake /\ e.list = << >>
      BY <3>1, <3>2 DEF Entered
    <3>4. PICK f : f = Checked(e)
      OBVIOUS
    <3>5. ~ f.handshake /\ f.list = << >> /\ f.connID = Stray
      BY <3>2, <3>3, <3>4, CheckedFacts, Unparsed
    <3>6. requestQueue'[k] = f
      BY <1>3, <3>2, <3>4
    <3>. QED
      BY <3>5, <3>6 DEF Entered
  <2>2. CASE requestQueue[k].connID # Stray
    <3>1. PICK e \in EntryType, c \in Slots, p \in Peers : \E put \in Nat, m \in Nat :
             /\ requestQueue[k] = e /\ e.connID = c /\ e.remote = p
             /\ put = fed[p] - Put(c) /\ put <= Len(Stream(p))
             /\ Carried(e, put, m) /\ Accounted(e, m, Replying(k))
      BY <2>2, EntryPut
    <3>2. PICK put \in Nat, m \in Nat :
             /\ requestQueue[k] = e /\ e.connID = c /\ e.remote = p
             /\ put = fed[p] - Put(c) /\ put <= Len(Stream(p))
             /\ Carried(e, put, m) /\ Accounted(e, m, Replying(k))
      BY <3>1
    <3>3. PICK m1 \in Nat :
             /\ Carried(Checked(e), put, m1)
             /\ e.handshake => m1 - Len(Checked(e).list) = m - Len(e.list)
      BY <3>2, ParsedEntry
    <3>4. PICK f \in EntryType : f = Checked(e) /\ f.connID = c /\ f.remote = p
                                 /\ f.handshake = e.handshake
      BY <3>2, CheckedFacts
    <3>5. Accounted(f, m1, 0)'
      <4>1. CASE f.handshake
        <5>1. m1 - Len(f.list) = m - Len(e.list)
          BY <3>3, <3>4, <4>1
        <5>. QED
          BY <1>1, <1>4, <1>6, <3>2, <3>4, <4>1, <5>1 DEF Accounted
      <4>2. CASE ~ f.handshake
        <5>1. Own(p) = {} /\ handled[p] = << >> /\ push.peer # p
          BY <3>2, <3>4, <4>2 DEF Accounted
        <5>2. Own(p)' = {} /\ handled'[p] = << >> /\ push'.peer # p
          BY <1>1, <1>6, <5>1
        <5>. QED
          BY <3>4, <4>2, <5>2 DEF Accounted
      <4>. QED
        BY <4>1, <4>2
    <3>6. requestQueue'[k] = f /\ Replying(k)' = 0 /\ fed'[p] - Put(c)' = put /\ c # Stray
      BY <1>1, <1>3, <1>4, <1>5, <3>2, <3>4, States
    <3>. QED
      BY <1>1, <3>3, <3>4, <3>5, <3>6, EntryBuilt
  <2>. QED
    BY <2>1, <2>2
<1>9. AnswersInOrder'
  BY <1>1 DEF Core, AnswersInOrder
<1>10. \A p \in Peers : Untold(p) => Own(p)' = {} /\ handled'[p] = << >>
  BY <1>1, <1>6 DEF Untold
<1>. QED
  BY <1>1, <1>3, <1>6, <1>7, <1>8, <1>9, <1>10, InPlaceCore

-----------------------------------------------------------------------------
(* The steps that answer.                                                  *)

\* A step about one entry and its client.
LEMMA OneEntryCore ==
  ASSUME IInv, Core,
         UNCHANGED <<script, phase, file, fed, told, session, worker, socket, app, push, runs>>,
         NEW k0 \in 1 .. Len(requestQueue), NEW p, requestQueue[k0].remote = p,
         requestQueue[k0].handshake \/ requestQueue[k0].ready,
         Len(requestQueue') = Len(requestQueue),
         \A k \in 1 .. Len(requestQueue) : k # k0 => requestQueue'[k] = requestQueue[k],
         requestQueue'[k0].connID = requestQueue[k0].connID,
         requestQueue'[k0].remote = p,
         \A q \in Peers : q # p => Own(q)' = Own(q) /\ handled'[q] = handled[q],
         1 \in Own(p) => 1 \in Own(p)',
         \A k : k # k0 => Replying(k)' = Replying(k),
         Entered(k0)',
         AnswersInOrder'
  PROVE  Core'
<1>1. \A q \in Peers : Untold(q) => Own(q)' = {} /\ handled'[q] = << >>
  BY DEF Untold
<1>2. \A c : Put(c)' = Put(c)
  BY DEF Put
<1>3. ASSUME NEW k \in 1 .. Len(requestQueue)
      PROVE  Entered(k)'
  <2>1. CASE k = k0
    BY <2>1
  <2>2. CASE k # k0
    <3>1. Entered(k)
      BY DEF Core, DataInv
    <3>2. PICK c \in Indices, q \in Peers :
            requestQueue[k].connID = c /\ requestQueue[k].remote = q
      BY Types, QueueFacts DEF IInv
    <3>3. q # p
      BY <2>2, <3>2 DEF Core, Apart
    <3>4. requestQueue'[k] = requestQueue[k] /\ Put(c)' = Put(c) /\ Replying(k)' = Replying(k)
          /\ Own(q)' = Own(q) /\ handled'[q] = handled[q]
      BY <1>2, <2>2, <3>2, <3>3
    <3>. QED
      BY <3>1, <3>2, <3>4, EntryKept
  <2>. QED
    BY <2>1, <2>2
<1>4. \A q \in Peers : 1 \in Own(q) => 1 \in Own(q)'
  OBVIOUS
<1>5. \A k \in 1 .. Len(requestQueue) :
        LET e == requestQueue[k]
        IN /\ requestQueue'[k].connID = e.connID /\ requestQueue'[k].remote = e.remote
           /\ e.data = << >> /\ ~ e.handshake /\ ~ e.ready => requestQueue'[k] = e
  OBVIOUS
<1>. QED
  BY <1>1, <1>3, <1>4, <1>5, InPlaceCore

\* The numbers of the answers.
LEMMA OwnNumbers ==
  ASSUME IInv, NEW p \in Peers
  PROVE  /\ Own(p) \subseteq Nat
         /\ \A j \in 1 .. Len(got[p]) : got[p][j] \in Answer
<1>1. ASSUME NEW y \in Answer
      PROVE  y.msg \in Nat
  <2>1. PICK n : n = y.msg /\ (n \in MessageNumbers \/ n = 0)
    BY DEF Answer
  <2>2. MessageNumbers \subseteq Nat /\ 0 \in Nat
    BY Numbers
  <2>3. n \in Nat
    BY Zenon, <2>1, <2>2
  <2>. QED
    BY Zenon, <2>1, <2>3
<1>2. got[p] \in Seq(Answer)
  BY Types DEF IInv, ClientTypes
<1>3. \A j \in 1 .. Len(got[p]) : got[p][j] \in Answer
  BY <1>2, ElementOfSeq
<1>. QED
  BY <1>1, <1>3 DEF Own

\* One more answer is one number more if it is meant for the client.
LEMMA OwnAppend ==
  ASSUME IInv, NEW q \in Peers, NEW x \in Answer, got'[q] = Append(got[q], x)
  PROVE  Own(q)' = Own(q) \cup (IF x.peer = q THEN {x.msg} ELSE {})
<1>1. got[q] \in Seq(Answer)
  BY Types DEF IInv, ClientTypes
<1>2. PICK n \in Nat : n = Len(got[q])
  BY <1>1, LenProperties
<1>3. /\ Len(got'[q]) = n + 1
      /\ \A k \in 1 .. n : got'[q][k] = got[q][k]
      /\ got'[q][n + 1] = x
  BY <1>1, <1>2, AppendProperties
<1>. DEFINE old == {l \in 1 .. n : got[q][l].peer = q}
            new == {l \in 1 .. n + 1 : got'[q][l].peer = q}
<1>4. new = old \cup (IF x.peer = q THEN {n + 1} ELSE {})
  <2>1. \A l \in 1 .. n + 1 : l \in 1 .. n \/ l = n + 1
    OBVIOUS
  <2>2. 1 .. n \subseteq 1 .. n + 1 /\ n + 1 \in 1 .. n + 1
    OBVIOUS
  <2>. QED
    BY <1>3, <2>1, <2>2
<1>5. Own(q)' = {got'[q][j].msg : j \in new}
  BY <1>3 DEF Own
<1>6. Own(q) = {got[q][j].msg : j \in old}
  BY <1>2 DEF Own
<1>7. \A j \in old : got'[q][j].msg = got[q][j].msg
  BY <1>3
<1>. HIDE DEF old, new
<1>8. {got'[q][j].msg : j \in old} = {got[q][j].msg : j \in old}
  BY <1>7
<1>9. CASE x.peer = q
  <2>1. {got'[q][j].msg : j \in new} = {got'[q][j].msg : j \in old} \cup {got'[q][n + 1].msg}
    BY <1>4, <1>9
  <2>. QED
    BY <1>3, <1>5, <1>6, <1>8, <1>9, <2>1
<1>10. CASE x.peer # q
  BY <1>4, <1>5, <1>6, <1>8, <1>10
<1>. QED
  BY <1>9, <1>10

\* Nobody is connected without a descriptor.
LEMMA OnNone ==
  ASSUME Core
  PROVE  OnFile(None) = {}
BY DEF Core, FileInv, OnFile

\* What a Send of x for client p does to the answers.
Delivers(p, x, sent) ==
  /\ AnswersInOrder'
  /\ \A q \in Peers : q # p => Own(q)' = Own(q)
  /\ Own(p) \subseteq Own(p)' /\ Own(p)' \subseteq Own(p) \cup {x.msg}
  /\ sent = TRUE /\ phase[p] = "open" => x.msg \in Own(p)'
  /\ sent = FALSE => got' = got

\* An answer that is meant for a client of whom the server has read the
\* descriptor f: it reaches that client, or one after it, or nobody.
LEMMA Sent ==
  ASSUME IInv, Core, NEW p \in Peers, NEW x \in Answer, x.peer = p, phase[p] # "new",
         NEW f \in {None, file[p]}, NEW sent \in BOOLEAN, Send(f, x, sent),
         UNCHANGED phase,
         x.msg # 0 => \A b \in Own(p) : b < x.msg,
         phase[p] = "open" => x.msg = 1 \/ 1 \in Own(p)
  PROVE  Delivers(p, x, sent)
<1>. USE DEF Delivers
<1>. DEFINE there == {q \in OnFile(f) : phase[q] = "open"}
<1>0. /\ got \in [Peers -> Seq(Answer)]
      /\ phase \in [Peers -> {"new", "open", "closed", "shut", "cut"}]
  BY Types DEF IInv, ClientTypes
<1>1. /\ got' = [q \in Peers |-> IF q \in there THEN Append(got[q], x) ELSE got[q]]
      /\ sent = FALSE => there = {}
  BY DEF Send
<1>2. ASSUME NEW q \in there, q # p
      PROVE  phase[p] \in {"shut", "cut"}
  <2>1. q \in Peers /\ phase[q] = "open" /\ file[q] = f /\ q \in OnFile(f)
    BY <1>2 DEF OnFile
  <2>2. f = file[p]
    BY <2>1 DEF Core, FileInv
  <2>3. ~ (p \in OnFile(file[q]))
    BY <1>2, <2>1, <2>2 DEF Core, FileInv
  <2>. QED
    BY <1>0, <2>1, <2>2, <2>3 DEF OnFile
<1>3. p \in there <=> phase[p] = "open" /\ f = file[p]
  BY DEF OnFile
<1>4. \A q \in Peers : got'[q] = IF q \in there THEN Append(got[q], x) ELSE got[q]
  BY <1>1
<1>5. \A q \in Peers : q \in there => phase[q] = "open"
  OBVIOUS
<1>. HIDE DEF there
<1>6. ASSUME NEW q \in Peers
      PROVE  Own(q)' = Own(q) \cup (IF q \in there /\ q = p THEN {x.msg} ELSE {})
  <2>1. CASE q \in there
    BY <1>4, <2>1, OwnAppend
  <2>2. CASE q \notin there
    BY <1>4, <2>2, OwnSame
  <2>. QED
    BY <2>1, <2>2
<1>7. sent = FALSE => got' = got
  <2>1. got = [q \in Peers |-> got[q]]
    BY <1>0
  <2>. QED
    BY <1>1, <2>1
<1>8. sent = TRUE /\ phase[p] = "open" => x.msg \in Own(p)'
  <2>1. sent = TRUE => f # None
    BY OnNone DEF Send
  <2>. QED
    BY <1>3, <1>6, <2>1
<1>9. AnswersInOrder'
  <2>1. ASSUME NEW q \in Peers, NEW j \in 1 .. Len(got'[q])
        PROVE  LET y == got'[q][j] IN
               IF y.peer = q
               THEN /\ \E k \in 1 .. j : got'[q][k] = [peer |-> q, msg |-> 1]
                    /\ \A k \in 1 .. j - 1 :
                         got'[q][k].peer = q /\ y.msg # 0 => got'[q][k].msg < y.msg
               ELSE phase[y.peer] \in {"shut", "cut"}
    <3>1. PICK n \in Nat : n = Len(got[q])
      BY <1>0, LenProperties
    <3>2. ASSUME NEW l \in 1 .. n
          PROVE  LET y == got[q][l] IN
                 IF y.peer = q
                 THEN /\ \E k \in 1 .. l : got[q][k] = [peer |-> q, msg |-> 1]
                      /\ \A k \in 1 .. l - 1 :
                           got[q][k].peer = q /\ y.msg # 0 => got[q][k].msg < y.msg
                 ELSE phase[y.peer] \in {"shut", "cut"}
      BY <3>1 DEF Core, AnswersInOrder
    <3>3. CASE q \notin there
      BY <1>4, <3>1, <3>2, <3>3
    <3>4. CASE q \in there
      <4>1. /\ Len(got'[q]) = n + 1
            /\ \A k \in 1 .. n : got'[q][k] = got[q][k]
            /\ got'[q][n + 1] = x
        <5>1. got[q] \in Seq(Answer) /\ got'[q] = Append(got[q], x)
          BY <1>0, <1>4, <3>4
        <5>. QED
          BY <3>1, <5>1, AppendProperties
      <4>2. CASE j \in 1 .. n
        <5>1. got'[q][j] = got[q][j] /\ \A k \in 1 .. j : got'[q][k] = got[q][k]
          BY <4>1, <4>2
        <5>2. \A k \in 1 .. j - 1 : got'[q][k] = got[q][k]
          BY <4>1, <4>2
        <5>. QED
          BY <3>2, <4>2, <5>1, <5>2
      <4>3. CASE j = n + 1 /\ q # p
        BY <1>2, <3>4, <4>1, <4>3
      <4>4. CASE j = n + 1 /\ q = p
        <5>1. ASSUME x.msg = 1
              PROVE  x = [peer |-> p, msg |-> 1]
          BY <5>1 DEF Answer
        <5>2. ASSUME 1 \in Own(p)
              PROVE  \E k \in 1 .. n : got[p][k] = [peer |-> p, msg |-> 1]
          <6>1. PICK k \in 1 .. n : got[p][k].peer = p /\ got[p][k].msg = 1
            BY <3>1, <4>4, <5>2 DEF Own
          <6>2. got[p][k] \in Answer
            BY <3>1, <4>4, OwnNumbers
          <6>3. got[p][k] = [peer |-> p, msg |-> 1]
            BY <6>1, <6>2 DEF Answer
          <6>. QED
            BY <6>3
        <5>3. \E k \in 1 .. n + 1 : got'[p][k] = [peer |-> p, msg |-> 1]
          <6>1. CASE x.msg = 1
            BY <4>1, <4>4, <5>1, <6>1
          <6>2. CASE 1 \in Own(p)
            BY <4>1, <4>4, <5>2, <6>2
          <6>. QED
            BY <1>5, <3>4, <4>4, <6>1, <6>2
        <5>4. ASSUME NEW k \in 1 .. n, got[p][k].peer = p, x.msg # 0
              PROVE  got[p][k].msg < x.msg
          BY <3>1, <4>4, <5>4 DEF Own
        <5>. QED
          BY <4>1, <4>4, <5>3, <5>4
      <4>. QED
        BY <4>1, <4>2, <4>3, <4>4
    <3>. QED
      BY <3>3, <3>4
  <2>. QED
    BY <2>1 DEF AnswersInOrder
<1>. QED
  BY <1>6, <1>7, <1>8, <1>9

\* The descriptor of the connection of an entry is that of its client.
LEMMA FdOf ==
  ASSUME IInv, Core, NEW k \in 1 .. Len(requestQueue)
  PROVE  /\ requestQueue[k].connID = Stray => Fd(requestQueue[k].connID) = None
         /\ Fd(requestQueue[k].connID) \in {None, file[requestQueue[k].remote]}
<1>1. PICK c \in Indices, p \in Peers :
        requestQueue[k].connID = c /\ requestQueue[k].remote = p
  BY Types, QueueFacts DEF IInv
<1>2. CASE c = Stray
  BY <1>1, <1>2, States DEF Fd
<1>3. CASE c # Stray
  <2>1. session[c] \in {p, Nobody}
    BY <1>1, <1>3 DEF Core, Owned
  <2>. QED
    BY <1>1, <1>3, <2>1 DEF Fd
<1>. QED
  BY <1>2, <1>3

\* The response to the upgrade request is the first answer.  Nobody gets one
\* with the index -1, so nobody is upgraded then.
LEMMA ServeRequestCore ==
  ASSUME IInv, Core, ServeRequest
  PROVE  Core'
<1>0. QueueTypes /\ Len(requestQueue) \in Nat /\ ReqTypes /\ ClientTypes
  BY Types, QueueFacts DEF IInv
<1>1. /\ UNCHANGED <<script, phase, file, fed, handled, told, session, worker, socket, app, push,
                     runs>>
      /\ req.pc = "serve" /\ Entry.ready /\ ~ Entry.handshake
      /\ NextEntry
  BY DEF ServeRequest, socketVars, lifeVars, userVars
<1>2. req'.pc = "serve"
  BY <1>0, <1>1, ReqMoves, Zenon DEF NextEntry
<1>3. PICK k0 \in 1 .. Len(requestQueue) : k0 = req.pos
  BY <1>0, ServeRequestQueue
<1>4. PICK e \in EntryType, c \in Indices, p \in Peers :
        requestQueue[k0] = e /\ e.connID = c /\ e.remote = p
  BY <1>0, QueueFacts
<1>5. Entry = e /\ e.ready /\ ~ e.handshake
  BY <1>1, <1>3, <1>4 DEF Entry
<1>6. PICK x \in Answer : x = [peer |-> p, msg |-> 1]
  <2>1. 1 \in MessageNumbers
    BY <1>4, <1>5 DEF IInv, ReqInv
  <2>. QED
    BY <2>1 DEF Answer
<1>7. PICK f : f = Fd(c)
  OBVIOUS
<1>8. PICK sent \in BOOLEAN :
        /\ Send(f, x, sent)
        /\ requestQueue' = IF sent
                            THEN [requestQueue EXCEPT ![k0].handshake = TRUE,
                                                      ![k0].ready = FALSE]
                            ELSE requestQueue
  BY <1>3, <1>4, <1>5, <1>6, <1>7 DEF ServeRequest, Write
<1>9. f \in {None, file[p]} /\ (c = Stray => f = None)
  BY <1>4, <1>7, FdOf
<1>10. /\ \A k : Replying(k)' = 0 /\ Replying(k) = 0
       /\ phase[p] # "new"
  BY <1>1, <1>2, <1>4, EntryMet DEF Replying
<1>11. CASE c = Stray
  <2>1. sent = FALSE
    BY <1>8, <1>9, <1>11, OnNone DEF Send
  <2>2. got' = got
    <3>1. OnFile(f) = {}
      BY <1>9, <1>11, OnNone
    <3>2. got' = [q \in Peers |-> got[q]]
      BY <1>8, <3>1 DEF Send
    <3>. QED
      BY <1>0, <3>2 DEF ClientTypes
  <2>3. requestQueue' = requestQueue
    BY <1>8, <2>1
  <2>4. Onward
    BY <1>1 DEF Onward
  <2>. QED
    BY <1>1, <1>2, <2>2, <2>3, <2>4, QuietCore
<1>12. CASE c # Stray
  <2>1. PICK put \in Nat, m \in Nat :
          /\ put = fed[p] - Put(c)
          /\ Carried(e, put, m) /\ Accounted(e, m, Replying(k0))
    BY <1>4, <1>12, EntryPut
  <2>2. /\ Own(p) = {} /\ handled[p] = << >> /\ push.peer # p
        /\ e.list = << >> /\ m = 1
    BY <1>4, <1>5, <2>1 DEF Carried, Accounted
  <2>3. /\ AnswersInOrder'
        /\ \A q \in Peers : q # p => Own(q)' = Own(q)
        /\ Own(p)' \subseteq {1}
        /\ sent = TRUE /\ phase[p] = "open" => 1 \in Own(p)'
        /\ sent = FALSE => got' = got
    <3>1. x.msg = 1 /\ x.peer = p /\ \A b \in Own(p) : b < x.msg
      BY <1>6, <2>2
    <3>2. /\ phase[p] # "new" /\ UNCHANGED phase
          /\ f \in {None, file[p]} /\ Send(f, x, sent)
          /\ x.msg # 0 => \A b \in Own(p) : b < x.msg
          /\ phase[p] = "open" => x.msg = 1 \/ 1 \in Own(p)
      BY <1>1, <1>8, <1>9, <1>10, <3>1
    <3>3. Delivers(p, x, sent)
      BY Zenon, <3>1, <3>2, Sent
    <3>. QED
      BY <2>2, <3>1, <3>3 DEF Delivers
  <2>4. CASE sent = FALSE
    <3>1. Onward /\ requestQueue' = requestQueue /\ got' = got
      BY <1>1, <1>8, <2>3, <2>4 DEF Onward
    <3>. QED
      BY <1>1, <1>2, <3>1, QuietCore
  <2>5. CASE sent = TRUE
    <3>. DEFINE g == [connID |-> e.connID, remote |-> e.remote, data |-> e.data,
                      list |-> e.list, handshake |-> TRUE, ready |-> FALSE]
    <3>1. /\ Len(requestQueue') = Len(requestQueue)
          /\ \A k \in 1 .. Len(requestQueue) : k # k0 => requestQueue'[k] = requestQueue[k]
          /\ requestQueue'[k0] = [e EXCEPT !.handshake = TRUE, !.ready = FALSE]
      <4>1. /\ Len(requestQueue') = Len(requestQueue)
            /\ \A k \in 1 .. Len(requestQueue) : k # k0 => requestQueue'[k] = requestQueue[k]
        BY <1>0, <1>3, ServeRequestQueue
      <4>2. requestQueue \in [1 .. Len(requestQueue) -> EntryType]
        BY <1>0, LenProperties DEF QueueTypes
      <4>3. requestQueue' = [requestQueue EXCEPT ![k0].handshake = TRUE, ![k0].ready = FALSE]
        BY <1>8, <2>5
      <4>4. requestQueue'[k0] = [e EXCEPT !.handshake = TRUE, !.ready = FALSE]
        BY <1>4, <4>2, <4>3
      <4>. QED
        BY <4>1, <4>4
    <3>2. PICK h : h = g /\ requestQueue'[k0] = h
      <4>1. [e EXCEPT !.handshake = TRUE, !.ready = FALSE] = g
        BY EntryUpgraded, Zenon
      <4>. QED
        BY <3>1, <4>1
    <3>3. /\ h.connID = c /\ h.remote = p /\ h.data = e.data /\ h.list = << >>
          /\ h.handshake = TRUE /\ h.ready = FALSE
      BY <1>4, <2>2, <3>2
    <3>. HIDE DEF g
    <3>4. Carried(h, put, 1)
      <4>1. /\ put = 1 * Parts + Len(h.data)
            /\ h.data = SubSeq(Stream(h.remote), 1 * Parts + 1, put)
        BY <1>4, <2>1, <2>2, <3>3 DEF Carried
      <4>2. /\ Len(h.list) <= 1 /\ 1 - Len(h.list) >= 1
            /\ \A j \in 1 .. Len(h.list) : FALSE
            /\ h.ready <=> h.list # << >>
        BY <3>3
      <4>. QED
        BY <3>3, <4>1, <4>2 DEF Carried
    <3>5. Accounted(h, 1, 0)'
      <4>1. phase'[p] = "open" => 1 \in Own(p)'
        BY <1>1, <2>3, <2>5
      <4>2. Len(h.list) = 0 /\ handled'[p] = << >> /\ \A n \in Own(p)' : n <= 1
        BY <1>1, <2>2, <2>3, <3>3
      <4>. QED
        BY <3>3, <4>1, <4>2 DEF Accounted
    <3>6. fed'[p] - Put(c)' = put /\ Replying(k0)' = 0
      BY <1>1, <1>10, <2>1 DEF Put
    <3>7. Entered(k0)'
      BY <1>1, <1>12, <3>2, <3>3, <3>4, <3>5, <3>6, EntryBuilt
    <3>8. /\ requestQueue'[k0].connID = requestQueue[k0].connID
          /\ requestQueue'[k0].remote = p /\ requestQueue[k0].remote = p
          /\ requestQueue[k0].handshake \/ requestQueue[k0].ready
      BY <1>4, <1>5, <3>2, <3>3
    <3>9. /\ \A q \in Peers : q # p => Own(q)' = Own(q) /\ handled'[q] = handled[q]
          /\ \A k : k # k0 => Replying(k)' = Replying(k)
          /\ 1 \in Own(p) => 1 \in Own(p)'
      BY <1>1, <1>10, <2>2, <2>3
    <3>. QED
      BY <1>1, <2>3, <3>1, <3>7, <3>8, <3>9, OneEntryCore
  <2>. QED
    BY <2>4, <2>5
<1>. QED
  BY <1>11, <1>12

\* An entry without the oldest message of its list.
Shortened(e) ==
  [connID |-> e.connID, remote |-> e.remote, data |-> e.data, list |-> Tail(e.list),
   handshake |-> e.handshake, ready |-> Len(e.list) > 1]

\* The message that is dealt with is the oldest in the list; the entry has
\* one less after it.
LEMMA DispatchedEntry ==
  ASSUME IInv, NEW e \in EntryType, NEW p, e.remote = p, NEW put, NEW m \in Nat,
         req.pos \in 1 .. Len(requestQueue), Entry = e, e.handshake = TRUE, e.list # << >>,
         Carried(e, put, m), Dispatched
  PROVE  /\ Len(requestQueue') = Len(requestQueue)
         /\ \A k \in 1 .. Len(requestQueue) :
              k # req.pos => requestQueue'[k] = requestQueue[k]
         /\ req'.pc = "serve"
         /\ Len(e.list) \in Nat \ {0} /\ Len(e.list) <= m
         /\ requestQueue'[req.pos] = Shortened(e)
         /\ Shortened(e) \in EntryType
         /\ Shortened(e).connID = e.connID /\ Shortened(e).remote = p
         /\ Shortened(e).handshake = TRUE
         /\ Len(Shortened(e).list) = Len(e.list) - 1
         /\ Carried(Shortened(e), put, m)
<1>. DEFINE L == Len(e.list)
            f == Shortened(e)
<1>0. QueueTypes /\ ReqTypes
  BY Types DEF IInv
<1>1. /\ requestQueue' \in Seq(EntryType)
      /\ Len(requestQueue') = Len(requestQueue)
      /\ \A k \in 1 .. Len(requestQueue) :
           k # req.pos => requestQueue'[k] = requestQueue[k]
      /\ L \in Nat \ {0}
      /\ Tail(e.list) \in Seq(MessageRef)
      /\ Len(Tail(e.list)) = L - 1
      /\ \A n \in 1 .. L - 1 : Tail(e.list)[n] = e.list[n + 1]
      /\ requestQueue'[req.pos] = f
  BY <1>0, DispatchedQueue DEF Shortened
<1>2. req'.pc = "serve"
  <2>1. req' = [req EXCEPT !.pc = "serve", !.pos = @ + 1] \/ req' = [req EXCEPT !.pc = "serve"]
    BY DEF Dispatched, NextEntry
  <2>2. CASE req' = [req EXCEPT !.pc = "serve", !.pos = @ + 1]
    BY <1>0, <2>2, ReqMoves, Zenon
  <2>3. CASE req' = [req EXCEPT !.pc = "serve"]
    BY <1>0, <2>3, ReqMoves
  <2>. QED
    BY <2>1, <2>2, <2>3
<1>3. PICK f1 : f1 = f
  OBVIOUS
<1>4. /\ f1.connID = e.connID /\ f1.remote = p /\ f1.data = e.data /\ f1.list = Tail(e.list)
      /\ f1.handshake = e.handshake /\ f1.ready = (L > 1)
  BY <1>3 DEF Shortened
<1>. HIDE DEF f
<1>5. f1 \in EntryType /\ requestQueue'[req.pos] = f1
  <2>1. requestQueue'[req.pos] \in EntryType
    BY <1>1, ElementOfSeq
  <2>. QED
    BY <1>1, <1>3, <2>1
<1>6. f1.handshake = TRUE
  BY <1>5, <1>4 DEF EntryType
<1>7. /\ put = m * Parts + Len(e.data)
      /\ e.data = SubSeq(Stream(p), m * Parts + 1, put)
      /\ L <= m
      /\ \A n \in 1 .. L : e.list[n] = [peer |-> p, msg |-> m - L + n]
      /\ m - L >= 1
  BY DEF Carried
<1>8. Carried(f1, put, m)
  <2>1. Len(f1.list) = L - 1 /\ L - 1 <= m /\ m - (L - 1) >= 1
    <3>. HIDE DEF L
    <3>. QED
      BY <1>1, <1>4, <1>7
  <2>2. ASSUME NEW n \in 1 .. L - 1
        PROVE  f1.list[n] = [peer |-> f1.remote, msg |-> m - (L - 1) + n]
    <3>1. n + 1 \in 1 .. L /\ m - L + (n + 1) = m - (L - 1) + n
      <4>. HIDE DEF L
      <4>. QED
        BY <1>1
    <3>2. f1.list[n] = e.list[n + 1]
      BY <1>1, <1>4
    <3>. QED
      BY <1>4, <1>7, <3>1, <3>2
  <2>3. f1.ready <=> f1.list # << >>
    <3>1. L > 1 <=> f1.list # << >>
      <4>1. f1.list \in Seq(MessageRef) /\ Len(f1.list) = L - 1
        BY <1>1, <1>4
      <4>2. f1.list = << >> <=> Len(f1.list) = 0
        BY <4>1, EmptySeq
      <4>. HIDE DEF L
      <4>. QED
        BY <1>1, <4>1, <4>2
    <3>. QED
      BY <1>4, <3>1
  <2>. HIDE DEF L
  <2>. QED
    BY <1>4, <1>6, <1>7, <2>1, <2>2, <2>3 DEF Carried
<1>9. f1 = Shortened(e) /\ Len(f1.list) = L - 1
  BY <1>1, <1>3, <1>4 DEF f
<1>. QED
  BY <1>1, <1>2, <1>4, <1>5, <1>6, <1>7, <1>8, <1>9

\* What the request thread knows of the entry with whose message it deals.
LEMMA Dealing ==
  ASSUME IInv, Core, req.pos <= Len(requestQueue),
         Entry.ready, Entry.handshake, Entry.list # << >>
  PROVE  \E k0 \in 1 .. Len(requestQueue), m \in Nat, e \in EntryType, c \in Slots,
            p \in Peers, x \in MessageRef : \E put \in Nat :
           /\ k0 = req.pos /\ Entry = e /\ requestQueue[k0] = e
           /\ e.connID = c /\ e.remote = p /\ e.handshake /\ e.list # << >>
           /\ put = fed[p] - Put(c)
           /\ Carried(e, put, m) /\ Accounted(e, m, Replying(k0))
           /\ Head(e.list) = x /\ x = [peer |-> p, msg |-> m - Len(e.list) + 1]
           /\ Len(e.list) \in Nat \ {0} /\ Len(e.list) <= m
<1>1. PICK k0 \in 1 .. Len(requestQueue) : k0 = req.pos
  BY Types, Served DEF IInv
<1>2. requestQueue[k0].connID # Stray
  <2>1. Entered(k0)
    BY DEF Core, DataInv
  <2>2. requestQueue[k0].list # << >>
    BY <1>1 DEF Entry
  <2>. QED
    BY <2>1, <2>2 DEF Entered
<1>3. PICK e \in EntryType, c \in Slots, p \in Peers : \E put \in Nat, m \in Nat :
        /\ requestQueue[k0] = e /\ e.connID = c /\ e.remote = p
        /\ put = fed[p] - Put(c) /\ put <= Len(Stream(p))
        /\ Carried(e, put, m) /\ Accounted(e, m, Replying(k0))
  BY <1>2, EntryPut
<1>4. PICK put \in Nat, m \in Nat :
        /\ requestQueue[k0] = e /\ e.connID = c /\ e.remote = p
        /\ put = fed[p] - Put(c) /\ put <= Len(Stream(p))
        /\ Carried(e, put, m) /\ Accounted(e, m, Replying(k0))
  BY <1>3
<1>5. Entry = e /\ e.handshake /\ e.list # << >>
  BY <1>1, <1>4 DEF Entry
<1>6. e.list \in Seq(MessageRef) /\ Len(e.list) \in Nat \ {0} /\ Head(e.list) = e.list[1]
  <2>1. e.list \in Seq(MessageRef)
    BY EntryFields
  <2>. QED
    BY <1>5, <2>1, EmptySeq
<1>7. 1 \in 1 .. Len(e.list)
  BY <1>6
<1>8. PICK x \in MessageRef : Head(e.list) = x
  BY <1>6, <1>7, ElementOfSeq
<1>9. x = [peer |-> p, msg |-> m - Len(e.list) + 1] /\ Len(e.list) <= m
  BY <1>4, <1>6, <1>7, <1>8 DEF Carried
<1>. QED
  BY <1>1, <1>4, <1>5, <1>6, <1>8, <1>9

\* A message is handed to the handler of its client, or to none.
LEMMA Handed ==
  ASSUME IInv, NEW p \in Peers, NEW x \in MessageRef, NEW b \in Int, x.peer = p, x.msg <= b,
         \A j \in 1 .. Len(handled[p]) : handled[p][j] <= b,
         \/ handled' = handled
         \/ handled' = [handled EXCEPT ![x.peer] = Append(@, x.msg)]
  PROVE  /\ \A q \in Peers : q # p => handled'[q] = handled[q]
         /\ \A j \in 1 .. Len(handled'[p]) : handled'[p][j] <= b
<1>1. handled \in [Peers -> Seq(MessageNumbers)] /\ x.msg \in MessageNumbers
  BY Types DEF IInv, UserTypes, MessageRef
<1>2. CASE handled' = handled
  BY <1>2
<1>3. CASE handled' = [handled EXCEPT ![x.peer] = Append(@, x.msg)]
  <2>1. /\ \A q \in Peers : q # p => handled'[q] = handled[q]
        /\ handled'[p] = Append(handled[p], x.msg)
    BY <1>1, <1>3
  <2>2. handled[p] \in Seq(MessageNumbers)
    BY <1>1
  <2>3. PICK s \in Seq(MessageNumbers), y \in MessageNumbers : s = handled[p] /\ y = x.msg
    BY <1>1, <2>2
  <2>4. \A j \in 1 .. Len(Append(s, y)) :
           Append(s, y)[j] = y \/ \E k \in 1 .. Len(s) : Append(s, y)[j] = s[k]
    BY Appended
  <2>5. \A j \in 1 .. Len(Append(s, y)) : Append(s, y)[j] <= b
    BY <2>3, <2>4
  <2>. QED
    BY <2>1, <2>3, <2>5
<1>. QED
  BY <1>2, <1>3

\* What is at most d is less than d + 1.
LEMMA AtMostNext ==
  ASSUME NEW n \in Nat, NEW d \in Int, NEW b \in Int, b = d + 1, n <= d \/ n <= d + 0
  PROVE  n <= b /\ n < b
OBVIOUS

\* A message is handed over, and is dealt with or still to be replied to.
LEMMA ServeMessageCore ==
  ASSUME IInv, Core, ServeMessage
  PROVE  Core'
<1>1. /\ UNCHANGED <<script, phase, file, fed, got, told, session, worker, socket, app, push,
                     runs>>
      /\ req.pc = "serve" /\ req.pos <= Len(requestQueue)
      /\ Entry.ready /\ Entry.handshake /\ Entry.list # << >>
  BY DEF ServeMessage, clientVars, socketVars, lifeVars
<1>2. PICK k0 \in 1 .. Len(requestQueue), m \in Nat, e \in EntryType, c \in Slots,
           p \in Peers, x \in MessageRef : \E put \in Nat :
        /\ k0 = req.pos /\ Entry = e /\ requestQueue[k0] = e
        /\ e.connID = c /\ e.remote = p /\ e.handshake /\ e.list # << >>
        /\ put = fed[p] - Put(c)
        /\ Carried(e, put, m) /\ Accounted(e, m, Replying(k0))
        /\ Head(e.list) = x /\ x = [peer |-> p, msg |-> m - Len(e.list) + 1]
        /\ Len(e.list) \in Nat \ {0} /\ Len(e.list) <= m
  BY <1>1, Dealing
<1>3. PICK put \in Nat : put = fed[p] - Put(c) /\ Carried(e, put, m)
  BY <1>2
<1>4. /\ \/ handled' = handled
         \/ handled' = [handled EXCEPT ![x.peer] = Append(@, x.msg)]
      /\ \/ req' = [req EXCEPT !.pc = "reply"] /\ UNCHANGED requestQueue
         \/ Dispatched
  BY <1>2 DEF ServeMessage
<1>5. PICK d \in Int, b \in Int : d = m - Len(e.list) /\ b = d + 1
  <2>1. PICK n \in Nat : n = Len(e.list)
    BY <1>2
  <2>2. m - n \in Int /\ m - n + 1 \in Int
    BY <2>1
  <2>. QED
    BY <2>1, <2>2
<1>6. x.peer = p /\ x.msg = b
  BY <1>2, <1>5
<1>7. /\ phase[p] = "open" => 1 \in Own(p)
      /\ \A n \in Own(p) : n <= d
      /\ \A j \in 1 .. Len(handled[p]) : handled[p][j] <= d + 0
  <2>1. Replying(k0) = 0
    BY <1>1 DEF Replying
  <2>2. Accounted(e, m, 0)
    BY <1>2, <2>1
  <2>. QED
    BY <1>2, <1>5, <2>2 DEF Accounted
<1>8. \A j \in 1 .. Len(handled[p]) : handled[p][j] <= b
  <2>1. handled[p] \in Seq(MessageNumbers)
    BY Types DEF IInv, UserTypes
  <2>2. \A j \in 1 .. Len(handled[p]) : handled[p][j] \in Nat
    BY <2>1, Numbers, ElementOfSeq
  <2>3. ASSUME NEW j \in 1 .. Len(handled[p])
        PROVE  handled[p][j] <= b
    <3>1. PICK h \in Nat : h = handled[p][j] /\ h <= d + 0
      BY <1>7, <2>2
    <3>2. h <= b
      BY <1>5, <3>1, AtMostNext
    <3>. QED
      BY <3>1, <3>2
  <2>. QED
    BY <2>3
<1>9. /\ \A q \in Peers : q # p => handled'[q] = handled[q]
      /\ \A j \in 1 .. Len(handled'[p]) : handled'[p][j] <= b
  <2>1. x.msg <= b
    BY <1>6
  <2>. QED
    BY Zenon, <1>4, <1>6, <1>8, <2>1, Handed
<1>10. AnswersInOrder'
  BY <1>1 DEF Core, AnswersInOrder
<1>11. fed'[p] - Put(c)' = put
  BY <1>1, <1>3 DEF Put
<1>12. \A q : Own(q)' = Own(q)
  BY <1>1, OwnSame
<1>13. phase'[p] = "open" => 1 \in Own(p)'
  BY <1>1, <1>7, <1>12
<1>14. c # Stray
  BY States
<1>15. CASE req' = [req EXCEPT !.pc = "reply"] /\ UNCHANGED requestQueue
  <2>1. req'.pc = "reply" /\ req'.pos = k0
    BY <1>2, <1>15, ReqMoves, Types DEF IInv
  <2>2. Replying(k0)' = 1 /\ \A k : k # k0 => Replying(k)' = 0 /\ Replying(k) = 0
    BY <1>1, <1>2, <2>1 DEF Replying
  <2>3. Accounted(e, m, 1)'
    <3>1. m - Len(e.list) = d /\ m - Len(e.list) + 1 = b
      BY <1>5
    <3>. QED
      BY <1>2, <1>7, <1>9, <1>12, <1>13, <3>1 DEF Accounted
  <2>4. requestQueue'[k0] = e
    BY <1>2, <1>15
  <2>5. Entered(k0)'
    BY <1>1, <1>2, <1>3, <1>11, <1>14, <2>2, <2>3, <2>4, EntryBuilt
  <2>6. /\ requestQueue[k0].remote = p /\ requestQueue'[k0].remote = p
        /\ requestQueue'[k0].connID = requestQueue[k0].connID
        /\ requestQueue[k0].handshake
        /\ Len(requestQueue') = Len(requestQueue)
        /\ \A k \in 1 .. Len(requestQueue) : k # k0 => requestQueue'[k] = requestQueue[k]
    BY <1>2, <1>15
  <2>7. /\ \A q \in Peers : q # p => Own(q)' = Own(q) /\ handled'[q] = handled[q]
        /\ \A k : k # k0 => Replying(k)' = Replying(k)
        /\ 1 \in Own(p) => 1 \in Own(p)'
    BY <1>9, <1>12, <2>2
  <2>. QED
    BY <1>1, <1>10, <2>5, <2>6, <2>7, OneEntryCore
<1>16. CASE Dispatched
  <2>1. /\ req.pos \in 1 .. Len(requestQueue) /\ e.handshake = TRUE /\ e.list # << >>
        /\ e.remote = p /\ Entry = e /\ Carried(e, put, m)
    BY <1>2, <1>3, EntryFields
  <2>2. /\ Len(requestQueue') = Len(requestQueue)
        /\ \A k \in 1 .. Len(requestQueue) : k # k0 => requestQueue'[k] = requestQueue[k]
        /\ req'.pc = "serve"
    BY <1>2, <1>16, <2>1, DispatchedEntry
  <2>3. PICK f \in EntryType :
              /\ requestQueue'[k0] = f
              /\ f.connID = c /\ f.remote = p /\ f.handshake = TRUE
              /\ Len(f.list) = Len(e.list) - 1
              /\ Carried(f, put, m)
    <3>1. /\ requestQueue'[req.pos] = Shortened(e)
          /\ Shortened(e) \in EntryType
          /\ Shortened(e).connID = e.connID /\ Shortened(e).remote = p
          /\ Shortened(e).handshake = TRUE
          /\ Len(Shortened(e).list) = Len(e.list) - 1
          /\ Carried(Shortened(e), put, m)
      BY <1>16, <2>1, DispatchedEntry
    <3>2. PICK f \in EntryType : f = Shortened(e)
      BY <3>1
    <3>. QED
      BY <1>2, <3>1, <3>2
  <2>4. \A k : Replying(k)' = 0 /\ Replying(k) = 0
    BY <1>1, <2>2 DEF Replying
  <2>5. m - Len(f.list) = b /\ m - Len(f.list) + 0 = b
    BY <1>2, <1>5, <2>3
  <2>6. \A n \in Own(p) : n <= b
    <3>1. \A n \in Own(p) : n \in Nat
      BY OwnNumbers
    <3>. QED
      BY Zenon, <1>5, <1>7, <3>1, AtMostNext
  <2>7. Accounted(f, m, 0)'
    BY <1>9, <1>12, <1>13, <2>3, <2>5, <2>6 DEF Accounted
  <2>8. Entered(k0)'
    BY <1>1, <1>11, <1>14, <2>3, <2>4, <2>7, EntryBuilt
  <2>9. /\ requestQueue[k0].remote = p /\ requestQueue'[k0].remote = p
        /\ requestQueue'[k0].connID = requestQueue[k0].connID
        /\ requestQueue[k0].handshake
    BY <1>2, <2>3
  <2>10. /\ \A q \in Peers : q # p => Own(q)' = Own(q) /\ handled'[q] = handled[q]
         /\ \A k : k # k0 => Replying(k)' = Replying(k)
         /\ 1 \in Own(p) => 1 \in Own(p)'
    BY <1>9, <1>12, <2>4
  <2>. QED
    BY <1>1, <1>10, <2>2, <2>8, <2>9, <2>10, OneEntryCore
<1>. QED
  BY <1>4, <1>15, <1>16

\* The message that was replied to leaves the list.
LEMMA ReplyCore ==
  ASSUME IInv, Core, Reply
  PROVE  Core'
<1>1. /\ UNCHANGED <<script, phase, file, fed, handled, told, session, worker, socket, app, push,
                     runs>>
      /\ req.pc = "reply" /\ req.pos <= Len(requestQueue)
      /\ Entry.ready /\ Entry.handshake /\ Entry.list # << >>
      /\ Dispatched
  BY DEF Reply, socketVars, lifeVars, userVars, IInv, ReqInv
<1>2. PICK k0 \in 1 .. Len(requestQueue), m \in Nat, e \in EntryType, c \in Slots,
           p \in Peers, x \in MessageRef : \E put \in Nat :
        /\ k0 = req.pos /\ Entry = e /\ requestQueue[k0] = e
        /\ e.connID = c /\ e.remote = p /\ e.handshake /\ e.list # << >>
        /\ put = fed[p] - Put(c)
        /\ Carried(e, put, m) /\ Accounted(e, m, Replying(k0))
        /\ Head(e.list) = x /\ x = [peer |-> p, msg |-> m - Len(e.list) + 1]
        /\ Len(e.list) \in Nat \ {0} /\ Len(e.list) <= m
  BY <1>1, Dealing
<1>3. PICK put \in Nat : put = fed[p] - Put(c) /\ Carried(e, put, m)
  BY <1>2
<1>4. PICK d \in Int, b \in Int : d = m - Len(e.list) /\ b = d + 1
  <2>1. PICK n \in Nat : n = Len(e.list)
    BY <1>2
  <2>2. m - n \in Int /\ m - n + 1 \in Int
    BY <2>1
  <2>. QED
    BY <2>1, <2>2
<1>5. x \in Answer /\ x.peer = p /\ x.msg = b
  <2>1. MessageRef \subseteq Answer
    BY DEF MessageRef, Answer
  <2>2. x.peer = p /\ x.msg = b
    BY <1>2, <1>4
  <2>. QED
    BY <2>1, <2>2
<1>6. /\ phase[p] = "open" => 1 \in Own(p)
      /\ \A n \in Own(p) : n <= d
      /\ \A j \in 1 .. Len(handled[p]) : handled[p][j] <= b
  <2>1. Replying(k0) = 1
    BY <1>1, <1>2 DEF Replying
  <2>2. Accounted(e, m, 1)
    BY <1>2, <2>1
  <2>3. m - Len(e.list) + 1 = b
    BY <1>4
  <2>. QED
    BY <1>2, <1>4, <2>2, <2>3 DEF Accounted
<1>7. \A n \in Own(p) : n <= b /\ n < b
  <2>1. \A n \in Own(p) : n \in Nat
    BY OwnNumbers
  <2>. QED
    BY Zenon, <1>4, <1>6, <2>1, AtMostNext
<1>8. /\ AnswersInOrder'
      /\ \A q \in Peers : q # p => Own(q)' = Own(q)
      /\ Own(p) \subseteq Own(p)' /\ Own(p)' \subseteq Own(p) \cup {b}
  <2>1. PICK sent \in BOOLEAN : Send(Fd(c), x, sent)
    BY <1>2 DEF Reply, Write
  <2>2. PICK f \in {None, file[p]} : f = Fd(c)
    BY <1>2, FdOf
  <2>3. phase[p] # "new"
    BY <1>2, EntryMet
  <2>4. /\ x.msg # 0 => \A n \in Own(p) : n < x.msg
        /\ phase[p] = "open" => x.msg = 1 \/ 1 \in Own(p)
    BY <1>5, <1>6, <1>7
  <2>5. Send(f, x, sent) /\ UNCHANGED phase
    BY <1>1, <2>1, <2>2
  <2>6. Delivers(p, x, sent)
    BY Zenon, <1>5, <2>3, <2>4, <2>5, Sent
  <2>. QED
    BY <1>5, <2>6 DEF Delivers
<1>9. fed'[p] - Put(c)' = put /\ c # Stray
  BY <1>1, <1>3, States DEF Put
<1>10. /\ req.pos \in 1 .. Len(requestQueue) /\ e.handshake = TRUE /\ e.list # << >>
       /\ e.remote = p /\ Entry = e /\ Carried(e, put, m)
  BY <1>2, <1>3, EntryFields
<1>11. /\ Len(requestQueue') = Len(requestQueue)
       /\ \A k \in 1 .. Len(requestQueue) : k # k0 => requestQueue'[k] = requestQueue[k]
       /\ req'.pc = "serve"
  BY <1>1, <1>2, <1>10, DispatchedEntry
<1>12. PICK f \in EntryType :
              /\ requestQueue'[k0] = f
              /\ f.connID = c /\ f.remote = p /\ f.handshake = TRUE
              /\ Len(f.list) = Len(e.list) - 1
              /\ Carried(f, put, m)
  <2>1. /\ requestQueue'[req.pos] = Shortened(e)
        /\ Shortened(e) \in EntryType
        /\ Shortened(e).connID = e.connID /\ Shortened(e).remote = p
        /\ Shortened(e).handshake = TRUE
        /\ Len(Shortened(e).list) = Len(e.list) - 1
        /\ Carried(Shortened(e), put, m)
    BY <1>1, <1>10, DispatchedEntry
  <2>2. PICK f \in EntryType : f = Shortened(e)
    BY <2>1
  <2>. QED
    BY <1>2, <2>1, <2>2
<1>13. /\ Replying(k0)' = 0
       /\ \A k : k # k0 => Replying(k)' = 0 /\ Replying(k) = 0
  BY <1>1, <1>2, <1>11 DEF Replying
<1>14. m - Len(f.list) = b /\ m - Len(f.list) + 0 = b
  BY <1>2, <1>4, <1>12
<1>15. Accounted(f, m, 0)'
  <2>1. \A n \in Own(p)' : n <= b
    <3>1. \A n \in Own(p)' : n \in Own(p) \/ n = b
      BY <1>8
    <3>2. b <= b
      OBVIOUS
    <3>. QED
      BY Zenon, <1>7, <3>1, <3>2
  <2>2. phase'[p] = "open" => 1 \in Own(p)'
    BY <1>1, <1>6, <1>8
  <2>. QED
    BY <1>1, <1>6, <1>12, <1>14, <2>1, <2>2 DEF Accounted
<1>16. Entered(k0)'
  BY <1>1, <1>9, <1>12, <1>13, <1>15, EntryBuilt
<1>17. /\ requestQueue[k0].remote = p /\ requestQueue'[k0].remote = p
       /\ requestQueue'[k0].connID = requestQueue[k0].connID
       /\ requestQueue[k0].handshake
  BY <1>2, <1>12
<1>18. /\ \A q \in Peers : q # p => Own(q)' = Own(q) /\ handled'[q] = handled[q]
       /\ \A k : k # k0 => Replying(k)' = Replying(k)
       /\ 1 \in Own(p) => 1 \in Own(p)'
  BY <1>1, <1>8, <1>13
<1>. QED
  BY <1>1, <1>8, <1>11, <1>16, <1>17, <1>18, OneEntryCore

\* A response is begun with the descriptor of a client that was upgraded.
LEMMA SendResponseCore ==
  ASSUME IInv, Core, NEW i \in Slots, SendResponse(i)
  PROVE  Core'
<1>1. UNCHANGED <<script, phase, file, fed, got, handled, told, session, worker, socket, app,
                  runs, requestQueue, req>>
  BY DEF SendResponse, clientVars, socketVars, queueVars, userVars
<1>2. PICK k0 \in Entries(i) :
        /\ requestQueue[k0].handshake
        /\ push' = [file |-> Fd(i), peer |-> requestQueue[k0].remote]
  BY DEF SendResponse
<1>3. k0 \in 1 .. Len(requestQueue) /\ requestQueue[k0].connID = i /\ i # Stray
  BY <1>2, States DEF Entries
<1>4. PICK e \in EntryType, c \in Slots, p \in Peers : \E put \in Nat, m \in Nat :
        /\ requestQueue[k0] = e /\ e.connID = c /\ e.remote = p
        /\ put = fed[p] - Put(c) /\ put <= Len(Stream(p))
        /\ Carried(e, put, m) /\ Accounted(e, m, Replying(k0))
  BY <1>3, EntryPut
<1>5. PICK put \in Nat, m \in Nat :
        /\ put = fed[p] - Put(c)
        /\ Carried(e, put, m) /\ Accounted(e, m, Replying(k0))
  BY <1>4
<1>6. e.handshake /\ c = i /\ push'.peer = p /\ push'.file = Fd(c)
  BY <1>2, <1>3, <1>4
<1>7. \A q : Own(q)' = Own(q)
  BY <1>1, OwnSame
<1>8. \A k : Replying(k)' = Replying(k)
  BY <1>1 DEF Replying
<1>9. \A d : Put(d)' = Put(d)
  BY <1>1 DEF Put
<1>10. Onward
  BY <1>1 DEF Onward
<1>11. NewInv'
  <2>1. ~ Untold(p)
    BY <1>3, <1>4, EntryMet
  <2>2. \A q \in Peers : Untold(q) => Untold(q)'
    BY <1>1, <1>6, <1>7, <2>1 DEF Untold
  <2>3. ASSUME NEW d \in Indices, worker'[d].pc = "init"
        PROVE  worker[d].pc = "init" /\ Client(d)' = Client(d)
    BY <1>1, <2>3 DEF Client
  <2>. QED
    BY <1>10, <2>2, <2>3, NewKept
<1>12. Apart' /\ Owned'
  BY <1>1 DEF Core, Apart, Owned
<1>13. Listed' /\ Fresh' /\ Started'
  BY <1>1 DEF Core, Listed, Freed, Fresh, Started, Serving
<1>14. TellInv'
  BY <1>1 DEF Core, TellInv
<1>15. ChunkInv'
  BY <1>1, ChunksKept
<1>16. ASSUME NEW k \in 1 .. Len(requestQueue)
       PROVE  Entered(k)'
  <2>1. CASE k = k0
    <3>1. Accounted(e, m, Replying(k0))'
      BY <1>1, <1>4, <1>5, <1>6, <1>7, <1>8 DEF Accounted
    <3>2. PICK x : x = Replying(k0) /\ Replying(k0)' = x /\ Accounted(e, m, x)'
      BY <1>8, <3>1
    <3>3. requestQueue'[k0] = e /\ fed'[p] - Put(c)' = put
      BY <1>1, <1>4, <1>5, <1>9
    <3>. QED
      BY <1>1, <1>3, <1>4, <1>5, <1>6, <2>1, <3>2, <3>3, EntryBuilt
  <2>2. CASE k # k0
    <3>1. Entered(k)
      BY DEF Core, DataInv
    <3>2. PICK d \in Indices, q \in Peers :
            requestQueue[k].connID = d /\ requestQueue[k].remote = q
      BY Types, QueueFacts DEF IInv
    <3>3. q # p
      BY <1>3, <1>4, <2>2, <3>2 DEF Core, Apart
    <3>4. Own(q)' = Own(q) /\ Put(d)' = Put(d) /\ push'.peer # q /\ Replying(k)' = Replying(k)
      BY <1>6, <1>7, <1>8, <1>9, <3>3
    <3>. QED
      BY <1>1, <3>1, <3>2, <3>4, EntryKept
  <2>. QED
    BY <2>1, <2>2
<1>17. DataInv'
  BY <1>1, <1>16 DEF DataInv
<1>18. FileInv' /\ AnswersInOrder'
  BY <1>1 DEF Core, FileInv, OnFile, AnswersInOrder
<1>19. PushInv'
  <2>1. phase[p] # "new"
    BY <1>3, <1>4, EntryMet
  <2>2. Fd(c) \in {None, file[p]}
    BY <1>3, <1>4, FdOf
  <2>3. phase[p] = "open" => 1 \in Own(p)
    BY <1>4, <1>5, <1>6 DEF Accounted
  <2>. QED
    BY <1>1, <1>6, <1>7, <2>1, <2>2, <2>3 DEF PushInv
<1>. QED
  BY <1>11, <1>12, <1>13, <1>14, <1>15, <1>17, <1>18, <1>19 DEF Core

\* The response is sent on the descriptor that its client had: that client
\* gets it, after the answer to the upgrade request, or one after it.
LEMMA SendPushCore ==
  ASSUME IInv, Core, SendPush
  PROVE  Core'
<1>1. /\ UNCHANGED <<script, phase, file, fed, handled, told, session, worker, socket, app,
                     runs, requestQueue, req>>
      /\ push' = [file |-> None, peer |-> Nobody] /\ push.peer # Nobody
  BY DEF SendPush, socketVars, queueVars, userVars
<1>2. PICK p \in Peers : push.peer = p
  BY <1>1, Types DEF IInv, LifeTypes
<1>3. PICK x \in Answer : x = [peer |-> p, msg |-> 0]
  BY DEF Answer
<1>4. PICK sent \in BOOLEAN : Send(push.file, x, sent)
  BY <1>2, <1>3 DEF SendPush
<1>5. /\ phase[p] # "new" /\ push.file \in {None, file[p]}
      /\ phase[p] = "open" => 1 \in Own(p)
  BY <1>1, <1>2 DEF Core, PushInv
<1>6. /\ AnswersInOrder'
      /\ \A q \in Peers : q # p => Own(q)' = Own(q)
      /\ Own(p) \subseteq Own(p)' /\ Own(p)' \subseteq Own(p) \cup {0}
  <2>1. PICK f \in {None, file[p]} : f = push.file
    BY <1>5
  <2>2. x.peer = p /\ x.msg = 0
    BY <1>3
  <2>3. /\ Send(f, x, sent) /\ UNCHANGED phase /\ phase[p] # "new"
        /\ x.msg # 0 => \A b \in Own(p) : b < x.msg
        /\ phase[p] = "open" => x.msg = 1 \/ 1 \in Own(p)
    BY <1>1, <1>4, <1>5, <2>1, <2>2
  <2>4. Delivers(p, x, sent)
    BY Zenon, <2>2, <2>3, Sent
  <2>. QED
    BY <2>2, <2>4 DEF Delivers
<1>7. \A k : Replying(k)' = Replying(k)
  BY <1>1 DEF Replying
<1>8. \A d : Put(d)' = Put(d)
  BY <1>1 DEF Put
<1>9. ASSUME NEW k \in 1 .. Len(requestQueue)
      PROVE  Entered(k)'
  <2>0. Entered(k)
    BY DEF Core, DataInv
  <2>1. PICK d \in Indices, q \in Peers :
          requestQueue[k].connID = d /\ requestQueue[k].remote = q
    BY Types, QueueFacts DEF IInv
  <2>2. push'.peer # q
    BY <1>1, ServerAssumption
  <2>3. CASE q # p
    <3>1. Own(q)' = Own(q) /\ Put(d)' = Put(d) /\ Replying(k)' = Replying(k)
      BY <1>6, <1>7, <1>8, <2>3
    <3>. QED
      BY <1>1, <2>0, <2>1, <2>2, <3>1, EntryKept
  <2>4. CASE d = Stray
    BY <1>1, <2>0, <2>1, <2>4 DEF Entered
  <2>5. CASE q = p /\ d # Stray
    <3>1. PICK e \in EntryType, c \in Slots, p1 \in Peers : \E put \in Nat, m \in Nat :
            /\ requestQueue[k] = e /\ e.connID = c /\ e.remote = p1
            /\ put = fed[p1] - Put(c) /\ put <= Len(Stream(p1))
            /\ Carried(e, put, m) /\ Accounted(e, m, Replying(k))
      BY <2>1, <2>5, EntryPut
    <3>2. PICK put \in Nat, m \in Nat :
            /\ put = fed[p] - Put(c)
            /\ Carried(e, put, m) /\ Accounted(e, m, Replying(k))
      BY <2>1, <2>5, <3>1
    <3>3. e.remote = p /\ e.handshake
      BY <1>2, <2>1, <2>5, <3>1, <3>2 DEF Accounted
    <3>4. 0 <= m - Len(e.list)
      <4>1. Len(e.list) \in Nat /\ Len(e.list) <= m
        BY <3>2, EntryFields, LenProperties DEF Carried
      <4>. QED
        BY <4>1
    <3>5. PICK x1 : x1 = Replying(k) /\ Accounted(e, m, x1) /\ Replying(k)' = x1
      BY <1>7, <3>2
    <3>6. Accounted(e, m, x1)'
      BY <1>1, <1>6, <3>3, <3>4, <3>5 DEF Accounted
    <3>7. requestQueue'[k] = e /\ fed'[p] - Put(c)' = put /\ e.connID = c /\ c # Stray
      BY <1>1, <1>8, <2>1, <2>5, <3>1, <3>2
    <3>. QED
      BY <1>1, <3>2, <3>3, <3>5, <3>6, <3>7, EntryBuilt
  <2>. QED
    BY <2>3, <2>4, <2>5
<1>10. \A q \in Peers : Untold(q) => Own(q)' = {} /\ handled'[q] = << >>
  <2>1. ASSUME NEW q \in Peers, Untold(q)
        PROVE  Own(q)' = {} /\ handled'[q] = << >>
    BY <1>1, <1>2, <1>6, <2>1 DEF Untold
  <2>. QED
    BY <2>1
<1>11. \A q \in Peers : 1 \in Own(q) => 1 \in Own(q)'
  BY <1>6
<1>12. push'.peer = Nobody
  BY <1>1
<1>. QED
  BY <1>1, <1>6, <1>9, <1>10, <1>11, <1>12, InPlaceCore

-----------------------------------------------------------------------------
(* The theorems.                                                           *)

LEMMA InitCore ==
  ASSUME Init
  PROVE  Core
<1>1. /\ requestQueue = << >> /\ Len(requestQueue) = 0
      /\ \A k : k \notin 1 .. Len(requestQueue)
      /\ \A p \in Peers : got[p] = << >> /\ phase[p] = "new"
      /\ push.peer = Nobody
  BY DEF Init
<1>2. NewInv
  <2>1. \A c \in Indices : worker[c].pc # "init"
    BY DEF Init
  <2>2. \A p \in Peers : Own(p) = {}
    BY <1>1 DEF Own
  <2>3. \A p \in Peers : fed[p] = 0 /\ handled[p] = << >> /\ told[p] = "nothing"
    BY DEF Init
  <2>. QED
    BY <1>1, <2>1, <2>2, <2>3, ServerAssumption DEF NewInv, Untold
<1>3. Apart /\ Owned /\ DataInv /\ TellInv /\ Fresh
  BY <1>1 DEF Apart, Owned, DataInv, TellInv, Fresh
<1>4. Listed /\ ChunkInv /\ Started
  <2>1. \A i \in Slots : session[i] = Nobody /\ worker[i].pc = "idle"
    BY States DEF Init
  <2>2. socket = "none" /\ runs = 0
    BY DEF Init
  <2>. QED
    BY <2>1, <2>2 DEF Listed, ChunkInv, Started
<1>5. FileInv /\ PushInv /\ AnswersInOrder
  BY <1>1 DEF FileInv, OnFile, PushInv, AnswersInOrder
<1>. QED
  BY <1>2, <1>3, <1>4, <1>5 DEF Core

\* A server is initialised once more or not.
LEMMA RunsGrow ==
  ASSUME IInv, Next
  PROVE  InitServer \/ runs' = runs
BY DEF Next, Hangup, Stall, Resume, Arrive, Read, Drop, End, Exhausted, Callback, SendResponse,
   SendPush, InitConnection, ConnectCallback, PutToQueue, WorkerSignal, DisconnectCallback,
   RemoveFromQueue, RequestThread, ReqSleepless, ReqCheck, ReqLook, ReqParse, ServeEnd, Skip,
   ServeRequest, ServeMessage, Reply, WaitForSignal, OnMessage, Run, CloseWait, CloseNoWait,
   WaitFor, Destroy, Closing, Cut, Reap, StopNoWait, StopSignal, StopJoin, Unwind, Rejoin,
   lifeVars

LEMMA CoreStep ==
  ASSUME IInv, Core, Next, runs' <= 1
  PROVE  Core'
<1>1. ASSUME NEW p \in Peers, Hangup(p) \/ Stall(p) \/ Resume(p) \/ Arrive(p)
      PROVE  Core'
  BY <1>1, QuietOthers, ArriveCore
<1>2. ASSUME NEW i \in Slots, Read(i) \/ Drop(i) \/ Exhausted(i) \/ End(i) \/ SendResponse(i)
      PROVE  Core'
  BY <1>2, QuietOthers, ReadCore, SendResponseCore
<1>3. ASSUME NEW c \in Indices, Callback(c)
      PROVE  Core'
  BY <1>3, QuietOthers, TellCore, InitConnectionCore, PutToQueueCore, RemoveFromQueueCore
     DEF Callback
<1>4. CASE RequestThread
  BY <1>4, QuietRequests, ReqParseCore, ServeRequestCore, ServeMessageCore, ReplyCore
     DEF RequestThread, ReqSleepless
<1>5. CASE OnMessage \/ InitServer \/ Run \/ CloseWait \/ CloseNoWait \/ WaitFor \/ Destroy
  BY <1>5, QuietOthers, InitServerCore
<1>6. CASE Closing
  BY <1>6, QuietOthers, CutCore, ReapCore DEF Closing
<1>7. CASE SendPush
  BY <1>7, SendPushCore
<1>. QED
  BY <1>1, <1>2, <1>3, <1>4, <1>5, <1>6, <1>7 DEF Next

LEMMA StreamStep ==
  ASSUME IInv, StreamInv, [Next]_vars
  PROVE  StreamInv'
<1>1. CASE Next
  <2>1. SUFFICES ASSUME runs' <= 1
                 PROVE  Core'
    BY DEF StreamInv
  <2>2. runs \in Nat /\ (runs' = runs \/ runs' = runs + 1)
    <3>1. runs \in Nat
      BY Types, ServerAssumption DEF IInv, LifeTypes
    <3>2. InitServer => runs' = runs + 1
      BY DEF InitServer
    <3>. QED
      BY <1>1, <3>1, <3>2, RunsGrow
  <2>3. runs <= 1
    BY <2>1, <2>2
  <2>. QED
    BY <1>1, <2>1, <2>3, CoreStep DEF StreamInv
<1>2. CASE UNCHANGED vars
  <2>1. SUFFICES ASSUME Core
                 PROVE  Core'
    BY <1>2 DEF StreamInv, vars, lifeVars
  <2>2. UNCHANGED <<script, file, fed, got, handled, told, requestQueue, session, phase, worker,
                    socket, app, push, runs, req>>
    BY <1>2 DEF vars, clientVars, socketVars, queueVars, lifeVars, userVars
  <2>3. Onward
    BY <2>2 DEF Onward
  <2>. QED
    BY <2>1, <2>2, <2>3, QuietCore
<1>. QED
  BY <1>1, <1>2

\* While the server has been initialised once only, every reachable state
\* satisfies the invariant: all data that was handed over for a connection is
\* in its entry, in its list or answered for, and of a connection that was
\* freed no more than an entry with the index -1 is left, which nobody serves.
THEOREM StreamInvariance == Spec => [](IInv /\ StreamInv)
<1>1. Init => StreamInv
  BY InitCore DEF StreamInv
<1>2. IInv /\ StreamInv /\ [Next]_vars => StreamInv'
  BY StreamStep
<1>. QED
  BY <1>1, <1>2, Inductive, PTL DEF Spec

\* Until the server is initialised a second time, the entry of a connection
\* in m_requestQueue holds exactly the data of its client that no parser has
\* taken, and its list the messages before that: nothing that is handed over
\* for a connection is lost, doubled, reordered or put into another client's
\* entry between DataReady and the parser, however the callbacks, those with
\* the index -1 among them, and the request thread interleave.
THEOREM NothingLostInQueue == Spec => [](runs <= 1 => QueueIsStream)
<1>1. ASSUME IInv, StreamInv, runs <= 1
      PROVE  QueueIsStream
  <2>1. SUFFICES ASSUME NEW k \in 1 .. Len(requestQueue), requestQueue[k].connID # Stray
        PROVE  LET e == requestQueue[k]
                   p == e.remote
                   put == fed[p] - IF worker[e.connID].pc = "put"
                                   THEN Len(worker[e.connID].chunk) ELSE 0
                   parsed == put - Len(e.data)
               IN /\ e.data = SubSeq(Stream(p), parsed + 1, put)
                  /\ parsed % Parts = 0
                  /\ e.list = [n \in 1 .. Len(e.list) |->
                                 [peer |-> p, msg |-> parsed \div Parts - Len(e.list) + n]]
    BY DEF QueueIsStream
  <2>2. PICK e \in EntryType, c \in Slots, p \in Peers : \E put \in Nat, m \in Nat :
          /\ requestQueue[k] = e /\ e.connID = c /\ e.remote = p
          /\ put = fed[p] - Put(c) /\ put <= Len(Stream(p))
          /\ Carried(e, put, m) /\ Accounted(e, m, Replying(k))
    BY <1>1, <2>1, EntryPut DEF StreamInv
  <2>3. PICK put \in Nat, m \in Nat :
          /\ requestQueue[k] = e /\ e.connID = c /\ e.remote = p
          /\ put = fed[p] - Put(c) /\ put <= Len(Stream(p))
          /\ Carried(e, put, m) /\ Accounted(e, m, Replying(k))
    BY <2>2
  <2>4. PICK a \in Nat : a = m * Parts
    BY ServerAssumption
  <2>5. put - Len(e.data) = a
    <3>1. Len(e.data) \in Nat
      BY EntryFields, LenProperties
    <3>2. put = a + Len(e.data)
      BY <2>3, <2>4 DEF Carried
    <3>. QED
      BY <3>1, <3>2
  <2>6. a % Parts = 0 /\ a \div Parts = m
    BY <2>4, ServerAssumption
  <2>7. e.data = SubSeq(Stream(p), a + 1, put)
    BY <2>3, <2>4 DEF Carried
  <2>8. e.list = [n \in 1 .. Len(e.list) |-> [peer |-> p, msg |-> m - Len(e.list) + n]]
    <3>1. e.list \in Seq(MessageRef)
      BY EntryFields
    <3>2. \A n \in 1 .. Len(e.list) : e.list[n] = [peer |-> p, msg |-> m - Len(e.list) + n]
      BY <2>3 DEF Carried
    <3>3. e.list \in [1 .. Len(e.list) -> MessageRef]
      BY <3>1, LenProperties
    <3>. QED
      BY <3>2, <3>3, Zenon
  <2>9. put = fed[p] - IF worker[c].pc = "put" THEN Len(worker[c].chunk) ELSE 0
    BY <2>3 DEF Put
  <2>10. PICK parsed : parsed = put - Len(e.data)
    OBVIOUS
  <2>11. /\ e.data = SubSeq(Stream(p), parsed + 1, put)
         /\ parsed % Parts = 0
         /\ e.list = [n \in 1 .. Len(e.list) |->
                        [peer |-> p, msg |-> parsed \div Parts - Len(e.list) + n]]
    BY <2>5, <2>6, <2>7, <2>8, <2>10, Zenon
  <2>. QED
    BY <2>3, <2>9, <2>10, <2>11, Zenon
<1>. QED
  BY <1>1, StreamInvariance, PTL

\* Until the server is initialised a second time, nobody is upgraded and no
\* message is handled on what is handed over with the index -1, although the
\* data of several clients may be mixed there.
THEOREM StraysStayUnserved == Spec => [](runs <= 1 => StraysUnserved)
<1>1. ASSUME IInv, StreamInv, runs <= 1
      PROVE  StraysUnserved
  <2>1. ASSUME NEW k \in Entries(Stray)
        PROVE  ~ requestQueue[k].handshake /\ requestQueue[k].list = << >>
    <3>1. k \in 1 .. Len(requestQueue) /\ requestQueue[k].connID = Stray
      BY <2>1 DEF Entries
    <3>2. Entered(k)
      BY <1>1, <3>1 DEF StreamInv, Core, DataInv
    <3>. QED
      BY <3>1, <3>2 DEF Entered
  <2>. QED
    BY <2>1 DEF StraysUnserved
<1>. QED
  BY <1>1, StreamInvariance, PTL

\* Until the server is initialised a second time, a client gets the answers
\* to its own messages at most once each and in their order, the one to its
\* upgrade request first; and an answer goes astray, on a descriptor that was
\* closed and handed out again before it was sent, only when the server has
\* dropped or cut off the client it is meant for.
THEOREM AnswersKeepOrder == Spec => [](runs <= 1 => AnswersInOrder)
<1>1. IInv /\ StreamInv => (runs <= 1 => AnswersInOrder)
  BY DEF StreamInv, Core
<1>. QED
  BY <1>1, StreamInvariance, PTL

-----------------------------------------------------------------------------
(* The server keeps what WebSocketService promises of it.                  *)

Kept == [Service!Next]_Service!vars

\* The client has an entry; it has one that counts as upgraded.
Known(p) == \E k \in 1 .. Len(requestQueue) : requestQueue[k].remote = p
Upgraded(p) ==
  \E k \in 1 .. Len(requestQueue) : requestQueue[k].remote = p /\ requestQueue[k].handshake

\* A client's stage is a matter of its entry and of what the user was told.
LEMMA StageKept ==
  ASSUME NEW p, told'[p] = told[p],
         \/ told[p] = "nothing"
         \/ (Known(p)' <=> Known(p)) /\ (Upgraded(p)' <=> Upgraded(p))
  PROVE  Stage(p)' = Stage(p)
BY DEF Stage, Known, Upgraded

\* The steps that change nothing that the user sees.
LEMMA QuietKept ==
  ASSUME \A p \in Peers : Stage(p)' = Stage(p), UNCHANGED <<told, handled>>
  PROVE  Kept
BY DEF Kept, Service!vars

\* The steps that change the stage of one client, or what the user was told.
LEMMA StageMoves ==
  ASSUME NEW p \in Peers, \A q \in Peers : q # p => Stage(q)' = Stage(q), handled' = handled,
         \/ /\ Stage(p) = "away" /\ Stage(p)' = "joined"
            /\ told' = [told EXCEPT ![p] = "connected"]
         \/ /\ Stage(p) = "joined" /\ Stage(p)' = "upgraded" /\ told' = told
         \/ /\ Stage(p)' = Stage(p) /\ told[p] = "connected"
            /\ told' = [told EXCEPT ![p] = "disconnected"]
         \/ /\ Stage(p) \in {"joined", "upgraded"} /\ Stage(p)' = "left"
            /\ told[p] = "disconnected" /\ told' = told
  PROVE  Kept
<1>1. CASE /\ Stage(p) = "away" /\ Stage(p)' = "joined"
           /\ told' = [told EXCEPT ![p] = "connected"]
  <2>1. Service!Join(p)
    BY <1>1 DEF Service!Join
  <2>. QED
    BY <2>1 DEF Kept, Service!Next
<1>2. CASE /\ Stage(p) = "joined" /\ Stage(p)' = "upgraded" /\ told' = told
  <2>1. Service!Upgrade(p)
    BY <1>2 DEF Service!Upgrade
  <2>. QED
    BY <2>1 DEF Kept, Service!Next
<1>3. CASE /\ Stage(p)' = Stage(p) /\ told[p] = "connected"
           /\ told' = [told EXCEPT ![p] = "disconnected"]
  <2>1. Service!Part(p)
    BY <1>3 DEF Service!Part
  <2>. QED
    BY <2>1 DEF Kept, Service!Next
<1>4. CASE /\ Stage(p) \in {"joined", "upgraded"} /\ Stage(p)' = "left"
           /\ told[p] = "disconnected" /\ told' = told
  <2>1. Service!Leave(p)
    BY <1>4 DEF Service!Leave
  <2>. QED
    BY <2>1 DEF Kept, Service!Next
<1>. QED
  BY <1>1, <1>2, <1>3, <1>4

\* What is done to entries in place leaves the clients' stages alone, except
\* perhaps that of the client of one entry.
LEMMA StagesInPlace ==
  ASSUME Len(requestQueue') = Len(requestQueue), NEW n,
         \A k \in 1 .. Len(requestQueue) :
           /\ requestQueue'[k].remote = requestQueue[k].remote
           /\ k # n => requestQueue'[k].handshake = requestQueue[k].handshake,
         told' = told
  PROVE  \A p : requestQueue[n].remote # p => Stage(p)' = Stage(p)
<1>1. SUFFICES ASSUME NEW p, requestQueue[n].remote # p
               PROVE  Stage(p)' = Stage(p)
  OBVIOUS
<1>2. Known(p)' <=> Known(p)
  BY DEF Known
<1>3. Upgraded(p)' <=> Upgraded(p)
  BY <1>1 DEF Upgraded
<1>. QED
  BY <1>2, <1>3, StageKept

LEMMA AllInPlace ==
  ASSUME Len(requestQueue') = Len(requestQueue), told' = told,
         \A k \in 1 .. Len(requestQueue) :
           /\ requestQueue'[k].remote = requestQueue[k].remote
           /\ requestQueue'[k].handshake = requestQueue[k].handshake
  PROVE  \A p : Stage(p)' = Stage(p)
<1>1. \A p : (Known(p)' <=> Known(p)) /\ (Upgraded(p)' <=> Upgraded(p))
  BY DEF Known, Upgraded
<1>. QED
  BY <1>1, StageKept

\* The steps that do not touch the queue or the user.
LEMMA UnseenKept ==
  ASSUME UNCHANGED <<requestQueue, told, handled>>
  PROVE  Kept
<1>1. \A q \in Peers : Stage(q)' = Stage(q)
  BY DEF Stage
<1>. QED
  BY <1>1, QuietKept

\* What the user is told about the client of the only entry of an index.
LEMMA Told ==
  ASSUME IInv, Core, NEW c \in Indices, NEW what, Tell(c, what)
  PROVE  \/ told' = told
         \/ \E k \in 1 .. Len(requestQueue), p \in Peers :
              /\ requestQueue[k].connID = c /\ requestQueue[k].remote = p
              /\ \A l \in 1 .. Len(requestQueue) : requestQueue[l].remote = p => l = k
              /\ told' = [told EXCEPT ![p] = what]
<1>0. told = [q \in Peers |-> told[q]]
  BY Types DEF IInv, UserTypes
<1>1. CASE Entries(c) = {}
  <2>1. told' = [q \in Peers |-> told[q]]
    BY <1>1 DEF Tell
  <2>. QED
    BY <1>0, <2>1
<1>2. ASSUME NEW k \in 1 .. Len(requestQueue), NEW p \in Peers,
             requestQueue[k].connID = c, requestQueue[k].remote = p, Entries(c) = {k},
             \A l \in 1 .. Len(requestQueue) :
               requestQueue[l].remote = p \/ requestQueue[l].connID = c => l = k
      PROVE  told' = [told EXCEPT ![p] = what]
  <2>1. \A q \in Peers :
          (\E l \in Entries(c) : /\ \A n \in Entries(c) : l <= n
                                 /\ requestQueue[l].remote = q) <=> q = p
    BY <1>2
  <2>2. told' = [q \in Peers |-> IF q = p THEN what ELSE told[q]]
    BY <2>1 DEF Tell
  <2>3. [told EXCEPT ![p] = what] = [q \in Peers |-> IF q = p THEN what ELSE told[q]]
    BY <1>0
  <2>. QED
    BY <2>2, <2>3
<1>. QED
  BY <1>1, <1>2, OneEntry

\* The first announcement lets a client join; its end parts it.
LEMMA TellKept ==
  ASSUME IInv, Core, NEW c \in Indices, ConnectCallback(c) \/ DisconnectCallback(c)
  PROVE  Kept
<1>0. told \in [Peers -> {"nothing", "connected", "disconnected"}]
  BY Types DEF IInv, UserTypes
<1>1. PICK what \in {"connected", "disconnected"} :
        /\ UNCHANGED <<requestQueue, handled>> /\ Tell(c, what)
        /\ worker[c].pc = IF what = "connected" THEN "greet" ELSE "bye"
  BY DEF ConnectCallback, DisconnectCallback, queueVars
<1>2. CASE told' = told
  <2>1. \A q \in Peers : Stage(q)' = Stage(q)
    BY <1>1, <1>2 DEF Stage
  <2>. QED
    BY <1>1, <1>2, <2>1, QuietKept
<1>3. ASSUME NEW k \in 1 .. Len(requestQueue), NEW p \in Peers,
             requestQueue[k].connID = c, requestQueue[k].remote = p,
             \A l \in 1 .. Len(requestQueue) : requestQueue[l].remote = p => l = k,
             told' = [told EXCEPT ![p] = what]
      PROVE  Kept
  <2>1. /\ told[p] # "disconnected"
        /\ told[p] = "nothing" => what = "connected" /\ ~ requestQueue[k].handshake
    BY <1>1, <1>3 DEF Core, TellInv
  <2>2. \A q \in Peers : q # p => Stage(q)' = Stage(q)
    BY <1>0, <1>1, <1>3 DEF Stage
  <2>3. CASE told[p] = "nothing"
    <3>1. Stage(p) = "away"
      BY <2>3 DEF Stage
    <3>2. told'[p] = "connected" /\ told' = [told EXCEPT ![p] = "connected"]
      BY <1>0, <1>3, <2>1, <2>3
    <3>3. Stage(p)' = "joined"
      BY <1>1, <1>3, <2>1, <2>3, <3>2 DEF Stage
    <3>. QED
      BY <1>1, <2>2, <3>1, <3>2, <3>3, StageMoves
  <2>4. CASE told[p] = "connected"
    <3>1. Stage(p)' = Stage(p)
      BY <1>0, <1>1, <1>3, <2>4 DEF Stage
    <3>2. CASE what = "connected"
      <4>1. told' = told
        BY <1>0, <1>3, <2>4, <3>2
      <4>2. \A q \in Peers : Stage(q)' = Stage(q)
        BY <2>2, <3>1
      <4>. QED
        BY <1>1, <4>1, <4>2, QuietKept
    <3>3. CASE what = "disconnected"
      BY <1>1, <1>3, <2>2, <2>4, <3>1, <3>3, StageMoves
    <3>. QED
      BY <3>2, <3>3
  <2>. QED
    BY <1>0, <2>1, <2>3, <2>4
<1>. QED
  BY <1>1, <1>2, <1>3, Told

\* InitConnection alone tells the user nothing.
LEMMA InitConnectionKept ==
  ASSUME IInv, Core, NEW c \in Indices, InitConnection(c)
  PROVE  Kept
<1>1. worker[c].pc = "init" /\ UNCHANGED <<told, handled>>
  BY DEF InitConnection, userVars
<1>2. PICK p \in Peers : p = Client(c) /\ Untold(p)
  BY <1>1, NoEntry
<1>3. CASE requestQueue' = requestQueue
  BY <1>1, <1>3, UnseenKept
<1>4. CASE requestQueue' # requestQueue
  <2>. DEFINE L == Len(requestQueue)
  <2>1. /\ L \in Nat /\ Len(requestQueue') = L + 1
        /\ \A k \in 1 .. L : requestQueue'[k] = requestQueue[k]
        /\ requestQueue'[L + 1] = [connID |-> c, remote |-> p, data |-> << >>, list |-> << >>,
                                   handshake |-> FALSE, ready |-> FALSE]
    BY <1>2, <1>4, InitConnectionQueue, Types, QueueFacts DEF IInv
  <2>2. requestQueue'[L + 1].remote = p
    BY <2>1
  <2>3. L + 1 \in 1 .. L + 1 /\ 1 .. L + 1 = 1 .. L \cup {L + 1}
    <3>. HIDE DEF L
    <3>. QED
      BY <2>1
  <2>4. told[p] = "nothing"
    BY <1>2 DEF Untold
  <2>. HIDE DEF L
  <2>5. ASSUME NEW q \in Peers
        PROVE  Stage(q)' = Stage(q)
    <3>1. CASE q = p
      BY <1>1, <2>4, <3>1, StageKept
    <3>2. CASE q # p
      <4>1. Known(q)' <=> Known(q)
        BY <2>1, <2>2, <2>3, <3>2 DEF Known, L
      <4>2. Upgraded(q)' <=> Upgraded(q)
        BY <2>1, <2>2, <2>3, <3>2 DEF Upgraded, L
      <4>. QED
        BY <1>1, <4>1, <4>2, StageKept
    <3>. QED
      BY <3>1, <3>2
  <2>. QED
    BY <1>1, <2>5, QuietKept
<1>. QED
  BY <1>3, <1>4

\* RemoveFromQueue lets the client leave, after the user was told so.
LEMMA RemoveFromQueueKept ==
  ASSUME IInv, Core, NEW i \in Indices, RemoveFromQueue(i)
  PROVE  Kept
<1>1. worker[i].pc = "remove" /\ UNCHANGED <<told, handled>>
  BY DEF RemoveFromQueue, userVars
<1>2. SUFFICES ASSUME Entries(i) # {}
               PROVE  Kept
  <2>1. CASE Entries(i) = {}
    BY <1>1, <2>1, UnseenKept DEF RemoveFromQueue
  <2>. QED
    BY <2>1
<1>3. PICK n \in 1 .. Len(requestQueue), p \in Peers :
        /\ requestQueue[n].connID = i /\ requestQueue[n].remote = p
        /\ Entries(i) = {n}
        /\ \A l \in 1 .. Len(requestQueue) :
             requestQueue[l].remote = p \/ requestQueue[l].connID = i => l = n
  BY <1>2, OneEntry
<1>4. told[p] = "disconnected"
  BY <1>1, <1>3 DEF Core, TellInv
<1>. DEFINE L == Len(requestQueue)
<1>5. /\ L \in Nat /\ Len(requestQueue') = L - 1
      /\ \A k \in 1 .. L - 1 :
           requestQueue'[k] = IF k < n THEN requestQueue[k] ELSE requestQueue[k + 1]
  <2>1. Entries(i) # {} /\ Min(Entries(i)) \in Entries(i)
    <3>1. Entries(i) # {}
      BY <1>3
    <3>. QED
      BY <1>3, <3>1, FirstEntry, Types DEF IInv, Entries
  <2>2. Min(Entries(i)) = n
    BY <1>3, <2>1
  <2>3. /\ Len(requestQueue') = L - 1
        /\ \A k \in 1 .. L - 1 :
             requestQueue'[k] = IF k < Min(Entries(i)) THEN requestQueue[k]
                                ELSE requestQueue[k + 1]
    BY <2>1, RemoveFromQueueQueue, Types DEF IInv
  <2>. QED
    BY <2>2, <2>3, Types, QueueFacts DEF IInv
<1>6. n \in 1 .. L
  OBVIOUS
<1>7. \A k \in 1 .. L - 1 :
        \E l \in 1 .. L : l # n /\ requestQueue'[k] = requestQueue[l]
  <2>. HIDE DEF L
  <2>1. ASSUME NEW k \in 1 .. L - 1
        PROVE  \E l \in 1 .. L : l # n /\ requestQueue'[k] = requestQueue[l]
    <3>1. CASE k < n
      <4>1. k \in 1 .. L /\ k # n /\ requestQueue'[k] = requestQueue[k]
        BY <1>5, <1>6, <3>1
      <4>. QED
        BY <4>1
    <3>2. CASE ~ (k < n)
      <4>1. k + 1 \in 1 .. L /\ k + 1 # n /\ requestQueue'[k] = requestQueue[k + 1]
        BY <1>5, <1>6, <3>2
      <4>. QED
        BY <4>1
    <3>. QED
      BY <3>1, <3>2
  <2>. QED
    BY <2>1
<1>8. \A l \in 1 .. L : l # n =>
        \E k \in 1 .. L - 1 : requestQueue'[k] = requestQueue[l]
  <2>. HIDE DEF L
  <2>1. ASSUME NEW l \in 1 .. L, l # n
        PROVE  \E k \in 1 .. L - 1 : requestQueue'[k] = requestQueue[l]
    <3>1. CASE l < n
      <4>1. l \in 1 .. L - 1 /\ requestQueue'[l] = requestQueue[l]
        BY <1>5, <1>6, <3>1
      <4>. QED
        BY <4>1
    <3>2. CASE ~ (l < n)
      <4>1. l - 1 \in 1 .. L - 1 /\ ~ (l - 1 < n) /\ (l - 1) + 1 = l
        BY <1>5, <1>6, <2>1, <3>2
      <4>2. requestQueue'[l - 1] = requestQueue[l]
        BY <1>5, <4>1
      <4>. QED
        BY <4>1, <4>2
    <3>. QED
      BY <3>1, <3>2
  <2>. QED
    BY <2>1
<1>9. \A q : q # p => (Known(q)' <=> Known(q)) /\ (Upgraded(q)' <=> Upgraded(q))
  <2>. HIDE DEF L
  <2>. QED
    <3>1. ASSUME NEW q, q # p
          PROVE  (Known(q)' <=> Known(q)) /\ (Upgraded(q)' <=> Upgraded(q))
      <4>0. requestQueue[n].remote # q /\ Len(requestQueue) = L /\ Len(requestQueue') = L - 1
        BY <1>3, <1>5, <3>1 DEF L
      <4>1. \A l \in 1 .. L : requestQueue[l].remote = q =>
              \E k \in 1 .. L - 1 : requestQueue'[k] = requestQueue[l]
        BY <1>8, <4>0
      <4>2. \A k \in 1 .. L - 1 : \E l \in 1 .. L : requestQueue'[k] = requestQueue[l]
        BY <1>7
      <4>3. Known(q)' <=> Known(q)
        <5>1. ASSUME Known(q)'
              PROVE  Known(q)
          <6>1. PICK k \in 1 .. L - 1 : requestQueue'[k].remote = q
            BY <4>0, <5>1 DEF Known
          <6>2. PICK l \in 1 .. L : requestQueue'[k] = requestQueue[l]
            BY <4>2
          <6>. QED
            BY <4>0, <6>1, <6>2 DEF Known
        <5>2. ASSUME Known(q)
              PROVE  Known(q)'
          <6>1. PICK l \in 1 .. L : requestQueue[l].remote = q
            BY <4>0, <5>2 DEF Known
          <6>2. PICK k \in 1 .. L - 1 : requestQueue'[k] = requestQueue[l]
            BY <4>1, <6>1
          <6>. QED
            BY <4>0, <6>1, <6>2 DEF Known
        <5>. QED
          BY <5>1, <5>2
      <4>4. Upgraded(q)' <=> Upgraded(q)
        <5>1. ASSUME Upgraded(q)'
              PROVE  Upgraded(q)
          <6>1. PICK k \in 1 .. L - 1 : requestQueue'[k].remote = q /\ requestQueue'[k].handshake
            BY <4>0, <5>1 DEF Upgraded
          <6>2. PICK l \in 1 .. L : requestQueue'[k] = requestQueue[l]
            BY <4>2
          <6>. QED
            BY <4>0, <6>1, <6>2 DEF Upgraded
        <5>2. ASSUME Upgraded(q)
              PROVE  Upgraded(q)'
          <6>1. PICK l \in 1 .. L : requestQueue[l].remote = q /\ requestQueue[l].handshake
            BY <4>0, <5>2 DEF Upgraded
          <6>2. PICK k \in 1 .. L - 1 : requestQueue'[k] = requestQueue[l]
            BY <4>1, <6>1
          <6>. QED
            BY <4>0, <6>1, <6>2 DEF Upgraded
        <5>. QED
          BY <5>1, <5>2
      <4>. QED
        BY <4>3, <4>4
    <3>. QED
      BY <3>1
<1>10. ~ Known(p)'
  BY <1>3, <1>5, <1>7 DEF Known
<1>11. Known(p)
  BY <1>3 DEF Known
<1>12. Stage(p) \in {"joined", "upgraded"}
  BY <1>4, <1>11 DEF Stage, Known
<1>13. Stage(p)' = "left"
  BY <1>1, <1>4, <1>10 DEF Stage, Known
<1>14. \A q \in Peers : q # p => Stage(q)' = Stage(q)
  BY <1>1, <1>9, StageKept
<1>. QED
  BY <1>1, <1>4, <1>12, <1>13, <1>14, StageMoves

\* A response that is sent upgrades the client.
LEMMA ServeRequestKept ==
  ASSUME IInv, Core, ServeRequest
  PROVE  Kept
<1>0. QueueTypes /\ ReqTypes /\ Len(requestQueue) \in Nat
  BY Types, QueueFacts DEF IInv
<1>1. UNCHANGED <<told, handled>> /\ Entry.ready /\ ~ Entry.handshake
  BY DEF ServeRequest, userVars
<1>2. PICK n \in 1 .. Len(requestQueue) : n = req.pos
  BY <1>0, ServeRequestQueue
<1>3. PICK p \in Peers : p = requestQueue[n].remote /\ ~ requestQueue[n].handshake
  BY <1>0, <1>1, <1>2, QueueFacts DEF Entry
<1>4. /\ Len(requestQueue') = Len(requestQueue)
      /\ \A k \in 1 .. Len(requestQueue) : k # n => requestQueue'[k] = requestQueue[k]
      /\ \/ requestQueue' = requestQueue
         \/ requestQueue'[n] =
              [connID |-> Entry.connID, remote |-> Entry.remote, data |-> Entry.data,
               list |-> Entry.list, handshake |-> TRUE, ready |-> FALSE]
  BY <1>0, <1>2, ServeRequestQueue
<1>5. CASE requestQueue' = requestQueue
  <2>1. \A q \in Peers : Stage(q)' = Stage(q)
    BY <1>1, <1>5 DEF Stage
  <2>. QED
    BY <1>1, <2>1, QuietKept
<1>6. CASE requestQueue'[n] =
             [connID |-> Entry.connID, remote |-> Entry.remote, data |-> Entry.data,
              list |-> Entry.list, handshake |-> TRUE, ready |-> FALSE]
  <2>1. requestQueue'[n].remote = p /\ requestQueue'[n].handshake
    BY <1>2, <1>3, <1>6 DEF Entry
  <2>2. \A k \in 1 .. Len(requestQueue) :
          /\ requestQueue'[k].remote = requestQueue[k].remote
          /\ k # n => requestQueue'[k].handshake = requestQueue[k].handshake
    BY <1>3, <1>4, <2>1
  <2>3. \A q \in Peers : q # p => Stage(q)' = Stage(q)
    BY <1>1, <1>3, <1>4, <2>2, StagesInPlace
  <2>4. \A l \in 1 .. Len(requestQueue) : requestQueue[l].remote = p => l = n
    BY <1>3 DEF Core, Apart
  <2>5. told[p] # "nothing"
    BY <1>1, <1>2, <1>3 DEF Core, TellInv, Entry
  <2>6. Stage(p) = "joined"
    BY <1>3, <2>4, <2>5 DEF Stage
  <2>7. Stage(p)' = "upgraded"
    BY <1>1, <1>4, <2>1, <2>5 DEF Stage
  <2>. QED
    BY <1>1, <2>3, <2>6, <2>7, StageMoves
<1>. QED
  BY <1>4, <1>5, <1>6

\* What the parser and the callbacks do to entries in place.
LEMMA InPlaceKept ==
  ASSUME IInv, \/ ReqParse
               \/ \E i \in Indices : PutToQueue(i)
  PROVE  Kept
<1>0. QueueTypes
  BY Types DEF IInv
<1>1. UNCHANGED <<told, handled>>
  BY DEF ReqParse, PutToQueue, userVars
<1>2. /\ Len(requestQueue') = Len(requestQueue)
      /\ \A k \in 1 .. Len(requestQueue) :
           /\ requestQueue'[k].remote = requestQueue[k].remote
           /\ requestQueue'[k].handshake = requestQueue[k].handshake
  <2>1. CASE ReqParse
    <3>1. \A e \in EntryType :
            Checked(e).remote = e.remote /\ Checked(e).handshake = e.handshake
      BY CheckedFacts
    <3>. QED
      BY <1>0, <2>1, <3>1, ParseQueue, QueueFacts
  <2>2. ASSUME NEW i \in Indices, PutToQueue(i)
        PROVE  /\ Len(requestQueue') = Len(requestQueue)
               /\ \A k \in 1 .. Len(requestQueue) :
                    /\ requestQueue'[k].remote = requestQueue[k].remote
                    /\ requestQueue'[k].handshake = requestQueue[k].handshake
    <3>1. worker[i].chunk \in Seq(Unit)
      BY Types, States DEF IInv, SocketTypes
    <3>. QED
      BY <1>0, <2>2, <3>1, PutToQueueQueue
  <2>. QED
    BY <2>1, <2>2
<1>3. \A q \in Peers : Stage(q)' = Stage(q)
  BY <1>1, <1>2, AllInPlace
<1>. QED
  BY <1>1, <1>3, QuietKept

\* When a message leaves the list its entry is still of the same client, and
\* still counts as upgraded.
LEMMA DispatchedStages ==
  ASSUME IInv, req.pos <= Len(requestQueue), Entry.list # << >>, Dispatched, told' = told
  PROVE  \A q \in Peers : Stage(q)' = Stage(q)
<1>0. QueueTypes /\ req.pos \in 1 .. Len(requestQueue)
  BY Types, Served DEF IInv
<1>1. /\ Len(requestQueue') = Len(requestQueue)
      /\ \A k \in 1 .. Len(requestQueue) : k # req.pos => requestQueue'[k] = requestQueue[k]
      /\ requestQueue'[req.pos].remote = Entry.remote
      /\ requestQueue'[req.pos].handshake = Entry.handshake
  BY <1>0, DispatchedQueue
<1>2. \A k \in 1 .. Len(requestQueue) :
        /\ requestQueue'[k].remote = requestQueue[k].remote
        /\ requestQueue'[k].handshake = requestQueue[k].handshake
  BY <1>1 DEF Entry
<1>. QED
  BY <1>1, <1>2, AllInPlace

\* The handler of an upgraded client gets a later message than before.
LEMMA ServeMessageKept ==
  ASSUME IInv, Core, ServeMessage
  PROVE  Kept
<1>1. /\ told' = told
      /\ req.pc = "serve" /\ req.pos <= Len(requestQueue)
      /\ Entry.ready /\ Entry.handshake /\ Entry.list # << >>
      /\ requestQueue' = requestQueue \/ Dispatched
  BY DEF ServeMessage
<1>2. PICK k0 \in 1 .. Len(requestQueue), m \in Nat, e \in EntryType, c \in Slots,
           p \in Peers, x \in MessageRef : \E put \in Nat :
        /\ k0 = req.pos /\ Entry = e /\ requestQueue[k0] = e
        /\ e.connID = c /\ e.remote = p /\ e.handshake /\ e.list # << >>
        /\ put = fed[p] - Put(c)
        /\ Carried(e, put, m) /\ Accounted(e, m, Replying(k0))
        /\ Head(e.list) = x /\ x = [peer |-> p, msg |-> m - Len(e.list) + 1]
        /\ Len(e.list) \in Nat \ {0} /\ Len(e.list) <= m
  BY <1>1, Dealing
<1>3. \/ handled' = handled
      \/ handled' = [handled EXCEPT ![x.peer] = Append(@, x.msg)]
  BY <1>2 DEF ServeMessage
<1>4. \A q \in Peers : Stage(q)' = Stage(q)
  <2>1. CASE requestQueue' = requestQueue
    BY <1>1, <2>1 DEF Stage
  <2>2. CASE Dispatched
    BY <1>1, <2>2, DispatchedStages
  <2>. QED
    BY <1>1, <2>1, <2>2
<1>5. CASE handled' = handled
  BY <1>1, <1>4, <1>5, QuietKept
<1>6. CASE handled' = [handled EXCEPT ![x.peer] = Append(@, x.msg)]
  <2>1. Stage(p) = "upgraded"
    <3>1. told[p] # "nothing"
      BY <1>2 DEF Core, TellInv
    <3>. QED
      BY <1>2, <3>1 DEF Stage
  <2>2. PICK y \in MessageNumbers : y = x.msg /\ x.peer = p
    <3>1. x.msg \in MessageNumbers
      BY DEF MessageRef
    <3>2. x.peer = p
      BY <1>2
    <3>. QED
      BY <3>1, <3>2
  <2>3. handled' = [handled EXCEPT ![p] = Append(@, y)]
    BY <1>6, <2>2
  <2>4. PICK d \in Int : d = m - Len(e.list) /\ d < y
    <3>. DEFINE L == Len(e.list)
    <3>1. L \in Nat /\ y = m - L + 1
      <4>1. x.msg = m - L + 1
        BY <1>2
      <4>. QED
        BY <1>2, <2>2, <4>1
    <3>. HIDE DEF L
    <3>2. m - L \in Int /\ m - L < y
      BY <3>1
    <3>. QED
      BY <3>2 DEF L
  <2>5. Replying(k0) = 0
    BY <1>1 DEF Replying
  <2>6. \A j \in 1 .. Len(handled[p]) : handled[p][j] <= d
    <3>1. \A j \in 1 .. Len(handled[p]) : handled[p][j] <= m - Len(e.list) + 0
      BY <1>2, <2>5 DEF Accounted
    <3>2. d + 0 = d
      OBVIOUS
    <3>. QED
      BY <2>4, <3>1, <3>2
  <2>7. \A j \in 1 .. Len(handled[p]) : handled[p][j] \in Nat
    <3>1. handled[p] \in Seq(MessageNumbers)
      BY Types DEF IInv, UserTypes
    <3>. QED
      BY <3>1, ElementOfSeq, Numbers
  <2>8. \A j \in 1 .. Len(handled[p]) : handled[p][j] < y
    BY <2>4, <2>6, <2>7, Numbers
  <2>9. Service!Serve(p)
    BY <1>1, <1>4, <2>1, <2>3, <2>8 DEF Service!Serve
  <2>. QED
    BY <2>9 DEF Kept, Service!Next
<1>. QED
  BY <1>3, <1>5, <1>6

LEMMA ReplyKept ==
  ASSUME IInv, Reply
  PROVE  Kept
<1>1. /\ UNCHANGED <<told, handled>> /\ Dispatched
      /\ req.pos <= Len(requestQueue) /\ Entry.list # << >>
  BY DEF Reply, userVars, IInv, ReqInv
<1>. QED
  BY <1>1, DispatchedStages, QuietKept

LEMMA NextKept ==
  ASSUME IInv, Core, Next
  PROVE  Kept
<1>1. ASSUME NEW p \in Peers, Hangup(p) \/ Stall(p) \/ Resume(p) \/ Arrive(p)
      PROVE  Kept
  BY <1>1, UnseenKept DEF Hangup, Stall, Resume, Arrive, queueVars, userVars
<1>2. ASSUME NEW i \in Slots, Read(i) \/ Drop(i) \/ Exhausted(i) \/ End(i) \/ SendResponse(i)
      PROVE  Kept
  BY <1>2, UnseenKept DEF Read, Drop, End, Exhausted, SendResponse, queueVars, userVars
<1>3. ASSUME NEW c \in Indices, Callback(c)
      PROVE  Kept
  <2>1. CASE WorkerSignal(c)
    BY <2>1, UnseenKept DEF WorkerSignal, userVars
  <2>. QED
    BY <1>3, <2>1, TellKept, InitConnectionKept, InPlaceKept, RemoveFromQueueKept DEF Callback
<1>4. CASE RequestThread
  <2>1. CASE ReqCheck \/ ReqLook \/ ServeEnd \/ Skip \/ WaitForSignal
    BY <2>1, UnseenKept
       DEF ReqCheck, ReqLook, ServeEnd, Skip, WaitForSignal, queueVars, userVars
  <2>. QED
    BY <1>4, <2>1, InPlaceKept, ServeRequestKept, ServeMessageKept, ReplyKept
       DEF RequestThread, ReqSleepless
<1>5. CASE OnMessage \/ InitServer \/ Run \/ CloseWait \/ CloseNoWait \/ WaitFor \/ Destroy
  BY <1>5, UnseenKept
     DEF OnMessage, InitServer, Run, CloseWait, CloseNoWait, WaitFor, Destroy, queueVars,
         userVars
<1>6. CASE Closing
  BY <1>6, UnseenKept
     DEF Closing, Cut, Reap, StopNoWait, StopSignal, StopJoin, Unwind, Rejoin, queueVars,
         userVars
<1>7. CASE SendPush
  BY <1>7, UnseenKept DEF SendPush, queueVars, userVars
<1>. QED
  BY <1>1, <1>2, <1>3, <1>4, <1>5, <1>6, <1>7 DEF Next

\* ImplementsService: a server that is initialised once serves every client
\* as promised: it is announced, then upgraded, then its messages reach the
\* handler in their order and at most once, its end is announced once, and
\* after the step that forgets it none is handled, although the next client
\* comes on the same connection index.
THEOREM ServerKeepsPromise == Spec /\ [](runs <= 1) => ImplementsService
<1>1. Init => Service!Init
  <2>1. SUFFICES ASSUME Init
                 PROVE  Service!Init
    OBVIOUS
  <2>2. \A p \in Peers : Stage(p) = "away"
    BY <2>1 DEF Init, Stage
  <2>. QED
    BY <2>1, <2>2 DEF Init, Service!Init
<1>2. IInv /\ StreamInv /\ runs <= 1 /\ [Next]_vars => Kept
  <2>1. SUFFICES ASSUME IInv, StreamInv, runs <= 1, [Next]_vars
                 PROVE  Kept
    OBVIOUS
  <2>2. CASE Next
    BY <2>1, <2>2, NextKept DEF StreamInv
  <2>3. CASE UNCHANGED vars
    BY <2>3, UnseenKept DEF vars, queueVars, userVars
  <2>. QED
    BY <2>1, <2>2, <2>3
<1>. QED
  BY <1>1, <1>2, StreamInvariance, PTL DEF Spec, ImplementsService, Service!Spec, Kept
=============================================================================
