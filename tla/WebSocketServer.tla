--------------------------- MODULE WebSocketServer ---------------------------
(***************************************************************************)
(* src/src/WebSocketServer.cpp: the request queue between the callbacks of *)
(* ServerSocket, which come on one thread per connection, and the request  *)
(* thread, which parses what has arrived and calls the user's handlers;    *)
(* and the thread that initialises, runs, closes and destroys the server.  *)
(*                                                                         *)
(* What a client sends is a script of messages, each cut into Parts units  *)
(* of data; the first message is meant to be the upgrade request.  A       *)
(* "stuck" message is one no parser accepts: a frame without payload, with *)
(* FIN = 0 or over the size limits, or a malformed request.  An "other"    *)
(* message is a frame that is parsed and ignored.                          *)
(*                                                                         *)
(* m_queueMutex is held by the request thread exactly while it serves; all *)
(* other critical sections are single steps.  ServerSocket is reduced to   *)
(* its descriptors, its shutdown and the order of its callbacks            *)
(* (SessionEvents): what it has read and not handed over yet is no state   *)
(* of its own, any next part of a client's data may be handed over next.   *)
(* At a shutdown the worker of a connection that was freed may take one    *)
(* more task; it has the index -1 then (Stray).                            *)
(***************************************************************************)
EXTENDS Integers, SequencesExt

CONSTANTS
  ClientCount,   \* connections the socket server has
  Peers, Nobody, \* the clients, each of which connects at most once
  Scripts,       \* the message sequences a client may send
  Parts,         \* bound: units of data a message is cut into
  MaxRuns,       \* bound: calls of Init
  MaxPushes,     \* bound: calls of SendResponse
  Leavers,       \* bound: the clients that hang up
  Stallers,      \* bound: the clients that stop reading for a time
  Endings,       \* how the server may end: "exhausted", "wait", "nowait", "destroy"
  MayRegister    \* is the route registered only while the server runs?

Kinds == {"request", "text", "ping", "other", "stuck"}

ASSUME ServerAssumption ==
  /\ ClientCount \in Nat \ {0} /\ Parts \in Nat \ {0}
  /\ MaxRuns \in Nat /\ MaxPushes \in Nat
  /\ Nobody \notin Peers /\ Leavers \subseteq Peers
  /\ \A s \in Scripts : s \in Seq(Kinds)
  /\ Endings \subseteq {"exhausted", "wait", "nowait", "destroy"}
  /\ Stallers \subseteq Peers /\ MayRegister \in BOOLEAN

VARIABLES
  \* The clients.
  script,   \* script[p]: the kinds of p's messages
  phase,    \* phase[p]: "new", "open", "closed" by p, "shut" by the polling
            \* thread, "cut" by Cleanup
  file,     \* file[p]: the descriptor the server got for p
  full,     \* full[p]: p does not read, send() to it answers EAGAIN
  fed,      \* fed[p]: units of p's data given to DataReady for its connection
  got,      \* got[p]: the answers p received, as [peer, msg] they answer
  \* The socket server.
  socket,   \* "none", "ready", "running", "stopping", "closed"
  session,  \* session[i]: the client on connection i
  worker,   \* the callback on each index: [pc, chunk]
  \* WebSocketServer.
  requestQueue, \* m_requestQueue
  pending,      \* m_pending_signal
  routed,       \* m_routes has the route that the clients ask for
  initialized, running, \* of IRunnable
  reqRunning,   \* m_isRunning of m_requestThread
  req,          \* the request thread: [pc, pos]
  app,          \* the thread that owns the server: [pc, slot, then, dying]
  push,         \* a thread in SendResponse: [file, peer]
  runs, pushes, \* calls of Init and SendResponse so far
  \* What the user was told.
  told,     \* told[p]: "nothing", "connected", "disconnected"
  handled   \* handled[p]: the numbers of p's messages its handler got

clientVars == <<script, phase, file, full, fed, got>>
socketVars == <<socket, session, worker>>
queueVars  == <<requestQueue, pending, routed>>
lifeVars   == <<initialized, running, reqRunning, app, runs, push, pushes>>
userVars   == <<told, handled>>
vars == <<clientVars, socketVars, queueVars, req, lifeVars, userVars>>

Slots   == 0 .. ClientCount - 1
Stray   == -1                     \* the index of a connection that was freed
Indices == Slots \cup {Stray}
None    == -1                     \* no descriptor

\* The units of p's data, in the order in which they are sent.
Stream(p) ==
  [n \in 1 .. Len(script[p]) * Parts |->
     [peer |-> p, msg |-> (n - 1) \div Parts + 1, part |-> ((n - 1) % Parts) + 1]]

Init ==
  /\ script \in [Peers -> Scripts]
  /\ phase = [p \in Peers |-> "new"]
  /\ file = [p \in Peers |-> None]
  /\ full = [p \in Peers |-> FALSE]
  /\ fed = [p \in Peers |-> 0]
  /\ got = [p \in Peers |-> << >>]
  /\ socket = "none"
  /\ session = [i \in Slots |-> Nobody]
  /\ worker = [c \in Indices |-> [pc |-> "idle", chunk |-> << >>]]
  /\ requestQueue = << >>
  /\ pending = FALSE
  /\ routed = ~ MayRegister
  /\ initialized = FALSE /\ running = FALSE /\ reqRunning = FALSE
  /\ req = [pc |-> "off", pos |-> 1]
  /\ app = [pc |-> "idle", slot |-> 0, then |-> "idle", dying |-> FALSE]
  /\ push = [file |-> None, peer |-> Nobody]
  /\ runs = 0 /\ pushes = 0
  /\ told = [p \in Peers |-> "nothing"]
  /\ handled = [p \in Peers |-> << >>]

\* Mutant: the callbacks do not take the mutex.
QueueAlwaysFree == TRUE

\* m_queueMutex
QueueFree == req.pc \notin {"serve", "reply"}

-----------------------------------------------------------------------------
(* Clients (external).                                                     *)

Hangup(p) ==
  /\ p \in Leavers
  /\ phase[p] = "open"
  /\ phase' = [phase EXCEPT ![p] = "closed"]
  /\ UNCHANGED <<script, file, full, fed, got, socketVars, queueVars, req, lifeVars, userVars>>

Stall(p) ==
  /\ p \in Stallers
  /\ phase[p] = "open" /\ ~ full[p]
  /\ full' = [full EXCEPT ![p] = TRUE]
  /\ UNCHANGED <<script, phase, file, fed, got, socketVars, queueVars, req, lifeVars, userVars>>

Resume(p) ==
  /\ full[p]
  /\ full' = [full EXCEPT ![p] = FALSE]
  /\ UNCHANGED <<script, phase, file, fed, got, socketVars, queueVars, req, lifeVars, userVars>>

-----------------------------------------------------------------------------
(* The socket server calls back: one thread per connection.                *)

Begin(i, pc, chunk) == worker' = [worker EXCEPT ![i] = [pc |-> pc, chunk |-> chunk]]

\* The polling thread, which goes on with its last batch of events when it
\* is to stop, until Cleanup has joined it.
PollingThread == socket \in {"running", "stopping"} /\ app.pc \notin {"cut", "reap"}

\* Who is connected by descriptor f, which the kernel hands out again when
\* the server has closed it.
OnFile(f) == {p \in Peers : phase[p] \in {"open", "closed"} /\ file[p] = f}

\* A client is accepted on a free connection and announced.
Arrive(p) ==
  /\ PollingThread
  /\ phase[p] = "new"
  /\ \E i \in Slots :
       /\ session[i] = Nobody /\ worker[i].pc = "idle"
       /\ session' = [session EXCEPT ![i] = p]
       /\ Begin(i, "init", << >>)
  /\ phase' = [phase EXCEPT ![p] = "open"]
  /\ \E f \in Slots :
       /\ OnFile(f) = {} /\ \A g \in 0 .. f - 1 : OnFile(g) # {}
       /\ file' = [file EXCEPT ![p] = f]
  /\ UNCHANGED <<script, full, fed, got, socket, queueVars, req, lifeVars, userVars>>

\* Cleanup has freed connection i and joins its worker.
Freed(i) == app.pc = "reap" /\ app.slot = i

\* m_fd: the worker resets it when it has handled the end of the client,
\* which may be long after the descriptor was closed.
Fd(c) == IF c \in Slots /\ session[c] # Nobody /\ ~ Freed(c) THEN file[session[c]] ELSE None

\* One read: some of what the client has sent next.  The polling thread may
\* have read it before it closed the connection.
Read(i) ==
  LET p == session[i] IN
  /\ p # Nobody /\ ~ Freed(i)
  /\ worker[i].pc = "idle"
  /\ \E n \in fed[p] + 1 .. Len(Stream(p)) :
       /\ fed' = [fed EXCEPT ![p] = n]
       /\ Begin(i, "put", SubSeq(Stream(p), fed[p] + 1, n))
  /\ UNCHANGED <<script, phase, file, full, got, socket, session, queueVars, req, lifeVars,
                 userVars>>

\* The polling thread notices that a client has gone, and drops it: the
\* descriptor is closed and the worker has the end to announce.
Drop(i) ==
  /\ PollingThread
  /\ session[i] # Nobody
  /\ phase[session[i]] = "closed"
  /\ phase' = [phase EXCEPT ![session[i]] = "shut"]
  /\ UNCHANGED <<script, file, full, fed, got, socketVars, queueVars, req, lifeVars, userVars>>

\* It runs out of read buffers: it drops the client, whether that has gone
\* or not, and is to stop.
Exhausted(i) ==
  /\ "exhausted" \in Endings
  /\ PollingThread
  /\ session[i] # Nobody
  /\ phase[session[i]] \in {"open", "closed"}
  /\ phase' = [phase EXCEPT ![session[i]] = "shut"]
  /\ socket' = "stopping"
  /\ UNCHANGED <<script, file, full, fed, got, session, worker, queueVars, req, lifeVars,
                 userVars>>

\* The worker comes to the DISCONNECTION.
End(i) ==
  /\ session[i] # Nobody /\ ~ Freed(i)
  /\ worker[i].pc = "idle"
  /\ phase[session[i]] = "shut"
  /\ Begin(i, "bye", << >>)
  /\ UNCHANGED <<clientVars, socket, session, queueVars, req, lifeVars, userVars>>

\* The client a task on index c is of.
Client(c) == session[IF c = Stray THEN app.slot ELSE c]

\* getRequest
Entries(c) == {k \in 1 .. Len(requestQueue) : requestQueue[k].connID = c}

\* ClientConnected: InitConnection under m_queueMutex, then the callback.
InitConnection(c) ==
  /\ worker[c].pc = "init"
  /\ QueueFree
  /\ requestQueue' =
       IF Entries(c) # {} THEN requestQueue
       ELSE Append(requestQueue, [connID |-> c, remote |-> Client(c), data |-> << >>,
                                  list |-> << >>, handshake |-> FALSE, ready |-> FALSE])
  /\ Begin(c, "greet", << >>)
  /\ UNCHANGED <<clientVars, socket, session, pending, routed, req, lifeVars, userVars>>

\* The callback gets the request of the entry, which is found without the
\* mutex.
Tell(c, what) ==
  told' = [p \in Peers |->
             IF \E k \in Entries(c) : /\ \A l \in Entries(c) : k <= l
                                      /\ requestQueue[k].remote = p
             THEN what ELSE told[p]]

ConnectCallback(c) ==
  /\ worker[c].pc = "greet"
  /\ Tell(c, "connected")
  /\ Begin(c, "idle", << >>)
  /\ UNCHANGED <<clientVars, socket, session, queueVars, req, lifeVars, handled>>

\* Mutant: new data is put in front of the old.
PutInFront(c) ==
  /\ worker[c].pc = "put"
  /\ QueueFree
  /\ requestQueue' =
       [k \in 1 .. Len(requestQueue) |->
          IF k \in Entries(c) THEN [requestQueue[k] EXCEPT !.data = worker[c].chunk \o @]
          ELSE requestQueue[k]]
  /\ Begin(c, "signal", << >>)
  /\ UNCHANGED <<clientVars, socket, session, pending, routed, req, lifeVars, userVars>>

\* DataReady: PutToQueue under m_queueMutex, which drops the data if there
\* is no entry, then SendSignal.
PutToQueue(c) ==
  /\ worker[c].pc = "put"
  /\ QueueFree
  /\ requestQueue' =
       [k \in 1 .. Len(requestQueue) |->
          IF k \in Entries(c) /\ \A l \in Entries(c) : k <= l
          THEN [requestQueue[k] EXCEPT !.data = @ \o worker[c].chunk]
          ELSE requestQueue[k]]
  /\ Begin(c, "signal", << >>)
  /\ UNCHANGED <<clientVars, socket, session, pending, routed, req, lifeVars, userVars>>

\* Mutants: notify_one without the flag; a flag that only a thread at the
\* wait is given.
SignalUnflagged == UNCHANGED pending
SignalWaiters == pending' = (req.pc = "sleep")

SendSignal == pending' = TRUE

WorkerSignal(c) ==
  /\ worker[c].pc = "signal"
  /\ SendSignal
  /\ Begin(c, "idle", << >>)
  /\ UNCHANGED <<clientVars, socket, session, requestQueue, routed, req, lifeVars, userVars>>

\* ClientDisconnected: the callback, if the entry is found without the
\* mutex, then RemoveFromQueue.
DisconnectCallback(c) ==
  /\ worker[c].pc = "bye"
  /\ Tell(c, "disconnected")
  /\ Begin(c, "remove", << >>)
  /\ UNCHANGED <<clientVars, socket, session, queueVars, req, lifeVars, handled>>

\* The connection is available again when ClientDisconnected returns.
RemoveFromQueue(c) ==
  /\ worker[c].pc = "remove"
  /\ QueueFree
  /\ requestQueue' = IF Entries(c) = {} THEN requestQueue
                     ELSE RemoveAt(requestQueue, Min(Entries(c)))
  /\ session' = [i \in Slots |-> IF i = c THEN Nobody ELSE session[i]]
  /\ Begin(c, "idle", << >>)
  /\ UNCHANGED <<clientVars, socket, pending, routed, req, lifeVars, userVars>>

Callback(c) ==
  \/ InitConnection(c) \/ ConnectCallback(c)
  \/ PutToQueue(c) \/ WorkerSignal(c)
  \/ DisconnectCallback(c) \/ RemoveFromQueue(c)

-----------------------------------------------------------------------------
(* The request thread: waiting and parsing.                                *)

KindOf(unit) == script[unit.peer][unit.msg]

\* The k-th Parts units of data are one whole message of one of the kinds.
IsMessage(data, k, kinds) ==
  LET first == data[(k - 1) * Parts + 1] IN
  /\ KindOf(first) \in kinds
  /\ \A j \in 1 .. Parts : data[(k - 1) * Parts + j] = [first EXCEPT !.part = j]

\* How many messages the parser takes from the front of data.
Parsed(data, kinds) ==
  Max({n \in 0 .. Len(data) \div Parts : \A k \in 1 .. n : IsMessage(data, k, kinds)})

Message(data, k) == [peer |-> data[k * Parts].peer, msg |-> data[k * Parts].msg]

Frames == {"text", "ping", "other"}

\* CheckWsHeader: at most one request, then no more until it is answered.
CheckWsHeader(entry) ==
  IF Parsed(entry.data, {"request"}) = 0 THEN entry
  ELSE [entry EXCEPT !.data = SubSeq(@, Parts + 1, Len(@)), !.ready = TRUE]

\* CheckWsFrame, as often as it finds a frame.
CheckWsFrames(entry) ==
  LET n == Parsed(entry.data, Frames) IN
  IF n = 0 THEN entry
  ELSE [entry EXCEPT !.data = SubSeq(@, n * Parts + 1, Len(@)),
                     !.list = @ \o [k \in 1 .. n |-> Message(entry.data, k)],
                     !.ready = TRUE]

Checked(entry) ==
  IF entry.ready THEN entry
  ELSE IF entry.handshake THEN CheckWsFrames(entry) ELSE CheckWsHeader(entry)

\* while (m_requestThread.IsRunning())
ReqCheck ==
  /\ req.pc = "check"
  /\ req' = [req EXCEPT !.pc = IF reqRunning THEN "look" ELSE "exited"]
  /\ UNCHANGED <<clientVars, socketVars, queueVars, lifeVars, userVars>>

HasData ==
  \E k \in 1 .. Len(requestQueue) : requestQueue[k].data # << >> \/ requestQueue[k].ready

ReqLook ==
  /\ req.pc = "look"
  /\ req' = [req EXCEPT !.pc = IF HasData THEN "parse" ELSE "sleep"]
  /\ UNCHANGED <<clientVars, socketVars, queueVars, lifeVars, userVars>>

WaitForSignal ==
  /\ req.pc = "sleep"
  /\ pending
  /\ pending' = FALSE
  /\ req' = [req EXCEPT !.pc = "parse"]
  /\ UNCHANGED <<clientVars, socketVars, requestQueue, routed, lifeVars, userVars>>

\* CheckData
ReqParse ==
  /\ req.pc = "parse"
  /\ requestQueue' = [k \in 1 .. Len(requestQueue) |-> Checked(requestQueue[k])]
  /\ req' = IF \E k \in 1 .. Len(requestQueue) :
                 ~ requestQueue[k].ready /\ Checked(requestQueue[k]).ready
            THEN [pc |-> "serve", pos |-> 1]
            ELSE [req EXCEPT !.pc = "check"]
  /\ UNCHANGED <<clientVars, socketVars, pending, routed, lifeVars, userVars>>

-----------------------------------------------------------------------------
(* ProcessRequests, under m_queueMutex: entry by entry.                    *)

Entry == requestQueue[req.pos]

NextEntry == req' = [req EXCEPT !.pc = "serve", !.pos = @ + 1]

\* send() on descriptor f: the answer reaches whoever is on it now, which is
\* another client than the one it is meant for if the descriptor was closed
\* and handed out again.  It waits while that client does not read, and may
\* fail or not if that client has gone.
CanSend(f) == \A p \in OnFile(f) : phase[p] = "open" => ~ full[p]

Send(f, answer, sent) ==
  LET there == {p \in OnFile(f) : phase[p] = "open"} IN
  /\ got' = [p \in Peers |-> IF p \in there THEN Append(got[p], answer) ELSE got[p]]
  /\ sent = TRUE => OnFile(f) # {}
  /\ there # {} => sent = TRUE

\* Write by the request thread.  It reads the descriptor before it sends,
\* but holds m_queueMutex, so that connection c keeps the descriptor.
CanWrite(c) == CanSend(Fd(c))
Write(c, answer, sent) == Send(Fd(c), answer, sent)

ServeEnd ==
  /\ req.pc = "serve" /\ req.pos > Len(requestQueue)
  /\ req' = [pc |-> "check", pos |-> 1]
  /\ UNCHANGED <<clientVars, socketVars, queueVars, lifeVars, userVars>>

Skip ==
  /\ req.pc = "serve" /\ req.pos <= Len(requestQueue)
  /\ ~ Entry.ready \/ (Entry.handshake /\ Entry.list = << >>)
  /\ NextEntry
  /\ UNCHANGED <<clientVars, socketVars, queueVars, lifeVars, userVars>>

\* Mutant: what Send answers is taken the wrong way round.
ServeRequestInverted ==
  /\ req.pc = "serve" /\ req.pos <= Len(requestQueue)
  /\ Entry.ready /\ ~ Entry.handshake
  /\ CanWrite(Entry.connID)
  /\ \E sent \in BOOLEAN :
       /\ Write(Entry.connID, [peer |-> Entry.remote, msg |-> 1], sent)
       /\ requestQueue' = IF ~ sent
                          THEN [requestQueue EXCEPT ![req.pos].handshake = TRUE,
                                                    ![req.pos].ready = FALSE]
                          ELSE requestQueue
  /\ NextEntry
  /\ UNCHANGED <<script, phase, file, full, fed, socketVars, pending, routed, lifeVars, userVars>>

\* ProcessRequest: whether a route matches or not the connection counts as
\* upgraded once the response is sent.
ServeRequest ==
  /\ req.pc = "serve" /\ req.pos <= Len(requestQueue)
  /\ Entry.ready /\ ~ Entry.handshake
  /\ CanWrite(Entry.connID)
  /\ \E sent \in BOOLEAN :
       /\ Write(Entry.connID, [peer |-> Entry.remote, msg |-> 1], sent)
       /\ requestQueue' = IF sent
                          THEN [requestQueue EXCEPT ![req.pos].handshake = TRUE,
                                                    ![req.pos].ready = FALSE]
                          ELSE requestQueue
  /\ NextEntry
  /\ UNCHANGED <<script, phase, file, full, fed, socketVars, pending, routed, lifeVars, userVars>>

\* Mutant: the message is not erased from the list.
DispatchedKept ==
  /\ requestQueue' = [requestQueue EXCEPT ![req.pos].ready = FALSE]
  /\ NextEntry

\* The message was dealt with; after the last one the entry is not ready.
Dispatched ==
  /\ requestQueue' =
       [requestQueue EXCEPT ![req.pos] =
          [Entry EXCEPT !.list = Tail(@), !.ready = Len(Entry.list) > 1]]
  /\ IF Len(Entry.list) = 1 THEN NextEntry ELSE req' = [req EXCEPT !.pc = "serve"]

\* ProcessWsRequest up to the response: the handler of a text is called if
\* the route is there, and may give an answer; a ping always has one.
ServeMessage ==
  /\ req.pc = "serve" /\ req.pos <= Len(requestQueue)
  /\ Entry.ready /\ Entry.handshake /\ Entry.list # << >>
  /\ LET m == Head(Entry.list)
         kind == script[m.peer][m.msg]
     IN /\ handled' = IF kind = "text" /\ routed
                      THEN [handled EXCEPT ![m.peer] = Append(@, m.msg)]
                      ELSE handled
        /\ \/ /\ kind = "ping" \/ (kind = "text" /\ routed)
              /\ req' = [req EXCEPT !.pc = "reply"]
              /\ UNCHANGED requestQueue
           \/ kind # "ping" /\ Dispatched
  /\ UNCHANGED <<clientVars, socketVars, pending, routed, lifeVars, told>>

Reply ==
  /\ req.pc = "reply"
  /\ CanWrite(Entry.connID)
  /\ \E sent \in BOOLEAN : Write(Entry.connID, Head(Entry.list), sent)
  /\ Dispatched
  /\ UNCHANGED <<script, phase, file, full, fed, socketVars, pending, routed, lifeVars, userVars>>

ReqSleepless ==
  ReqCheck \/ ReqLook \/ ReqParse \/ ServeEnd \/ Skip \/ ServeRequest \/ ServeMessage \/ Reply

RequestThread == ReqSleepless \/ WaitForSignal

-----------------------------------------------------------------------------
(* The user's calls.                                                       *)

OnMessage ==
  /\ ~ routed
  /\ routed' = TRUE
  /\ UNCHANGED <<clientVars, socketVars, requestQueue, pending, req, lifeVars, userVars>>

\* SendResponse, by any thread, to a client that is past the upgrade.  Write
\* reads the descriptor of the connection before it takes m_write_mutex.
SendResponse(i) ==
  /\ pushes < MaxPushes /\ push.peer = Nobody
  /\ \E k \in Entries(i) :
       /\ requestQueue[k].handshake
       /\ push' = [file |-> Fd(i), peer |-> requestQueue[k].remote]
  /\ pushes' = pushes + 1
  /\ UNCHANGED <<clientVars, socketVars, queueVars, req, initialized, running, reqRunning,
                 app, runs, userVars>>

SendPush ==
  /\ push.peer # Nobody
  /\ CanSend(push.file)
  /\ \E sent \in BOOLEAN : Send(push.file, [peer |-> push.peer, msg |-> 0], sent)
  /\ push' = [file |-> None, peer |-> Nobody]
  /\ UNCHANGED <<script, phase, file, full, fed, socketVars, queueVars, req, initialized,
                 running, reqRunning, app, runs, pushes, userVars>>

\* Init: a new socket server and the request thread, which runs before Run.
\* Neither the queue nor the signal is reset.
InitServer ==
  /\ app.pc = "idle" /\ ~ app.dying
  /\ socket \in {"none", "closed"} /\ ~ running
  /\ runs < MaxRuns
  /\ runs' = runs + 1
  /\ socket' = "ready"
  /\ IF reqRunning THEN UNCHANGED <<reqRunning, req>>
     ELSE reqRunning' = TRUE /\ req' = [pc |-> "check", pos |-> 1]
  /\ initialized' = TRUE
  /\ UNCHANGED <<clientVars, session, worker, queueVars, running, app, push, pushes, userVars>>

Run ==
  /\ app.pc = "idle" /\ ~ app.dying
  /\ initialized /\ ~ running
  /\ socket = "ready"
  /\ socket' = "running"
  /\ running' = TRUE
  /\ UNCHANGED <<clientVars, session, worker, queueVars, req, initialized, reqRunning,
                 app, runs, push, pushes, userVars>>

Polling == socket = "running"
Stopped == IF Polling THEN "stopping" ELSE socket

\* Close(true): the socket server first, then the request thread.
CloseAndWait(dying) ==
  /\ running
  /\ app' = [pc |-> "cut", slot |-> 0, then |-> "stop", dying |-> dying]
  /\ socket' = Stopped

CloseWait ==
  /\ "wait" \in Endings /\ app.pc = "idle" /\ ~ app.dying
  /\ CloseAndWait(FALSE)
  /\ UNCHANGED <<clientVars, session, worker, queueVars, req, initialized, running,
                 reqRunning, runs, push, pushes, userVars>>

\* Close(false): the polling thread is only told to stop.
CloseNoWait ==
  /\ "nowait" \in Endings /\ app.pc = "idle" /\ ~ app.dying
  /\ running
  /\ app' = [app EXCEPT !.pc = "stop"]
  /\ socket' = Stopped
  /\ UNCHANGED <<clientVars, session, worker, queueVars, req, initialized, running,
                 reqRunning, runs, push, pushes, userVars>>

\* WaitFor returns when something else has ended the polling thread.
WaitFor ==
  /\ app.pc = "idle" /\ ~ app.dying
  /\ socket = "stopping"
  /\ app' = [app EXCEPT !.pc = "cut", !.slot = 0, !.then = "idle"]
  /\ UNCHANGED <<clientVars, socketVars, queueVars, req, initialized, running,
                 reqRunning, runs, push, pushes, userVars>>

\* A worker that stands between two tasks when its connection is freed ends
\* without another one, or takes one more of those that are queued, with the
\* index -1: the CONNECTION if that is not taken, else data, else the end.
LastTask(i) ==
  LET p == session[i]
      takes(pc, chunk) ==
        worker' = [worker EXCEPT ![i] = [pc |-> "idle", chunk |-> << >>],
                                 ![Stray] = [pc |-> pc, chunk |-> chunk]]
  IN \/ UNCHANGED worker
     \/ worker[i].pc = "init" /\ (takes("init", << >>) \/ Begin(i, "idle", << >>))
     \/ /\ worker[i].pc = "idle" /\ p # Nobody
        /\ \/ \E n \in fed[p] + 1 .. Len(Stream(p)) :
                takes("put", SubSeq(Stream(p), fed[p] + 1, n))
           \/ phase[p] = "shut" /\ takes("bye", << >>)

\* ServerSocket::Cleanup: connection by connection, whoever is on its
\* descriptor is cut off, the connection freed and its worker joined.
Cut ==
  /\ app.pc = "cut"
  /\ phase' = [p \in Peers |-> IF p \in OnFile(Fd(app.slot)) THEN "cut" ELSE phase[p]]
  /\ LastTask(app.slot)
  /\ app' = [app EXCEPT !.pc = "reap"]
  /\ UNCHANGED <<script, file, full, fed, got, socket, session, queueVars, req, initialized,
                 running, reqRunning, runs, push, pushes, userVars>>

\* Mutant: the worker is not joined.
ReapUnjoined ==
  /\ app.pc = "reap"
  /\ session' = [session EXCEPT ![app.slot] = Nobody]
  /\ IF app.slot + 1 \in Slots
     THEN app' = [app EXCEPT !.pc = "cut", !.slot = @ + 1] /\ UNCHANGED socket
     ELSE app' = [app EXCEPT !.pc = app.then, !.slot = 0] /\ socket' = "closed"
  /\ UNCHANGED <<clientVars, worker, queueVars, req, initialized, running,
                 reqRunning, runs, push, pushes, userVars>>

Reap ==
  /\ app.pc = "reap"
  /\ worker[app.slot].pc = "idle" /\ worker[Stray].pc = "idle"
  /\ session' = [session EXCEPT ![app.slot] = Nobody]
  /\ IF app.slot + 1 \in Slots
     THEN app' = [app EXCEPT !.pc = "cut", !.slot = @ + 1] /\ UNCHANGED socket
     ELSE app' = [app EXCEPT !.pc = app.then, !.slot = 0] /\ socket' = "closed"
  /\ UNCHANGED <<clientVars, worker, queueVars, req, initialized, running,
                 reqRunning, runs, push, pushes, userVars>>

\* StopRequestThread: StopNoWait, SendSignal, Wait.
StopNoWait ==
  /\ app.pc = "stop"
  /\ reqRunning' = FALSE
  /\ app' = [app EXCEPT !.pc = IF reqRunning THEN "signal" ELSE "join"]
  /\ UNCHANGED <<clientVars, socketVars, queueVars, req, initialized, running, runs, push,
                 pushes, userVars>>

StopSignal ==
  /\ app.pc = "signal"
  /\ SendSignal
  /\ app' = [app EXCEPT !.pc = "join"]
  /\ UNCHANGED <<clientVars, socketVars, requestQueue, routed, req, initialized, running,
                 reqRunning, runs, push, pushes, userVars>>

StopJoin ==
  /\ app.pc = "join"
  /\ req.pc \in {"off", "exited"}
  /\ running' = FALSE
  /\ app' = [app EXCEPT !.pc = IF app.dying THEN "unwind" ELSE "idle"]
  /\ UNCHANGED <<clientVars, socketVars, queueVars, req, initialized, reqRunning, runs, push,
                 pushes, userVars>>

\* ~WebSocketServer: Close(true) if it runs, then the members: the request
\* thread is told to stop, without a signal, and joined.  (A server that was
\* closed without waiting must be waited for first: a std::thread that is
\* still joinable ends the process.)
Destroy ==
  /\ "destroy" \in Endings /\ app.pc = "idle" /\ ~ app.dying
  /\ running \/ socket # "stopping"
  /\ \/ CloseAndWait(TRUE)
     \/ /\ ~ running
        /\ app' = [app EXCEPT !.pc = "unwind", !.dying = TRUE]
        /\ UNCHANGED socket
  /\ UNCHANGED <<clientVars, session, worker, queueVars, req, initialized, running,
                 reqRunning, runs, push, pushes, userVars>>

Unwind ==
  /\ app.pc = "unwind"
  /\ reqRunning' = FALSE
  /\ app' = [app EXCEPT !.pc = "rejoin"]
  /\ UNCHANGED <<clientVars, socketVars, queueVars, req, initialized, running, runs, push,
                 pushes, userVars>>

Rejoin ==
  /\ app.pc = "rejoin"
  /\ req.pc \in {"off", "exited"}
  /\ app' = [app EXCEPT !.pc = "gone"]
  /\ UNCHANGED <<clientVars, socketVars, queueVars, req, initialized, running, reqRunning,
                 runs, push, pushes, userVars>>

Closing == Cut \/ Reap \/ StopNoWait \/ StopSignal \/ StopJoin \/ Unwind \/ Rejoin

-----------------------------------------------------------------------------
Next ==
  \/ \E p \in Peers : Hangup(p) \/ Stall(p) \/ Resume(p) \/ Arrive(p)
  \/ \E i \in Slots : Read(i) \/ Drop(i) \/ Exhausted(i) \/ End(i) \/ SendResponse(i)
  \/ \E c \in Indices : Callback(c)
  \/ SendPush
  \/ RequestThread
  \/ OnMessage \/ InitServer \/ Run \/ CloseWait \/ CloseNoWait \/ WaitFor \/ Destroy
  \/ Closing

Spec == Init /\ [][Next]_vars

\* The threads of the server are scheduled, callbacks and handlers return,
\* a client that stops reading goes on in the end, and Write, which tries
\* again and again, meets one of the moments in which a client reads.
\* Nothing is assumed of what clients send and what the user calls.
Fairness ==
  /\ SF_vars(RequestThread)
  /\ \A c \in Indices : WF_vars(Callback(c))
  /\ \A i \in Slots : WF_vars(End(i))
  /\ WF_vars(Closing)
  /\ \A p \in Peers : WF_vars(Resume(p))

FairSpec == Spec /\ Fairness
-----------------------------------------------------------------------------
(* Properties.                                                             *)

MessageNumbers == UNION {DOMAIN s : s \in Scripts}
Unit == [peer : Peers, msg : MessageNumbers, part : 1 .. Parts]
MessageRef == [peer : Peers, msg : MessageNumbers]
Answer == [peer : Peers, msg : MessageNumbers \cup {0}]
EntryType ==
  [connID : Indices, remote : Peers, data : Seq(Unit), list : Seq(MessageRef),
   handshake : BOOLEAN, ready : BOOLEAN]
WorkerState ==
  [pc : {"idle", "init", "greet", "put", "signal", "bye", "remove"}, chunk : Seq(Unit)]
ReqState ==
  [pc : {"off", "check", "look", "sleep", "parse", "serve", "reply", "exited"}, pos : Nat \ {0}]
AppState ==
  [pc : {"idle", "cut", "reap", "stop", "signal", "join", "unwind", "rejoin", "gone"},
   slot : Slots, then : {"idle", "stop"}, dying : BOOLEAN]

\* Every variable has its type.
TypeOK ==
  /\ script \in [Peers -> Scripts]
  /\ phase \in [Peers -> {"new", "open", "closed", "shut", "cut"}]
  /\ file \in [Peers -> Slots \cup {None}]
  /\ full \in [Peers -> BOOLEAN]
  /\ fed \in [Peers -> Nat] /\ \A p \in Peers : fed[p] \in 0 .. Len(Stream(p))
  /\ got \in [Peers -> Seq(Answer)]
  /\ socket \in {"none", "ready", "running", "stopping", "closed"}
  /\ session \in [Slots -> Peers \cup {Nobody}]
  /\ worker \in [Indices -> WorkerState]
  /\ requestQueue \in Seq(EntryType)
  /\ pending \in BOOLEAN /\ routed \in BOOLEAN
  /\ initialized \in BOOLEAN /\ running \in BOOLEAN /\ reqRunning \in BOOLEAN
  /\ req \in ReqState /\ req.pos <= Len(requestQueue) + 1
  /\ app \in AppState
  /\ push \in [file : Slots \cup {None}, peer : Peers \cup {Nobody}]
  /\ runs \in 0 .. MaxRuns /\ pushes \in 0 .. MaxPushes
  /\ told \in [Peers -> {"nothing", "connected", "disconnected"}]
  /\ handled \in [Peers -> Seq(MessageNumbers)]

\* Every client is served as promised: announced, upgraded, its messages in
\* order and at most once, its end announced, nothing once its entry is gone,
\* although its connection index was another client's before.
Stage(p) ==
  LET mine == {k \in 1 .. Len(requestQueue) : requestQueue[k].remote = p} IN
  IF told[p] = "nothing" THEN "away"
  ELSE IF mine = {} THEN "left"
  ELSE IF \E k \in mine : requestQueue[k].handshake THEN "upgraded" ELSE "joined"
Service == INSTANCE WebSocketService
             WITH stage <- [p \in Peers |-> Stage(p)], served <- handled,
                  Messages <- MessageNumbers
ImplementsService == Service!Spec

\* No data that is handed over for a connection is lost, doubled or given to
\* another one on its way to the parser: an entry's parsed messages and the
\* data behind them are a seamless end of what its client has sent and the
\* worker has put.  The rest of what a client has sent is handed over for
\* the index -1 at a shutdown, or never: it is in no connection's entry.
QueueIsStream ==
  \A k \in 1 .. Len(requestQueue) : requestQueue[k].connID # Stray =>
    LET e == requestQueue[k]
        p == e.remote
        put == fed[p] - IF worker[e.connID].pc = "put" THEN Len(worker[e.connID].chunk) ELSE 0
        parsed == put - Len(e.data)
    IN /\ e.data = SubSeq(Stream(p), parsed + 1, put)
       /\ parsed % Parts = 0
       /\ e.list = [n \in 1 .. Len(e.list) |->
                      [peer |-> p, msg |-> parsed \div Parts - Len(e.list) + n]]

\* What is handed over with the index -1 is mixed in one entry, whoever sent
\* it; nobody is upgraded on that, and no message of it is handled.
StraysUnserved ==
  \A k \in Entries(Stray) : ~ requestQueue[k].handshake /\ requestQueue[k].list = << >>

\* A client gets the answers to its messages once each at most, in the order
\* of the messages, the answer to its upgrade request before all.  An answer
\* goes astray to another client only when the server has dropped the client
\* it is meant for.
AnswersInOrder ==
  \A p \in Peers : \A j \in 1 .. Len(got[p]) :
    LET m == got[p][j] IN
    IF m.peer = p
    THEN /\ \E k \in 1 .. j : got[p][k] = [peer |-> p, msg |-> 1]
         /\ \A k \in 1 .. j - 1 : got[p][k].peer = p /\ m.msg # 0 => got[p][k].msg < m.msg
    ELSE phase[m.peer] \in {"shut", "cut"}

\* No thread of the server is left once the destructor has returned.
NothingLeft ==
  app.pc = "gone" =>
    /\ req.pc \in {"off", "exited"}
    /\ \A c \in Indices : worker[c].pc = "idle"
    /\ \A p \in Peers : phase[p] # "open"

\* The numbers of p's messages that its handler is to get: its texts before
\* the first message that cannot be parsed, if it was upgraded at all.
Due(p) ==
  {m \in 2 .. Len(script[p]) :
     /\ script[p][1] = "request" /\ script[p][m] = "text"
     /\ \A n \in 2 .. m : script[p][n] \in Frames}

\* Those of them that were given to DataReady and are not handled yet.
Waiting(p) == {m \in Due(p) : fed[p] >= m * Parts} \ Range(handled[p])

\* The texts that were given to DataReady are handled, if the client stays
\* and the server is not closed: no wake-up is lost.
TextIsHandled ==
  \A p \in Peers :
    (routed /\ Waiting(p) # {})
      ~> (Waiting(p) = {} \/ phase[p] # "open" \/ app.pc # "idle" \/ ~ running)

\* Close and the destructor of a server that runs return.
CloseReturns == app.pc \in {"cut", "stop"} ~> app.pc \in {"idle", "gone"}

\* All that a client sends before it leaves is handled, if the server stays
\* (as tests/websocketcpp_test.cpp:231 has it).
LastWordsHandled ==
  \A p \in Peers : (routed /\ Waiting(p) # {}) ~> Waiting(p) = {}

\* The destructor returns, also when Run has failed or was never called (as
\* tests/websocketcpp_test.cpp:125 has it).
DestroyReturns == app.dying ~> app.pc = "gone"
=============================================================================
