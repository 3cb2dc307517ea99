---------------------------- MODULE ServerSocket ----------------------------
(***************************************************************************)
(* src/src/utils/ServerSocket.cpp: a polling thread that accepts clients   *)
(* and reads from them, a fixed table of connections each with a worker    *)
(* thread and a queue of tasks, the pool of read buffers, the thread that  *)
(* initialises, runs and closes the server, and the threads that call      *)
(* Write; with credentials (Tls), the handshakes and SSL objects too.      *)
(*                                                                         *)
(* A step is one critical section, one system call with the assignments    *)
(* around it, or one callback.  A descriptor is a number that the kernel   *)
(* hands out again as soon as it is closed.  One unit of data is what one  *)
(* read() or SSL_read() returns.  The pool is a counter: its requests have *)
(* one size, so it refuses only when every buffer is taken (MemoryPool).   *)
(*                                                                         *)
(* A TLS handshake is a flight of the client, one of the server and one of *)
(* the client.  A TLS record may hold more than one unit: SSL_read takes   *)
(* the whole record from the kernel and keeps what the buffer cannot hold. *)
(***************************************************************************)
EXTENDS Integers, SequencesExt

CONSTANTS
  ClientCount,    \* m_client_count
  Peers,          \* the clients, each of which connects at most once
  Nobody,
  Writers,        \* threads that call Write
  Senders,        \* bound: the clients that send data
  MaxSend,        \* bound: units of data a client sends
  MaxWrites,      \* bound: calls of Write of one thread
  Parts,          \* bound: partial sends of one Write
  Tls,            \* with credentials, without, or either: a set of Booleans
  SpuriousReads,  \* may a descriptor be reported readable that is not?
  MayClose        \* does the application ever close the server?

ASSUME SocketAssumption ==
  /\ ClientCount \in Nat \ {0}
  /\ MaxSend \in Nat /\ MaxWrites \in Nat /\ Parts \in Nat \ {0}
  /\ Nobody \notin Peers /\ Senders \subseteq Peers
  /\ Tls \subseteq BOOLEAN
  /\ SpuriousReads \in BOOLEAN /\ MayClose \in BOOLEAN

Slots    == 0 .. ClientCount - 1
Fds      == 0 .. ClientCount      \* as many as can be open at a time
None     == -1                    \* no descriptor, no index
Listener == ClientCount           \* the event of the listening socket
PoolSize == ClientCount * 2
MAX_EVENT_COUNT == 64             \* events that one epoll_wait reports at most

VARIABLES
  \* The clients and the kernel.
  phase,      \* phase[p]: "new", "open", "closed" or "reset" by p, "shut" by the server
  sent,       \* sent[p]: units of data p has sent
  shake,      \* shake[p]: how far p is with its handshake
  records,    \* records[p]: the units of p at which a TLS record ends
  fetched,    \* fetched[p]: units that read or SSL_read has taken from the kernel
  taken,      \* taken[p]: units of them the server has read
  got,        \* got[p]: what p has received, as [by, call, dest]
  listening,  \* the listening socket accepts connections
  backlog,    \* connections waiting in the listen queue
  owner,      \* owner[f]: the client on descriptor f, if it is open
  watch,      \* watch[f]: the index epoll reports for f, if f is registered
  \* The server and its polling thread.
  secure,     \* Init was called with credentials: m_ssl_ctx
  pending,    \* descriptors in m_pending_ssl: their handshake is not over
  initialized, started, \* m_initialized, m_running
  polling,    \* m_process_running
  poll,       \* the polling thread: [pc, batch, slot, file]
  used,       \* buffers taken from m_memory_pool
  \* The connection table.
  fd, idx,    \* m_fd, m_idx of each connection
  running,    \* its m_running
  queue,      \* its m_args_queue
  worker,     \* its thread: [pc, task, idx]
  \* The application.
  app,        \* the thread in Cleanup: [pc, slot]
  writer,     \* the threads in Write: [pc, file, dest, ssl, left, calls]
  view,       \* what the callbacks have told it: view[i] is the client on index i
  met,        \* the clients it was told of
  delivered   \* units of data of each client it was given

tlsVars    == <<shake, records, fetched, secure, pending>>
clientVars == <<phase, sent, taken, got>>
kernelVars == <<listening, backlog, owner, watch>>
serverVars == <<initialized, started, polling, poll, used>>
tableVars  == <<fd, idx, running, queue, worker>>
userVars   == <<view, met, delivered>>
vars == <<tlsVars, clientVars, kernelVars, serverVars, tableVars, app, writer, userVars>>

Task == [type : {"CONNECTION", "DATA", "DISCONNECTION"}, peer : Peers, unit : 0 .. MaxSend]
NoTask == [type |-> "UNDEFINED", peer |-> Nobody, unit |-> 0]
Idle == [pc |-> "none", task |-> NoTask, idx |-> None]

Init ==
  /\ phase = [p \in Peers |-> "new"]
  /\ sent = [p \in Peers |-> 0]
  /\ shake = [p \in Peers |-> "none"]
  /\ records = [p \in Peers |-> {}]
  /\ fetched = [p \in Peers |-> 0]
  /\ secure \in Tls /\ pending = {}
  /\ taken = [p \in Peers |-> 0]
  /\ got = [p \in Peers |-> << >>]
  /\ listening = FALSE /\ backlog = << >>
  /\ owner = [f \in Fds |-> Nobody]
  /\ watch = [f \in Fds |-> None]
  /\ initialized = FALSE /\ started = FALSE /\ polling = FALSE
  /\ poll = [pc |-> "off", batch |-> {}, slot |-> None, file |-> None]
  /\ used = 0
  /\ fd = [i \in Slots |-> None]
  /\ idx = [i \in Slots |-> None]
  /\ running = [i \in Slots |-> FALSE]
  /\ queue = [i \in Slots |-> << >>]
  /\ worker = [i \in Slots |-> Idle]
  /\ app = [pc |-> "idle", slot |-> 0]
  /\ writer = [w \in Writers |->
                 [pc |-> "idle", file |-> None, dest |-> Nobody, ssl |-> Nobody,
                  left |-> 0, calls |-> 0]]
  /\ view = [i \in Slots |-> Nobody]
  /\ met = {}
  /\ delivered = [p \in Peers |-> 0]

-----------------------------------------------------------------------------
(* Clients and kernel (external).                                          *)

Connect(p) ==
  /\ listening
  /\ phase[p] = "new"
  /\ phase' = [phase EXCEPT ![p] = "open"]
  /\ backlog' = Append(backlog, p)
  /\ UNCHANGED <<tlsVars, sent, taken, got, listening, owner, watch, serverVars, tableVars,
                 app, writer, userVars>>

\* The client's part of a handshake: its first flight, its answer to the
\* server's, or something that is neither.
Shake(p) ==
  /\ secure
  /\ phase[p] = "open"
  /\ \E next \in {"hello", "finished", "bad"} :
       /\ \/ shake[p] = "none" /\ next # "finished"
          \/ shake[p] = "answered" /\ next # "hello"
       /\ shake' = [shake EXCEPT ![p] = next]
  /\ UNCHANGED <<records, fetched, secure, pending, clientVars, kernelVars, serverVars,
                 tableVars, app, writer, userVars>>

\* One unit, or a TLS record of several.
Send(p) ==
  /\ p \in Senders
  /\ phase[p] = "open"
  /\ secure => shake[p] = "finished"
  /\ \E n \in 1 .. MaxSend - sent[p] :
       /\ secure \/ n = 1
       /\ sent' = [sent EXCEPT ![p] = @ + n]
       /\ records' = [records EXCEPT ![p] = @ \cup {sent[p] + n}]
  /\ UNCHANGED <<shake, fetched, secure, pending, phase, taken, got, kernelVars, serverVars,
                 tableVars, app, writer, userVars>>

\* A client ends its connection, in order or by a reset that discards what
\* the server has not read yet.
Hangup(p) ==
  /\ phase[p] = "open"
  /\ \E how \in {"closed", "reset"} : phase' = [phase EXCEPT ![p] = how]
  /\ UNCHANGED <<tlsVars, sent, taken, got, kernelVars, serverVars, tableVars, app, writer,
                 userVars>>

\* close() of descriptor f by the server; closing one that is not open
\* changes nothing.
CloseFd(f) ==
  IF f \in Fds /\ owner[f] # Nobody
  THEN /\ phase' = [phase EXCEPT ![owner[f]] = "shut"]
       /\ owner' = [owner EXCEPT ![f] = Nobody]
       /\ watch' = [watch EXCEPT ![f] = None]
  ELSE UNCHANGED <<phase, owner, watch>>

\* Mutant: once SSL_accept wants more, the descriptor is watched for writing
\* only, and the last flight of the handshake is not noticed.
ReadableOnce(p) == \/ shake[p] = "hello" \/ fetched[p] < sent[p]
                   \/ phase[p] \in {"closed", "reset"}

\* The handshake has something for SSL_accept, or the kernel some data; or
\* the connection has ended.
Readable(p) == \/ shake[p] \in {"hello", "bad"}
               \/ shake[p] = "finished" /\ p \in {owner[f] : f \in pending}
               \/ fetched[p] < sent[p]
               \/ phase[p] \in {"closed", "reset"}

\* What epoll_wait would report now.
Ready ==
  {watch[f] : f \in {g \in Fds : /\ watch[g] # None
                                 /\ Readable(owner[g]) \/ SpuriousReads}}
  \cup (IF backlog = << >> THEN {} ELSE {Listener})

-----------------------------------------------------------------------------
(* Connection: the task queue.                                             *)

\* Mutant: the newest task first.
PushFront(i, task) == queue' = [queue EXCEPT ![i] = << task >> \o @]

Push(i, task) == queue' = [queue EXCEPT ![i] = Append(@, task)]

\* Mutant: Disconnect without CloseSocket.
DropOpen(i) ==
  /\ UNCHANGED <<phase, owner, watch>>
  /\ Push(i, [type |-> "DISCONNECTION", peer |-> owner[fd[i]], unit |-> 0])

\* CloseSocket and Disconnect, which follow one another wherever the
\* polling thread drops a connection.  The connection keeps its m_fd: the
\* worker resets it when it comes to the task.
Drop(i) ==
  /\ CloseFd(fd[i])
  /\ Push(i, [type |-> "DISCONNECTION", peer |-> owner[fd[i]], unit |-> 0])

-----------------------------------------------------------------------------
(* ProcessTask: the polling thread.                                        *)

\* while (m_process_running)
PollCheck ==
  /\ poll.pc = "check"
  /\ poll' = [poll EXCEPT !.pc = IF polling THEN "wait" ELSE "exited"]
  /\ UNCHANGED <<tlsVars, clientVars, kernelVars, initialized, started, polling, used,
                 tableVars, app, writer, userVars>>

\* epoll_wait reports as many events as there are, at most m_client_count
\* and MAX_EVENT_COUNT, or times out.
PollWait ==
  /\ poll.pc = "wait"
  /\ IF Ready = {}
     THEN poll' = [poll EXCEPT !.pc = "check"]
     ELSE \E batch \in SUBSET Ready :
            /\ Cardinality(batch) = Min({Cardinality(Ready), ClientCount, MAX_EVENT_COUNT})
            /\ poll' = [poll EXCEPT !.pc = "batch", !.batch = batch]
  /\ UNCHANGED <<tlsVars, clientVars, kernelVars, initialized, started, polling, used,
                 tableVars, app, writer, userVars>>

\* The loop over the events: e was dealt with.
Handled(e) ==
  poll' = [poll EXCEPT !.batch = @ \ {e},
                       !.pc = IF poll.batch = {e} THEN "check" ELSE "batch"]

\* FindFreeConnection
Free == {i \in Slots : fd[i] = None}

\* SSL_accept fails on what is not a handshake and at the end of the stream.
ShakeFails(p) == \/ shake[p] = "bad"
                 \/ phase[p] = "reset"
                 \/ phase[p] = "closed" /\ shake[p] # "finished"

\* AcceptClient takes a connection from the listen queue.
Arrived ==
  /\ poll.pc = "batch" /\ Listener \in poll.batch
  /\ backlog # << >>
  /\ backlog' = Tail(backlog)

FreeFd == Min({f \in Fds : owner[f] = Nobody})

\* AcceptClient when the table is full, or its SSL_accept fails at once:
\* the connection is closed again.
PollRefuse ==
  /\ Arrived
  /\ Free = {} \/ (secure /\ ShakeFails(Head(backlog)))
  /\ phase' = [phase EXCEPT ![Head(backlog)] = "shut"]
  /\ Handled(Listener)
  /\ UNCHANGED <<tlsVars, sent, taken, got, listening, owner, watch, initialized, started,
                 polling, used, tableVars, app, writer, userVars>>

\* AcceptClient up to Assign, without TLS: the connection is registered.
PollAccept ==
  /\ Arrived
  /\ ~ secure /\ Free # {}
  /\ owner' = [owner EXCEPT ![FreeFd] = Head(backlog)]
  /\ watch' = [watch EXCEPT ![FreeFd] = Min(Free)]
  /\ poll' = [poll EXCEPT !.pc = "assign", !.slot = Min(Free), !.file = FreeFd]
  /\ UNCHANGED <<tlsVars, phase, sent, taken, got, listening, initialized, started, polling,
                 used, tableVars, app, writer, userVars>>

\* BeginSslHandshake: the connection is reserved and the handshake pending.
\* SSL_accept cannot succeed yet: it has only now sent the server's flight.
PollReserve ==
  /\ Arrived
  /\ secure /\ Free # {} /\ ~ ShakeFails(Head(backlog))
  /\ LET p == Head(backlog) IN
     shake' = [shake EXCEPT ![p] = IF @ = "hello" THEN "answered" ELSE @]
  /\ owner' = [owner EXCEPT ![FreeFd] = Head(backlog)]
  /\ watch' = [watch EXCEPT ![FreeFd] = Min(Free)]
  /\ fd' = [fd EXCEPT ![Min(Free)] = FreeFd]
  /\ pending' = pending \cup {FreeFd}
  /\ Handled(Listener)
  /\ UNCHANGED <<records, fetched, secure, phase, sent, taken, got, listening, initialized,
                 started, polling, used, idx, running, queue, worker, app, writer, userVars>>

\* A thread that can be joined at once: it has ended or was never started.
Joinable(i) == worker[i].pc \in {"none", "exited"}

\* Connection::Assign: the worker of the connection's last client is joined
\* and a new one started.
Assign(i, f) ==
  /\ Joinable(i)
  /\ fd' = [fd EXCEPT ![i] = f]
  /\ idx' = [idx EXCEPT ![i] = i]
  /\ running' = [running EXCEPT ![i] = TRUE]
  /\ worker' = [worker EXCEPT ![i] = [Idle EXCEPT !.pc = "check"]]
  /\ Push(i, [type |-> "CONNECTION", peer |-> owner[f], unit |-> 0])

PollAssign ==
  /\ poll.pc = "assign"
  /\ Assign(poll.slot, poll.file)
  /\ poll' = [pc |-> IF poll.batch = {Listener} THEN "check" ELSE "batch",
              batch |-> poll.batch \ {Listener}, slot |-> None, file |-> None]
  /\ UNCHANGED <<tlsVars, clientVars, kernelVars, initialized, started, polling, used,
                 app, writer, userVars>>

\* An event of a connection whose handshake is pending, or is not.
ShakeEvent(i) == poll.pc = "batch" /\ i \in poll.batch /\ fd[i] \in pending
ReadEvent(i)  == poll.pc = "batch" /\ i \in poll.batch /\ fd[i] \notin pending

\* ContinueSslHandshake: SSL_accept wants more, or succeeds.
PollShake(i) ==
  /\ ShakeEvent(i)
  /\ LET p == owner[fd[i]] IN
     /\ ~ ShakeFails(p) /\ shake[p] # "finished"
     /\ shake' = [shake EXCEPT ![p] = IF @ = "hello" THEN "answered" ELSE @]
  /\ Handled(i)
  /\ UNCHANGED <<records, fetched, secure, pending, clientVars, kernelVars, initialized,
                 started, polling, used, tableVars, app, writer, userVars>>

PollSecured(i) ==
  /\ ShakeEvent(i)
  /\ ~ ShakeFails(owner[fd[i]]) /\ shake[owner[fd[i]]] = "finished"
  /\ pending' = pending \ {fd[i]}
  /\ Assign(i, fd[i])
  /\ Handled(i)
  /\ UNCHANGED <<shake, records, fetched, secure, clientVars, kernelVars, initialized,
                 started, polling, used, app, writer, userVars>>

\* Mutant: the connection of a failed handshake is not freed.
PollShakeEndKeeps(i) ==
  /\ ShakeEvent(i)
  /\ ShakeFails(owner[fd[i]])
  /\ pending' = pending \ {fd[i]}
  /\ CloseFd(fd[i])
  /\ Handled(i)
  /\ UNCHANGED <<shake, records, fetched, secure, sent, taken, got, listening, backlog,
                 initialized, started, polling, used, tableVars, app, writer, userVars>>

\* The handshake failed: the descriptor is closed, then the connection freed
\* (Connection::Free joins what is left of an earlier worker).  One step: the
\* code closes first, but only this thread accepts, so nobody gets the
\* number before the connection is free, and the worker that is joined has
\* nothing left to do with either.
PollShakeEnd(i) ==
  /\ ShakeEvent(i)
  /\ ShakeFails(owner[fd[i]])
  /\ Joinable(i)
  /\ pending' = pending \ {fd[i]}
  /\ CloseFd(fd[i])
  /\ fd' = [fd EXCEPT ![i] = None]
  /\ idx' = [idx EXCEPT ![i] = None]
  /\ running' = [running EXCEPT ![i] = FALSE]
  /\ worker' = [worker EXCEPT ![i] = Idle]
  /\ Handled(i)
  /\ UNCHANGED <<shake, records, fetched, secure, sent, taken, got, listening, backlog,
                 initialized, started, polling, used, queue, app, writer, userVars>>

\* HandleRead when the pool has no buffer left: Close(false), and the
\* connection is dropped.
PollExhausted(i) ==
  /\ ReadEvent(i)
  /\ used = PoolSize
  /\ polling' = FALSE
  /\ Drop(i)
  /\ Handled(i)
  /\ UNCHANGED <<tlsVars, sent, taken, got, listening, backlog, initialized, started, used,
                 fd, idx, running, worker, app, writer, userVars>>

\* HandleRead with data to read, in the kernel or in the SSL object.
PollRead(i) ==
  /\ ReadEvent(i)
  /\ used < PoolSize
  /\ LET p == owner[fd[i]] IN
     /\ phase[p] # "reset" \/ taken[p] < fetched[p]
     /\ taken[p] < sent[p]
     /\ fetched' = [fetched EXCEPT ![p] =
                      IF taken[p] < @ THEN @ ELSE Min({n \in records[p] : n > @})]
     /\ used' = used + 1
     /\ taken' = [taken EXCEPT ![p] = @ + 1]
     /\ Push(i, [type |-> "DATA", peer |-> p, unit |-> taken[p] + 1])
  /\ Handled(i)
  /\ UNCHANGED <<shake, records, secure, pending, phase, sent, got, kernelVars, initialized,
                 started, polling, fd, idx, running, worker, app, writer, userVars>>

\* HandleRead at the end of the stream or with an error: the buffer is freed
\* again and the connection dropped; or an error event without data.
Ended(p) == \/ phase[p] = "closed" /\ taken[p] = sent[p]
            \/ phase[p] = "reset"

\* Mutant: the buffer is kept at the end of the stream.
PollEndLeaks(i) ==
  /\ ReadEvent(i)
  /\ Ended(owner[fd[i]])
  /\ used < PoolSize
  /\ used' = used + 1
  /\ Drop(i)
  /\ Handled(i)
  /\ UNCHANGED <<tlsVars, sent, taken, got, listening, backlog, initialized, started, polling,
                 fd, idx, running, worker, app, writer, userVars>>

PollEnd(i) ==
  /\ ReadEvent(i)
  /\ Ended(owner[fd[i]])
  /\ used < PoolSize \/ phase[owner[fd[i]]] = "reset"
  /\ Drop(i)
  /\ Handled(i)
  /\ UNCHANGED <<tlsVars, sent, taken, got, listening, backlog, initialized, started, polling,
                 used, fd, idx, running, worker, app, writer, userVars>>

\* Mutant: allocate may have answered nullptr.
PollAgainUnchecked(i) ==
  /\ ReadEvent(i)
  /\ ~ Readable(owner[fd[i]]) /\ taken[owner[fd[i]]] = fetched[owner[fd[i]]]
  /\ used' = IF secure THEN used ELSE used + 1
  /\ Handled(i)
  /\ UNCHANGED <<tlsVars, clientVars, kernelVars, initialized, started, polling,
                 tableVars, app, writer, userVars>>

\* HandleRead when there is nothing to read: after read() answered EAGAIN
\* the buffer is not freed, after SSL_read it is.
PollAgain(i) ==
  /\ ReadEvent(i)
  /\ ~ Readable(owner[fd[i]]) /\ taken[owner[fd[i]]] = fetched[owner[fd[i]]]
  /\ used < PoolSize
  /\ used' = IF secure THEN used ELSE used + 1
  /\ Handled(i)
  /\ UNCHANGED <<tlsVars, clientVars, kernelVars, initialized, started, polling,
                 tableVars, app, writer, userVars>>

Poll ==
  \/ PollCheck \/ PollWait \/ PollRefuse \/ PollAccept \/ PollAssign \/ PollReserve
  \/ \E i \in Slots : \/ PollShake(i) \/ PollSecured(i) \/ PollShakeEnd(i)
                     \/ PollExhausted(i) \/ PollRead(i) \/ PollEnd(i) \/ PollAgain(i)

-----------------------------------------------------------------------------
(* Connection::processTask: the worker of connection i.                    *)

\* while (m_running)
WorkerCheck(i) ==
  /\ worker[i].pc = "check"
  /\ worker' = [worker EXCEPT ![i].pc = IF running[i] THEN "wait" ELSE "exited"]
  /\ UNCHANGED <<tlsVars, clientVars, kernelVars, serverVars, fd, idx, running, queue,
                 app, writer, userVars>>

\* wait_for, and the task at the front of the queue, if there is one, with
\* the index the connection has at that time.
WorkerTake(i) ==
  /\ worker[i].pc = "wait"
  /\ IF queue[i] = << >>
     THEN /\ worker' = [worker EXCEPT ![i].pc = "check"]
          /\ UNCHANGED queue
     ELSE /\ worker' = [worker EXCEPT
                          ![i] = [pc |-> "call", task |-> Head(queue[i]), idx |-> idx[i]]]
          /\ queue' = [queue EXCEPT ![i] = Tail(@)]
  /\ UNCHANGED <<tlsVars, clientVars, kernelVars, serverVars, fd, idx, running,
                 app, writer, userVars>>

\* OnConnect: the application is told of a client.
WorkerConnect(i) ==
  /\ worker[i].pc = "call" /\ worker[i].task.type = "CONNECTION"
  /\ worker' = [worker EXCEPT ![i] = [Idle EXCEPT !.pc = "check"]]
  /\ met' = met \cup {worker[i].task.peer}
  /\ view' = [s \in Slots |-> IF s = worker[i].idx THEN worker[i].task.peer ELSE view[s]]
  /\ UNCHANGED <<tlsVars, clientVars, kernelVars, serverVars, fd, idx, running, queue,
                 app, writer, delivered>>

\* OnData with a copy of the buffer, then FreeData.
WorkerData(i) ==
  /\ worker[i].pc = "call" /\ worker[i].task.type = "DATA"
  /\ worker' = [worker EXCEPT ![i] = [Idle EXCEPT !.pc = "check"]]
  /\ delivered' = [delivered EXCEPT ![worker[i].task.peer] = worker[i].task.unit]
  /\ used' = used - 1
  /\ UNCHANGED <<tlsVars, clientVars, kernelVars, initialized, started, polling, poll,
                 fd, idx, running, queue, app, writer, view, met>>

\* OnDisconnect, then the connection is made available again, then the
\* thread ends.
WorkerDisconnect(i) ==
  /\ worker[i].pc = "call" /\ worker[i].task.type = "DISCONNECTION"
  /\ worker' = [worker EXCEPT ![i] = [Idle EXCEPT !.pc = "release"]]
  /\ view' = [s \in Slots |-> IF s = worker[i].idx THEN Nobody ELSE view[s]]
  /\ UNCHANGED <<tlsVars, clientVars, kernelVars, serverVars, fd, idx, running, queue,
                 app, writer, met, delivered>>

WorkerRelease(i) ==
  /\ worker[i].pc = "release"
  /\ fd' = [fd EXCEPT ![i] = None]
  /\ idx' = [idx EXCEPT ![i] = None]
  /\ worker' = [worker EXCEPT ![i].pc = "stopping"]
  /\ UNCHANGED <<tlsVars, clientVars, kernelVars, serverVars, running, queue,
                 app, writer, userVars>>

WorkerStop(i) ==
  /\ worker[i].pc = "stopping"
  /\ running' = [running EXCEPT ![i] = FALSE]
  /\ worker' = [worker EXCEPT ![i].pc = "exited"]
  /\ UNCHANGED <<tlsVars, clientVars, kernelVars, serverVars, fd, idx, queue,
                 app, writer, userVars>>

Worker(i) ==
  \/ WorkerCheck(i) \/ WorkerTake(i)
  \/ WorkerConnect(i) \/ WorkerData(i) \/ WorkerDisconnect(i)
  \/ WorkerRelease(i) \/ WorkerStop(i)

-----------------------------------------------------------------------------
(* Init, Run, Close, WaitFor and Cleanup.                                  *)

InitServer ==
  /\ app.pc = "idle"
  /\ ~ initialized
  /\ initialized' = TRUE
  /\ UNCHANGED <<tlsVars, clientVars, kernelVars, started, polling, poll, used,
                 tableVars, app, writer, userVars>>

\* Nothing clears m_running: a server runs once.
Run ==
  /\ app.pc = "idle"
  /\ initialized /\ ~ started
  /\ started' = TRUE
  /\ polling' = TRUE
  /\ listening' = TRUE
  /\ poll' = [poll EXCEPT !.pc = "check"]
  /\ UNCHANGED <<tlsVars, clientVars, backlog, owner, watch, initialized, used,
                 tableVars, app, writer, userVars>>

\* Close(false), by any thread.
CloseNoWait ==
  /\ MayClose
  /\ polling
  /\ polling' = FALSE
  /\ UNCHANGED <<tlsVars, clientVars, kernelVars, initialized, started, poll, used,
                 tableVars, app, writer, userVars>>

\* Close(true), and WaitFor, which is Cleanup alone.
CloseOrWaitFor ==
  /\ MayClose
  /\ app.pc = "idle"
  /\ app' = [app EXCEPT !.pc = "join"]
  /\ polling' \in {FALSE, polling}
  /\ UNCHANGED <<tlsVars, clientVars, kernelVars, initialized, started, poll, used,
                 tableVars, writer, userVars>>

CleanupJoin ==
  /\ app.pc = "join"
  /\ poll.pc \in {"off", "exited"}
  /\ poll' = [poll EXCEPT !.pc = "off"]
  /\ app' = [pc |-> "close", slot |-> 0]
  /\ UNCHANGED <<tlsVars, clientVars, kernelVars, initialized, started, polling, used,
                 tableVars, writer, userVars>>

\* Mutant: Cleanup frees the connections but closes no socket.
CleanupCloseNothing ==
  /\ app.pc = "close"
  /\ app' = [app EXCEPT !.pc = "free"]
  /\ UNCHANGED <<tlsVars, clientVars, kernelVars, serverVars, tableVars, writer, userVars>>

CleanupClose ==
  /\ app.pc = "close"
  /\ CloseFd(fd[app.slot])
  /\ app' = [app EXCEPT !.pc = "free"]
  /\ UNCHANGED <<tlsVars, sent, taken, got, listening, backlog, serverVars, tableVars,
                 writer, userVars>>

\* Mutant: Free does not clear m_running.
CleanupFreeRunning ==
  /\ app.pc = "free"
  /\ fd' = [fd EXCEPT ![app.slot] = None]
  /\ idx' = [idx EXCEPT ![app.slot] = None]
  /\ app' = [app EXCEPT !.pc = "reap"]
  /\ UNCHANGED <<tlsVars, clientVars, kernelVars, serverVars, running, queue, worker, writer,
                 userVars>>

\* Connection::Free under m_args_mtx
CleanupFree ==
  /\ app.pc = "free"
  /\ fd' = [fd EXCEPT ![app.slot] = None]
  /\ idx' = [idx EXCEPT ![app.slot] = None]
  /\ running' = [running EXCEPT ![app.slot] = FALSE]
  /\ app' = [app EXCEPT !.pc = "reap"]
  /\ UNCHANGED <<tlsVars, clientVars, kernelVars, serverVars, queue, worker, writer, userVars>>

\* The end of Connection::Free: join the worker.
CleanupReap ==
  /\ app.pc = "reap"
  /\ Joinable(app.slot)
  /\ worker' = [worker EXCEPT ![app.slot] = Idle]
  /\ app' = IF app.slot + 1 \in Slots THEN [pc |-> "close", slot |-> app.slot + 1]
                                      ELSE [pc |-> "finish", slot |-> 0]
  /\ UNCHANGED <<tlsVars, clientVars, kernelVars, serverVars, fd, idx, running, queue,
                 writer, userVars>>

\* The pending handshakes are dropped (their descriptors are closed again),
\* the epoll descriptor and the listening socket are closed.
CleanupFinish ==
  /\ app.pc = "finish"
  /\ LET cut == Range(backlog) \cup {owner[f] : f \in pending} IN
     phase' = [p \in Peers |-> IF p \in cut THEN "shut" ELSE phase[p]]
  /\ owner' = [f \in Fds |-> IF f \in pending THEN Nobody ELSE owner[f]]
  /\ watch' = [f \in Fds |-> IF f \in pending THEN None ELSE watch[f]]
  /\ pending' = {}
  /\ backlog' = << >>
  /\ listening' = FALSE
  /\ initialized' = FALSE
  /\ app' = [pc |-> "idle", slot |-> 0]
  /\ UNCHANGED <<shake, records, fetched, secure, sent, taken, got, started, polling, poll,
                 used, tableVars, writer, userVars>>

Cleanup ==
  CleanupJoin \/ CleanupClose \/ CleanupFree \/ CleanupReap \/ CleanupFinish

-----------------------------------------------------------------------------
(* Write, by thread w.                                                     *)

\* The descriptor of connection i is read before m_write_mutex is taken.
\* The application writes to an index it was told a client is on.
WriteBegin(w, i) ==
  /\ writer[w].pc = "idle"
  /\ writer[w].calls < MaxWrites
  /\ view[i] # Nobody
  /\ fd[i] # None
  /\ writer' = [writer EXCEPT ![w] = [pc |-> "lock", file |-> fd[i], dest |-> view[i],
                                      ssl |-> Nobody, left |-> Parts, calls |-> @.calls + 1]]
  /\ UNCHANGED <<tlsVars, clientVars, kernelVars, serverVars, tableVars, app, userVars>>

\* Mutant: no mutex.
UnlockedAlways == TRUE

\* m_write_mutex
Unlocked == \A w \in Writers : writer[w].pc # "send"

\* The SSL object of a descriptor in m_ssl_conns is that of its client.
WriteLock(w) ==
  /\ writer[w].pc = "lock"
  /\ Unlocked
  /\ LET f == writer[w].file IN
     writer' = [writer EXCEPT ![w].pc = "send",
                              ![w].ssl = IF secure /\ f \notin pending THEN owner[f]
                                         ELSE Nobody]
  /\ UNCHANGED <<tlsVars, clientVars, kernelVars, serverVars, tableVars, app, userVars>>

WriteEnd(w) ==
  writer' = [writer EXCEPT ![w] = [pc |-> "idle", file |-> None, dest |-> Nobody,
                                   ssl |-> Nobody, left |-> 0, calls |-> @.calls]]

\* One send(), to whoever is on the descriptor now, or SSL_write.  A client
\* that is gone may or may not make it fail; nor is it defined what SSL_write
\* does with an object that CloseSocket has freed.
WriteSend(w) ==
  /\ writer[w].pc = "send"
  /\ LET now == owner[writer[w].file]
         p == IF writer[w].ssl \in {Nobody, now} THEN now ELSE Nobody
         more == IF writer[w].left = 1 THEN WriteEnd(w)
                 ELSE writer' = [writer EXCEPT ![w].left = @ - 1]
         piece == [by |-> w, call |-> writer[w].calls, dest |-> writer[w].dest]
     IN IF p # Nobody /\ phase[p] = "open"
        THEN got' = [got EXCEPT ![p] = Append(@, piece)] /\ more
        ELSE /\ UNCHANGED got
             /\ WriteEnd(w) \/ ({now, writer[w].ssl} # {Nobody} /\ more)
  /\ UNCHANGED <<tlsVars, phase, sent, taken, kernelVars, serverVars, tableVars, app, userVars>>

Write(w) == (\E i \in Slots : WriteBegin(w, i)) \/ WriteLock(w) \/ WriteSend(w)

-----------------------------------------------------------------------------
Next ==
  \/ \E p \in Peers : Connect(p) \/ Shake(p) \/ Send(p) \/ Hangup(p)
  \/ Poll
  \/ \E i \in Slots : Worker(i)
  \/ InitServer \/ Run \/ CloseNoWait \/ CloseOrWaitFor \/ Cleanup
  \/ \E w \in Writers : Write(w)

Spec == Init /\ [][Next]_vars

\* The threads of the server are scheduled, callbacks return and join ends
\* when the thread does.  Nothing is assumed of the clients, of the calls
\* the application makes, or of Write.
Fairness ==
  /\ WF_vars(Poll)
  /\ \A i \in Slots : WF_vars(Worker(i))
  /\ WF_vars(Cleanup)

FairSpec == Spec /\ Fairness

-----------------------------------------------------------------------------
(* Properties.                                                             *)

Piece == [by : Writers, call : 1 .. MaxWrites, dest : Peers]

PollState ==
  [pc : {"off", "check", "wait", "batch", "assign", "exited"},
   batch : SUBSET (Slots \cup {Listener}), slot : Slots \cup {None}, file : Fds \cup {None}]
WorkerState ==
  [pc : {"none", "check", "wait", "call", "release", "stopping", "exited"},
   task : Task \cup {NoTask}, idx : Slots \cup {None}]
AppState == [pc : {"idle", "join", "close", "free", "reap", "finish"}, slot : Slots]
WriterState ==
  [pc : {"idle", "lock", "send"}, file : Fds \cup {None}, dest : Peers \cup {Nobody},
   ssl : Peers \cup {Nobody}, left : 0 .. Parts, calls : 0 .. MaxWrites]

\* Every variable has its type.
TypeOK ==
  /\ phase \in [Peers -> {"new", "open", "closed", "reset", "shut"}]
  /\ sent \in [Peers -> 0 .. MaxSend]
  /\ shake \in [Peers -> {"none", "hello", "answered", "finished", "bad"}]
  /\ records \in [Peers -> SUBSET (1 .. MaxSend)]
  /\ fetched \in [Peers -> 0 .. MaxSend]
  /\ taken \in [Peers -> 0 .. MaxSend]
  /\ secure \in Tls
  /\ pending \in SUBSET Fds
  /\ got \in [Peers -> Seq(Piece)]
  /\ listening \in BOOLEAN
  /\ backlog \in Seq(Peers)
  /\ owner \in [Fds -> Peers \cup {Nobody}]
  /\ watch \in [Fds -> Slots \cup {None}]
  /\ initialized \in BOOLEAN /\ started \in BOOLEAN /\ polling \in BOOLEAN
  /\ poll \in PollState
  /\ used \in 0 .. PoolSize
  /\ fd \in [Slots -> Fds \cup {None}]
  /\ idx \in [Slots -> Slots \cup {None}]
  /\ running \in [Slots -> BOOLEAN]
  /\ queue \in [Slots -> Seq(Task)]
  /\ worker \in [Slots -> WorkerState]
  /\ app \in AppState
  /\ writer \in [Writers -> WriterState]
  /\ view \in [Slots -> Peers \cup {Nobody}]
  /\ met \in SUBSET Peers
  /\ delivered \in [Peers -> 0 .. MaxSend]

\* The callbacks keep their promise: on each index connect, data in order,
\* disconnect, one client after another, although the polling thread closes
\* and reuses descriptors and connections while workers still run behind.
Sessions == INSTANCE SessionEvents
              WITH session <- view, closing <- started /\ poll.pc = "off"
ImplementsSessions == Sessions!Spec

\* Read buffers are conserved: one is taken for every unit that waits in a
\* queue or is in the hands of a worker, and no other.
Holding ==
  {<<i, 0>> : i \in {j \in Slots : worker[j].task.type = "DATA"}}
  \cup UNION {{<<i, k>> : k \in {l \in 1 .. Len(queue[i]) : queue[i][l].type = "DATA"}}
              : i \in Slots}
BuffersAccounted == used = Cardinality(Holding)

\* No descriptor is leaked: every open one belongs to the connection epoll
\* reports it for, or is about to be assigned to it, so somebody closes it.
DescriptorsTracked ==
  \A f \in Fds : owner[f] # Nobody =>
    /\ watch[f] \in Slots
    /\ \/ fd[watch[f]] = f
       \/ poll.pc = "assign" /\ poll.file = f /\ poll.slot = watch[f]

\* After Close(true) or WaitFor returned every client was cut off and no
\* thread of the server is left.
ClosedIsClosed ==
  started /\ poll.pc = "off" /\ app.pc = "idle" =>
    /\ \A p \in Peers : phase[p] # "open"
    /\ \A i \in Slots : worker[i].pc = "none"

\* m_write_mutex keeps the parts of one Write together on every connection.
WritesNotMixed ==
  \A p \in Peers : \A j, k, l \in 1 .. Len(got[p]) :
    j < k /\ k < l /\ got[p][j].by = got[p][l].by /\ got[p][j].call = got[p][l].call
      => got[p][k] = got[p][j]

\* What a client receives was written to the index it is connected on.
WritesReachTheirClient ==
  \A p \in Peers : \A k \in 1 .. Len(got[p]) : got[p][k].dest = p

\* A client that comes while the server polls is announced or turned away,
\* but for one that from some time on keeps silent for ever in the middle of
\* its handshake: nothing times out.
Dawdles(p) == secure /\ phase[p] = "open" /\ shake[p] \in {"none", "answered"}
ArrivalIsReported ==
  \A p \in Peers :
    p \in Range(backlog)
      ~> (p \in met \/ phase[p] = "shut" \/ []Dawdles(p) \/ ~ polling)

\* The end of an announced connection, or of one whose handshake is pending,
\* is noticed while the server polls, and its entry in the table is free for
\* the next client.
Held(p) == p \in Range(view) \cup {owner[f] : f \in pending}
Lost(i) == fd[i] # None /\ watch[fd[i]] # i
EndIsReported ==
  /\ \A p \in Peers : (Held(p) /\ phase[p] # "open") ~> (~ Held(p) \/ ~ polling)
  /\ \A i \in Slots : Lost(i) ~> (~ Lost(i) \/ ~ polling)

\* Close(true) returns: every thread that Cleanup joins ends.
CloseReturns == (app.pc = "join" /\ ~ polling) ~> app.pc = "idle"

\* All that a client has sent reaches the application, if the client stays
\* and the server polls on; but what SSL_read left in the SSL object of a
\* record larger than the buffer waits there for the client's next record.
DataArrives ==
  \A p \in Peers :
    (p \in Senders /\ phase[p] = "open" /\ sent[p] = MaxSend)
      ~> (delivered[p] = MaxSend \/ phase[p] # "open" \/ ~ polling
          \/ (secure /\ delivered[p] = taken[p] /\ taken[p] < fetched[p]))
=============================================================================
