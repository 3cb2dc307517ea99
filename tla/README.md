# WebSocketCpp in TLA+

A verification development for the WebSocketCpp library: TLA+ modules
translated from the C++ source, TLC configurations that check them on small
instances, and TLAPS proofs of the results that hold for every size.

All references of the form `src/...` are paths of the repository, lines are
those of the commit the development was written against. `PROJECT.json` lists
components, runs, mutants, hazards and theorems, and maps every definition that
stands for code to its lines.

## 1. Inventory

WebSocketCpp is a WebSocket server and client. Its parts, from the bottom up:

| Component | State | Operations | Used by |
|---|---|---|---|
| `MemoryPool` (`wrappers/posix`) | a fixed buffer, `m_regions` (taken blocks, sorted), `m_used_size`, a mutex | `allocate`, `free`, `reset`, queries | `ServerSocket` for read buffers |
| `ServerSocket` (`utils`) | listening socket, epoll descriptor, `m_process_running`, table of `Connection`s, each with descriptor, index, `m_running`, task queue and worker thread; `m_write_mutex`; with TLS the SSL objects of pending handshakes (`m_pending_ssl`) and of connections (`m_ssl_conns`) | `Init`, `Run`, `Close`, `WaitFor`, `Write`; the polling thread (`ProcessTask`) and the worker threads (`Connection::processTask`) | communication servers |
| Communication servers (`conn`) | the `ServerSocket`, the callbacks | forward calls down and callbacks up | `WebSocketServer` |
| `ThreadWorker` (`wrappers/posix`) | thread, `m_isRunning` | `Start`, `Stop`, `StopNoWait`, `Wait` | `WebSocketServer` |
| `WebSocketServer` | `m_requestQueue` (one entry per connection: data, parsed frames, `handshake`, `readyForDispatch`), `m_pending_signal`, `m_routes`, `m_isRunning`, mutexes for each, the request thread | `Init`, `Run`, `Close`, `WaitFor`, `OnMessage`, `SendResponse`; callbacks `ClientConnected`, `DataReady`, `ClientDisconnected` | the user |
| `ClientSocket` (`utils`) | socket, connected flag, read thread | `Init`, `Connect`, `Run`, `Close`, `Write`, `Shutdown`; the read loop | communication clients |
| `WebSocketClient` | `m_state`, handshake promise, receive buffer | `Init`, `Open`, `Close`, `SendText`/`SendBinary`/`SendPing`; callbacks | the user |
| Frame codec (`RequestWebSocket`, `ResponseWebSocket`) | the message being parsed | `Parse`, `Create`/`Send` | both ends |
| HTTP (`Request`, `Response`, `Header`, `HttpHeader`) | the message being parsed, how far it is parsed; the message being built | `Parse`, `Send`, header access, `Write`, `AddFile`, `NotFound`, ... | the upgrade, both ends; request handlers |
| `Route`, `RouteWebSocket` | token list of a pattern | `Parse`, `IsMatch` | `WebSocketServer` |
| `Url`, `StringUtil` | parts of a URL; none | parsing, searching, splitting | parsers |
| `Session`, `ThreadPool` | a key-value map; workers and a task queue | set, get; submit, wait | nothing else in the library |
| `Config`, SHA-1/Base64, files, logging, `Platform` | settings; none | getters and setters; conversions; I/O | everywhere |

How they interact on the server side:

    client ==TCP==> polling thread --task--> worker thread i --callback--> WebSocketServer
                    (accept, read,            (one per                      InitConnection, PutToQueue,
                     close)                    connection)                  RemoveFromQueue (m_queueMutex)
                                                                                  | m_pending_signal
    client <==send()== ServerSocket::Write <-- user handler <-- request thread <--+
                       (m_write_mutex)                          (CheckData, ProcessRequests)

Every arrow crosses a thread: the polling thread closes descriptors that the
workers and `Write` still know by number; workers append to a queue the request
thread consumes; the thread that calls `Close(true)` waits for the polling
thread, the workers and the request thread, one after the other, while those
may wait for `m_queueMutex` or for a client that does not read.

What is hard, and the properties that make each part correct (the full list,
each entry at its line, is `hazards` in `PROJECT.json`):

* `MemoryPool`: the list must stay sorted and disjoint, because `allocate`
  subtracts unsigned numbers; first fit must not refuse what fits; buffers of
  one size must not fragment the pool.
* `ServerSocket`: a connection index is used by one client after another while
  the previous worker thread still runs; no descriptor, buffer, thread or
  announcement may be lost; the callbacks of one index must come in sessions;
  `Write` must reach the client it is meant for; `Close(true)` must return and
  leave nothing behind.
* `WebSocketServer`: no data of a connection lost, doubled or mixed up between
  the socket and the handler; each client gets its own answers in order, after
  the upgrade; no wake-up of the request thread is lost; `Close` and the
  destructor return.
* Client: opening succeeds or fails with everything undone, although the
  answer, the timeout and the end of the connection race.
* Codec and parsers: what one end writes the other reads, from any split of
  the stream; what is not a message must not be taken for one.
* Routes: a handler is called for the paths its pattern describes and finds its
  arguments; a client that believes it is connected has been accepted.

## 2. Plan

Modules, in the order in which they are written, the most important first:

1. `MemoryPool` with the abstract `ByteArena`, and its proofs - done.
2. `ServerSocket` with the abstract `SessionEvents` - done, TLS included.
3. `WebSocketServer` with the abstract `WebSocketService`; it composes the
   request queue, the request thread and the lifecycle with the callbacks that
   `SessionEvents` describes - done.
4. `WebSocketClient` over `ClientSocket` with the abstract `ClientSession`: the
   handshake against its timeout, close from either side, reopening, with and
   without TLS - done.
5. `Frames`: the frame codec, both directions, over a stream that arrives in
   any pieces - done.
6. `Text`, `Url`, `HttpMessages` and `Route`, the parsers, and `Upgrade`, which
   composes them with what `WebSocketClient` and `WebSocketServer` do with them
   during the handshake - done.
7. `ServerSocketProofs`, `ServerSocketSessionProofs`: types, descriptors,
   shutdown, writes, buffers, and `ImplementsSessions`, for any number of
   connections, clients and writers - done.
8. `WebSocketServerProofs`, `WebSocketServerStreamProofs`: types, the
   destructor, the queue, the answers, and `ImplementsService`, for any number of
   clients and any scripts - done.
9. `WebSocketClientProofs`: types, the messages, both callbacks at the end, and
   `ImplementsSession`, for any number of calls of `Open` and anything the server
   sends - done.
10. `FramesProofs`: the round trip of a frame and the boundaries of the stream,
    for any size of a byte, any limits and any frames; the accounting of the pool
    (`PoolAccounted`) in `MemoryPoolProofs` - done.

What is left:

11. `QueueIsStream` and `AnswersInOrder` beyond the first `Init` of a server, for
    the clients that find no entry of an older one.
12. Theorems about `Url`, `HttpMessages` and `Route`, which need conditions on the
    texts first (section 6, the end).
13. `ThreadPool` and `Session`, which nothing in the library uses.

## 3. Modules

### 3.1 MemoryPool, ByteArena, MCMemoryPool, MemoryPoolProofs

`MemoryPool` translates `MemoryPool.cpp`. `m_mutex` is held for the whole of
`allocate`, `free` and `reset`, so each is one action. `regions` is the vector
`m_regions`; `Minus` and `Plus` are arithmetic of `std::size_t` modulo
`WordSize`. `allocate` walks over the gaps with `cursor`: gap `i` runs from
`Cursor(i)` to `Edge(i)`, and the smallest gap in `Fitting` is taken. `free`
drops the region that begins at the pointer and ignores any other pointer.

`ByteArena` says what a caller may rely on: a request is granted at the lowest
address at which it overlaps no granted block, and refused only if there is no
such address. `ImplementsArena` is the refinement under
`blocks <- Range(regions), answer <- result`.

`MemoryPoolProofs` and the other modules of proofs are described in section 6.

### 3.2 ServerSocket, SessionEvents, MCServerSocket, ServerSocket...Proofs

`ServerSocket` models `ServerSocket.cpp`, its `WITH_OPENSSL` branches included:
`secure` is whether credentials were given.

* Clients and kernel are external: a client connects once, sends units of data
  (a unit is what one `read()` returns), closes or resets. `owner[f]` is who is
  on descriptor `f`; a descriptor is the smallest free number, handed out again
  as soon as it is closed, which is what makes stale descriptors dangerous.
  `watch[f]` is the index registered with epoll.
* The polling thread `poll` goes through `check` (loop condition), `wait`
  (`epoll_wait`: as many ready events as fit into `ClientCount` and
  `MAX_EVENT_COUNT`, in any selection), `batch` (one event at a time, in any order: `PollRefuse`,
  `PollAccept`, `PollRead`, `PollEnd`, `PollAgain`, `PollExhausted`) and `assign`
  (`Connection::Assign`, which may have to join the thread of the previous
  session).
* Each connection has `fd`, `idx`, `running` and `queue` (`m_fd`, `m_idx`,
  `m_running`, `m_args_queue`); its `worker` takes tasks and makes the callbacks
  in the steps of `processTask`: take, call, release, stop.
* `app` is a thread in `Cleanup` (from `Close(true)` or `WaitFor`): join the
  polling thread, then connection by connection close the socket, `Free`, join
  the worker.
* `writer[w]` is a thread in `Write`: the descriptor is read, then the mutex
  taken and the SSL object looked up, then `Parts` calls of `send()` or
  `SSL_write()`.
* TLS is what the server sees of it: a client's handshake is a first flight and
  a last one (`Shake`), `SSL_accept` succeeds, wants more or fails
  (`PollReserve`, `PollShake`, `PollSecured`, `PollShakeEnd`), and a record may
  hold more than a buffer does. `PollShakeEnd` closes the descriptor and frees
  the connection in one step: the code joins an earlier worker in between
  (`ServerSocket.cpp:345`), but only this thread accepts, and that worker has
  nothing left to do with either. `SSL_read` takes a whole record from the kernel
  (`fetched`) and hands over one buffer of it (`taken`); epoll knows nothing of
  the rest. `pending` is `m_pending_ssl`. A `Write` whose SSL object was freed
  meanwhile is undefined in C++; here it fails or goes on without effect.
* The pool is a counter `used`, which `PoolAccounted` of `MemoryPool` justifies:
  buffers have one size.
* `view`, `met` and `delivered` record what the callbacks have told the
  application; they are history only and no guard but `WriteBegin` reads them
  (an application writes to an index it was told of).

`SessionEvents` is the promise to the code that is called back: on each index
connect, data in order, disconnect, one client after another. Once a shutdown
has begun events that were queued may be handed over with index -1 (`Stray`)
or never: that is what the code does, and the abstract module says so.

### 3.3 WebSocketServer, WebSocketService, MCWebSocketServer, WebSocketServer...Proofs

`WebSocketServer` models `WebSocketServer.cpp`: the callbacks on worker
threads, the request thread, and the thread that owns the server.

* What a client sends is a script of messages, each `Parts` units long, cut
  anywhere by the reads. Kinds: the upgrade `request`, `text`, `ping`, `other`
  (a frame that is parsed and ignored) and `stuck` (one that no parser
  accepts: a payload of length 0, `FIN` = 0, too large, a malformed request).
  Whether bytes form such a message is the codec's business.
* `requestQueue` is `m_requestQueue`. An entry has `connID`, `data`, `list`
  (`requestList`), `handshake` and `ready` (`readyForDispatch`) as in
  `RequestData`, and `remote` for the client behind its `Request`.
* The workers' callbacks are sequences of steps (`init`, `greet`; `put`,
  `signal`; `bye`, `remove`): those that take `m_queueMutex` need `QueueFree`,
  the search for the entry in `ClientConnected` and `ClientDisconnected` takes
  no mutex in the code and none here.
* The request thread: `check` (`IsRunning`), `look` (`HasData`), `sleep`
  (`WaitForSignal`), `parse` (`CheckData`), and then `serve` and `reply`, entry
  by entry, during which it holds `m_queueMutex` - over the user's handler and
  over the `send()` of the answer, which waits while the client does not read.
* `app` is the user's thread: `InitServer`, `Run`, `CloseWait`, `CloseNoWait`,
  `WaitFor`, `Destroy`; `Closing` is what goes on inside: for each connection
  `Cut` and `Reap` (ServerSocket's `Cleanup`), then `StopNoWait`, `StopSignal`,
  `StopJoin`, and for the destructor `Unwind`, `Rejoin`.
* ServerSocket is reduced to its descriptors, the order of its callbacks and its
  shutdown: a free connection is taken by a client on the lowest free descriptor
  (`Arrive`), data is handed over (`Read`), the polling thread notices that a
  client has gone and closes the descriptor (`Drop`), which the kernel may hand
  out again from then on (`OnFile`), the worker announces the end (`End`), and
  the pool may run out at any time (`Exhausted`). What was read and not handed
  over yet is no state of its own: any next part of what the client has sent may
  come next, also after the descriptor was closed, or never.
* Descriptors decide whom an answer reaches. `Write` by the request thread and
  `SendResponse` by another thread look up the descriptor of a connection (`Fd`)
  and send to whoever is on it (`Send`). The request thread holds
  `m_queueMutex` meanwhile, so that its connection is not given to another
  client; but the polling thread may close the descriptor and accept another
  client on it. `SendResponse` takes no mutex between the two steps (`push`).
* At a shutdown `Cut` closes the descriptor of a connection and frees it; its
  worker ends, or takes one more of the tasks that are queued, for which the
  index is -1 then (`LastTask`, `Stray`). Its callback is like any other, with
  the index -1: the CONNECTION makes an entry -1, data is put into it if it is
  there and dropped if not. `Reap` waits for it.

`WebSocketService` is the promise to the user about each client: `OnConnect`
first, an upgrade at most once, messages in order and at most once, `OnDisconnect`
once at most, and nothing once the client has left. It has left when its entry
is removed, which is a step after `OnDisconnect` (`WebSocketServer.cpp:202` to
`205`): until then a message may still be handled, and the abstract module
allows it, because the code does it. `ImplementsService` derives the stage of a
client from the queue and from what the user was told.

### 3.4 WebSocketClient, ClientSession, MCWebSocketClient, WebSocketClientProofs

`WebSocketClient` models `WebSocketClient.cpp` with the two layers under it,
`CommunicationTcpClient.cpp` and `ClientSocket.cpp`, since the three keep flags
of the same fact that need not agree: `connected`, `reading`, `running` are
those of `ClientSocket`, `commRunning` and `commConnected` those of the
communication client, `state` and `handshakeDone` those of `WebSocketClient`.

* The server is external. The n-th call of `Open` makes connection n, if it
  makes one; `Script[n]` is what the server sends on it once it has the upgrade
  request, in units that a read may cut after: a response that accepts
  (`accept`, or `half` and `rest`) or does not (`refuse`), a frame (`frame`, or
  `part` and `end`). The server may close or reset at any time. What the kernel
  knows of a connection goes with its descriptor (`CloseFile`).
* The read thread: `check` (`m_read_running`), `wait` (`epoll_wait`: nothing,
  `ReadSome`, `ReadEnd`), then `hang`, `bye`, `leave` (`HandleClose`,
  `OnClosed`, `setRunning(false)`), or `data` (`OnDataReady`), which goes on
  with `parse`, `shaken`, `accepted` / `refused`, `drop` during the handshake
  and `frames` after it. Descriptors stay registered with epoll until they are
  closed, so an event may be for another one than `m_fd` (`Registered`).
* With credentials (`secure`; a client for `wss` without any makes a plain
  connection) `ClientSocket` goes through an SSL object, `ssl`. `ConnectSsl`
  makes it, `FreeSsl` frees it. `SSL_read` takes whole records from the kernel
  (`fetched`) and hands over a buffer at most (`taken`). The event and the read
  are then two steps (`ReadReady`, `SslRead`), because `Close(false)` frees the
  object under the read thread: in `SslGone` the read is undefined, or it is
  `read()`, which hands over an encrypted record (`Cipher`) as if it were data.
* What is left of an answer that was refused stays in `m_data` and lies in front of
  the next one. `Response::Parse` then sees both: half a status line spoils the
  answer, a header line does not. `ParseResponse` lets either happen (`Stale`).
* `app` is the user's thread. `Open` goes through `run`, `ran`, `shake`, `send`
  and `await`; connecting is one step (`Connects`, `ConnectFails`), a TLS
  handshake that fails among its outcomes. `Close(true)`, `Close(false)`, `WaitFor`
  and the destructor go through `join`, `release`, `unset`, `wreck`, `wait`.
  After `Close(false)` the application calls `WaitFor` next (`loose`): nothing
  else in the interface tells it that the read thread has ended.
* Assigning to a `std::thread` that is joinable ends the process; the model
  then stops in `aborted` (hazard at `ClientSocket.cpp:218`).

`ClientSession` is the promise to the user about the callbacks of one attempt:
success or failure once, messages only after success and in order, the end once
and last; `freed` says when the SSL object has gone and a message may be garbage.

### 3.5 Frames, MCFrames, FramesProofs

`Frames` takes `RequestWebSocket.cpp` and `ResponseWebSocket.cpp` as functions
between frames and bytes, and checks them where they are used: a sender appends
encoded frames to a stream, bytes arrive one at a time - any read is a number of
such steps - and `Cut` is `CheckWsFrame` of the server or one round of the loop
in `OnDataReady` of the client.

`Byte` is the number of values of a byte. The upper half is the flag (`FIN`,
`MASK`), `Medium` and `Long` are the two lengths that announce more bytes (126
and 127 in the code). `Opcodes` is the number of opcodes, the lower bits of the
first byte (16 in the code; 2 in the run), above which lie the RSV bits that the
server drops. With `Byte = 8` these are 2 and 3, and a payload of 64
bytes needs the longest header. `Power` is the value of a shift by whole bytes,
`Word` that of eight, the range of `size_t`. The operator `^` on two bytes is the
parameter `Xor`: `MCFrames` puts the bitwise operator there, and the proofs need
only that the same byte applied twice brings the first one back.

`FramesAssumption` says what a frame in memory is: header and payload together
fit into a `ByteArray`, and so does a frame of `MaxFrameSize`. The sums of
`RequestWebSocket::Parse` then stay below `Word`, and its test against
`SIZE_MAX` never decides anything.

`Understood` says which frames the properties are about, and it is narrower than
the protocol because the code is: the server takes no empty payload, no
fragment and nothing above the limits, and waits for ever at such a frame
(`stuck` in `WebSocketServer`); the client reads an extended length with the
lowest byte first, so only short payloads from the server are safe. Both are
listed as hazards at their lines.

### 3.6 Text, Url, HttpMessages, Route, Upgrade, MCUpgrade

`Text` is what the parsers take from `StringUtil.cpp`: searching, splitting,
trimming, numbers, percent encoding. A text is a sequence of symbols. A symbol
is a character, or a word where no code looks into it (a header name, a
number), so that texts stay short and every place at which the code searches,
cuts or compares is still there. `Bytes` is the number of bytes they stand for.
The first byte of a request and of a response is a symbol of its own, because it
makes a difference when it comes alone: `SearchPosition` computes the last place
to look at in `size_t`, which wraps in a text with fewer bytes than are searched
for (`Overruns`, `StringUtil.cpp:28`), and goes on beyond the text.

`Url`, `HttpMessages` and `Route` are functions, one operator per function of
`Url.cpp`, `HttpHeader.cpp`, `Request.cpp`, `Response.cpp` and `Route.cpp`. A
request or a response is the record of the object's members, and `ParseRequest`
takes it and the data that has come and gives the object after the call: what
is parsed in one call stays for the next. `ParseResponse` also says whether it
was satisfied. `Tokens` is the parser of patterns, symbol by symbol, and
`IsMatch` the matcher with the offset that one token leaves to another and the
arguments a failed match leaves behind. `Fits` and `FitsWith` are the reference
for it: a path belongs to a pattern if it can be divided among the tokens in
any way.

`Upgrade` puts them together along the way of one handshake: `Open` (the
request is built, given headers and written), `PutToQueue` (any part of it has
come), `CheckWsHeader`, `ProcessRequest` (routes are tried, handlers called, the
answer written) and `OnDataReady` (the response is parsed and judged), then
`Close` and the next `Open` with a new or the old `Request`. `OtherServerAnswers`
is some other server, for responses this one does not make. `search` says of each
side whether its searches stayed in their texts; beyond one they find what memory
holds there (`Behind`, `Searched`) or end the process (`fatal`). `setup` says what the
application has set up. Threads, timeouts and connections that fail are in
`WebSocketServer` and `WebSocketClient`, which in turn know messages by kind
only.

`MCUpgrade` has the setups: all paths of up to four symbols against 19 patterns
with every kind of token, well-formed or not; pairs of routes whose handlers
answer true or false, throw or are missing; every sequence of one or two calls
on a `Response`; every response code; queries with characters that need encoding
in names and values; addresses with and without each part; and a request and a
response that arrive in any pieces.

## 4. Runs

| Run | Instance | Checks | States |
|---|---|---|---|
| `memory_pool` | 8 bytes, words of 16, sizes 0, 1, 2, 3, 9 | `TypeOK`, `Sorted`, `PoolAccounted`, `ImplementsArena` | 5 k |
| `socket_safety` | 2 connections, 2 clients, 2 writers, 2 parts, with and without TLS, spurious readiness, shutdown at any time | `TypeOK`, `DescriptorsTracked`, `ClosedIsClosed`, `WritesNotMixed`, `ImplementsSessions` | 4.4 M |
| `socket_liveness` | 1 connection, 2 clients, one of which sends 2 units, with and without TLS, shutdown | `BuffersAccounted`, `ImplementsSessions`, `ArrivalIsReported`, `EndIsReported`, `DataArrives`, `CloseReturns` | 152 k |
| `socket_crosstalk` | 2 connections, 3 clients, 1 writer | `WritesReachTheirClient` is violated | - |
| `server_safety` | 1 connection, 2 clients, data in 2 parts, texts, unknown and malformed messages, every ending with its callbacks for index -1, late registration | `TypeOK`, `QueueIsStream`, `NothingLeft`, `ImplementsService` | 3.3 M |
| `server_answers` | 2 connections, 2 clients that ping and leave, descriptors handed out again, `SendResponse` | `AnswersInOrder` | 3.5 M |
| `server_live` | 2 connections, 2 clients with a text each, one of which may stop reading, `Close(true)` | `StraysUnserved`, `TextIsHandled`, `CloseReturns` | 346 k |
| `server_lastwords` | 1 connection, 1 client | `LastWordsHandled` is violated | - |
| `server_destroy` | 1 connection, 1 client, destructor at any time | `DestroyReturns` is violated | - |
| `client` | 2 calls of `Open`, with and without TLS, an answer in two pieces, then an answer, a frame in two pieces and a frame, every way to close | `TypeOK`, `MessagesAreStream`, `QuietAfterEnd`, `ImplementsSession`, `EndIsReal`, `CloseReturns`, `EndIsReported`, `MessagesAreHeard` | 1.5 M |
| `frames` | bytes of 8 values, 3 frames of 10 kinds, either direction | `StreamKept`, `CutsInTime` | 159 k |
| `upgrade` | the setups of section 3.6, 2 calls of `Open` | `PiecesDontMatter`, `RequestArrives`, `OpenedMeansAgreed`, `HandlersSeeTheirArgs`, `RoutesAreFound`, `BodyDelivered`, `HandshakeEnds` | 51 k |

Why the bounds are enough. In the pool, 8 bytes hold up to four blocks, gaps at
the start, in the middle and at the end, and gaps that are too small; words of
16 let an unsigned difference wrap visibly. In `ServerSocket`, one connection
and two clients are needed for reuse of a connection and for a full table, two
connections and two clients for a descriptor that moves from one connection to
another while the first still knows its number, three clients for a write that
goes astray. `socket_safety` has no data from clients, which decides nothing
about descriptors, but spurious readiness takes its buffers up to the last;
data, its order and its buffers are in `socket_liveness`, where two units make a
TLS record larger than a buffer. In `WebSocketServer`, two clients in a row on
one connection show what an entry leaves behind, and two units per message every
incomplete message. An answer can go astray only with a second connection, whose
client got the descriptor of the first: `server_answers` has two. Two threads of
the library that wait for the same mutex need two connections as well, and so
does an entry -1 with the data of two clients, as in `server_live`. For the
client, two calls of `Open` show what the first leaves to the second: a thread
not joined, a descriptor not closed, data not erased, an SSL object of a
connection that is gone; three units make a record larger than a buffer, and a
frame that begins in one read and ends in another. In `Frames` the frames have
every length of header with and without mask, payloads at and above the limits,
an empty one and a fragment; three of them put every kind between two others. In
`upgrade`, a path of four symbols is longer than what any of the patterns needs,
two calls on a `Response` show what the first leaves to the second, and two
calls of `Open` what a connection leaves to the next.

Liveness of `ServerSocket` is checked without spurious readiness: with it the
pool can always be exhausted, which ends the polling thread, and the properties
would hold for that reason.

Symmetry is used in safety runs only, over clients (and writers), which no
definition tells apart.

`CHECK_DEADLOCK FALSE` appears where the program may really come to rest: the
runs of `WebSocketServer`, in which the server is closed or destroyed for good,
`client`, in which the client is destroyed or the process ends, `frames`, in
which all that was sent has been cut, and `upgrade`, in which the attempt has
been decided or a search beyond a text has ended the process. That it does not stop
before is `HandshakeEnds`.

### What the violation runs show

* `socket_crosstalk`: `Write` (`ServerSocket.cpp:229`) reads the descriptor of
  an index before it takes the mutex, and `m_fd` keeps its value until the
  worker comes to the DISCONNECTION task. The polling thread has closed it by
  then and the kernel gives the number to the next client on another index, who
  receives the message.
* `server_lastwords`: `ClientDisconnected` erases the entry together with data
  and frames the request thread has not come to; a text sent right before the
  client leaves may never be handled.
* `server_destroy`: `Init` starts the request thread, `Close` does nothing
  unless `Run` succeeded; the destructor then joins a thread that sleeps on a
  condition nobody signals.

### What the properties had to leave out

Writing the properties down showed where the code does less than one might
expect; each is a hazard in `PROJECT.json`, and the property states the
condition under which the code is right:

* A header that is set again keeps its first value (`HttpHeader.cpp:148`), so a
  `Request` object serves one `Open`: the second sends the first key and refuses
  the answer to it. A second `Write` of a `Response` keeps the first length.
* A pattern is matched from left to right without going back. In
  `src/README.md` the example `/user/[num]` "will work for /user"; the code wants
  `/user/`, since the slash before the bracket is a token of its own, and
  `/user/2` fits only if the bracket holds `2` or a variable - after which a
  closing bracket ends the parsing of the pattern. A wildcard stands for what
  comes before the first place where the next token fits, not for "any value".
* A request whose first byte is looked at before the second has come, or the same
  with the first two of a response, makes the search run beyond its buffer
  (`StringUtil.cpp:28`): `PiecesDontMatter`, `RequestArrives` and `HandshakeEnds`
  speak of requests of which that did not happen.
* A message of a client may be handled after `OnDisconnect`, until the entry is
  removed (`WebSocketServer.cpp:202`): "left" is the removal.
* An answer may reach another client when the server has closed the connection of
  the client it is meant for (`ServerSocket.cpp:229`): `AnswersInOrder` allows that,
  and nothing else.
* At a shutdown, data that was read and not handed over is dropped or handed over
  with the index -1, which no client has (`ServerSocket.cpp:678`): `QueueIsStream`
  is about what is handed over for a connection, `StraysUnserved` about the rest.
* Percent encoding is undone only for texts without `%` and `+` and without
  two characters in a row of which the second needs it.
* A TLS record larger than the read buffer is delivered, by server and client
  alike, when the next one comes.
* A client that is silent in its handshake for ever keeps its connection for ever;
  one that goes on is announced or turned away (`ArrivalIsReported`).
* After `Close(false)` of a TLS client a message may be an encrypted record, or
  the read thread may use an SSL object that has been freed
  (`ClientSocket.cpp:235`): `MessagesAreStream` and `ClientSession` promise
  messages only while the object is there.
* A client keeps the connection object of its first `Open`: a later URL with
  another scheme is opened the way the first one was
  (`WebSocketClient.cpp:51`), so `secure` never changes.

Every property of a passing run has a mutant: a definition with a plausible bug
(data put in front, a missing `CloseSocket`, a worker not joined, ...), defined
in the module right before the definition it replaces and marked as such, under
which the property fails in that run.

## 5. Fairness

`ServerSocket`: weak fairness of the polling thread, of each worker and of
`Cleanup`. They are threads of the process, all their waits have timeouts
(`epoll_wait`, `wait_for`) or wait for a thread that is itself fair. Nothing is
assumed of clients, of the calls the application makes, or of `Write`.

`WebSocketServer`: weak fairness of the callbacks of each index, -1 included (which
assumes that user callbacks return), of the end of a connection being reported (which
`EndIsReported` of `ServerSocket` shows), and of the closing thread. Strong
fairness of the request thread: it needs a client to read now and then to get
on with `send()`, which it tries again and again, and its competitors for
`m_queueMutex` come back for ever in no run. `Resume` is weakly fair: a client
that stops reading goes on in the end. That one is an assumption about the
outside; without it `CloseReturns` is false, because `ProcessRequests` holds
`m_queueMutex` while `Write` waits for the client, the worker waits for the
mutex, and `Close` for the worker (hazard at `WebSocketServer.cpp:362`).

`WebSocketClient`: weak fairness of the read thread, of the thread in `Open`
(whose wait for the handshake has a timeout) and of the thread in `Close`,
`WaitFor` or the destructor: all are threads of the process, their waits have
timeouts or are for a thread that is itself fair, and user callbacks return.
Nothing is assumed of the server or of the calls the application makes.

`Upgrade` has no fairness: `HandshakeEnds` says that an undecided attempt always
has a next step, of the network or of a thread that `WebSocketServer` and
`WebSocketClient` show to go on.

## 6. Proofs

All proofs are for every value of the constants that the named assumptions
admit; those say no more than what the types of the source and its constructors
give. Each safety theorem follows the same line: an invariant `IInv` that holds
initially and is kept by every step, checked by TLC on a run's instance before it
was proved, and an implication. The property that is wanted is never inductive by
itself; what has to be added is the content of the proof. One lemma per action
(or per action and part of the invariant) says that the step keeps it.

`ProofLemmas` has what several of them need about sequences and numbers: least
and greatest elements of sets of numbers, what `Append`, `Tail`, `RemoveAt` and
`SubSeq` do to elements, quotients. It also has what replaces the induction
theorems of the library, which take an operator as parameter and cannot be used
with the provers at hand: `UpTo` is induction for a set of numbers in place of a
predicate. With it `FoldExists` shows that the recursion inside `FoldLeft` has a
solution, `JoinsExist` and `FlattenIsLast` the same for `FlattenSeq`; a fold is
then the last of its running values.

### MemoryPoolProofs

For every pool size, every word size larger than it and every set of request
sizes (`SizesAssumption`, which is what the type `std::size_t` and the
constructor give):

* `TypeCorrect`: `Spec => []TypeOK`.
* `StaysSorted`: `Spec => []Sorted`.
* `Implements`: `Spec => Arena!Spec`.
* `AccountsForEveryByte`: `Spec => []PoolAccounted`.

The inductive invariant is the conjunction of a type invariant and `Sorted`.
Neither is inductive alone: without `Sorted` the difference `Edge(i) -
Cursor(i)` could wrap, and a region be placed over another one or beyond the
end; with it, gap arithmetic is ordinary arithmetic and the new region lies
between its neighbours. The lemmas describe what `InsertAt` and `RemoveAt` do to
the elements of a sequence, then that first fit finds the lowest address: an
address with room lies in some gap, the gap's start has room too, and an
earlier gap would have been fitting. `Implements` maps the initial state, then
each action to a step of the arena: `Allocate` to `Grant` or `Refuse`, `Free` to
`GiveBack`, `Reset` to `Clear`.

`AccountsForEveryByte` follows the sum of the sizes through an insertion into the
middle of the list and a removal from it: the running sums of the new list are
those of the old one up to the place, and differ by one size behind it
(`SizesWithOneMore`). For the second half, that nothing is lost to fragments
while all blocks have one size, gaps that begin and end on multiples of the size
are empty or large enough (`GapsLieOnMultiples`), so a refused request means that
there are none and the sum is the whole pool (`FullWhenRefused`).

### FramesProofs

For any even number of values of a byte from 8 on, any `Xor` that undoes itself,
any limits and any sets of frames (`FramesAssumption`):

* `StreamInvariance`: `Spec => []StreamInv`.
* `FramesKept`: `Spec => []StreamKept`.
* `FramesCutInTime`: `Spec => []CutsInTime`.

First one frame. A length of `n` bytes is read back from its bytes because what
has been read after `k` of them is the length divided by `Power[n - k]`
(`LengthSurvives`); the two halves of a byte do not disturb each other
(`HalfByte`), masking twice is the identity (`MaskedFacts`). `FrameFacts` says what
is at each position of a frame, `HeaderParsed` and `BodyParsed` what `Parse` makes
of bytes that merely begin like one, of which any number may be there. From that,
`ServerParses` and `ClientParses`: a message is found exactly when all of the frame
is there and it is one that is understood, and it is the one that was sent.

Then the stream. The invariant is that the bytes received and those on their way
are together the frames that have not been cut out, joined (`Kept`). `Send` joins
one more at the end (`FlattenMore`), `Arrive` moves the border between the two,
and `Cut` removes the first, because the bytes that have arrived begin like it
(`FirstPart`, `FlattenFirst`). For a client the invariant speaks only of streams
without an extended length (`Followed`): after one nothing is known of what it
holds.

### ServerSocketProofs, ServerSocketSessionProofs

For any number of connections, clients, writers, parts and buffers, with and
without TLS (`SocketAssumption`).

`ServerSocketProofs`: `Invariance` (`Spec => []IInv`), and from it `TypeCorrect`,
`NoDescriptorLeaks` (`DescriptorsTracked`) and `CloseIsFinal`
(`ClosedIsClosed`). A connection, its descriptor, its queue and its worker are
changed by different threads; `IInv` says in which ways they may disagree. A
registered descriptor is open (`FdInv`). What the polling thread has in its batch
is still what `epoll_wait` reported, because only that thread closes while it runs
(`PollInv`). The DISCONNECTION task is the last of a client, and is queued only
behind the close of the descriptor (`EndInv`); so nothing of the last client is
left when `Assign` has joined the old worker (`FreshInv`). What `Cleanup` has gone
past stays closed, since nobody polls any more (`CleanupInv`, `ReachInv`). The
type invariant is part of it because the counter of buffers stays in range only
if every buffer on its way to the application is counted (`BufInv`).

`ServerSocketSessionProofs` begins with data: `WritesStayWhole` (`WritesNotMixed`) from the fact that
at most one writer is past the lock, and that from its first piece on a client
gets nothing else (`PiecesInv`). `DataInvariance` says that a client is in the
listen queue or on one descriptor (`PeerInv`), that the batch names clients that
have something to read (`NewsInv`), and that the buffers taken are those on their
way (`ExactInv`). `BuffersConserved` is `BuffersAccounted` under `secure \/ ~
SpuriousReads`: that condition is not for the proof's sake. `read()` that answers
EAGAIN keeps its buffer in the code (`ServerSocket.cpp:457`), so without it the
statement is false; `socket_liveness`, which checks the property, has no spurious
readiness for the same reason.

Then `Implements`, which is `Spec => ImplementsSessions`. It needs to know that
the tasks of a connection, from the polling thread over queue and worker to the
callback, are of one client, begin with its CONNECTION and number its data
without a gap (`SlotInv`, in `SessionInvariance`), and that no
client is served twice (`ServeInv`). The worker's `call` steps are the steps of
`SessionEvents`; all others leave its variables alone.

### WebSocketServerProofs, WebSocketServerStreamProofs

For any number of connections and clients, any scripts, any way of cutting data
(`ServerAssumption`).

`WebSocketServerProofs`: `Inductive` (`Spec => []IInv`), `TypeInvariance`
(`TypeOK`) and `DestructorLeavesNothing` (`NothingLeft`). The type of the request
thread's position is the hard part of the types: it stands on an entry of a queue
that other threads change, which `ReqInv` ties to the mutex. `LifeInv` is the order
in which the socket server, the request thread and the object end, `TableInv` what
`Cleanup` has done with each connection.

`WebSocketServerStreamProofs`, all for a server that has been initialised once
(`runs <= 1`):

* `StreamInvariance`: the inductive invariant.
* `NothingLostInQueue`: `QueueIsStream`, about the data that is handed over for a
  connection.
* `StraysStayUnserved`: `StraysUnserved`, about the callbacks with index -1.
* `AnswersKeepOrder`: `AnswersInOrder`. Whom an answer reaches is decided by the
  descriptor; it reaches another client only if the server has closed the
  connection of the client it is meant for.
* `ServerKeepsPromise`: `Spec /\ [](runs <= 1) => ImplementsService`.

The condition is needed because of the code: neither `Close` nor `Init` clears
`m_requestQueue` (hazard at `WebSocketServer.cpp:286`), so after a restart a new
client may find the entry of an old one on its index, with its data and its
`handshake` flag. States with `runs <= 1` are those of every program that closes
its server for good; the runs that check these properties have the same bound.

The invariant: no two entries are of one connection or of one client (`Apart`), an
entry belongs to the client that is on its connection if one is (`Owned`), an
announced connection has one (`Listed`), a client that is new has left no trace
(`NewInv`), what a worker holds is the latest of its client's data (`ChunkInv`),
and for each entry there is a number of messages parsed so far that accounts for
its data, its list, the answers sent and the messages handed over (`DataInv`,
through `Carried` and `Accounted`). Of the entry -1 nothing is known but that it
is never upgraded: the response to it cannot be sent, since -1 is no connection.
What else a worker may do after its connection was freed is the hard part of
`Listed` and `NewInv`: a client whose CONNECTION was not taken, or was taken with
the index -1, never has an entry of its own.

For the answers, open descriptors are of one client each (`FileInv`), so that what
is sent on the descriptor of a client that is there reaches this one; a response
of `SendResponse` that is under way holds the descriptor its client had
(`PushInv`). If the client is open still, it has had the answer to its upgrade
request. If it was dropped, another may be on the number, which is what the
property admits.

For the refinement `ConnectCallback` is `Join`, the `serve` step that sends the
response to the upgrade is `Upgrade`, the one that calls the handler is `Serve`,
`DisconnectCallback` is `Part`, `RemoveFromQueue` is `Leave`; every other step
leaves what the user sees alone. `TellInv` says that the callback of the end is
the last thing before the removal.

### WebSocketClientProofs

For any number of calls of `Open`, anything the server sends on each connection,
with and without TLS (`ClientAssumption`): `ClientInvariance` (`Spec => []IInv`),
and from it

* `ClientTypes`: `Spec => []TypeOK`.
* `EndIsQuiet`: `Spec => []QuietAfterEnd`.
* `NothingLostInClient`: `Spec => []MessagesAreStream`.
* `CloseCallbackIsReal`: `Spec => EndIsReal`, an action property.
* `ClientKeepsPromise`: `Spec => ImplementsSession`.

Three layers keep flags of the same fact. `FlagInv` says how far they may differ,
`CallInv` where the read thread can be while the application is in a call (that
it has been joined when `release` or `unset` is reached; that between `Connect`
and the request nothing has come), `FreshInv` and `ToldInv` what that thread may
still tell the user, `EndInv` that an end that is reported was seen. For the
messages, `DataInv` divides what was read on the connection: `m` units parsed,
then `data`, then the chunk in the thread's hands, then perhaps one record that
is still encrypted, which is possible only once `Close(false)` has freed the SSL
object; `PreInv` does so for the time before the answer is accepted. In the
refinement a successful `Open` is `Begin`, `ConnectCallback` `Connected`,
`RefuseCallback` `Refused`, `OnClosed` `Closed`, and `ParseFrame` `Message`, or
`Garbage` once the object is gone.

### Only model-checked

* Liveness (`CloseReturns`, `EndIsReported`, `DataArrives`, ...): it rests on
  fairness and `ENABLED`, which the provers do not handle.
* `Upgrade` and the parsers. Its properties are round trips of texts, and hold for
  the setups of the run and not for all: a host with a colon in it, a header value
  with a line break or a pattern that names one variable twice is in nobody's
  promise. A theorem would need the conditions under which a text survives, for
  each parser, and would say little more than they do.

## 7. Not modelled

* `Session` and `ThreadPool`: nothing in the library makes one (section 2).
* Inside OpenSSL nothing is modelled: a handshake that waits to write
  (`SSL_ERROR_WANT_WRITE`) is one that waits, and the handshake of the client is a
  part of connecting. `SSL_write` of the client beside its `SSL_read` on one
  object, which no lock prevents, is undefined and not shown.
* Of HTTP: the table of header types, MIME types, remote addresses, the
  `deflate` and `gzip` branches of `DecodeBody`, and the files
  behind `AddFile`. Of `StringUtil`: what nothing modelled calls.
* A response in several reads is refused by the client; that is modelled, but
  `Response::Parse` is only ever called once on a connection.
* How a client connects (`Connect` and `WaitConnect` in `ClientSocket.cpp`): one
  step that succeeds or fails.
* `Config`, `Platform`, enumerations and their names: setters, getters, tables.
* SHA-1 and Base64: numeric algorithms with published vectors; no useful bound
  makes exhaustive checking say more.
* `Url::ToString` (`Url.cpp:217`), which the handshake does not call: what is
  sent is `GetNormalizedPath` and `Query2String`. It doubles the slash of a path.
* Files, logging, debug output: input and output without state of their own.
* Undefined behaviour of the unlocked searches in `m_requestQueue` and
  `m_routes`: the search is one step of the model, what a torn search does is
  not shown (listed as hazards).
* A percent sign without a code in a query, at which `UrlDecode` never ends
  (`StringUtil.cpp:328`): no text of the run has one (a hazard).
* The `_WIN32` branches of `FileSystem.cpp`.
