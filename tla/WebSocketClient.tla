--------------------------- MODULE WebSocketClient ---------------------------
(***************************************************************************)
(* src/src/WebSocketClient.cpp over src/src/conn/CommunicationTcpClient.cpp*)
(* and src/src/utils/ClientSocket.cpp: the thread that opens, closes and   *)
(* destroys the client, and the read thread, which parses the answer to the*)
(* upgrade request and then the frames; or over CommunicationSslClient.cpp,*)
(* which differs in the credentials: then ClientSocket reads and writes    *)
(* through an SSL object, and the TLS handshake is a part of Connect.      *)
(*                                                                         *)
(* The n-th call of Open makes connection n, if it makes one.  What the    *)
(* server sends on a connection is a script of units: an "accept" or       *)
(* "refuse" response, the "half" of an accepting one and its "rest", a     *)
(* "frame", the "part" of a frame and its "end".  A TLS record may hold    *)
(* more of them than one SSL_read hands over.                              *)
(***************************************************************************)
EXTENDS Integers, SequencesExt

CONSTANTS
  Script,    \* what the server sends on each connection
  MaxOpens,  \* bound: calls of Open
  Tls,       \* with the scheme wss, with ws, or either: a set of Booleans
  Calls      \* what else the application calls: "close" (Close(true)), "nowait"
             \* (Close(false)), "wait" (WaitFor), "destroy" (the destructor)

Units == {"accept", "half", "rest", "refuse", "frame", "part", "end"}

ASSUME ClientAssumption ==
  /\ MaxOpens \in Nat
  /\ Script \in [1 .. MaxOpens -> Seq(Units)]
  /\ Tls \subseteq BOOLEAN
  /\ Calls \subseteq {"close", "nowait", "wait", "destroy"}

VARIABLES
  \* The server and the kernel, for each connection.
  sent,      \* units of the script that the server has sent
  hangup,    \* "no", "closed" or "reset" by the server
  fetched,   \* units that read or SSL_read has taken from the kernel
  taken,     \* units of them the client has read
  file,      \* the client's descriptor: "none", "open", "down" (shutdown), "closed"
  asked,     \* the upgrade request has reached the server
  \* ClientSocket.
  fd,        \* m_fd: the connection, 0 for none
  connected, reading, running,  \* m_connected, m_read_running, m_running
  thread,    \* m_read_thread: [pc, chunk]
  secure,    \* there are credentials: m_cert, m_key
  ssl,       \* m_ssl is there
  \* CommunicationTcpClient.
  commRunning, commConnected,   \* of IRunnable, of CommunicationClientBase
  \* WebSocketClient.
  state, handshakeDone, data,   \* m_state, m_handshake_done, m_data
  \* The application.
  app,       \* the thread that calls: [pc, wait, dying]
  opens,     \* calls of Open so far
  opened,    \* what the last Open returned
  told,      \* what the callbacks told of this attempt
  heard      \* messages handed over in this attempt

netVars    == <<sent, hangup, fetched, taken, file, asked>>
tlsVars    == <<secure, ssl>>
flagVars   == <<fd, connected, reading, running, tlsVars>>
socketVars == <<flagVars, thread>>
commVars   == <<commRunning, commConnected>>
clientVars == <<state, handshakeDone, data>>
appVars    == <<app, opens, opened>>
userVars   == <<told, heard>>
vars == <<netVars, socketVars, commVars, clientVars, appVars, userVars>>

Conns == 1 .. MaxOpens

\* The units of a connection, and what a unit is.
Stream(n) == [k \in 1 .. Len(Script[n]) |-> [conn |-> n, pos |-> k]]

\* What read() hands over of a TLS record: bytes that are still encrypted.
Cipher == [conn |-> 0, pos |-> 0]
Kind(unit) == IF unit = Cipher THEN "cipher" ELSE Script[unit.conn][unit.pos]

Init ==
  /\ sent = [n \in Conns |-> 0]
  /\ hangup = [n \in Conns |-> "no"]
  /\ fetched = [n \in Conns |-> 0]
  /\ taken = [n \in Conns |-> 0]
  /\ file = [n \in Conns |-> "none"]
  /\ asked = [n \in Conns |-> FALSE]
  /\ fd = 0 /\ connected = FALSE /\ reading = FALSE /\ running = FALSE
  /\ thread = [pc |-> "none", chunk |-> << >>]
  /\ secure \in Tls /\ ssl = FALSE
  /\ commRunning = FALSE /\ commConnected = FALSE
  /\ state = "Undefined" /\ handshakeDone = FALSE /\ data = << >>
  /\ app = [pc |-> "idle", wait |-> FALSE, dying |-> FALSE]
  /\ opens = 0 /\ opened = FALSE
  /\ told = "nothing" /\ heard = << >>

-----------------------------------------------------------------------------
(* The server (external).                                                  *)

ServerSends(n) ==
  /\ asked[n] /\ hangup[n] = "no"
  /\ sent[n] < Len(Script[n])
  /\ sent' = [sent EXCEPT ![n] = @ + 1]
  /\ UNCHANGED <<hangup, fetched, taken, file, asked, socketVars, commVars, clientVars,
                 appVars, userVars>>

ServerHangsUp(n) ==
  /\ file[n] = "open" /\ hangup[n] = "no"
  /\ \E how \in {"closed", "reset"} : hangup' = [hangup EXCEPT ![n] = how]
  /\ UNCHANGED <<sent, fetched, taken, file, asked, socketVars, commVars, clientVars,
                 appVars, userVars>>

-----------------------------------------------------------------------------
(* ReadLoop: the read thread.                                              *)

At(pc) == thread' = [pc |-> pc, chunk |-> << >>]

\* while (m_read_running)
ReadCheck ==
  /\ thread.pc = "check"
  /\ At(IF reading THEN "wait" ELSE "leave")
  /\ UNCHANGED <<netVars, flagVars, commVars, clientVars, appVars, userVars>>

\* Descriptors stay registered with epoll until they are closed.
Registered == {n \in Conns : file[n] \in {"open", "down"}}
HupAt(n) == file[n] = "down" \/ hangup[n] = "reset"
InAt(n)  == fetched[n] < sent[n] \/ hangup[n] = "closed"

\* epoll_wait times out, or one event is handled: EPOLLHUP and EPOLLERR end
\* the loop, EPOLLIN reads from m_fd, whichever descriptor it is for.
ReadTimeout ==
  /\ thread.pc = "wait"
  /\ \A n \in Registered : ~ HupAt(n) /\ ~ InAt(n)
  /\ At("check")
  /\ UNCHANGED <<netVars, flagVars, commVars, clientVars, appVars, userVars>>

\* Mutant: an answer of 0 is taken for no answer.
DrainedReset == IF fd = 0 THEN TRUE ELSE hangup[fd] = "reset"

\* Nothing more comes from m_fd: read() answers 0 or an error.
Drained ==
  IF fd = 0 THEN TRUE
  ELSE hangup[fd] = "reset" \/ (taken[fd] = sent[fd] /\ hangup[fd] = "closed")

ReadEnd ==
  /\ thread.pc = "wait"
  /\ \E n \in Registered : HupAt(n) \/ (~ secure /\ InAt(n) /\ Drained)
  /\ At("hang")
  /\ UNCHANGED <<netVars, flagVars, commVars, clientVars, appVars, userVars>>

\* Mutant: the whole buffer is taken, however much read() has put there.
ReadWhole == {Len(Script[fd])}

\* How far read() may come.
ReadUpTo == taken[fd] + 1 .. sent[fd]

ReadSome ==
  /\ thread.pc = "wait"
  /\ \E n \in Registered : ~ HupAt(n) /\ InAt(n)
  /\ ~ secure /\ ~ Drained
  /\ IF taken[fd] = sent[fd]
     THEN At("check") /\ UNCHANGED <<fetched, taken>>
     ELSE \E k \in ReadUpTo :
            /\ fetched' = [fetched EXCEPT ![fd] = k]
            /\ taken' = [taken EXCEPT ![fd] = k]
            /\ thread' = [pc |-> "data", chunk |-> SubSeq(Stream(fd), taken[fd] + 1, k)]
  /\ UNCHANGED <<sent, hangup, file, asked, flagVars,
                 commVars, clientVars, appVars, userVars>>

\* With TLS the event and the read are two steps: Close(false) of another
\* thread may free the SSL object in between.
ReadReady ==
  /\ thread.pc = "wait" /\ secure
  /\ \E n \in Registered : ~ HupAt(n) /\ InAt(n)
  /\ At("ready")
  /\ UNCHANGED <<netVars, flagVars, commVars, clientVars, appVars, userVars>>

\* SSL_read hands over some of a record, which it takes from the kernel as a
\* whole; the rest stays in the object.  No new record before it is used up.
Held == taken[fd] < fetched[fd]
Records == IF Held THEN {fetched[fd]}
           ELSE IF hangup[fd] = "reset" THEN {} ELSE fetched[fd] + 1 .. sent[fd]

SslRead ==
  /\ thread.pc = "ready" /\ ssl
  /\ \E record \in Records : \E k \in taken[fd] + 1 .. record :
       /\ fetched' = [fetched EXCEPT ![fd] = record]
       /\ taken' = [taken EXCEPT ![fd] = k]
       /\ thread' = [pc |-> "data", chunk |-> SubSeq(Stream(fd), taken[fd] + 1, k)]
  /\ UNCHANGED <<sent, hangup, file, asked, flagVars, commVars, clientVars, appVars, userVars>>

\* SSL_read has nothing: the end, or the event was for another descriptor.
SslReadNothing ==
  /\ thread.pc = "ready" /\ ssl
  /\ Records = {}
  /\ At(IF hangup[fd] = "no" THEN "check" ELSE "hang")
  /\ UNCHANGED <<netVars, flagVars, commVars, clientVars, appVars, userVars>>

\* The object is gone.  SSL_read with it is undefined, here an error; or
\* m_ssl is seen to be null, and read() takes what is there.
SslGone ==
  /\ thread.pc = "ready" /\ ~ ssl
  /\ \/ At("hang") /\ UNCHANGED fetched
     \/ /\ fd # 0
        /\ hangup[fd] # "reset" /\ fetched[fd] < sent[fd]
        /\ fetched' = [fetched EXCEPT ![fd] = sent[fd]]
        /\ thread' = [pc |-> "data", chunk |-> <<Cipher>>]
  /\ UNCHANGED <<sent, hangup, taken, file, asked, flagVars, commVars, clientVars,
                 appVars, userVars>>

\* Mutant: m_connected is not looked at.
HandleCloseAgain ==
  /\ thread.pc = "hang"
  /\ connected' = FALSE
  /\ At("bye")
  /\ UNCHANGED <<netVars, fd, reading, running, tlsVars, commVars, clientVars, appVars, userVars>>

\* HandleClose
HandleClose ==
  /\ thread.pc = "hang"
  /\ connected' = FALSE
  /\ At(IF connected THEN "bye" ELSE "leave")
  /\ UNCHANGED <<netVars, fd, reading, running, tlsVars, commVars, clientVars, appVars, userVars>>

\* OnClosed
OnClosed ==
  /\ thread.pc = "bye"
  /\ state' = "Closed"
  /\ told' = "closed"
  /\ At("leave")
  /\ UNCHANGED <<netVars, flagVars, commVars, handshakeDone, data,
                 appVars, heard>>

\* setRunning(false)
ReadLeave ==
  /\ thread.pc = "leave"
  /\ running' = FALSE
  /\ At("done")
  /\ UNCHANGED <<netVars, fd, connected, reading, tlsVars, commVars, clientVars, appVars, userVars>>

-----------------------------------------------------------------------------
(* OnDataReady, on the read thread.                                        *)

\* The data is kept; what is done with it depends on the state.
OnDataReady ==
  /\ thread.pc = "data"
  /\ data' = data \o thread.chunk
  /\ At(CASE state = "Handshake" -> "parse"
          [] state = "BinaryMessage" -> "frames"
          [] OTHER -> "check")
  /\ UNCHANGED <<netVars, flagVars, commVars, state, handshakeDone,
                 appVars, userVars>>

\* An accepting response, in one piece or two.
Accepting == {<<"accept">>, <<"half", "rest">>}
Accepts(units) == [k \in 1 .. Len(units) |-> Kind(units[k])] \in Accepting

\* The first k units were left by earlier attempts, and do not hold the empty
\* line at which a response ends.
Stale(k) ==
  \A j \in 1 .. k : data[j].conn # fd /\ Kind(data[j]) \notin {"accept", "refuse", "rest"}

\* Response::Parse accepts a response only if it is all that has come.  With
\* stale bytes in front it is up to those what the two make together: half a
\* status line spoils the answer, a line of headers does not.
ParseResponse ==
  /\ thread.pc = "parse"
  /\ \/ /\ \E k \in 0 .. Len(data) : Stale(k) /\ Accepts(SubSeq(data, k + 1, Len(data)))
        /\ state' = "BinaryMessage" /\ At("shaken")
     \/ /\ ~ Accepts(data)
        /\ state' = "Closed" /\ At("refused")
  /\ UNCHANGED <<netVars, flagVars, commVars, handshakeDone, data,
                 appVars, userVars>>

\* m_handshake_done under m_handshake_mtx, and the notification.
HandshakeDone ==
  /\ thread.pc = "shaken"
  /\ handshakeDone' = TRUE
  /\ At("accepted")
  /\ UNCHANGED <<netVars, flagVars, commVars, state, data,
                 appVars, userVars>>

\* m_connectCallback(true), then the response is erased.
ConnectCallback ==
  /\ thread.pc = "accepted"
  /\ told' = "connected"
  /\ data' = << >>
  /\ At("check")
  /\ UNCHANGED <<netVars, flagVars, commVars, state, handshakeDone,
                 appVars, heard>>

\* m_connectCallback(false)
RefuseCallback ==
  /\ thread.pc = "refused"
  /\ told' = "refused"
  /\ At("drop")
  /\ UNCHANGED <<netVars, flagVars, commVars, clientVars, appVars, heard>>

\* Mutant: only m_connected is cleared.
ShutdownConnected ==
  /\ connected' = FALSE
  /\ UNCHANGED <<reading, file>>

\* ClientSocket::Shutdown
Shutdown ==
  /\ connected' = FALSE
  /\ reading' = FALSE
  /\ file' = [n \in Conns |-> IF n = fd THEN "down" ELSE file[n]]

\* ClientSocket::FreeSsl
FreeSsl == ssl' = FALSE

\* Close(false) by the read thread.
DropConnection ==
  /\ thread.pc = "drop"
  /\ IF commRunning \/ commConnected THEN Shutdown /\ FreeSsl
     ELSE UNCHANGED <<connected, reading, file, ssl>>
  /\ commRunning' = FALSE /\ commConnected' = FALSE
  /\ At("check")
  /\ UNCHANGED <<sent, hangup, fetched, taken, asked, fd, running, secure, clientVars,
                 appVars, userVars>>

\* ResponseWebSocket::Parse: the length of the first frame, 0 if there is
\* none that is complete.  A TLS record looks like one.
FrameSize(units) ==
  CASE Len(units) >= 1 /\ Kind(units[1]) \in {"frame", "cipher"} -> 1
    [] Len(units) >= 2 /\ Kind(units[1]) = "part" /\ Kind(units[2]) \in {"end", "cipher"} -> 2
    [] OTHER -> 0

\* The message that is handed over: where it begins, 0 if it is none.
Message == IF Cipher \in ToSet(SubSeq(data, 1, FrameSize(data))) THEN 0 ELSE data[1].pos

\* Mutant: the frame is left in the data.
ParseFrameKept ==
  /\ thread.pc = "frames"
  /\ heard' = IF FrameSize(data) = 0 THEN heard ELSE Append(heard, Message)
  /\ At("check")
  /\ UNCHANGED <<netVars, flagVars, commVars, clientVars, appVars, told>>

\* Mutant: what is not a whole frame yet is thrown away.
ParseFrameForgets ==
  /\ thread.pc = "frames"
  /\ IF FrameSize(data) = 0
     THEN At("check") /\ data' = << >> /\ UNCHANGED heard
     ELSE /\ data' = SubSeq(data, FrameSize(data) + 1, Len(data))
          /\ heard' = Append(heard, Message)
          /\ UNCHANGED thread
  /\ UNCHANGED <<netVars, flagVars, commVars, state, handshakeDone,
                 appVars, told>>

\* One frame is erased from the data and handed over; then the next.
ParseFrame ==
  /\ thread.pc = "frames"
  /\ IF FrameSize(data) = 0
     THEN At("check") /\ UNCHANGED <<data, heard>>
     ELSE /\ data' = SubSeq(data, FrameSize(data) + 1, Len(data))
          /\ heard' = Append(heard, Message)
          /\ UNCHANGED thread
  /\ UNCHANGED <<netVars, flagVars, commVars, state, handshakeDone,
                 appVars, told>>

ReadThread ==
  \/ ReadCheck \/ ReadTimeout \/ ReadEnd \/ ReadSome
  \/ ReadReady \/ SslRead \/ SslReadNothing \/ SslGone
  \/ HandleClose \/ OnClosed \/ ReadLeave
  \/ OnDataReady \/ ParseResponse \/ HandshakeDone \/ ConnectCallback
  \/ RefuseCallback \/ DropConnection \/ ParseFrame

-----------------------------------------------------------------------------
(* Open.                                                                   *)

Go(pc) == app' = [app EXCEPT !.pc = pc]

\* InitSsl and ConnectSsl, if there are credentials: the SSL object that is
\* there when the handshake has succeeded.
ConnectSsl == ssl' = secure

\* ClientSocket::Connect, which WaitConnect makes a blocking call.
Connects ==
  /\ ConnectSsl
  /\ fd' = opens + 1
  /\ file' = [file EXCEPT ![opens + 1] = "open"]
  /\ connected' = TRUE

\* The host is not known, and m_fd keeps the descriptor of an earlier
\* connection; or the connection is refused or not made in time, or, with
\* credentials, its TLS handshake fails, and the descriptor is closed.
ConnectFails ==
  /\ fd' \in {fd, 0}
  /\ UNCHANGED <<file, connected, ssl>>

\* Open: connects unless the connection object still counts as connected.
Open ==
  /\ app.pc = "idle" /\ opens < MaxOpens
  /\ opens' = opens + 1
  /\ opened' = FALSE
  /\ \/ /\ ~ commConnected
        /\ Connects
        /\ commConnected' = TRUE
        /\ state' = "Connected"
        /\ told' = "nothing" /\ heard' = << >>
        /\ Go("run")
     \/ /\ ~ commConnected
        /\ ConnectFails
        /\ state' = IF state = "Undefined" THEN "Initialized" ELSE state
        /\ UNCHANGED <<commConnected, told, heard, app>>
     \/ /\ commConnected
        /\ Go("run")
        /\ UNCHANGED <<file, fd, connected, ssl, commConnected, state, told, heard>>
  /\ UNCHANGED <<sent, hangup, fetched, taken, asked, reading, running, thread, secure,
                 commRunning, handshakeDone, data>>

\* Run of the socket: a std::thread that is still joinable cannot be
\* assigned, the process ends.
RunFails ==
  /\ app.pc = "run"
  /\ ~ connected \/ running
  /\ Go("idle")
  /\ UNCHANGED <<netVars, socketVars, commVars, clientVars, opens, opened, userVars>>

RunStarts ==
  /\ app.pc = "run"
  /\ connected /\ ~ running
  /\ reading' = TRUE
  /\ IF thread.pc = "none" THEN At("check") /\ Go("ran")
                           ELSE At("aborted") /\ Go("aborted")
  /\ UNCHANGED <<netVars, fd, connected, running, tlsVars, commVars, clientVars, opens, opened,
                 userVars>>

\* setRunning(true), after the thread has been started.
RunSet ==
  /\ app.pc = "ran"
  /\ running' = TRUE /\ commRunning' = TRUE
  /\ Go("shake")
  /\ UNCHANGED <<netVars, fd, connected, reading, thread, tlsVars, commConnected, clientVars,
                 opens, opened, userVars>>

StartHandshake ==
  /\ app.pc = "shake"
  /\ handshakeDone' = FALSE
  /\ state' = "Handshake"
  /\ Go("send")
  /\ UNCHANGED <<netVars, socketVars, commVars, data, opens, opened, userVars>>

\* request.Send
SendRequest ==
  /\ app.pc = "send"
  /\ \/ /\ connected
        /\ asked' = [asked EXCEPT ![fd] = TRUE]
        /\ Go("await")
     \/ /\ ~ connected \/ hangup[fd] # "no"
        /\ UNCHANGED asked
        /\ Go("idle")
  /\ UNCHANGED <<sent, hangup, fetched, taken, file, socketVars, commVars, clientVars,
                 opens, opened, userVars>>

OpenDone ==
  /\ app.pc = "await"
  /\ handshakeDone
  /\ opened' = TRUE
  /\ Go("idle")
  /\ UNCHANGED <<netVars, socketVars, commVars, clientVars, opens, userVars>>

OpenTimeout ==
  /\ app.pc = "await"
  /\ ~ handshakeDone
  /\ state' = "HandshakeFailed"
  /\ Go("idle")
  /\ UNCHANGED <<netVars, socketVars, commVars, handshakeDone, data, opens, opened, userVars>>

Opening ==
  RunFails \/ RunStarts \/ RunSet \/ StartHandshake \/ SendRequest \/ OpenDone \/ OpenTimeout

-----------------------------------------------------------------------------
(* Close, WaitFor and the destructor.                                      *)

\* Mutant: the read thread is not joined.
CloseUnjoined(wait, dying) ==
  /\ Shutdown
  /\ app' = [pc |-> "unset", wait |-> wait, dying |-> dying]

\* What follows Close: the rest of the destructor, the next call of the
\* application, or WaitFor.
Afterwards(wait, dying) == IF dying THEN "wreck" ELSE IF wait THEN "idle" ELSE "loose"

\* CommunicationTcpClient::Close
CloseBegin(wait, dying) ==
  IF commRunning \/ commConnected
  THEN /\ Shutdown
       /\ app' = [pc |-> IF wait THEN "join" ELSE "unset", wait |-> wait, dying |-> dying]
  ELSE /\ app' = [pc |-> Afterwards(wait, dying), wait |-> wait, dying |-> dying]
       /\ UNCHANGED <<connected, reading, file>>

Close ==
  /\ app.pc = "idle" /\ opens > 0
  /\ \/ "close" \in Calls /\ CloseBegin(TRUE, FALSE)
     \/ "nowait" \in Calls /\ CloseBegin(FALSE, FALSE)
     \/ "destroy" \in Calls /\ CloseBegin(TRUE, TRUE)
  /\ UNCHANGED <<sent, hangup, fetched, taken, asked, fd, running, thread, tlsVars, commVars,
                 clientVars, opens, opened, userVars>>

\* WaitFor joins the read thread, and closes nothing.  After Close(false) it
\* is the application's next call: nothing else tells it when the read
\* thread, which may be in a callback, has ended.
WaitFor ==
  /\ \/ "wait" \in Calls /\ app.pc = "idle" /\ opens > 0
     \/ app.pc = "loose"
  /\ app' = [app EXCEPT !.pc = "join", !.wait = FALSE]
  /\ UNCHANGED <<netVars, socketVars, commVars, clientVars, opens, opened, userVars>>

Join ==
  /\ app.pc = "join"
  /\ thread.pc \in {"none", "done"}
  /\ At("none")
  /\ Go(IF app.wait THEN "release" ELSE "idle")
  /\ UNCHANGED <<netVars, flagVars, commVars, clientVars,
                 opens, opened, userVars>>

\* close() of a descriptor: what the kernel knew of the connection is gone.
CloseFile ==
  LET Now(f, value) == [n \in Conns |-> IF n = fd THEN value ELSE f[n]]
  IN /\ file' = Now(file, "closed") /\ hangup' = Now(hangup, "no")
     /\ sent' = Now(sent, 0) /\ fetched' = Now(fetched, 0) /\ taken' = Now(taken, 0)
     /\ asked' = Now(asked, FALSE)

Release ==
  /\ app.pc = "release"
  /\ CloseFile
  /\ fd' = 0
  /\ Go("unset")
  /\ UNCHANGED <<connected, reading, running, thread, tlsVars, commVars, clientVars,
                 opens, opened, userVars>>

\* FreeSsl, and the flags of the communication client.
Unset ==
  /\ app.pc = "unset"
  /\ FreeSsl
  /\ commRunning' = FALSE /\ commConnected' = FALSE
  /\ Go(Afterwards(app.wait, app.dying))
  /\ UNCHANGED <<netVars, fd, connected, reading, running, thread, secure, clientVars,
                 opens, opened, userVars>>

\* The members of WebSocketClient are gone; ~ClientSocket shuts down.
Wreck ==
  /\ app.pc = "wreck"
  /\ Shutdown
  /\ Go("wait")
  /\ UNCHANGED <<sent, hangup, fetched, taken, asked, fd, running, thread, tlsVars, commVars,
                 clientVars, opens, opened, userVars>>

\* ~ClientSocket joins the thread, closes the descriptor and frees the SSL object.
Finish ==
  /\ app.pc = "wait"
  /\ thread.pc \in {"none", "done"}
  /\ FreeSsl
  /\ At("none")
  /\ CloseFile
  /\ fd' = 0
  /\ Go("gone")
  /\ UNCHANGED <<connected, reading, running, secure, commVars, clientVars,
                 opens, opened, userVars>>

Closing == Join \/ Release \/ Unset \/ Wreck \/ Finish

-----------------------------------------------------------------------------
Next ==
  \/ \E n \in Conns : ServerSends(n) \/ ServerHangsUp(n)
  \/ ReadThread \/ Open \/ Opening \/ Close \/ WaitFor \/ Closing

Spec == Init /\ [][Next]_vars

\* The read thread and the thread in Open, Close or the destructor are
\* scheduled, the timeout of Open expires, callbacks return.
Fairness ==
  /\ WF_vars(ReadThread)
  /\ WF_vars(Opening)
  /\ WF_vars(Closing)

FairSpec == Spec /\ Fairness
-----------------------------------------------------------------------------
(* Properties.                                                             *)

Positions == UNION {DOMAIN Script[n] : n \in Conns}
Unit == [conn : Conns, pos : Positions] \cup {Cipher}

\* Every variable has its type.
TypeOK ==
  /\ \A n \in Conns : sent[n] \in 0 .. Len(Script[n])
  /\ \A n \in Conns : fetched[n] \in 0 .. sent[n] /\ taken[n] \in 0 .. fetched[n]
  /\ hangup \in [Conns -> {"no", "closed", "reset"}]
  /\ file \in [Conns -> {"none", "open", "down", "closed"}]
  /\ asked \in [Conns -> BOOLEAN]
  /\ fd \in Conns \cup {0}
  /\ connected \in BOOLEAN /\ reading \in BOOLEAN /\ running \in BOOLEAN
  /\ secure \in Tls /\ ssl \in BOOLEAN
  /\ thread \in [pc : {"none", "check", "wait", "ready", "hang", "bye", "leave", "done", "data",
                       "parse", "shaken", "accepted", "refused", "drop", "frames", "aborted"},
                 chunk : Seq(Unit)]
  /\ commRunning \in BOOLEAN /\ commConnected \in BOOLEAN
  /\ state \in {"Undefined", "Initialized", "Connected", "Handshake", "HandshakeFailed",
                "BinaryMessage", "Closed"}
  /\ handshakeDone \in BOOLEAN
  /\ data \in Seq(Unit)
  /\ app \in [pc : {"idle", "run", "ran", "shake", "send", "await", "join", "release", "unset",
                    "loose", "wreck", "wait", "gone", "aborted"},
              wait : BOOLEAN, dying : BOOLEAN]
  /\ opens \in 0 .. MaxOpens /\ opened \in BOOLEAN
  /\ told \in {"nothing", "connected", "refused", "closed"}
  /\ heard \in Seq(Positions \cup {0})

\* The callbacks of a connection come as promised, although the answer of
\* the server, the timeout of Open, the end of the connection and Close meet
\* in any order.
Freed == secure /\ ~ ssl
Session == INSTANCE ClientSession WITH freed <- Freed
ImplementsSession == Session!Spec

\* Where the messages begin that are complete in the first k units.
HeardAt(n, k) ==
  {j \in 1 .. k : Script[n][j] = "frame" \/ (Script[n][j] = "part" /\ j < k)}

\* Nothing of what the server sends after its answer is lost, doubled or
\* reordered: messages handed over, then unparsed data, then the chunk in
\* the hands of the read thread are what was read; until Close(false) has
\* freed the SSL object.
MessagesAreStream ==
  told = "connected" /\ fd # 0 /\ ~ Freed =>
    LET rest == data \o thread.chunk
        parsed == taken[fd] - Len(rest)
    IN /\ rest = SubSeq(Stream(fd), parsed + 1, taken[fd])
       /\ Range(heard) = HeardAt(fd, parsed)
       /\ \A j, k \in DOMAIN heard : j < k => heard[j] < heard[k]

\* After Close(true) has returned no callback comes until the next Open, and
\* none is running or will run when the members of the client, callbacks
\* included, are destroyed.
QuietAfterEnd ==
  /\ app.pc = "idle" /\ ~ commConnected /\ ~ commRunning =>
       thread.pc \in {"none", "check", "leave", "done"} /\ ~ reading
  /\ app.pc \in {"wait", "gone"} => thread.pc \in {"none", "check", "leave", "done"}

\* The close callback is for the end that the server makes: closing by the
\* application never calls it (unless a descriptor that Close(false) has
\* left open is still registered and hangs up).
EndIsReal ==
  [][told # "closed" /\ told' = "closed" =>
       \/ fd # 0 /\ hangup[fd] # "no"
       \/ \E n \in Registered : n # fd]_vars

\* The connection the client has is up.
Up == fd # 0 /\ file[fd] = "open" /\ hangup[fd] = "no"

\* The messages that have arrived and were not handed over.
Unheard == IF fd = 0 THEN {} ELSE HeardAt(fd, sent[fd]) \ Range(heard)

\* Close(true), WaitFor after Close(false) and the destructor return.
CloseReturns ==
  (\/ app.pc = "join" /\ (app.wait \/ ~ connected)
   \/ app.pc = "wait")
    ~> app.pc \in {"idle", "gone"}

\* The server's end of a connection that was reported is reported, unless
\* the application closes it first.
EndIsReported ==
  (fd # 0 /\ told = "connected" /\ hangup[fd] # "no")
    ~> (told # "connected" \/ fd = 0 \/ file[fd] # "open")

\* Every message that has arrived on a connection that Open has opened is
\* handed over, if the connection stays and none that was left to
\* Close(false) is still registered; but for the rest of a TLS record, which
\* waits in the SSL object for more to come.
MessagesAreHeard ==
  (opened /\ Unheard # {}) ~>
    (Unheard = {} \/ ~ Up \/ (\E n \in Registered : n # fd) \/ (Held /\ fetched[fd] = sent[fd]))
=============================================================================
