------------------------ MODULE WebSocketClientProofs ------------------------
(***************************************************************************)
(* Theorems about WebSocketClient, for whatever the server sends on any    *)
(* number of connections, with and without TLS.                            *)
(*                                                                         *)
(* Three layers keep flags of one fact, and the read thread, the thread in *)
(* Open and the one that closes change them in their own order.  The       *)
(* invariant says how far the flags may differ (FlagInv, FreshInv), where  *)
(* the read thread can be while the application is in a call (CallInv),    *)
(* what it may still tell (ToldInv, EndInv), and how what was read is      *)
(* divided between chunk, data and messages (PreInv, DataInv).             *)
(***************************************************************************)
EXTENDS WebSocketClient, ProofLemmas

-----------------------------------------------------------------------------
(* The inductive invariant.                                                *)

ThreadPcs == {"none", "check", "wait", "ready", "hang", "bye", "leave", "done", "data",
              "parse", "shaken", "accepted", "refused", "drop", "frames", "aborted"}
AppPcs == {"idle", "run", "ran", "shake", "send", "await", "join", "release", "unset",
           "loose", "wreck", "wait", "gone", "aborted"}

NetTypes ==
  /\ sent \in [Conns -> Nat] /\ fetched \in [Conns -> Nat] /\ taken \in [Conns -> Nat]
  /\ \A n \in Conns : /\ sent[n] <= Len(Script[n])
                      /\ fetched[n] <= sent[n] /\ taken[n] <= fetched[n]
  /\ hangup \in [Conns -> {"no", "closed", "reset"}]
  /\ file \in [Conns -> {"none", "open", "down", "closed"}]
  /\ asked \in [Conns -> BOOLEAN]
FlagTypes ==
  /\ fd \in Conns \cup {0}
  /\ connected \in BOOLEAN /\ reading \in BOOLEAN /\ running \in BOOLEAN
  /\ secure \in Tls /\ ssl \in BOOLEAN
  /\ commRunning \in BOOLEAN /\ commConnected \in BOOLEAN
StateTypes ==
  /\ state \in {"Undefined", "Initialized", "Connected", "Handshake", "HandshakeFailed",
                "BinaryMessage", "Closed"}
  /\ handshakeDone \in BOOLEAN
  /\ opens \in 0 .. MaxOpens /\ opened \in BOOLEAN
  /\ told \in {"nothing", "connected", "refused", "closed"}
ThreadTypes == thread \in [pc : ThreadPcs, chunk : Seq(Unit)]
AppTypes == app \in [pc : AppPcs, wait : BOOLEAN, dying : BOOLEAN]
DataTypes == data \in Seq(Unit) /\ heard \in Seq(Positions \cup {0})

\* The read thread has ended, or will without doing anything.
Quiet == thread.pc \in {"none", "check", "leave", "done"} /\ ~ reading

\* The read thread may still get data or come to the end of the connection.
Alive ==
  thread.pc \in {"wait", "ready", "hang", "bye", "data"} \/ (thread.pc = "check" /\ reading)

\* A connection that was not made yet.
ConnInv ==
  /\ fd <= opens
  /\ \A n \in Conns : n > opens =>
       sent[n] = 0 /\ ~ asked[n] /\ file[n] = "none" /\ hangup[n] = "no"

\* What the flags of the three layers have in common.
FlagInv ==
  /\ connected \/ reading \/ ssl => commConnected
  /\ connected => fd # 0 /\ file[fd] = "open"
  /\ reading => fd # 0
  /\ connected \/ reading => ~ Freed
  /\ ssl => secure /\ (fd # 0 \/ (app.pc = "unset" /\ thread.pc = "none"))
  /\ thread.pc \notin {"none", "check", "leave", "done", "aborted"} => fd # 0
  /\ thread.pc = "ready" => secure

\* Where the read thread is while the application is in a call.
CallInv ==
  /\ thread.pc = "aborted" <=> app.pc = "aborted"
  /\ ~ commConnected => Quiet \/ app.pc = "loose" \/ (app.pc = "join" /\ ~ app.wait)
  /\ app.pc \in {"loose", "wreck", "wait", "gone"} => ~ commConnected
  /\ app.dying => app.wait /\ app.pc \in {"join", "release", "unset", "wreck", "wait", "gone"}
  /\ app.pc \in {"release", "unset"} \/ (app.pc = "join" /\ app.wait) =>
       ~ reading /\ ~ connected
  /\ app.pc = "release" => app.wait /\ thread.pc = "none"
  /\ app.pc = "unset" /\ app.wait => thread.pc = "none"
  /\ app.pc \in {"ran", "shake", "send"} =>
       /\ commConnected
       /\ fd # 0 /\ ~ asked[fd] /\ sent[fd] = 0 /\ (connected => reading)
       /\ thread.pc \in {"check", "wait", "ready", "hang", "bye", "leave", "done"}
       /\ told \in {"nothing", "closed"}
  /\ thread.pc \notin {"none", "done", "aborted"} => running \/ app.pc = "ran"

\* A connection whose read thread was not started is as it was made; one
\* whose read thread has seen its end is not connected.
FreshInv ==
  /\ connected /\ ~ reading =>
       /\ thread.pc \in {"none", "check", "leave", "done"}
       /\ ~ asked[fd] /\ sent[fd] = 0
       /\ told = "nothing" /\ heard = << >>
       /\ state # "BinaryMessage"
  /\ reading /\ thread.pc \in {"none", "bye", "leave", "done"} => ~ connected

\* What the user was told before the read thread comes to tell more.
ToldInv ==
  /\ thread.pc \in {"parse", "shaken", "accepted", "refused"} => told = "nothing"
  /\ thread.pc \in {"shaken", "accepted"} => state # "Handshake"
  /\ thread.pc = "frames" => told = "connected"
  /\ Alive \/ thread.pc = "frames" =>
       /\ told \in {"nothing", "connected"}
       /\ told = "connected" => state # "Handshake"
       /\ told = "nothing" => state # "BinaryMessage"

\* There was an end to report.
EndSeen == (fd # 0 /\ hangup[fd] # "no") \/ \E n \in Registered : n # fd
EndInv ==
  /\ thread.pc = "hang" /\ connected => EndSeen
  /\ thread.pc = "bye" => EndSeen

Control == ConnInv /\ FlagInv /\ CallInv /\ FreshInv /\ ToldInv /\ EndInv

\* No message begins in the first k units of connection n.
NoFrames(n, k) == \A j \in 1 .. k : Script[n][j] \notin {"frame", "part"}

\* What was read before the answer was accepted is all there.
PreInv ==
  /\ thread.pc # "data" => thread.chunk = << >>
  /\ told = "nothing" => heard = << >>
  /\ told = "nothing" /\ fd # 0 =>
       \A j \in 1 .. taken[fd] :
         [conn |-> fd, pos |-> j] \in Range(data) \cup Range(thread.chunk)
  /\ thread.pc \in {"shaken", "accepted"} => NoFrames(fd, taken[fd])

\* What was read and not parsed.
Rest == data \o thread.chunk

\* Of the units that were read the first m were parsed, and the rest is kept,
\* with c = 1 followed by a record that is still encrypted.
Carried(m, c) ==
  /\ m <= taken[fd]
  /\ Len(Rest) = taken[fd] - m + c
  /\ \A k \in 1 .. taken[fd] - m : Rest[k] = [conn |-> fd, pos |-> m + k]
  /\ c = 1 => /\ Rest[taken[fd] - m + 1] = Cipher
              /\ Freed /\ ~ reading /\ thread.pc \notin {"wait", "ready"}
  /\ \A k \in DOMAIN heard : heard[k] <= m
  /\ ~ Freed =>
       /\ Range(heard) = HeardAt(fd, m)
       /\ \A j, k \in DOMAIN heard : j < k => heard[j] < heard[k]
       /\ m > 0 => Script[fd][m] # "part"

DataInv ==
  told = "connected" /\ fd # 0 => \E m \in Nat, c \in {0, 1} : Carried(m, c)

IInv ==
  /\ NetTypes /\ FlagTypes /\ StateTypes /\ ThreadTypes /\ AppTypes /\ DataTypes
  /\ Control /\ PreInv /\ DataInv

\* An UNCHANGED of the model says what it says of each variable.
USE DEF netVars, tlsVars, flagVars, socketVars, commVars, clientVars, appVars, userVars

-----------------------------------------------------------------------------
(* Types.                                                                  *)

\* How much of a connection's stream there is, and of what.
LEMMA StreamTypes ==
  ASSUME NEW n \in Conns
  PROVE  /\ Len(Script[n]) \in Nat /\ Len(Stream(n)) = Len(Script[n])
         /\ Stream(n) \in Seq(Unit)
         /\ \A j \in 1 .. Len(Script[n]) : /\ j \in Positions
                                         /\ Stream(n)[j] = [conn |-> n, pos |-> j]
                                         /\ Script[n][j] \in Units
<1>1. Script[n] \in Seq(Units)
  BY ClientAssumption DEF Conns
<1>2. Len(Script[n]) \in Nat /\ DOMAIN Script[n] = 1 .. Len(Script[n])
  BY <1>1
<1>3. \A j \in 1 .. Len(Script[n]) : j \in Positions /\ Script[n][j] \in Units
  <2>1. DOMAIN Script[n] \subseteq Positions
    BY Zenon DEF Positions
  <2> QED  BY <1>1, <1>2, <2>1
<1>4. \A j \in 1 .. Len(Script[n]) : [conn |-> n, pos |-> j] \in Unit
  BY <1>3 DEF Unit
<1>5. Stream(n) \in Seq(Unit) /\ Len(Stream(n)) = Len(Script[n])
  BY SMT, <1>2, <1>4 DEF Stream
<1>6. \A j \in 1 .. Len(Script[n]) : Stream(n)[j] = [conn |-> n, pos |-> j]
  BY Zenon DEF Stream
<1> QED  BY <1>2, <1>3, <1>5, <1>6

\* What is read of a stream is made of its units.
LEMMA ReadTypes ==
  ASSUME NEW n \in Conns, NEW i \in Nat, NEW k \in Nat, k <= Len(Script[n])
  PROVE  SubSeq(Stream(n), i + 1, k) \in Seq(Unit)
<1>1. Stream(n) \in Seq(Unit) /\ Len(Stream(n)) = Len(Script[n])
  BY StreamTypes
<1>. DEFINE S == Stream(n)
<1>. HIDE DEF S
<1>2. S \in Seq(Unit) /\ k <= Len(S)
  BY <1>1 DEF S
<1>3. SubSeq(S, i + 1, k) \in Seq(Unit)
  BY SMT, <1>2
<1> QED  BY <1>3 DEF S

\* A step of the read thread that leaves nothing in its hands.
LEMMA ThreadAt ==
  ASSUME NEW p \in ThreadPcs, At(p)
  PROVE  ThreadTypes'
<1>1. << >> \in Seq(Unit)
  OBVIOUS
<1> QED  BY Zenon, <1>1 DEF At, ThreadTypes

\* A step of the read thread that has read something.
LEMMA ThreadData ==
  ASSUME NEW c \in Seq(Unit), thread' = [pc |-> "data", chunk |-> c]
  PROVE  ThreadTypes'
<1>1. "data" \in ThreadPcs
  BY DEF ThreadPcs
<1> QED  BY Zenon, <1>1 DEF ThreadTypes

\* More is fetched of what was sent, and some of that taken.
LEMMA TakeTypes ==
  ASSUME NetTypes, fd \in Conns, NEW r \in 0 .. sent[fd], NEW k \in 0 .. r,
         fetched' = [fetched EXCEPT ![fd] = r], taken' = [taken EXCEPT ![fd] = k],
         UNCHANGED <<sent, hangup, file, asked>>
  PROVE  NetTypes'
<1>1. r \in Nat /\ k \in Nat /\ k <= r /\ r <= sent[fd]
  <2>1. sent[fd] \in Nat
    BY DEF NetTypes
  <2> QED  BY SMT, <2>1
<1>2. fetched' \in [Conns -> Nat] /\ taken' \in [Conns -> Nat]
  BY SMT, <1>1 DEF NetTypes
<1>3. \A n \in Conns : fetched'[n] <= sent[n] /\ taken'[n] <= fetched'[n]
  BY SMT, <1>1 DEF NetTypes
<1> QED  BY Zenon, <1>2, <1>3 DEF NetTypes

\* No more is taken than was read, fetched and sent.
LEMMA NetTypesStep ==
  ASSUME NetTypes, FlagTypes, StateTypes, ThreadTypes, AppTypes, DataTypes, Control, [Next]_vars
  PROVE  NetTypes'
<1>1. CASE \E n \in Conns : ServerSends(n)
  <2>1. PICK n \in Conns : ServerSends(n)
    BY <1>1
  <2>2. /\ sent[n] \in Nat /\ Len(Script[n]) \in Nat /\ sent[n] < Len(Script[n])
        /\ sent' = [sent EXCEPT ![n] = sent[n] + 1]
    BY SMT, <2>1, StreamTypes DEF ServerSends, NetTypes
  <2>3. UNCHANGED <<hangup, fetched, taken, file, asked>>
    BY <2>1 DEF ServerSends
  <2>4. sent' \in [Conns -> Nat]
    BY SMT, <2>2 DEF NetTypes
  <2>5. \A k \in Conns : sent'[k] <= Len(Script[k]) /\ fetched[k] <= sent'[k]
    BY SMT, <2>2, StreamTypes DEF NetTypes
  <2> QED  BY Zenon, <2>3, <2>4, <2>5 DEF NetTypes
<1>2. CASE \E n \in Conns : ServerHangsUp(n)
  <2>1. PICK n \in Conns, how \in {"closed", "reset"} : hangup' = [hangup EXCEPT ![n] = how]
    BY <1>2 DEF ServerHangsUp
  <2>2. hangup' \in [Conns -> {"no", "closed", "reset"}]
    BY SMT, <2>1 DEF NetTypes
  <2>3. UNCHANGED <<sent, fetched, taken, file, asked>>
    BY <1>2 DEF ServerHangsUp
  <2> QED  BY Zenon, <2>2, <2>3 DEF NetTypes
<1>3. CASE ReadSome
  <2>1. fd # 0
    BY SMT, <1>3 DEF ReadSome, Control, FlagInv
  <2>2. UNCHANGED <<sent, hangup, file, asked>>
    BY <1>3 DEF ReadSome
  <2>3. CASE taken[fd] = sent[fd]
    BY Zenon, <1>3, <2>2, <2>3 DEF ReadSome, NetTypes
  <2>4. CASE taken[fd] # sent[fd]
    <3>1. PICK k \in taken[fd] + 1 .. sent[fd] :
            fetched' = [fetched EXCEPT ![fd] = k] /\ taken' = [taken EXCEPT ![fd] = k]
      BY Zenon, <1>3, <2>4 DEF ReadSome, ReadUpTo
    <3>2. sent[fd] \in Nat /\ taken[fd] \in Nat /\ fd \in Conns
      BY <2>1 DEF NetTypes, FlagTypes
    <3>3. k \in 0 .. sent[fd] /\ k \in 0 .. k
      BY SMT, <3>2
    <3> QED  BY <2>2, <3>1, <3>2, <3>3, TakeTypes
  <2> QED  BY <2>3, <2>4
<1>4. CASE SslRead
  <2>1. fd \in Conns /\ taken[fd] \in Nat /\ fetched[fd] \in Nat /\ sent[fd] \in Nat
        /\ fetched[fd] <= sent[fd]
    BY SMT, <1>4 DEF SslRead, Control, FlagInv, FlagTypes, NetTypes
  <2>2. UNCHANGED <<sent, hangup, file, asked>>
    BY <1>4 DEF SslRead
  <2>3. PICK r \in Records : \E k \in taken[fd] + 1 .. r :
          fetched' = [fetched EXCEPT ![fd] = r] /\ taken' = [taken EXCEPT ![fd] = k]
    BY Zenon, <1>4 DEF SslRead
  <2>4. r \in 0 .. sent[fd]
    BY SMT, <2>1 DEF Records
  <2>5. PICK k \in taken[fd] + 1 .. r :
          fetched' = [fetched EXCEPT ![fd] = r] /\ taken' = [taken EXCEPT ![fd] = k]
    BY <2>3
  <2>6. k \in 0 .. r
    BY SMT, <2>1, <2>4
  <2> QED  BY <2>1, <2>2, <2>4, <2>5, <2>6, TakeTypes
<1>5. CASE SslGone
  <2>1. UNCHANGED <<sent, hangup, file, asked, taken>>
    BY <1>5 DEF SslGone
  <2>2. CASE UNCHANGED fetched
    BY Zenon, <2>1, <2>2 DEF NetTypes
  <2>3. CASE fd # 0 /\ fetched' = [fetched EXCEPT ![fd] = sent[fd]]
    <3>1. fd \in Conns
      BY <2>3 DEF FlagTypes
    <3>2. fetched' \in [Conns -> Nat]
      BY SMT, <2>3, <3>1 DEF NetTypes
    <3>3. \A n \in Conns : fetched'[n] <= sent[n] /\ taken[n] <= fetched'[n]
      BY SMT, <2>3, <3>1 DEF NetTypes
    <3> QED  BY Zenon, <2>1, <3>2, <3>3 DEF NetTypes
  <2> QED  BY Zenon, <1>5, <2>2, <2>3 DEF SslGone
<1>6. CASE DropConnection
  <2>1. sent' = sent /\ fetched' = fetched /\ taken' = taken /\ hangup' = hangup /\ asked' = asked
    BY Zenon, <1>6 DEF DropConnection, At, Shutdown, FreeSsl
  <2>2. file' \in [Conns -> {"none", "open", "down", "closed"}]
    BY SMT, <1>6 DEF DropConnection, At, Shutdown, FreeSsl, NetTypes
  <2> QED  BY Zenon, <2>1, <2>2 DEF NetTypes
<1>7. CASE Open
  <2>1. sent' = sent /\ fetched' = fetched /\ taken' = taken /\ hangup' = hangup /\ asked' = asked
    BY Zenon, <1>7 DEF Open, Go, Connects, ConnectFails, ConnectSsl
  <2>2. file' = file \/ file' = [file EXCEPT ![opens + 1] = "open"]
    BY Zenon, <1>7 DEF Open, Go, Connects, ConnectFails, ConnectSsl
  <2>3. file' \in [Conns -> {"none", "open", "down", "closed"}]
    BY Zenon, <2>2 DEF NetTypes
  <2> QED  BY Zenon, <2>1, <2>3 DEF NetTypes
<1>8. CASE SendRequest
  <2>1. UNCHANGED <<sent, hangup, fetched, taken, file>>
    BY <1>8 DEF SendRequest
  <2>2. asked' \in [Conns -> BOOLEAN]
    <3>1. asked' = asked \/ asked' = [asked EXCEPT ![fd] = TRUE]
      BY Zenon, <1>8 DEF SendRequest
    <3> QED  BY Zenon, <3>1 DEF NetTypes
  <2> QED  BY Zenon, <2>1, <2>2 DEF NetTypes
<1>9. CASE Close
  <2>1. sent' = sent /\ fetched' = fetched /\ taken' = taken /\ hangup' = hangup /\ asked' = asked
    BY Zenon, <1>9 DEF Close, CloseBegin, Shutdown, Afterwards
  <2>2. file' \in [Conns -> {"none", "open", "down", "closed"}]
    BY SMT, <1>9 DEF Close, CloseBegin, Shutdown, Afterwards, NetTypes
  <2> QED  BY Zenon, <2>1, <2>2 DEF NetTypes
<1>10. CASE Release
  <2>1. sent' \in [Conns -> Nat] /\ fetched' \in [Conns -> Nat] /\ taken' \in [Conns -> Nat]
    BY SMT, <1>10 DEF Release, Go, CloseFile, NetTypes
  <2>2. /\ hangup' \in [Conns -> {"no", "closed", "reset"}]
        /\ file' \in [Conns -> {"none", "open", "down", "closed"}]
        /\ asked' \in [Conns -> BOOLEAN]
    <3>1. hangup' = [n \in Conns |-> IF n = fd THEN "no" ELSE hangup[n]]
      BY Zenon, <1>10 DEF Release, Go, CloseFile
    <3>2. file' = [n \in Conns |-> IF n = fd THEN "closed" ELSE file[n]]
      BY Zenon, <1>10 DEF Release, Go, CloseFile
    <3>3. asked' = [n \in Conns |-> IF n = fd THEN FALSE ELSE asked[n]]
      BY Zenon, <1>10 DEF Release, Go, CloseFile
    <3> QED  BY Zenon, <3>1, <3>2, <3>3 DEF NetTypes
  <2>3. ASSUME NEW n \in Conns
        PROVE  sent'[n] <= Len(Script[n]) /\ fetched'[n] <= sent'[n] /\ taken'[n] <= fetched'[n]
    <3>1. \/ sent'[n] = 0 /\ fetched'[n] = 0 /\ taken'[n] = 0
          \/ sent'[n] = sent[n] /\ fetched'[n] = fetched[n] /\ taken'[n] = taken[n]
      BY Zenon, <1>10 DEF Release, Go, CloseFile
    <3> QED  BY SMT, <3>1, StreamTypes DEF NetTypes
  <2> QED  BY <2>1, <2>2, <2>3 DEF NetTypes
<1>11. CASE Wreck
  <2>1. sent' = sent /\ fetched' = fetched /\ taken' = taken /\ hangup' = hangup /\ asked' = asked
    BY Zenon, <1>11 DEF Wreck, Go, Shutdown
  <2>2. file' \in [Conns -> {"none", "open", "down", "closed"}]
    BY SMT, <1>11 DEF Wreck, Go, Shutdown, NetTypes
  <2> QED  BY Zenon, <2>1, <2>2 DEF NetTypes
<1>12. CASE Finish
  <2>1. sent' \in [Conns -> Nat] /\ fetched' \in [Conns -> Nat] /\ taken' \in [Conns -> Nat]
    BY SMT, <1>12 DEF Finish, Go, At, FreeSsl, CloseFile, NetTypes
  <2>2. /\ hangup' \in [Conns -> {"no", "closed", "reset"}]
        /\ file' \in [Conns -> {"none", "open", "down", "closed"}]
        /\ asked' \in [Conns -> BOOLEAN]
    <3>1. hangup' = [n \in Conns |-> IF n = fd THEN "no" ELSE hangup[n]]
      BY Zenon, <1>12 DEF Finish, Go, At, FreeSsl, CloseFile
    <3>2. file' = [n \in Conns |-> IF n = fd THEN "closed" ELSE file[n]]
      BY Zenon, <1>12 DEF Finish, Go, At, FreeSsl, CloseFile
    <3>3. asked' = [n \in Conns |-> IF n = fd THEN FALSE ELSE asked[n]]
      BY Zenon, <1>12 DEF Finish, Go, At, FreeSsl, CloseFile
    <3> QED  BY Zenon, <3>1, <3>2, <3>3 DEF NetTypes
  <2>3. ASSUME NEW n \in Conns
        PROVE  sent'[n] <= Len(Script[n]) /\ fetched'[n] <= sent'[n] /\ taken'[n] <= fetched'[n]
    <3>1. \/ sent'[n] = 0 /\ fetched'[n] = 0 /\ taken'[n] = 0
          \/ sent'[n] = sent[n] /\ fetched'[n] = fetched[n] /\ taken'[n] = taken[n]
      BY Zenon, <1>12 DEF Finish, Go, At, FreeSsl, CloseFile
    <3> QED  BY SMT, <3>1, StreamTypes DEF NetTypes
  <2> QED  BY <2>1, <2>2, <2>3 DEF NetTypes
<1>13. CASE UNCHANGED vars
  BY <1>13 DEF vars, NetTypes
<1>14. CASE \/ ReadCheck \/ ReadTimeout \/ ReadReady \/ OnClosed \/ ReadLeave \/ HandleClose
         \/ OnDataReady \/ ParseResponse
  <2>1. UNCHANGED netVars
    BY Zenon, <1>14 DEF ReadCheck, ReadTimeout, ReadReady, OnClosed, ReadLeave, HandleClose,
       OnDataReady, ParseResponse
  <2> QED  BY <2>1 DEF NetTypes
<1>15. CASE \/ HandshakeDone \/ ConnectCallback \/ RefuseCallback \/ ParseFrame \/ ReadEnd
         \/ RunFails \/ RunStarts \/ RunSet
  <2>1. UNCHANGED netVars
    BY Zenon, <1>15 DEF HandshakeDone, ConnectCallback, RefuseCallback, ParseFrame, ReadEnd,
       RunFails, RunStarts, RunSet
  <2> QED  BY <2>1 DEF NetTypes
<1>16. CASE \/ StartHandshake \/ OpenDone \/ OpenTimeout \/ WaitFor \/ Join \/ Unset
         \/ SslReadNothing
  <2>1. UNCHANGED netVars
    BY Zenon, <1>16 DEF StartHandshake, OpenDone, OpenTimeout, WaitFor, Join, Unset,
       SslReadNothing
  <2> QED  BY <2>1 DEF NetTypes
<1> QED  BY <1>1, <1>2, <1>3, <1>4, <1>5, <1>6, <1>7, <1>8, <1>9, <1>10, <1>11, <1>12, <1>13,
     <1>14, <1>15, <1>16 DEF Next, ReadThread, Opening, Closing

\* The read thread is somewhere in its loop, with units in its hands.
LEMMA ThreadTypesStep ==
  ASSUME NetTypes, FlagTypes, StateTypes, ThreadTypes, AppTypes, DataTypes, Control, [Next]_vars
  PROVE  ThreadTypes'
<1>1. CASE ReadCheck
  <2>1. At("wait") \/ At("leave")
    BY <1>1 DEF ReadCheck
  <2> QED  BY Zenon, <2>1, ThreadAt DEF ThreadPcs
<1>2. CASE ReadTimeout
  BY Zenon, <1>2, ThreadAt DEF ReadTimeout, ThreadPcs
<1>3. CASE ReadEnd
  BY Zenon, <1>3, ThreadAt DEF ReadEnd, ThreadPcs
<1>4. CASE ReadSome
  <2>1. fd \in Conns /\ taken[fd] \in Nat /\ sent[fd] \in Nat /\ sent[fd] <= Len(Script[fd])
        /\ fetched[fd] \in Nat /\ fetched[fd] <= sent[fd]
    BY SMT, <1>4 DEF ReadSome, Control, FlagInv, FlagTypes, NetTypes
  <2>2. \/ At("check")
        \/ \E k \in taken[fd] + 1 .. sent[fd] :
             thread' = [pc |-> "data", chunk |-> SubSeq(Stream(fd), taken[fd] + 1, k)]
    BY Zenon, <1>4 DEF ReadSome, ReadUpTo
  <2>3. ASSUME NEW k \in taken[fd] + 1 .. sent[fd]
        PROVE  SubSeq(Stream(fd), taken[fd] + 1, k) \in Seq(Unit)
    <3>1. k \in Nat /\ k <= Len(Script[fd])
      BY SMT, <2>1, StreamTypes
    <3> QED  BY <2>1, <3>1, ReadTypes
  <2>4. "check" \in ThreadPcs
    BY DEF ThreadPcs
  <2> QED  BY Zenon, <2>2, <2>3, <2>4, ThreadAt, ThreadData
<1>5. CASE ReadReady
  BY Zenon, <1>5, ThreadAt DEF ReadReady, ThreadPcs
<1>6. CASE SslRead
  <2>1. fd \in Conns /\ taken[fd] \in Nat /\ sent[fd] \in Nat /\ sent[fd] <= Len(Script[fd])
        /\ fetched[fd] \in Nat /\ fetched[fd] <= sent[fd]
    BY SMT, <1>6 DEF SslRead, Control, FlagInv, FlagTypes, NetTypes
  <2>2. \E r \in Records : \E k \in taken[fd] + 1 .. r :
          thread' = [pc |-> "data", chunk |-> SubSeq(Stream(fd), taken[fd] + 1, k)]
    BY Zenon, <1>6 DEF SslRead
  <2>3. ASSUME NEW r \in Records, NEW k \in taken[fd] + 1 .. r
        PROVE  SubSeq(Stream(fd), taken[fd] + 1, k) \in Seq(Unit)
    <3>1. r \in 0 .. sent[fd]
      BY SMT, <2>1 DEF Records
    <3>2. k \in Nat /\ k <= Len(Script[fd])
      BY SMT, <2>1, <3>1, StreamTypes
    <3> QED  BY <2>1, <3>2, ReadTypes
  <2> QED  BY Zenon, <2>2, <2>3, ThreadData
<1>7. CASE SslReadNothing
  <2>1. At("check") \/ At("hang")
    BY <1>7 DEF SslReadNothing
  <2> QED  BY Zenon, <2>1, ThreadAt DEF ThreadPcs
<1>8. CASE SslGone
  <2>1. At("hang") \/ thread' = [pc |-> "data", chunk |-> <<Cipher>>]
    BY Zenon, <1>8 DEF SslGone
  <2>2. <<Cipher>> \in Seq(Unit)
    BY SMT DEF Unit
  <2>3. "hang" \in ThreadPcs
    BY DEF ThreadPcs
  <2> QED  BY Zenon, <2>1, <2>2, <2>3, ThreadAt, ThreadData
<1>9. CASE HandleClose
  <2>1. At("bye") \/ At("leave")
    BY <1>9 DEF HandleClose
  <2> QED  BY Zenon, <2>1, ThreadAt DEF ThreadPcs
<1>10. CASE OnClosed
  BY Zenon, <1>10, ThreadAt DEF OnClosed, ThreadPcs
<1>11. CASE ReadLeave
  BY Zenon, <1>11, ThreadAt DEF ReadLeave, ThreadPcs
<1>12. CASE OnDataReady
  <2>1. PICK p \in {"parse", "frames", "check"} : At(p)
    BY Zenon, <1>12 DEF OnDataReady
  <2> QED  BY Zenon, <2>1, ThreadAt DEF ThreadPcs
<1>13. CASE ParseResponse
  <2>1. At("shaken") \/ At("refused")
    BY <1>13 DEF ParseResponse
  <2> QED  BY Zenon, <2>1, ThreadAt DEF ThreadPcs
<1>14. CASE HandshakeDone
  BY Zenon, <1>14, ThreadAt DEF HandshakeDone, ThreadPcs
<1>15. CASE ConnectCallback
  BY Zenon, <1>15, ThreadAt DEF ConnectCallback, ThreadPcs
<1>16. CASE RefuseCallback
  BY Zenon, <1>16, ThreadAt DEF RefuseCallback, ThreadPcs
<1>17. CASE DropConnection
  BY Zenon, <1>17, ThreadAt DEF DropConnection, ThreadPcs
<1>18. CASE ParseFrame
  <2>1. At("check") \/ UNCHANGED thread
    BY <1>18 DEF ParseFrame
  <2> QED  BY Zenon, <2>1, ThreadAt DEF ThreadPcs, ThreadTypes
<1>19. CASE RunStarts
  <2>1. At("check") \/ At("aborted")
    BY <1>19 DEF RunStarts
  <2> QED  BY Zenon, <2>1, ThreadAt DEF ThreadPcs
<1>20. CASE Join
  BY Zenon, <1>20, ThreadAt DEF Join, ThreadPcs
<1>21. CASE Finish
  BY Zenon, <1>21, ThreadAt DEF Finish, ThreadPcs
<1>22. CASE UNCHANGED vars
  BY <1>22 DEF vars, ThreadTypes
<1>23. CASE \E n \in Conns : ServerSends(n) \/ ServerHangsUp(n)
  <2>1. thread' = thread
    BY Zenon, <1>23 DEF ServerSends, ServerHangsUp
  <2> QED  BY <2>1 DEF ThreadTypes
<1>24. CASE \/ RunFails \/ RunSet \/ StartHandshake \/ SendRequest \/ OpenDone \/ OpenTimeout
         \/ WaitFor \/ Release
  <2>1. thread' = thread
    BY Zenon, <1>24 DEF RunFails, RunSet, StartHandshake, SendRequest, OpenDone, OpenTimeout,
       WaitFor, Release
  <2> QED  BY <2>1 DEF ThreadTypes
<1>25. CASE \/ Unset \/ Wreck \/ Open \/ Close
  <2>1. thread' = thread
    BY Zenon, <1>25 DEF Unset, Wreck, Open, Close
  <2> QED  BY <2>1 DEF ThreadTypes
<1> QED  BY <1>1, <1>2, <1>3, <1>4, <1>5, <1>6, <1>7, <1>8, <1>9, <1>10, <1>11, <1>12, <1>13,
     <1>14, <1>15, <1>16, <1>17, <1>18, <1>19, <1>20, <1>21, <1>22, <1>23, <1>24, <1>25 DEF Next,
         ReadThread, Opening, Closing

\* A frame is made of units that have come.
LEMMA FrameTypes ==
  ASSUME data \in Seq(Unit), FrameSize(data) # 0
  PROVE  /\ FrameSize(data) \in {1, 2} /\ FrameSize(data) <= Len(data)
         /\ Len(data) \in Nat \ {0} /\ data[1] \in Unit
         /\ Message \in Positions \cup {0}
<1>1. \/ FrameSize(data) = 1 /\ Len(data) >= 1
      \/ FrameSize(data) = 2 /\ Len(data) >= 2
  BY Zenon DEF FrameSize
<1>2. Len(data) \in Nat
  OBVIOUS
<1>3. FrameSize(data) \in {1, 2} /\ FrameSize(data) <= Len(data) /\ Len(data) \in Nat \ {0}
  BY SMT, <1>1, <1>2
<1>4. data[1] \in Unit
  BY SMT, <1>3
<1>5. data[1].pos \in Positions \cup {0}
  BY <1>4 DEF Unit, Cipher
<1>6. Message \in {0, data[1].pos}
  BY Zenon DEF Message
<1> QED  BY <1>3, <1>4, <1>5, <1>6

\* What is kept is made of units, what is handed over of places in the script.
LEMMA DataTypesStep ==
  ASSUME NetTypes, FlagTypes, StateTypes, ThreadTypes, AppTypes, DataTypes, Control, [Next]_vars
  PROVE  DataTypes'
<1>1. CASE OnDataReady
  <2>1. thread.chunk \in Seq(Unit) /\ data \in Seq(Unit)
    BY DEF ThreadTypes, DataTypes
  <2>2. data \o thread.chunk \in Seq(Unit)
    BY SMT, <2>1
  <2>3. data' = data \o thread.chunk /\ heard' = heard
    BY Zenon, <1>1 DEF OnDataReady
  <2> QED  BY Zenon, <2>2, <2>3 DEF DataTypes
<1>2. CASE ConnectCallback
  <2>1. << >> \in Seq(Unit)
    OBVIOUS
  <2>2. data' = << >> /\ heard' = heard
    BY Zenon, <1>2 DEF ConnectCallback
  <2> QED  BY Zenon, <2>1, <2>2 DEF DataTypes
<1>3. CASE ParseFrame
  <2>1. CASE FrameSize(data) = 0
    BY Zenon, <1>3, <2>1 DEF ParseFrame, DataTypes
  <2>2. CASE FrameSize(data) # 0
    <3>1. FrameSize(data) \in {1, 2} /\ Message \in Positions \cup {0}
      BY <2>2, FrameTypes DEF DataTypes
    <3>2. data \in Seq(Unit) /\ heard \in Seq(Positions \cup {0}) /\ Len(data) \in Nat
      BY DEF DataTypes
    <3>3. SubSeq(data, FrameSize(data) + 1, Len(data)) \in Seq(Unit)
      BY SMT, <3>1, <3>2
    <3>4. Append(heard, Message) \in Seq(Positions \cup {0})
      BY SMT, <3>1, <3>2
    <3> QED  BY Zenon, <1>3, <2>2, <3>3, <3>4 DEF ParseFrame, DataTypes
  <2> QED  BY <2>1, <2>2
<1>4. CASE Open
  <2>1. << >> \in Seq(Positions \cup {0})
    OBVIOUS
  <2>2. data' = data /\ (heard' = << >> \/ heard' = heard)
    BY Zenon, <1>4 DEF Open
  <2> QED  BY Zenon, <2>1, <2>2 DEF DataTypes
<1>5. CASE UNCHANGED vars
  BY <1>5 DEF vars, DataTypes
<1>6. CASE \E n \in Conns : ServerSends(n) \/ ServerHangsUp(n)
  <2>1. UNCHANGED <<data, heard>>
    BY Zenon, <1>6 DEF ServerSends, ServerHangsUp
  <2> QED  BY <2>1 DEF DataTypes
<1>7. CASE \/ ReadCheck \/ ReadTimeout \/ ReadReady \/ OnClosed \/ ReadLeave \/ HandleClose
         \/ ParseResponse \/ HandshakeDone
  <2>1. UNCHANGED <<data, heard>>
    BY Zenon, <1>7 DEF ReadCheck, ReadTimeout, ReadReady, OnClosed, ReadLeave, HandleClose,
       ParseResponse, HandshakeDone
  <2> QED  BY <2>1 DEF DataTypes
<1>8. CASE \/ RefuseCallback \/ DropConnection \/ ReadEnd \/ RunFails \/ RunStarts \/ RunSet
         \/ StartHandshake \/ SendRequest
  <2>1. UNCHANGED <<data, heard>>
    BY Zenon, <1>8 DEF RefuseCallback, DropConnection, ReadEnd, RunFails, RunStarts, RunSet,
       StartHandshake, SendRequest
  <2> QED  BY <2>1 DEF DataTypes
<1>9. CASE \/ OpenDone \/ OpenTimeout \/ WaitFor \/ Join \/ Release \/ Unset \/ Wreck
         \/ Finish
  <2>1. UNCHANGED <<data, heard>>
    BY Zenon, <1>9 DEF OpenDone, OpenTimeout, WaitFor, Join, Release, Unset, Wreck, Finish
  <2> QED  BY <2>1 DEF DataTypes
<1>10. CASE \/ ReadSome \/ SslRead \/ SslReadNothing \/ SslGone \/ Close
  <2>1. UNCHANGED <<data, heard>>
    BY Zenon, <1>10 DEF ReadSome, SslRead, SslReadNothing, SslGone, Close
  <2> QED  BY <2>1 DEF DataTypes
<1> QED  BY <1>1, <1>2, <1>3, <1>4, <1>5, <1>6, <1>7, <1>8, <1>9, <1>10 DEF Next, ReadThread,
     Opening, Closing

\* The flags of the three layers stay Booleans.
LEMMA FlagTypesStep ==
  ASSUME NetTypes, FlagTypes, StateTypes, ThreadTypes, AppTypes, DataTypes, Control, [Next]_vars
  PROVE  FlagTypes'
<1>1. CASE HandleClose
  BY Zenon, <1>1 DEF HandleClose, At, FlagTypes
<1>2. CASE ReadLeave
  BY Zenon, <1>2 DEF ReadLeave, At, FlagTypes
<1>3. CASE DropConnection
  <2>1. CASE commRunning \/ commConnected
    BY Zenon, <1>3, <2>1 DEF DropConnection, At, Shutdown, FreeSsl, FlagTypes
  <2>2. CASE ~ (commRunning \/ commConnected)
    BY Zenon, <1>3, <2>2 DEF DropConnection, At, Shutdown, FreeSsl, FlagTypes
  <2> QED  BY <2>1, <2>2
<1>4. CASE Open
  <2>1. opens + 1 \in Conns
    BY SMT, <1>4, ClientAssumption DEF Open, StateTypes, Conns
  <2>2. secure \in BOOLEAN
    BY Zenon, ClientAssumption DEF FlagTypes
  <2> QED  BY Zenon, <1>4, <2>1, <2>2 DEF Open, Go, Connects, ConnectFails, ConnectSsl, FlagTypes
<1>5. CASE RunStarts
  BY Zenon, <1>5 DEF RunStarts, Go, At, FlagTypes
<1>6. CASE RunSet
  BY Zenon, <1>6 DEF RunSet, Go, FlagTypes
<1>7. CASE Close
  <2>1. connected' \in BOOLEAN /\ reading' \in BOOLEAN
    BY Zenon, <1>7 DEF Close, CloseBegin, Shutdown, Afterwards, FlagTypes
  <2> QED  BY Zenon, <1>7, <2>1 DEF Close, FlagTypes
<1>8. CASE Release
  BY Zenon, <1>8 DEF Release, Go, CloseFile, FlagTypes
<1>9. CASE Unset
  BY Zenon, <1>9 DEF Unset, Go, FreeSsl, Afterwards, FlagTypes
<1>10. CASE Wreck
  BY Zenon, <1>10 DEF Wreck, Go, Shutdown, FlagTypes
<1>11. CASE Finish
  BY Zenon, <1>11 DEF Finish, Go, At, FreeSsl, CloseFile, FlagTypes
<1>12. CASE UNCHANGED vars
  BY <1>12 DEF vars, FlagTypes
<1>13. CASE \E n \in Conns : ServerSends(n) \/ ServerHangsUp(n)
  <2>1. UNCHANGED <<flagVars, commVars>>
    BY Zenon, <1>13 DEF ServerSends, ServerHangsUp
  <2> QED  BY <2>1 DEF FlagTypes
<1>14. CASE \/ ReadCheck \/ ReadTimeout \/ ReadReady \/ OnClosed \/ OnDataReady
         \/ ParseResponse \/ HandshakeDone \/ ConnectCallback
  <2>1. UNCHANGED <<flagVars, commVars>>
    BY Zenon, <1>14 DEF ReadCheck, ReadTimeout, ReadReady, OnClosed, OnDataReady, ParseResponse,
       HandshakeDone, ConnectCallback
  <2> QED  BY <2>1 DEF FlagTypes
<1>15. CASE \/ RefuseCallback \/ ParseFrame \/ ReadEnd \/ RunFails \/ StartHandshake
         \/ SendRequest \/ OpenDone \/ OpenTimeout
  <2>1. UNCHANGED <<flagVars, commVars>>
    BY Zenon, <1>15 DEF RefuseCallback, ParseFrame, ReadEnd, RunFails, StartHandshake,
       SendRequest,
       OpenDone, OpenTimeout
  <2> QED  BY <2>1 DEF FlagTypes
<1>16. CASE \/ WaitFor \/ Join \/ ReadSome \/ SslRead \/ SslReadNothing \/ SslGone
  <2>1. UNCHANGED <<flagVars, commVars>>
    BY Zenon, <1>16 DEF WaitFor, Join, ReadSome, SslRead, SslReadNothing, SslGone
  <2> QED  BY <2>1 DEF FlagTypes
<1> QED  BY <1>1, <1>2, <1>3, <1>4, <1>5, <1>6, <1>7, <1>8, <1>9, <1>10, <1>11, <1>12, <1>13,
     <1>14, <1>15, <1>16 DEF Next, ReadThread, Opening, Closing

\* So do the state of the client and what was told.
LEMMA StateTypesStep ==
  ASSUME NetTypes, FlagTypes, StateTypes, ThreadTypes, AppTypes, DataTypes, Control, [Next]_vars
  PROVE  StateTypes'
<1>1. CASE OnClosed
  BY Zenon, <1>1 DEF OnClosed, At, StateTypes
<1>2. CASE ParseResponse
  BY Zenon, <1>2 DEF ParseResponse, At, StateTypes
<1>3. CASE HandshakeDone
  BY Zenon, <1>3 DEF HandshakeDone, At, StateTypes
<1>4. CASE ConnectCallback
  BY Zenon, <1>4 DEF ConnectCallback, At, StateTypes
<1>5. CASE RefuseCallback
  BY Zenon, <1>5 DEF RefuseCallback, At, StateTypes
<1>6. CASE Open
  <2>1. opens' \in 0 .. MaxOpens
    BY SMT, <1>6, ClientAssumption DEF Open, StateTypes
  <2>2. state' \in {"Connected", "Initialized", state} /\ told' \in {"nothing", told}
    BY Zenon, <1>6 DEF Open
  <2>3. handshakeDone' = handshakeDone /\ opened' = FALSE
    BY Zenon, <1>6 DEF Open
  <2> QED  BY Zenon, <2>1, <2>2, <2>3 DEF StateTypes
<1>7. CASE StartHandshake
  BY Zenon, <1>7 DEF StartHandshake, Go, StateTypes
<1>8. CASE OpenDone
  BY Zenon, <1>8 DEF OpenDone, Go, StateTypes
<1>9. CASE OpenTimeout
  BY Zenon, <1>9 DEF OpenTimeout, Go, StateTypes
<1>10. CASE UNCHANGED vars
  BY <1>10 DEF vars, StateTypes
<1>11. CASE \E n \in Conns : ServerSends(n) \/ ServerHangsUp(n)
  <2>1. UNCHANGED <<state, handshakeDone, opens, opened, told>>
    BY Zenon, <1>11 DEF ServerSends, ServerHangsUp
  <2> QED  BY <2>1 DEF StateTypes
<1>12. CASE \/ ReadCheck \/ ReadTimeout \/ ReadReady \/ ReadLeave \/ HandleClose
         \/ OnDataReady \/ DropConnection \/ ParseFrame
  <2>1. UNCHANGED <<state, handshakeDone, opens, opened, told>>
    BY Zenon, <1>12 DEF ReadCheck, ReadTimeout, ReadReady, ReadLeave, HandleClose, OnDataReady,
       DropConnection, ParseFrame
  <2> QED  BY <2>1 DEF StateTypes
<1>13. CASE \/ ReadEnd \/ RunFails \/ RunStarts \/ RunSet \/ SendRequest \/ WaitFor \/ Join
         \/ Release
  <2>1. UNCHANGED <<state, handshakeDone, opens, opened, told>>
    BY Zenon, <1>13 DEF ReadEnd, RunFails, RunStarts, RunSet, SendRequest, WaitFor, Join, Release
  <2> QED  BY <2>1 DEF StateTypes
<1>14. CASE \/ Unset \/ Wreck \/ Finish \/ ReadSome \/ SslRead \/ SslReadNothing \/ SslGone
         \/ Close
  <2>1. UNCHANGED <<state, handshakeDone, opens, opened, told>>
    BY Zenon, <1>14 DEF Unset, Wreck, Finish, ReadSome, SslRead, SslReadNothing, SslGone, Close
  <2> QED  BY <2>1 DEF StateTypes
<1> QED  BY <1>1, <1>2, <1>3, <1>4, <1>5, <1>6, <1>7, <1>8, <1>9, <1>10, <1>11, <1>12, <1>13,
     <1>14 DEF Next, ReadThread, Opening, Closing

\* The thread that calls is somewhere in a call.
LEMMA AppTypesStep ==
  ASSUME NetTypes, FlagTypes, StateTypes, ThreadTypes, AppTypes, DataTypes, Control, [Next]_vars
  PROVE  AppTypes'
<1>1. CASE Open
  BY SMT, <1>1 DEF Open, Go, Connects, ConnectFails, ConnectSsl, AppTypes, AppPcs
<1>2. CASE RunFails
  BY SMT, <1>2 DEF RunFails, Go, AppTypes, AppPcs
<1>3. CASE RunStarts
  BY SMT, <1>3 DEF RunStarts, Go, At, AppTypes, AppPcs
<1>4. CASE RunSet
  BY SMT, <1>4 DEF RunSet, Go, AppTypes, AppPcs
<1>5. CASE StartHandshake
  BY SMT, <1>5 DEF StartHandshake, Go, AppTypes, AppPcs
<1>6. CASE SendRequest
  BY SMT, <1>6 DEF SendRequest, Go, AppTypes, AppPcs
<1>7. CASE OpenDone
  BY SMT, <1>7 DEF OpenDone, Go, AppTypes, AppPcs
<1>8. CASE OpenTimeout
  BY SMT, <1>8 DEF OpenTimeout, Go, AppTypes, AppPcs
<1>9. CASE Close
  <2>1. PICK p \in AppPcs, w \in BOOLEAN, d \in BOOLEAN :
          app' = [pc |-> p, wait |-> w, dying |-> d]
    BY Zenon, <1>9 DEF Close, CloseBegin, Shutdown, Afterwards, AppPcs
  <2> QED  BY Zenon, <2>1 DEF AppTypes
<1>10. CASE WaitFor
  <2>1. "join" \in AppPcs
    BY DEF AppPcs
  <2>2. app' = [pc |-> "join", wait |-> FALSE, dying |-> app.dying]
    BY Zenon, <1>10 DEF WaitFor, AppTypes
  <2>3. app.dying \in BOOLEAN
    BY Zenon DEF AppTypes
  <2> QED  BY Zenon, <2>1, <2>2, <2>3 DEF AppTypes
<1>11. CASE Join
  BY SMT, <1>11 DEF Join, Go, At, AppTypes, AppPcs
<1>12. CASE Release
  BY SMT, <1>12 DEF Release, Go, CloseFile, AppTypes, AppPcs
<1>13. CASE Unset
  <2>1. PICK p \in AppPcs : app' = [app EXCEPT !.pc = p]
    BY Zenon, <1>13 DEF Unset, Go, Afterwards, AppPcs
  <2> QED  BY SMT, <2>1 DEF AppTypes
<1>14. CASE Wreck
  BY SMT, <1>14 DEF Wreck, Go, Shutdown, AppTypes, AppPcs
<1>15. CASE Finish
  <2>1. PICK p \in AppPcs : app' = [app EXCEPT !.pc = p]
    BY Zenon, <1>15 DEF Finish, Go, AppPcs
  <2> QED  BY SMT, <2>1 DEF AppTypes
<1>16. CASE UNCHANGED vars
  BY <1>16 DEF vars, AppTypes
<1>17. CASE \E n \in Conns : ServerSends(n) \/ ServerHangsUp(n)
  <2>1. app' = app
    BY Zenon, <1>17 DEF ServerSends, ServerHangsUp
  <2> QED  BY <2>1 DEF AppTypes
<1>18. CASE \/ ReadCheck \/ ReadTimeout \/ ReadReady \/ OnClosed \/ ReadLeave \/ HandleClose
         \/ OnDataReady \/ ParseResponse
  <2>1. app' = app
    BY Zenon, <1>18 DEF ReadCheck, ReadTimeout, ReadReady, OnClosed, ReadLeave, HandleClose,
       OnDataReady, ParseResponse
  <2> QED  BY <2>1 DEF AppTypes
<1>19. CASE \/ HandshakeDone \/ ConnectCallback \/ RefuseCallback \/ DropConnection
         \/ ParseFrame \/ ReadEnd \/ ReadSome \/ SslRead
  <2>1. app' = app
    BY Zenon, <1>19 DEF HandshakeDone, ConnectCallback, RefuseCallback, DropConnection,
       ParseFrame,
       ReadEnd, ReadSome, SslRead
  <2> QED  BY <2>1 DEF AppTypes
<1>20. CASE \/ SslReadNothing \/ SslGone
  <2>1. app' = app
    BY Zenon, <1>20 DEF SslReadNothing, SslGone
  <2> QED  BY <2>1 DEF AppTypes
<1> QED  BY <1>1, <1>2, <1>3, <1>4, <1>5, <1>6, <1>7, <1>8, <1>9, <1>10, <1>11, <1>12, <1>13,
     <1>14, <1>15, <1>16, <1>17, <1>18, <1>19, <1>20 DEF Next, ReadThread, Opening, Closing

-----------------------------------------------------------------------------
(* Flags, calls and callbacks: Control.                                    *)

\* What a single leaf shows: steps that change a flag or two.
USE ClientAssumption DEF Control, ConnInv, FlagInv, CallInv, FreshInv, ToldInv, EndInv, EndSeen,
    Quiet,
        Alive, Registered, Freed, NetTypes, FlagTypes, StateTypes, ThreadTypes, AppTypes

\* while (m_read_running): the loop goes on only for a connection.
LEMMA ReadCheckControl ==
  ASSUME NetTypes, FlagTypes, StateTypes, ThreadTypes, AppTypes, Control, ReadCheck
  PROVE  Control'
BY SMTT(30) DEF ReadCheck, At

\* epoll_wait without an event.
LEMMA ReadTimeoutControl ==
  ASSUME NetTypes, FlagTypes, StateTypes, ThreadTypes, AppTypes, Control, ReadTimeout
  PROVE  Control'
BY SMTT(30) DEF ReadTimeout, At

\* The event that ends the loop is an end to report.
LEMMA ReadEndControl ==
  ASSUME NetTypes, FlagTypes, StateTypes, ThreadTypes, AppTypes, Control, ReadEnd
  PROVE  Control'
BY SMTT(30) DEF ReadEnd, At, HupAt, InAt, Drained

\* An event that is left to SSL_read.
LEMMA ReadReadyControl ==
  ASSUME NetTypes, FlagTypes, StateTypes, ThreadTypes, AppTypes, Control, ReadReady
  PROVE  Control'
BY SMTT(30) DEF ReadReady, At

\* HandleClose reports the end of a connected client only.
LEMMA HandleCloseControl ==
  ASSUME NetTypes, FlagTypes, StateTypes, ThreadTypes, AppTypes, Control, HandleClose
  PROVE  Control'
BY SMTT(30) DEF HandleClose, At

\* OnClosed.
LEMMA OnClosedControl ==
  ASSUME NetTypes, FlagTypes, StateTypes, ThreadTypes, AppTypes, Control, OnClosed
  PROVE  Control'
BY SMTT(30) DEF OnClosed, At

\* The end of the read thread.
LEMMA ReadLeaveControl ==
  ASSUME NetTypes, FlagTypes, StateTypes, ThreadTypes, AppTypes, Control, ReadLeave
  PROVE  Control'
BY SMTT(30) DEF ReadLeave, At

\* OnDataReady, by the state of the client.
LEMMA OnDataReadyControl ==
  ASSUME NetTypes, FlagTypes, StateTypes, ThreadTypes, AppTypes, Control, OnDataReady
  PROVE  Control'
BY SMTT(30) DEF OnDataReady, At

\* The answer to the upgrade request.
LEMMA ParseResponseControl ==
  ASSUME NetTypes, FlagTypes, StateTypes, ThreadTypes, AppTypes, Control, ParseResponse
  PROVE  Control'
BY SMTT(30) DEF ParseResponse, At

\* The notification of Open.
LEMMA HandshakeDoneControl ==
  ASSUME NetTypes, FlagTypes, StateTypes, ThreadTypes, AppTypes, Control, HandshakeDone
  PROVE  Control'
BY SMTT(30) DEF HandshakeDone, At

\* The callback for success.
LEMMA ConnectCallbackControl ==
  ASSUME NetTypes, FlagTypes, StateTypes, ThreadTypes, AppTypes, Control, ConnectCallback
  PROVE  Control'
BY SMTT(30) DEF ConnectCallback, At

\* The callback for failure.
LEMMA RefuseCallbackControl ==
  ASSUME NetTypes, FlagTypes, StateTypes, ThreadTypes, AppTypes, Control, RefuseCallback
  PROVE  Control'
BY SMTT(30) DEF RefuseCallback, At

\* A frame is parsed.
LEMMA ParseFrameControl ==
  ASSUME NetTypes, FlagTypes, StateTypes, ThreadTypes, AppTypes, Control, ParseFrame
  PROVE  Control'
BY SMTT(30) DEF ParseFrame, At

\* Run that does nothing.
LEMMA RunFailsControl ==
  ASSUME NetTypes, FlagTypes, StateTypes, ThreadTypes, AppTypes, Control, RunFails
  PROVE  Control'
BY SMTT(30) DEF RunFails, Go

\* The flags that Run sets behind the thread it has started.
LEMMA RunSetControl ==
  ASSUME NetTypes, FlagTypes, StateTypes, ThreadTypes, AppTypes, Control, RunSet
  PROVE  Control'
BY SMTT(30) DEF RunSet, Go

\* The state that Open sets, whatever the read thread has done meanwhile.
LEMMA StartHandshakeControl ==
  ASSUME NetTypes, FlagTypes, StateTypes, ThreadTypes, AppTypes, Control, StartHandshake
  PROVE  Control'
BY SMTT(30) DEF StartHandshake, Go

\* Open returns.
LEMMA OpenDoneControl ==
  ASSUME NetTypes, FlagTypes, StateTypes, ThreadTypes, AppTypes, Control, OpenDone
  PROVE  Control'
BY SMTT(30) DEF OpenDone, Go

\* The timeout of Open.
LEMMA OpenTimeoutControl ==
  ASSUME NetTypes, FlagTypes, StateTypes, ThreadTypes, AppTypes, Control, OpenTimeout
  PROVE  Control'
BY SMTT(30) DEF OpenTimeout, Go

\* WaitFor is called.
LEMMA WaitForControl ==
  ASSUME NetTypes, FlagTypes, StateTypes, ThreadTypes, AppTypes, Control, WaitFor
  PROVE  Control'
BY SMTT(30) DEF WaitFor, Go

\* The read thread is joined.
LEMMA JoinControl ==
  ASSUME NetTypes, FlagTypes, StateTypes, ThreadTypes, AppTypes, Control, Join
  PROVE  Control'
BY SMTT(30) DEF Join, Go, At

HIDE ClientAssumption DEF Control, ConnInv, FlagInv, CallInv, FreshInv, ToldInv, EndInv, EndSeen,
    Quiet,
        Alive, Registered, Freed, NetTypes, FlagTypes, StateTypes, ThreadTypes, AppTypes

\* The server sends only where it was asked.
LEMMA ServerSendsControl ==
  ASSUME NEW n \in Conns, NetTypes, FlagTypes, StateTypes, ThreadTypes, AppTypes, Control,
         ServerSends(n)
  PROVE  Control'
<1>. USE ClientAssumption DEF Control, ConnInv, FlagInv, CallInv, FreshInv, ToldInv, EndInv,
    EndSeen, Quiet,
          Alive, Registered, Freed, NetTypes, FlagTypes, StateTypes, ThreadTypes, AppTypes
<1>1. ConnInv'
  BY SMTT(20) DEF ServerSends
<1>2. FlagInv'
  BY SMTT(20) DEF ServerSends
<1>3. CallInv'
  BY SMTT(20) DEF ServerSends
<1>4. FreshInv'
  BY SMTT(20) DEF ServerSends
<1>5. ToldInv'
  BY SMTT(20) DEF ServerSends
<1>6. EndInv'
  BY SMTT(20) DEF ServerSends
<1> QED  BY <1>1, <1>2, <1>3, <1>4, <1>5, <1>6

\* The server ends a connection.
LEMMA ServerHangsUpControl ==
  ASSUME NEW n \in Conns, NetTypes, FlagTypes, StateTypes, ThreadTypes, AppTypes, Control,
         ServerHangsUp(n)
  PROVE  Control'
<1>. USE ClientAssumption DEF Control, ConnInv, FlagInv, CallInv, FreshInv, ToldInv, EndInv,
    EndSeen, Quiet,
          Alive, Registered, Freed, NetTypes, FlagTypes, StateTypes, ThreadTypes, AppTypes
<1>1. ConnInv'
  BY SMTT(20) DEF ServerHangsUp
<1>2. FlagInv'
  BY SMTT(20) DEF ServerHangsUp
<1>3. CallInv'
  BY SMTT(20) DEF ServerHangsUp
<1>4. FreshInv'
  BY SMTT(20) DEF ServerHangsUp
<1>5. ToldInv'
  BY SMTT(20) DEF ServerHangsUp
<1>6. EndInv'
  BY SMTT(20) DEF ServerHangsUp
<1> QED  BY <1>1, <1>2, <1>3, <1>4, <1>5, <1>6

\* read() finds no end.
LEMMA ReadSomeControl ==
  ASSUME NetTypes, FlagTypes, StateTypes, ThreadTypes, AppTypes, Control, ReadSome
  PROVE  Control'
<1>. USE ClientAssumption DEF Control, ConnInv, FlagInv, CallInv, FreshInv, ToldInv, EndInv,
    EndSeen, Quiet,
          Alive, Registered, Freed, NetTypes, FlagTypes, StateTypes, ThreadTypes, AppTypes
<1>1. ConnInv'
  BY SMTT(20) DEF ReadSome, At, Drained, ReadUpTo, InAt, HupAt
<1>2. FlagInv'
  BY SMTT(20) DEF ReadSome, At, Drained, ReadUpTo, InAt, HupAt
<1>3. CallInv'
  BY SMTT(20) DEF ReadSome, At, Drained, ReadUpTo, InAt, HupAt
<1>4. FreshInv'
  BY SMTT(20) DEF ReadSome, At, Drained, ReadUpTo, InAt, HupAt
<1>5. ToldInv'
  BY SMTT(20) DEF ReadSome, At, Drained, ReadUpTo, InAt, HupAt
<1>6. EndInv'
  BY SMTT(20) DEF ReadSome, At, Drained, ReadUpTo, InAt, HupAt
<1> QED  BY <1>1, <1>2, <1>3, <1>4, <1>5, <1>6

\* SSL_read.
LEMMA SslReadControl ==
  ASSUME NetTypes, FlagTypes, StateTypes, ThreadTypes, AppTypes, Control, SslRead
  PROVE  Control'
<1>. USE ClientAssumption DEF Control, ConnInv, FlagInv, CallInv, FreshInv, ToldInv, EndInv,
    EndSeen, Quiet,
          Alive, Registered, Freed, NetTypes, FlagTypes, StateTypes, ThreadTypes, AppTypes
<1>1. ConnInv'
  BY SMTT(20) DEF SslRead, Held, Records
<1>2. FlagInv'
  BY SMTT(20) DEF SslRead, Held, Records
<1>3. CallInv'
  BY SMTT(20) DEF SslRead, Held, Records
<1>4. FreshInv'
  BY SMTT(20) DEF SslRead, Held, Records
<1>5. ToldInv'
  BY SMTT(20) DEF SslRead, Held, Records
<1>6. EndInv'
  BY SMTT(20) DEF SslRead, Held, Records
<1> QED  BY <1>1, <1>2, <1>3, <1>4, <1>5, <1>6

\* SSL_read that finds nothing reports an end only if there is one.
LEMMA SslReadNothingControl ==
  ASSUME NetTypes, FlagTypes, StateTypes, ThreadTypes, AppTypes, Control, SslReadNothing
  PROVE  Control'
<1>. USE ClientAssumption DEF Control, ConnInv, FlagInv, CallInv, FreshInv, ToldInv, EndInv,
    EndSeen, Quiet,
          Alive, Registered, Freed, NetTypes, FlagTypes, StateTypes, ThreadTypes, AppTypes
<1>1. ConnInv'
  BY SMTT(20) DEF SslReadNothing, At, Held, Records
<1>2. FlagInv'
  BY SMTT(20) DEF SslReadNothing, At, Held, Records
<1>3. CallInv'
  BY SMTT(20) DEF SslReadNothing, At, Held, Records
<1>4. FreshInv'
  BY SMTT(20) DEF SslReadNothing, At, Held, Records
<1>5. ToldInv'
  BY SMTT(20) DEF SslReadNothing, At, Held, Records
<1>6. EndInv'
  BY SMTT(20) DEF SslReadNothing, At, Held, Records
<1> QED  BY <1>1, <1>2, <1>3, <1>4, <1>5, <1>6

\* The read thread goes on without an SSL object only if Close(false) was called.
LEMMA SslGoneControl ==
  ASSUME NetTypes, FlagTypes, StateTypes, ThreadTypes, AppTypes, Control, SslGone
  PROVE  Control'
<1>. USE ClientAssumption DEF Control, ConnInv, FlagInv, CallInv, FreshInv, ToldInv, EndInv,
    EndSeen, Quiet,
          Alive, Registered, Freed, NetTypes, FlagTypes, StateTypes, ThreadTypes, AppTypes
<1>1. ConnInv'
  BY SMTT(20) DEF SslGone, At
<1>2. FlagInv'
  BY SMTT(20) DEF SslGone, At
<1>3. CallInv'
  BY SMTT(20) DEF SslGone, At
<1>4. FreshInv'
  BY SMTT(20) DEF SslGone, At
<1>5. ToldInv'
  BY SMTT(20) DEF SslGone, At
<1>6. EndInv'
  BY SMTT(20) DEF SslGone, At
<1> QED  BY <1>1, <1>2, <1>3, <1>4, <1>5, <1>6

\* Close(false) by the read thread shuts the socket down in every layer.
LEMMA DropConnectionControl ==
  ASSUME NetTypes, FlagTypes, StateTypes, ThreadTypes, AppTypes, Control, DropConnection
  PROVE  Control'
<1>1. ConnInv'
  <2>1. fd \in 0 .. MaxOpens /\ opens \in Nat /\ fd <= opens /\ fd' \in {0, fd} /\ opens' = opens
    BY SMT, ClientAssumption DEF DropConnection, At, Shutdown, FreeSsl, FlagTypes, StateTypes,
         Control, ConnInv, Conns
  <2>2. ASSUME NEW n \in Conns, n > opens
        PROVE  n # fd /\ sent[n] = 0 /\ ~ asked[n] /\ file[n] = "none" /\ hangup[n] = "no"
    BY SMT, <2>1, <2>2 DEF Control, ConnInv, Conns
  <2>3. ASSUME NEW n \in Conns, n > opens
        PROVE  sent'[n] = 0 /\ ~ asked'[n] /\ file'[n] = "none" /\ hangup'[n] = "no"
    BY SMT, <2>2, <2>3 DEF DropConnection, At, Shutdown, FreeSsl
  <2> QED  BY SMT, <2>1, <2>3 DEF ConnInv
<1>. USE ClientAssumption DEF Control, ConnInv, FlagInv, CallInv, FreshInv, ToldInv, EndInv,
    EndSeen,
          Quiet, Alive, Registered, Freed, NetTypes, FlagTypes, StateTypes,
          ThreadTypes, AppTypes
<1>2. FlagInv'
  BY SMTT(20) DEF DropConnection, At, Shutdown, FreeSsl
<1>3. CallInv'
  BY SMTT(20) DEF DropConnection, At, Shutdown, FreeSsl
<1>4. FreshInv'
  BY SMTT(20) DEF DropConnection, At, Shutdown, FreeSsl
<1>5. ToldInv'
  BY SMTT(20) DEF DropConnection, At, Shutdown, FreeSsl
<1>6. EndInv'
  BY SMTT(20) DEF DropConnection, At, Shutdown, FreeSsl
<1> QED  BY <1>1, <1>2, <1>3, <1>4, <1>5, <1>6 DEF Control

\* ~ClientSocket shuts down.
LEMMA WreckControl ==
  ASSUME NetTypes, FlagTypes, StateTypes, ThreadTypes, AppTypes, Control, Wreck
  PROVE  Control'
<1>1. ConnInv'
  <2>1. fd \in 0 .. MaxOpens /\ opens \in Nat /\ fd <= opens /\ fd' \in {0, fd} /\ opens' = opens
    BY SMT, ClientAssumption DEF Wreck, Go, Shutdown, FlagTypes, StateTypes, Control, ConnInv,
       Conns
  <2>2. ASSUME NEW n \in Conns, n > opens
        PROVE  n # fd /\ sent[n] = 0 /\ ~ asked[n] /\ file[n] = "none" /\ hangup[n] = "no"
    BY SMT, <2>1, <2>2 DEF Control, ConnInv, Conns
  <2>3. ASSUME NEW n \in Conns, n > opens
        PROVE  sent'[n] = 0 /\ ~ asked'[n] /\ file'[n] = "none" /\ hangup'[n] = "no"
    BY SMT, <2>2, <2>3 DEF Wreck, Go, Shutdown
  <2> QED  BY SMT, <2>1, <2>3 DEF ConnInv
<1>. USE ClientAssumption DEF Control, ConnInv, FlagInv, CallInv, FreshInv, ToldInv, EndInv,
    EndSeen,
          Quiet, Alive, Registered, Freed, NetTypes, FlagTypes, StateTypes,
          ThreadTypes, AppTypes
<1>2. FlagInv'
  BY SMTT(20) DEF Wreck, Go, Shutdown
<1>3. CallInv'
  BY SMTT(20) DEF Wreck, Go, Shutdown
<1>4. FreshInv'
  BY SMTT(20) DEF Wreck, Go, Shutdown
<1>5. ToldInv'
  BY SMTT(20) DEF Wreck, Go, Shutdown
<1>6. EndInv'
  BY SMTT(20) DEF Wreck, Go, Shutdown
<1> QED  BY <1>1, <1>2, <1>3, <1>4, <1>5, <1>6 DEF Control

\* Close of the socket forgets the connection.
LEMMA ReleaseControl ==
  ASSUME NetTypes, FlagTypes, StateTypes, ThreadTypes, AppTypes, Control, Release
  PROVE  Control'
<1>1. ConnInv'
  <2>1. fd \in 0 .. MaxOpens /\ opens \in Nat /\ fd <= opens /\ fd' \in {0, fd} /\ opens' = opens
    BY SMT, ClientAssumption DEF Release, Go, CloseFile, FlagTypes, StateTypes, Control, ConnInv,
         Conns
  <2>2. ASSUME NEW n \in Conns, n > opens
        PROVE  n # fd /\ sent[n] = 0 /\ ~ asked[n] /\ file[n] = "none" /\ hangup[n] = "no"
    BY SMT, <2>1, <2>2 DEF Control, ConnInv, Conns
  <2>3. ASSUME NEW n \in Conns, n > opens
        PROVE  sent'[n] = 0 /\ ~ asked'[n] /\ file'[n] = "none" /\ hangup'[n] = "no"
    BY SMT, <2>2, <2>3 DEF Release, Go, CloseFile
  <2> QED  BY SMT, <2>1, <2>3 DEF ConnInv
<1>. USE ClientAssumption DEF Control, ConnInv, FlagInv, CallInv, FreshInv, ToldInv, EndInv,
    EndSeen,
          Quiet, Alive, Registered, Freed, NetTypes, FlagTypes, StateTypes,
          ThreadTypes, AppTypes
<1>2. FlagInv'
  BY SMTT(20) DEF Release, Go, CloseFile
<1>3. CallInv'
  BY SMTT(20) DEF Release, Go, CloseFile
<1>4. FreshInv'
  BY SMTT(20) DEF Release, Go, CloseFile
<1>5. ToldInv'
  BY SMTT(20) DEF Release, Go, CloseFile
<1>6. EndInv'
  BY SMTT(20) DEF Release, Go, CloseFile
<1> QED  BY <1>1, <1>2, <1>3, <1>4, <1>5, <1>6 DEF Control

\* So does the end of ~ClientSocket.
LEMMA FinishControl ==
  ASSUME NetTypes, FlagTypes, StateTypes, ThreadTypes, AppTypes, Control, Finish
  PROVE  Control'
<1>1. ConnInv'
  <2>1. fd \in 0 .. MaxOpens /\ opens \in Nat /\ fd <= opens /\ fd' \in {0, fd} /\ opens' = opens
    BY SMT, ClientAssumption DEF Finish, Go, At, FreeSsl, CloseFile, FlagTypes, StateTypes,
         Control, ConnInv, Conns
  <2>2. ASSUME NEW n \in Conns, n > opens
        PROVE  n # fd /\ sent[n] = 0 /\ ~ asked[n] /\ file[n] = "none" /\ hangup[n] = "no"
    BY SMT, <2>1, <2>2 DEF Control, ConnInv, Conns
  <2>3. ASSUME NEW n \in Conns, n > opens
        PROVE  sent'[n] = 0 /\ ~ asked'[n] /\ file'[n] = "none" /\ hangup'[n] = "no"
    BY SMT, <2>2, <2>3 DEF Finish, Go, At, FreeSsl, CloseFile
  <2> QED  BY SMT, <2>1, <2>3 DEF ConnInv
<1>. USE ClientAssumption DEF Control, ConnInv, FlagInv, CallInv, FreshInv, ToldInv, EndInv,
    EndSeen,
          Quiet, Alive, Registered, Freed, NetTypes, FlagTypes, StateTypes,
          ThreadTypes, AppTypes
<1>2. FlagInv'
  BY SMTT(20) DEF Finish, Go, At, FreeSsl, CloseFile
<1>3. CallInv'
  BY SMTT(20) DEF Finish, Go, At, FreeSsl, CloseFile
<1>4. FreshInv'
  BY SMTT(20) DEF Finish, Go, At, FreeSsl, CloseFile
<1>5. ToldInv'
  BY SMTT(20) DEF Finish, Go, At, FreeSsl, CloseFile
<1>6. EndInv'
  BY SMTT(20) DEF Finish, Go, At, FreeSsl, CloseFile
<1> QED  BY <1>1, <1>2, <1>3, <1>4, <1>5, <1>6 DEF Control

\* Run starts a thread only for a connection that is as it was made.
LEMMA RunStartsControl ==
  ASSUME NetTypes, FlagTypes, StateTypes, ThreadTypes, AppTypes, Control, RunStarts
  PROVE  Control'
<1>3. CallInv'
  <2>4. app'.dying => app'.wait
        /\ app'.pc \in {"join", "release", "unset", "wreck", "wait", "gone"}
    <3>1. app.pc = "run" /\ app'.dying = app.dying
      BY DEF AppTypes, RunStarts, Go
    <3>2. app.dying => app.pc # "run"
      BY SMT DEF Control, CallInv
    <3> QED  BY Zenon, <3>1, <3>2
  <2>. USE ClientAssumption DEF Control, ConnInv, FlagInv, CallInv, FreshInv, ToldInv, EndInv,
      EndSeen,
            Quiet, Alive, Registered, Freed, NetTypes, FlagTypes, StateTypes,
            ThreadTypes, AppTypes
  <2>1. thread'.pc = "aborted" <=> app'.pc = "aborted"
    BY SMTT(20) DEF RunStarts, Go, At
  <2>2. ~ commConnected' => Quiet' \/ app'.pc = "loose" \/ (app'.pc = "join" /\ ~ app'.wait)
    BY SMTT(20) DEF RunStarts, Go, At
  <2>3. app'.pc \in {"loose", "wreck", "wait", "gone"} => ~ commConnected'
    BY SMTT(20) DEF RunStarts, Go, At
  <2>5. app'.pc \in {"release", "unset"} \/ (app'.pc = "join" /\ app'.wait) =>
         ~ reading' /\ ~ connected'
    BY SMTT(20) DEF RunStarts, Go, At
  <2>6. app'.pc = "release" => app'.wait /\ thread'.pc = "none"
    BY SMTT(20) DEF RunStarts, Go, At
  <2>7. app'.pc = "unset" /\ app'.wait => thread'.pc = "none"
    BY SMTT(20) DEF RunStarts, Go, At
  <2>8. app'.pc \in {"ran", "shake", "send"} =>
         /\ commConnected'
         /\ fd' # 0 /\ ~ asked'[fd'] /\ sent'[fd'] = 0 /\ (connected' => reading')
         /\ thread'.pc \in {"check", "wait", "ready", "hang", "bye", "leave", "done"}
         /\ told' \in {"nothing", "closed"}
    BY SMTT(20) DEF RunStarts, Go, At
  <2>9. thread'.pc \notin {"none", "done", "aborted"} => running' \/ app'.pc = "ran"
    BY SMTT(20) DEF RunStarts, Go, At
  <2> QED  BY Zenon, <2>1, <2>2, <2>3, <2>4, <2>5, <2>6, <2>7, <2>8, <2>9 DEF CallInv
<1>. USE ClientAssumption DEF Control, ConnInv, FlagInv, CallInv, FreshInv, ToldInv, EndInv,
    EndSeen,
          Quiet, Alive, Registered, Freed, NetTypes, FlagTypes, StateTypes,
          ThreadTypes, AppTypes
<1>1. ConnInv'
  BY SMTT(20) DEF RunStarts, Go, At
<1>2. FlagInv'
  BY SMTT(20) DEF RunStarts, Go, At
<1>4. FreshInv'
  BY SMTT(20) DEF RunStarts, Go, At
<1>5. ToldInv'
  BY SMTT(20) DEF RunStarts, Go, At
<1>6. EndInv'
  BY SMTT(20) DEF RunStarts, Go, At
<1> QED  BY <1>1, <1>2, <1>3, <1>4, <1>5, <1>6 DEF Control

\* The flags of the communication client follow those of the socket.
LEMMA UnsetControl ==
  ASSUME NetTypes, FlagTypes, StateTypes, ThreadTypes, AppTypes, Control, Unset
  PROVE  Control'
<1>3. CallInv'
  <2>4. app'.dying => app'.wait
        /\ app'.pc \in {"join", "release", "unset", "wreck", "wait", "gone"}
    <3>1. app'.dying = app.dying /\ app'.wait = app.wait
      BY DEF AppTypes, Unset, Go
    <3>2. ASSUME app.dying  PROVE app'.pc = "wreck"
      <4>1. app' = [app EXCEPT !.pc = "wreck"]
        BY Zenon, <3>2 DEF Unset, Go, Afterwards
      <4> QED  BY SMT, <4>1 DEF AppTypes
    <3>3. app.dying => app.wait
      BY SMT DEF Control, CallInv
    <3> QED  BY Zenon, <3>1, <3>2, <3>3
  <2>. USE ClientAssumption DEF Control, ConnInv, FlagInv, CallInv, FreshInv, ToldInv, EndInv,
      EndSeen,
            Quiet, Alive, Registered, Freed, NetTypes, FlagTypes, StateTypes,
            ThreadTypes, AppTypes
  <2>1. thread'.pc = "aborted" <=> app'.pc = "aborted"
    BY SMTT(20) DEF Unset, Go, FreeSsl, Afterwards
  <2>2. ~ commConnected' => Quiet' \/ app'.pc = "loose" \/ (app'.pc = "join" /\ ~ app'.wait)
    BY SMTT(20) DEF Unset, Go, FreeSsl, Afterwards
  <2>3. app'.pc \in {"loose", "wreck", "wait", "gone"} => ~ commConnected'
    BY SMTT(20) DEF Unset, Go, FreeSsl, Afterwards
  <2>5. app'.pc \in {"release", "unset"} \/ (app'.pc = "join" /\ app'.wait) =>
         ~ reading' /\ ~ connected'
    BY SMTT(20) DEF Unset, Go, FreeSsl, Afterwards
  <2>6. app'.pc = "release" => app'.wait /\ thread'.pc = "none"
    BY SMTT(20) DEF Unset, Go, FreeSsl, Afterwards
  <2>7. app'.pc = "unset" /\ app'.wait => thread'.pc = "none"
    BY SMTT(20) DEF Unset, Go, FreeSsl, Afterwards
  <2>8. app'.pc \in {"ran", "shake", "send"} =>
         /\ commConnected'
         /\ fd' # 0 /\ ~ asked'[fd'] /\ sent'[fd'] = 0 /\ (connected' => reading')
         /\ thread'.pc \in {"check", "wait", "ready", "hang", "bye", "leave", "done"}
         /\ told' \in {"nothing", "closed"}
    BY SMTT(20) DEF Unset, Go, FreeSsl, Afterwards
  <2>9. thread'.pc \notin {"none", "done", "aborted"} => running' \/ app'.pc = "ran"
    BY SMTT(20) DEF Unset, Go, FreeSsl, Afterwards
  <2> QED  BY Zenon, <2>1, <2>2, <2>3, <2>4, <2>5, <2>6, <2>7, <2>8, <2>9 DEF CallInv
<1>. USE ClientAssumption DEF Control, ConnInv, FlagInv, CallInv, FreshInv, ToldInv, EndInv,
    EndSeen,
          Quiet, Alive, Registered, Freed, NetTypes, FlagTypes, StateTypes,
          ThreadTypes, AppTypes
<1>1. ConnInv'
  BY SMTT(20) DEF Unset, Go, FreeSsl, Afterwards
<1>2. FlagInv'
  BY SMTT(20) DEF Unset, Go, FreeSsl, Afterwards
<1>4. FreshInv'
  BY SMTT(20) DEF Unset, Go, FreeSsl, Afterwards
<1>5. ToldInv'
  BY SMTT(20) DEF Unset, Go, FreeSsl, Afterwards
<1>6. EndInv'
  BY SMTT(20) DEF Unset, Go, FreeSsl, Afterwards
<1> QED  BY <1>1, <1>2, <1>3, <1>4, <1>5, <1>6 DEF Control

\* The request is the first that is sent.
LEMMA SendRequestControl ==
  ASSUME NetTypes, FlagTypes, StateTypes, ThreadTypes, AppTypes, Control, SendRequest
  PROVE  Control'
<1>0. /\ fd \in Conns /\ fd <= opens /\ opens' = opens /\ fd' = fd
      /\ sent' = sent /\ hangup' = hangup /\ file' = file
      /\ \A n \in Conns : asked'[n] = asked[n] \/ (n = fd /\ connected)
  BY SMT, ClientAssumption DEF SendRequest, Go, netVars, flagVars, socketVars, appVars,
       FlagTypes, NetTypes,
     AppTypes, Conns, Control, ConnInv, CallInv
<1>1. ConnInv'
  BY SMT, <1>0 DEF Control, ConnInv, StateTypes, Conns
<1>3. CallInv'
  <2>1. app'.pc \in {"await", "idle"} /\ app'.wait = app.wait /\ app'.dying = app.dying
    BY SMT DEF SendRequest, Go, AppTypes
  <2>2. ~ app.dying
    BY SMT DEF SendRequest, Control, CallInv
  <2>3. thread' = thread /\ reading' = reading /\ connected' = connected
        /\ commConnected' = commConnected /\ running' = running /\ thread.pc # "aborted"
           /\ commConnected
    BY SMT DEF SendRequest, Control, CallInv, flagVars, socketVars, commVars
  <2>4. thread.pc \notin {"none", "done", "aborted"} => running
    BY SMT DEF SendRequest, Control, CallInv
  <2> QED  BY SMT, <2>1, <2>2, <2>3, <2>4 DEF CallInv
<1>4. FreshInv'
  <2>1. /\ thread' = thread /\ reading' = reading /\ connected' = connected
        /\ told' = told /\ heard' = heard /\ state' = state /\ (connected => reading)
    BY SMT DEF SendRequest, Control, CallInv, flagVars, socketVars, userVars, clientVars
  <2> QED  BY SMT, <1>0, <2>1 DEF FreshInv, Control
<1>. USE ClientAssumption DEF Control, ConnInv, FlagInv, CallInv, FreshInv, ToldInv, EndInv,
    EndSeen,
          Quiet, Alive, Registered, Freed, NetTypes, FlagTypes, StateTypes,
          ThreadTypes, AppTypes
<1>2. FlagInv'
  BY SMTT(20) DEF SendRequest, Go
<1>5. ToldInv'
  BY SMTT(20) DEF SendRequest, Go
<1>6. EndInv'
  BY SMTT(20) DEF SendRequest, Go
<1> QED  BY <1>1, <1>2, <1>3, <1>4, <1>5, <1>6 DEF Control

\* The three ways Open goes.
OpenNew ==
  /\ app.pc = "idle" /\ ~ commConnected /\ Connects /\ commConnected'
  /\ state' = "Connected" /\ told' = "nothing" /\ heard' = << >>
  /\ Go("run")
OpenFailed ==
  /\ app.pc = "idle" /\ ~ commConnected /\ ConnectFails
  /\ state' = IF state = "Undefined" THEN "Initialized" ELSE state
  /\ UNCHANGED <<commConnected, told, heard, app>>
OpenAgain ==
  /\ app.pc = "idle" /\ commConnected /\ Go("run")
  /\ UNCHANGED <<file, fd, connected, ssl, commConnected, state, told, heard>>
OpenRest ==
  /\ opens < MaxOpens /\ opens' = opens + 1 /\ opened' = FALSE
  /\ UNCHANGED <<sent, hangup, fetched, taken, asked, reading, running, thread, secure,
                 commRunning, handshakeDone, data>>

\* Open goes one of them.
LEMMA OpenCases ==
  ASSUME Open
  PROVE  OpenRest /\ (OpenNew \/ OpenFailed \/ OpenAgain)
BY DEF Open, OpenRest, OpenNew, OpenFailed, OpenAgain

\* Nothing was done yet with a connection that is made.
LEMMA OpenNewControl ==
  ASSUME NetTypes, FlagTypes, StateTypes, ThreadTypes, AppTypes, Control, OpenRest, OpenNew
  PROVE  Control'
<1>1. ConnInv'
  <2>1. fd \in 0 .. MaxOpens /\ opens \in 0 .. MaxOpens /\ fd <= opens
        /\ opens' = opens + 1 /\ MaxOpens \in Nat
    BY SMT, ClientAssumption DEF OpenRest, FlagTypes, StateTypes, Control, ConnInv, Conns
  <2>2. fd' \in {0, fd, opens + 1}
    BY DEF OpenNew, OpenRest, Go, Connects, ConnectSsl
  <2>3. ASSUME NEW n \in Conns, n > opens + 1
        PROVE  sent'[n] = 0 /\ ~ asked'[n] /\ file'[n] = "none" /\ hangup'[n] = "no"
    <3>1. n > opens /\ n # opens + 1
      BY SMT, <2>1, <2>3 DEF Conns
    <3>2. sent[n] = 0 /\ ~ asked[n] /\ file[n] = "none" /\ hangup[n] = "no"
      BY <3>1 DEF Control, ConnInv
    <3>3. file'[n] = file[n]
      BY SMT, <2>1, <3>1, <2>3 DEF OpenNew, OpenRest, Go, Connects, ConnectSsl, NetTypes
    <3> QED  BY Zenon, <3>2, <3>3 DEF OpenRest
  <2> QED  BY SMT, <2>1, <2>2, <2>3 DEF ConnInv
<1>0. /\ fd' = opens + 1 /\ fd' \in Conns /\ fd' # 0 /\ file'[fd'] = "open"
         /\ commConnected' = TRUE
      /\ ssl' = secure /\ secure' = secure /\ reading' = reading /\ thread' = thread
      /\ sent'[fd'] = 0 /\ ~ asked'[fd']
  <2>1. opens \in 0 .. MaxOpens /\ opens < MaxOpens /\ MaxOpens \in Nat
    BY ClientAssumption DEF OpenRest, StateTypes
  <2>2. opens + 1 \in Conns /\ opens + 1 > opens /\ opens + 1 # 0
    BY SMT, <2>1 DEF Conns
  <2>3. fd' = opens + 1 /\ file' = [file EXCEPT ![opens + 1] = "open"] /\ ssl' = secure
        /\ commConnected'
    BY Zenon DEF OpenNew, Connects, ConnectSsl
  <2>4. sent[opens + 1] = 0 /\ ~ asked[opens + 1]
    BY <2>2 DEF Control, ConnInv
  <2>5. file'[opens + 1] = "open"
    BY SMT, <2>2, <2>3 DEF NetTypes
  <2>6. sent' = sent /\ asked' = asked /\ secure' = secure /\ reading' = reading
        /\ thread' = thread
    BY DEF OpenRest
  <2>7. commConnected' = TRUE
    BY DEF OpenNew
  <2> QED  BY SMT, <2>2, <2>3, <2>4, <2>5, <2>6, <2>7
<1>2. FlagInv'
  <2>1. Quiet
    BY SMT DEF Control, CallInv, OpenNew
  <2> QED  BY SMT, <1>0, <2>1 DEF FlagInv, Freed, Quiet
<1>4. FreshInv'
  <2>1. Quiet
    BY SMT DEF Control, CallInv, OpenNew
  <2>2. told' = "nothing" /\ heard' = << >> /\ state' = "Connected"
    BY DEF OpenNew
  <2> QED  BY SMT, <1>0, <2>1, <2>2 DEF FreshInv, Quiet
<1>. USE ClientAssumption DEF Control, ConnInv, FlagInv, CallInv, FreshInv, ToldInv, EndInv,
    EndSeen,
          Quiet, Alive, Registered, Freed, NetTypes, FlagTypes, StateTypes,
          ThreadTypes, AppTypes
<1>3. CallInv'
  BY SMTT(20) DEF OpenNew, OpenRest, Go, Connects, ConnectSsl
<1>5. ToldInv'
  BY SMTT(20) DEF OpenNew, OpenRest, Go, Connects, ConnectSsl
<1>6. EndInv'
  BY SMTT(20) DEF OpenNew, OpenRest, Go, Connects, ConnectSsl
<1> QED  BY <1>1, <1>2, <1>3, <1>4, <1>5, <1>6 DEF Control

\* One that is not made changes nothing,
LEMMA OpenFailedControl ==
  ASSUME NetTypes, FlagTypes, StateTypes, ThreadTypes, AppTypes, Control, OpenRest, OpenFailed
  PROVE  Control'
<1>1. ConnInv'
  <2>1. fd \in 0 .. MaxOpens /\ opens \in 0 .. MaxOpens /\ fd <= opens
        /\ opens' = opens + 1 /\ MaxOpens \in Nat
    BY SMT, ClientAssumption DEF OpenRest, FlagTypes, StateTypes, Control, ConnInv, Conns
  <2>2. fd' \in {0, fd, opens + 1}
    BY DEF OpenFailed, OpenRest, ConnectFails
  <2>3. ASSUME NEW n \in Conns, n > opens + 1
        PROVE  sent'[n] = 0 /\ ~ asked'[n] /\ file'[n] = "none" /\ hangup'[n] = "no"
    <3>1. n > opens /\ n # opens + 1
      BY SMT, <2>1, <2>3 DEF Conns
    <3>2. sent[n] = 0 /\ ~ asked[n] /\ file[n] = "none" /\ hangup[n] = "no"
      BY <3>1 DEF Control, ConnInv
    <3>3. file'[n] = file[n]
      BY SMT, <2>1, <3>1, <2>3 DEF OpenFailed, OpenRest, ConnectFails, NetTypes
    <3> QED  BY Zenon, <3>2, <3>3 DEF OpenRest
  <2> QED  BY SMT, <2>1, <2>2, <2>3 DEF ConnInv
<1>. USE ClientAssumption DEF Control, ConnInv, FlagInv, CallInv, FreshInv, ToldInv, EndInv,
    EndSeen,
          Quiet, Alive, Registered, Freed, NetTypes, FlagTypes, StateTypes,
          ThreadTypes, AppTypes
<1>2. FlagInv'
  BY SMTT(20) DEF OpenFailed, OpenRest, ConnectFails
<1>3. CallInv'
  BY SMTT(20) DEF OpenFailed, OpenRest, ConnectFails
<1>4. FreshInv'
  BY SMTT(20) DEF OpenFailed, OpenRest, ConnectFails
<1>5. ToldInv'
  BY SMTT(20) DEF OpenFailed, OpenRest, ConnectFails
<1>6. EndInv'
  BY SMTT(20) DEF OpenFailed, OpenRest, ConnectFails
<1> QED  BY <1>1, <1>2, <1>3, <1>4, <1>5, <1>6 DEF Control

\* nor does an Open that finds one.
LEMMA OpenAgainControl ==
  ASSUME NetTypes, FlagTypes, StateTypes, ThreadTypes, AppTypes, Control, OpenRest, OpenAgain
  PROVE  Control'
<1>1. ConnInv'
  <2>1. fd \in 0 .. MaxOpens /\ opens \in 0 .. MaxOpens /\ fd <= opens
        /\ opens' = opens + 1 /\ MaxOpens \in Nat
    BY SMT, ClientAssumption DEF OpenRest, FlagTypes, StateTypes, Control, ConnInv, Conns
  <2>2. fd' \in {0, fd, opens + 1}
    BY DEF OpenAgain, OpenRest, Go
  <2>3. ASSUME NEW n \in Conns, n > opens + 1
        PROVE  sent'[n] = 0 /\ ~ asked'[n] /\ file'[n] = "none" /\ hangup'[n] = "no"
    <3>1. n > opens /\ n # opens + 1
      BY SMT, <2>1, <2>3 DEF Conns
    <3>2. sent[n] = 0 /\ ~ asked[n] /\ file[n] = "none" /\ hangup[n] = "no"
      BY <3>1 DEF Control, ConnInv
    <3>3. file'[n] = file[n]
      BY SMT, <2>1, <3>1, <2>3 DEF OpenAgain, OpenRest, Go, NetTypes
    <3> QED  BY Zenon, <3>2, <3>3 DEF OpenRest
  <2> QED  BY SMT, <2>1, <2>2, <2>3 DEF ConnInv
<1>. USE ClientAssumption DEF Control, ConnInv, FlagInv, CallInv, FreshInv, ToldInv, EndInv,
    EndSeen,
          Quiet, Alive, Registered, Freed, NetTypes, FlagTypes, StateTypes,
          ThreadTypes, AppTypes
<1>2. FlagInv'
  BY SMTT(20) DEF OpenAgain, OpenRest, Go
<1>3. CallInv'
  BY SMTT(20) DEF OpenAgain, OpenRest, Go
<1>4. FreshInv'
  BY SMTT(20) DEF OpenAgain, OpenRest, Go
<1>5. ToldInv'
  BY SMTT(20) DEF OpenAgain, OpenRest, Go
<1>6. EndInv'
  BY SMTT(20) DEF OpenAgain, OpenRest, Go
<1> QED  BY <1>1, <1>2, <1>3, <1>4, <1>5, <1>6 DEF Control

\* What the ways into Close have in common.
CloseRest ==
  /\ app.pc = "idle" /\ opens > 0
  /\ UNCHANGED <<sent, hangup, fetched, taken, asked, fd, running, thread, tlsVars, commVars,
                 clientVars, opens, opened, userVars>>

\* Close does nothing if nothing is connected,
LEMMA CloseUnconnectedControl ==
  ASSUME NetTypes, FlagTypes, StateTypes, ThreadTypes, AppTypes, Control, CloseRest,
         ~ (commRunning \/ commConnected) /\ UNCHANGED <<connected, reading, file>>,
         \/ app' = [pc |-> "idle", wait |-> TRUE, dying |-> FALSE]
         \/ app' = [pc |-> "loose", wait |-> FALSE, dying |-> FALSE]
         \/ app' = [pc |-> "wreck", wait |-> TRUE, dying |-> TRUE]
  PROVE  Control'
<1>3. CallInv'
  <2>. USE ClientAssumption DEF Control, ConnInv, FlagInv, CallInv, FreshInv, ToldInv, EndInv,
      EndSeen,
            Quiet, Alive, Registered, Freed, NetTypes, FlagTypes, StateTypes,
            ThreadTypes, AppTypes
  <2>1. CASE app' = [pc |-> "idle", wait |-> TRUE, dying |-> FALSE]
    BY SMTT(20), <2>1 DEF CloseRest
  <2>2. CASE app' = [pc |-> "loose", wait |-> FALSE, dying |-> FALSE]
    BY SMTT(20), <2>2 DEF CloseRest
  <2>3. CASE app' = [pc |-> "wreck", wait |-> TRUE, dying |-> TRUE]
    BY SMTT(20), <2>3 DEF CloseRest
  <2> QED  BY <2>1, <2>2, <2>3
<1>. USE ClientAssumption DEF Control, ConnInv, FlagInv, CallInv, FreshInv, ToldInv, EndInv,
    EndSeen,
          Quiet, Alive, Registered, Freed, NetTypes, FlagTypes, StateTypes,
          ThreadTypes, AppTypes
<1>1. ConnInv'
  BY SMTT(20) DEF CloseRest
<1>2. FlagInv'
  BY SMTT(20) DEF CloseRest
<1>4. FreshInv'
  BY SMTT(20) DEF CloseRest
<1>5. ToldInv'
  BY SMTT(20) DEF CloseRest
<1>6. EndInv'
  BY SMTT(20) DEF CloseRest
<1> QED  BY <1>1, <1>2, <1>3, <1>4, <1>5, <1>6 DEF Control

\* and shuts the socket down otherwise.
LEMMA CloseShutsControl ==
  ASSUME NetTypes, FlagTypes, StateTypes, ThreadTypes, AppTypes, Control, CloseRest,
         (commRunning \/ commConnected) /\ Shutdown,
         \/ app' = [pc |-> "join", wait |-> TRUE, dying |-> FALSE]
         \/ app' = [pc |-> "unset", wait |-> FALSE, dying |-> FALSE]
         \/ app' = [pc |-> "join", wait |-> TRUE, dying |-> TRUE]
  PROVE  Control'
<1>1. ConnInv'
  <2>1. fd \in 0 .. MaxOpens /\ opens \in Nat /\ fd <= opens /\ fd' \in {0, fd} /\ opens' = opens
    BY SMT, ClientAssumption DEF CloseRest, Shutdown, FlagTypes, StateTypes, Control, ConnInv,
       Conns
  <2>2. ASSUME NEW n \in Conns, n > opens
        PROVE  n # fd /\ sent[n] = 0 /\ ~ asked[n] /\ file[n] = "none" /\ hangup[n] = "no"
    BY SMT, <2>1, <2>2 DEF Control, ConnInv, Conns
  <2>3. ASSUME NEW n \in Conns, n > opens
        PROVE  sent'[n] = 0 /\ ~ asked'[n] /\ file'[n] = "none" /\ hangup'[n] = "no"
    BY SMT, <2>2, <2>3 DEF CloseRest, Shutdown
  <2> QED  BY SMT, <2>1, <2>3 DEF ConnInv
<1>3. CallInv'
  <2>. USE ClientAssumption DEF Control, ConnInv, FlagInv, CallInv, FreshInv, ToldInv, EndInv,
      EndSeen,
            Quiet, Alive, Registered, Freed, NetTypes, FlagTypes, StateTypes,
            ThreadTypes, AppTypes
  <2>1. CASE app' = [pc |-> "join", wait |-> TRUE, dying |-> FALSE]
    BY SMTT(20), <2>1 DEF CloseRest, Shutdown
  <2>2. CASE app' = [pc |-> "unset", wait |-> FALSE, dying |-> FALSE]
    BY SMTT(20), <2>2 DEF CloseRest, Shutdown
  <2>3. CASE app' = [pc |-> "join", wait |-> TRUE, dying |-> TRUE]
    BY SMTT(20), <2>3 DEF CloseRest, Shutdown
  <2> QED  BY <2>1, <2>2, <2>3
<1>. USE ClientAssumption DEF Control, ConnInv, FlagInv, CallInv, FreshInv, ToldInv, EndInv,
    EndSeen,
          Quiet, Alive, Registered, Freed, NetTypes, FlagTypes, StateTypes,
          ThreadTypes, AppTypes
<1>2. FlagInv'
  BY SMTT(20) DEF CloseRest, Shutdown
<1>4. FreshInv'
  BY SMTT(20) DEF CloseRest, Shutdown
<1>5. ToldInv'
  BY SMTT(20) DEF CloseRest, Shutdown
<1>6. EndInv'
  BY SMTT(20) DEF CloseRest, Shutdown
<1> QED  BY <1>1, <1>2, <1>3, <1>4, <1>5, <1>6 DEF Control

\* Close keeps the invariant.
LEMMA CloseControl ==
  ASSUME NetTypes, FlagTypes, StateTypes, ThreadTypes, AppTypes, Control, Close
  PROVE  Control'
<1>1. CloseRest
  BY DEF Close, CloseRest
<1>2. CASE commRunning \/ commConnected
  <2>1. Shutdown
    BY <1>2 DEF Close, CloseBegin
  <2>2. \/ app' = [pc |-> "join", wait |-> TRUE, dying |-> FALSE]
        \/ app' = [pc |-> "unset", wait |-> FALSE, dying |-> FALSE]
        \/ app' = [pc |-> "join", wait |-> TRUE, dying |-> TRUE]
    BY Zenon, <1>2 DEF Close, CloseBegin
  <2> QED  BY <1>1, <1>2, <2>1, <2>2, CloseShutsControl
<1>3. CASE ~ (commRunning \/ commConnected)
  <2>1. UNCHANGED <<connected, reading, file>>
    BY <1>3 DEF Close, CloseBegin
  <2>2. \/ app' = [pc |-> "idle", wait |-> TRUE, dying |-> FALSE]
        \/ app' = [pc |-> "loose", wait |-> FALSE, dying |-> FALSE]
        \/ app' = [pc |-> "wreck", wait |-> TRUE, dying |-> TRUE]
    BY Zenon, <1>3 DEF Close, CloseBegin, Afterwards
  <2> QED  BY <1>1, <1>3, <2>1, <2>2, CloseUnconnectedControl
<1> QED  BY <1>2, <1>3

-----------------------------------------------------------------------------
(* What was read: PreInv and DataInv.                                      *)

\* What most steps leave as it is.
Kept ==
  /\ data' = data /\ thread'.chunk = thread.chunk /\ heard' = heard
  /\ told' \in {"nothing", "connected"} => told' = told
  /\ fd' # 0 => fd' = fd /\ taken'[fd] = taken[fd]
  /\ Freed => Freed'
  /\ Freed /\ ~ reading /\ thread.pc \notin {"wait", "ready"} =>
       ~ reading' /\ thread'.pc \notin {"wait", "ready"}
  /\ thread'.pc \in {"shaken", "accepted"} =>
       thread.pc \in {"shaken", "accepted"} /\ fd' = fd /\ fd # 0
  /\ thread'.pc = "data" => thread.pc = "data"
  /\ thread.pc = "data" => thread'.pc = "data"

\* Such a step keeps what was read.
LEMMA KeptInv ==
  ASSUME PreInv, DataInv, Kept
  PROVE  PreInv' /\ DataInv'
<1>1. PreInv'
  BY SMT DEF PreInv, Kept, NoFrames
<1>2. ASSUME told' = "connected", fd' # 0
      PROVE  \E m \in Nat, c \in {0, 1} : Carried(m, c)'
  <2>1. told = "connected" /\ fd # 0
    BY <1>2 DEF Kept
  <2>2. PICK m \in Nat, c \in {0, 1} : Carried(m, c)
    BY <2>1 DEF DataInv
  <2>3. Rest' = Rest /\ heard' = heard /\ fd' = fd /\ taken'[fd] = taken[fd]
    BY <1>2 DEF Kept, Rest
  <2>4. (~ Freed' => ~ Freed) /\ (c = 1 => Freed' /\ ~ reading' /\ thread'.pc \notin {"wait",
      "ready"})
    BY Zenon, <2>2 DEF Kept, Carried
  <2>5. Carried(m, c)'
    BY Zenon, <2>2, <2>3, <2>4 DEF Carried, HeardAt
  <2> QED  BY <2>5
<1> QED  BY <1>1, <1>2 DEF DataInv

\* Most steps leave what was read as it is.
LEMMA StepKeeps ==
  ASSUME NetTypes, FlagTypes, StateTypes, ThreadTypes, AppTypes, DataTypes, Control, PreInv,
         \/ \E n \in Conns : ServerSends(n) \/ ServerHangsUp(n)
         \/ ReadCheck \/ ReadTimeout \/ ReadEnd \/ ReadReady \/ SslReadNothing
         \/ HandleClose \/ OnClosed \/ ReadLeave \/ HandshakeDone \/ RefuseCallback
         \/ DropConnection \/ RunFails \/ RunStarts \/ RunSet \/ StartHandshake
         \/ SendRequest \/ OpenDone \/ OpenTimeout \/ WaitFor \/ Join \/ Release
         \/ Unset \/ Wreck \/ Finish \/ Close
  PROVE  Kept
<1>1. CASE \E n \in Conns : ServerSends(n) \/ ServerHangsUp(n)
  BY SMTT(20), <1>1 DEF ServerSends, ServerHangsUp, Kept, Freed, Control, FlagInv
<1>2. CASE ReadCheck
  BY SMTT(20), <1>2, ClientAssumption DEF ReadCheck, At, Kept, Freed, PreInv,
     Control, FlagInv, CallInv, FreshInv, FlagTypes, NetTypes, ThreadTypes
<1>3. CASE ReadTimeout
  BY SMTT(20), <1>3, ClientAssumption DEF ReadTimeout, At, Kept, Freed, PreInv,
     Control, FlagInv, CallInv, FreshInv, FlagTypes, NetTypes, ThreadTypes
<1>4. CASE ReadEnd
  BY SMTT(20), <1>4, ClientAssumption DEF ReadEnd, At, Kept, Freed, PreInv,
     Control, FlagInv, CallInv, FreshInv, FlagTypes, NetTypes, ThreadTypes
<1>5. CASE ReadReady
  BY SMTT(20), <1>5, ClientAssumption DEF ReadReady, At, Kept, Freed, PreInv,
     Control, FlagInv, CallInv, FreshInv, FlagTypes, NetTypes, ThreadTypes
<1>6. CASE SslReadNothing
  BY SMTT(20), <1>6, ClientAssumption DEF SslReadNothing, At, Kept, Freed, PreInv,
     Control, FlagInv, CallInv, FreshInv, FlagTypes, NetTypes, ThreadTypes
<1>7. CASE HandleClose
  BY SMTT(20), <1>7, ClientAssumption DEF HandleClose, At, Kept, Freed, PreInv,
     Control, FlagInv, CallInv, FreshInv, FlagTypes, NetTypes, ThreadTypes
<1>8. CASE OnClosed
  BY SMTT(20), <1>8, ClientAssumption DEF OnClosed, At, Kept, Freed, PreInv,
     Control, FlagInv, CallInv, FreshInv, FlagTypes, NetTypes, ThreadTypes
<1>9. CASE ReadLeave
  BY SMTT(20), <1>9, ClientAssumption DEF ReadLeave, At, Kept, Freed, PreInv,
     Control, FlagInv, CallInv, FreshInv, FlagTypes, NetTypes, ThreadTypes
<1>10. CASE HandshakeDone
  BY SMTT(20), <1>10, ClientAssumption DEF HandshakeDone, At, Kept, Freed, PreInv,
     Control, FlagInv, CallInv, FreshInv, FlagTypes, NetTypes, ThreadTypes
<1>11. CASE RefuseCallback
  BY SMTT(20), <1>11, ClientAssumption DEF RefuseCallback, At, Kept, Freed, PreInv,
     Control, FlagInv, CallInv, FreshInv, FlagTypes, NetTypes, ThreadTypes
<1>12. CASE DropConnection
  BY SMTT(20), <1>12, ClientAssumption DEF DropConnection, At, Shutdown, FreeSsl, Kept, Freed,
     PreInv,
     Control, FlagInv, CallInv, FreshInv, FlagTypes, NetTypes, ThreadTypes
<1>13. CASE RunFails
  BY SMTT(20), <1>13, ClientAssumption DEF RunFails, Go, Kept, Freed, PreInv,
     Control, FlagInv, CallInv, FreshInv, FlagTypes, NetTypes, ThreadTypes
<1>14. CASE RunStarts
  BY SMTT(20), <1>14, ClientAssumption DEF RunStarts, Go, At, Kept, Freed, PreInv,
     Control, FlagInv, CallInv, FreshInv, FlagTypes, NetTypes, ThreadTypes
<1>15. CASE RunSet
  BY SMTT(20), <1>15, ClientAssumption DEF RunSet, Go, Kept, Freed, PreInv,
     Control, FlagInv, CallInv, FreshInv, FlagTypes, NetTypes, ThreadTypes
<1>16. CASE StartHandshake
  BY SMTT(20), <1>16, ClientAssumption DEF StartHandshake, Go, Kept, Freed, PreInv,
     Control, FlagInv, CallInv, FreshInv, FlagTypes, NetTypes, ThreadTypes
<1>17. CASE SendRequest
  BY SMTT(20), <1>17, ClientAssumption DEF SendRequest, Go, Kept, Freed, PreInv,
     Control, FlagInv, CallInv, FreshInv, FlagTypes, NetTypes, ThreadTypes
<1>18. CASE OpenDone
  BY SMTT(20), <1>18, ClientAssumption DEF OpenDone, Go, Kept, Freed, PreInv,
     Control, FlagInv, CallInv, FreshInv, FlagTypes, NetTypes, ThreadTypes
<1>19. CASE OpenTimeout
  BY SMTT(20), <1>19, ClientAssumption DEF OpenTimeout, Go, Kept, Freed, PreInv,
     Control, FlagInv, CallInv, FreshInv, FlagTypes, NetTypes, ThreadTypes
<1>20. CASE WaitFor
  BY SMTT(20), <1>20, ClientAssumption DEF WaitFor, Kept, Freed, PreInv,
     Control, FlagInv, CallInv, FreshInv, FlagTypes, NetTypes, ThreadTypes
<1>21. CASE Join
  BY SMTT(20), <1>21, ClientAssumption DEF Join, Go, At, Kept, Freed, PreInv,
     Control, FlagInv, CallInv, FreshInv, FlagTypes, NetTypes, ThreadTypes
<1>22. CASE Release
  BY SMTT(20), <1>22, ClientAssumption DEF Release, Go, CloseFile, Kept, Freed, PreInv,
     Control, FlagInv, CallInv, FreshInv, FlagTypes, NetTypes, ThreadTypes
<1>23. CASE Unset
  BY SMTT(20), <1>23, ClientAssumption DEF Unset, Go, FreeSsl, Afterwards, Kept, Freed, PreInv,
     Control, FlagInv, CallInv, FreshInv, FlagTypes, NetTypes, ThreadTypes
<1>24. CASE Wreck
  BY SMTT(20), <1>24, ClientAssumption DEF Wreck, Go, Shutdown, Kept, Freed, PreInv,
     Control, FlagInv, CallInv, FreshInv, FlagTypes, NetTypes, ThreadTypes
<1>25. CASE Finish
  BY SMTT(20), <1>25, ClientAssumption DEF Finish, Go, At, FreeSsl, CloseFile, Kept, Freed, PreInv,
     Control, FlagInv, CallInv, FreshInv, FlagTypes, NetTypes, ThreadTypes
<1>26. CASE Close
  BY SMTT(20), <1>26, ClientAssumption DEF Close, CloseBegin, Shutdown, Afterwards, Kept, Freed,
     PreInv,
     Control, FlagInv, CallInv, FreshInv, FlagTypes, NetTypes, ThreadTypes
<1> QED  BY <1>1, <1>2, <1>3, <1>4, <1>5, <1>6, <1>7, <1>8, <1>9, <1>10, <1>11, <1>12, <1>13,
     <1>14, <1>15, <1>16, <1>17, <1>18, <1>19, <1>20, <1>21, <1>22, <1>23, <1>24, <1>25, <1>26

\* The concatenation of two sequences, and its units.
LEMMA Concatenated ==
  ASSUME NEW S, NEW a \in Seq(S), NEW b \in Seq(S)
  PROVE  /\ a \o b \in Seq(S) /\ Len(a) \in Nat /\ Len(b) \in Nat
         /\ Len(a \o b) = Len(a) + Len(b)
         /\ a \o << >> = a
         /\ Range(a \o b) = Range(a) \cup Range(b)
BY RangeConcatenation

\* Those of the first,
LEMMA ConcatenatedFront ==
  ASSUME NEW S, NEW a \in Seq(S), NEW b \in Seq(S), NEW k \in 1 .. Len(a)
  PROVE  (a \o b)[k] = a[k]
BY ConcatProperties

\* and those of the second.
LEMMA ConcatenatedBack ==
  ASSUME NEW S, NEW a \in Seq(S), NEW b \in Seq(S), NEW k \in 1 .. Len(b)
  PROVE  (a \o b)[Len(a) + k] = b[k]
OBVIOUS

\* What is read from the place t to the place k.
LEMMA ReadUnits ==
  ASSUME NEW n \in Conns, NEW t \in Nat, NEW k \in Nat, t <= k, k <= Len(Script[n])
  PROVE  /\ SubSeq(Stream(n), t + 1, k) \in Seq(Unit)
         /\ Len(SubSeq(Stream(n), t + 1, k)) = k - t
         /\ \A j \in 1 .. k - t :
              SubSeq(Stream(n), t + 1, k)[j] = [conn |-> n, pos |-> t + j]
<1>1. /\ Stream(n) \in Seq(Unit) /\ Len(Stream(n)) = Len(Script[n]) /\ Len(Script[n]) \in Nat
      /\ \A j \in 1 .. Len(Script[n]) : Stream(n)[j] = [conn |-> n, pos |-> j]
  BY StreamTypes
<1>. DEFINE S == Stream(n)
            L == Len(Script[n])
<1>. HIDE DEF S, L
<1>2. /\ S \in Seq(Unit) /\ Len(S) = L /\ L \in Nat /\ k <= L
      /\ \A j \in 1 .. L : S[j] = [conn |-> n, pos |-> j]
  BY <1>1 DEF S, L
<1>3. SubSeq(S, t + 1, k) \in Seq(Unit) /\ Len(SubSeq(S, t + 1, k)) = k - t
  BY SMT, <1>2
<1>4. \A j \in 1 .. k - t : SubSeq(S, t + 1, k)[j] = S[t + j]
  BY SMT, <1>2
<1>5. \A j \in 1 .. k - t : t + j \in 1 .. L
  BY SMT, <1>2
<1>6. \A j \in 1 .. k - t : SubSeq(S, t + 1, k)[j] = [conn |-> n, pos |-> t + j]
  BY Zenon, <1>2, <1>4, <1>5
<1> QED  BY <1>3, <1>6 DEF S

\* What was read and not parsed is the data, then what the read thread holds.
LEMMA RestParts ==
  ASSUME ThreadTypes, DataTypes
  PROVE  /\ data \in Seq(Unit) /\ thread.chunk \in Seq(Unit) /\ Rest \in Seq(Unit)
         /\ Len(data) \in Nat /\ Len(Rest) \in Nat
         /\ thread.chunk = << >> => Rest = data
         /\ Range(Rest) = Range(data) \cup Range(thread.chunk)
<1>1. data \in Seq(Unit) /\ thread.chunk \in Seq(Unit)
  BY DEF ThreadTypes, DataTypes
<1> QED  BY <1>1, Concatenated DEF Rest

\* Units that were read follow those that were kept.
LEMMA ReadMore ==
  ASSUME NetTypes, FlagTypes, ThreadTypes, DataTypes, PreInv, DataInv,
         fd # 0, thread.pc \in {"wait", "ready"}, NEW k \in Nat, taken[fd] <= k, k <= sent[fd],
         taken' = [taken EXCEPT ![fd] = k],
         thread' = [pc |-> "data", chunk |-> SubSeq(Stream(fd), taken[fd] + 1, k)],
         UNCHANGED <<data, fd, told, heard, secure, ssl>>
  PROVE  PreInv' /\ DataInv'
<1>. DEFINE t == taken[fd]
            C == SubSeq(Stream(fd), taken[fd] + 1, k)
<1>1. fd \in Conns /\ t \in Nat /\ k <= Len(Script[fd]) /\ taken'[fd] = k /\ t <= k
  BY SMT, StreamTypes DEF NetTypes, FlagTypes
<1>2. /\ C \in Seq(Unit) /\ Len(C) = k - t
      /\ \A j \in 1 .. k - t : C[j] = [conn |-> fd, pos |-> t + j]
  <2>. HIDE DEF t
  <2>1. /\ SubSeq(Stream(fd), t + 1, k) \in Seq(Unit)
        /\ Len(SubSeq(Stream(fd), t + 1, k)) = k - t
        /\ \A j \in 1 .. k - t : SubSeq(Stream(fd), t + 1, k)[j] = [conn |-> fd, pos |-> t + j]
    BY Zenon, <1>1, ReadUnits
  <2>. QED
    BY Zenon, <2>1 DEF t
<1>3. thread.chunk = << >> /\ Rest = data /\ data \in Seq(Unit) /\ Len(data) \in Nat
  BY RestParts DEF PreInv
<1>4. thread'.chunk = C /\ thread'.pc = "data" /\ Rest' = data \o C
  BY DEF Rest
<1>. HIDE DEF C, t
<1>5. /\ Len(data \o C) = Len(data) + k - t
      /\ \A j \in 1 .. Len(data) : (data \o C)[j] = data[j]
      /\ \A j \in 1 .. k - t : (data \o C)[Len(data) + j] = [conn |-> fd, pos |-> t + j]
  <2>1. /\ Len(data \o C) = Len(data) + Len(C)
        /\ \A j \in 1 .. Len(data) : (data \o C)[j] = data[j]
        /\ \A j \in 1 .. Len(C) : (data \o C)[Len(data) + j] = C[j]
    <3>1. data \in Seq(Unit) /\ C \in Seq(Unit)
      BY <1>2, <1>3
    <3>2. Len(data \o C) = Len(data) + Len(C)
      BY <3>1, Concatenated
    <3>3. ASSUME NEW j \in 1 .. Len(data)  PROVE (data \o C)[j] = data[j]
      BY <3>1, ConcatenatedFront
    <3>4. ASSUME NEW j \in 1 .. Len(C)  PROVE (data \o C)[Len(data) + j] = C[j]
      BY <3>1, ConcatenatedBack
    <3> QED  BY <3>2, <3>3, <3>4
  <2> QED  BY SMT, <1>1, <1>2, <1>3, <2>1
<1>6. PreInv'
  <2>1. ASSUME told = "nothing", NEW j \in 1 .. k
        PROVE  [conn |-> fd, pos |-> j] \in Range(data) \cup Range(C)
    <3>1. CASE j <= t
      <4>1. j \in 1 .. t
        BY SMT, <1>1, <3>1
      <4>2. Range(thread.chunk) = {}
        BY <1>3 DEF Range
      <4> QED  BY <2>1, <4>1, <4>2 DEF PreInv, t
    <3>2. CASE j > t
      <4>1. j - t \in 1 .. k - t /\ t + (j - t) = j
        BY SMT, <1>1, <3>2
      <4>2. C[j - t] = [conn |-> fd, pos |-> j]
        BY <1>2, <4>1
      <4>3. C[j - t] \in Range(C)
        BY <1>2, <4>1 DEF Range
      <4> QED  BY <4>2, <4>3
    <3> QED  BY SMT, <1>1, <3>1, <3>2
  <2>2. told = "nothing" => heard = << >>
    BY DEF PreInv
  <2> QED  BY <1>1, <1>4, <2>1, <2>2 DEF PreInv
<1>7. DataInv'
  <2>1. SUFFICES ASSUME told = "connected"
                 PROVE  \E m \in Nat, c \in {0, 1} : Carried(m, c)'
    BY DEF DataInv
  <2>2. PICK m \in Nat, c \in {0, 1} : Carried(m, c)
    BY <2>1 DEF DataInv
  <2>3. c = 0
    BY <2>2 DEF Carried
  <2>4. m <= t /\ Len(data) = t - m
        /\ \A j \in 1 .. t - m : data[j] = [conn |-> fd, pos |-> m + j]
    BY SMT, <1>1, <1>3, <2>2, <2>3 DEF Carried, t
  <2>5. m <= k /\ Len(data \o C) = k - m + 0
    BY SMT, <1>1, <1>5, <2>4
  <2>6. ASSUME NEW j \in 1 .. k - m
        PROVE  (data \o C)[j] = [conn |-> fd, pos |-> m + j]
    <3>1. CASE j <= t - m
      BY SMT, <1>1, <1>5, <2>4, <3>1
    <3>2. CASE j > t - m
      <4>1. PICK i \in 1 .. k - t : j = Len(data) + i /\ t + i = m + j
        <5>1. j - (t - m) \in 1 .. k - t /\ j = Len(data) + (j - (t - m))
              /\ t + (j - (t - m)) = m + j
          BY SMT, <1>1, <2>4, <3>2
        <5> QED  BY <5>1
      <4> QED  BY <1>5, <4>1
    <3>3. j <= t - m \/ j > t - m
      BY SMT, <1>1
    <3> QED  BY <3>1, <3>2, <3>3
  <2>7. (~ Freed)' => ~ Freed
    BY DEF Freed
  <2>8. Carried(m, 0)'
    BY Zenon, <1>1, <1>4, <2>2, <2>5, <2>6, <2>7 DEF Carried, HeardAt
  <2> QED  BY <2>8
<1> QED  BY <1>6, <1>7

\* What does not change of a quiet connection, or of a connection with its
\* units in other hands.
LEMMA CarriedOn ==
  ASSUME NEW m \in Nat, NEW c \in {0, 1}, Carried(m, c),
         Rest' = Rest, heard' = heard, fd' = fd, taken'[fd] = taken[fd],
         (~ Freed)' => ~ Freed,
         c = 1 => Freed' /\ ~ reading' /\ thread'.pc \notin {"wait", "ready"}
  PROVE  Carried(m, c)'
BY Zenon DEF Carried, HeardAt

\* read() with the SSL object gone: a record that is still encrypted follows.
LEMMA SslGoneData ==
  ASSUME NetTypes, FlagTypes, ThreadTypes, DataTypes, Control, PreInv, DataInv, SslGone
  PROVE  PreInv' /\ DataInv'
<1>1. /\ thread.pc = "ready" /\ ~ ssl /\ secure /\ ~ reading /\ Freed /\ fd # 0
      /\ thread.chunk = << >> /\ Rest = data
      /\ UNCHANGED <<taken, fd, reading, secure, ssl, data, told, heard>> /\ Freed'
  BY SMT, RestParts DEF SslGone, Control, FlagInv, Freed, PreInv
<1>2. CASE At("hang")
  BY SMT, <1>1, <1>2, KeptInv DEF At, Kept
<1>3. CASE thread' = [pc |-> "data", chunk |-> <<Cipher>>]
  <2>1. PreInv'
    <3>1. told = "nothing" => heard = << >>
      BY DEF PreInv
    <3>2. Range(thread.chunk) = {}
      BY <1>1 DEF Range
    <3>3. told = "nothing" => \A j \in 1 .. taken[fd] : [conn |-> fd, pos |-> j] \in Range(data)
      BY <1>1, <3>2 DEF PreInv
    <3> QED  BY SMT, <1>1, <1>3, <3>1, <3>3 DEF PreInv
  <2>2. SUFFICES ASSUME told = "connected"
                 PROVE  \E m \in Nat, c \in {0, 1} : Carried(m, c)'
    BY <1>1, <2>1 DEF DataInv
  <2>3. PICK m \in Nat, c \in {0, 1} : Carried(m, c)
    BY <1>1, <2>2 DEF DataInv
  <2>4. c = 0
    BY <1>1, <2>3 DEF Carried
  <2>5. taken[fd] \in Nat
    BY <1>1 DEF NetTypes, FlagTypes
  <2>. DEFINE t == taken[fd]
  <2>. HIDE DEF t
  <2>6. t \in Nat /\ m <= t /\ Len(data) = t - m /\ \A j \in 1 .. t - m : data[j] = [conn |-> fd,
      pos |-> m + j]
    BY SMT, <1>1, <2>3, <2>4, <2>5 DEF Carried, t
  <2>7. data \in Seq(Unit) /\ <<Cipher>> \in Seq(Unit) /\ Len(<<Cipher>>) = 1
        /\ <<Cipher>>[1] = Cipher
    BY RestParts DEF Unit
  <2>8. /\ Len(data \o <<Cipher>>) = t - m + 1
        /\ \A j \in 1 .. t - m : (data \o <<Cipher>>)[j] = [conn |-> fd, pos |-> m + j]
        /\ (data \o <<Cipher>>)[t - m + 1] = Cipher
    <3>1. /\ Len(data \o <<Cipher>>) = Len(data) + Len(<<Cipher>>)
          /\ \A j \in 1 .. Len(data) : (data \o <<Cipher>>)[j] = data[j]
          /\ \A j \in 1 .. Len(<<Cipher>>) : (data \o <<Cipher>>)[Len(data) + j] = <<Cipher>>[j]
      BY <2>7, Concatenated, ConcatenatedFront, ConcatenatedBack
    <3> QED  BY SMT, <2>6, <2>7, <3>1
  <2>9. Rest' = data \o <<Cipher>> /\ thread'.pc = "data" /\ taken'[fd'] = t
    BY <1>1, <1>3 DEF Rest, t
  <2>10. Carried(m, 1)'
    BY Zenon, <1>1, <2>3, <2>6, <2>8, <2>9 DEF Carried, HeardAt
  <2> QED  BY <2>1, <2>10
<1> QED  BY <1>2, <1>3 DEF SslGone

\* OnDataReady moves what the read thread holds to the data.
LEMMA OnDataReadyData ==
  ASSUME NetTypes, FlagTypes, ThreadTypes, DataTypes, Control, PreInv, DataInv, OnDataReady
  PROVE  PreInv' /\ DataInv'
<1>1. /\ thread.pc = "data" /\ data' = data \o thread.chunk /\ thread'.chunk = << >>
      /\ thread'.pc \in {"parse", "frames", "check"}
      /\ UNCHANGED <<taken, fd, reading, secure, ssl, told, heard>>
  BY SMT DEF OnDataReady, At
<1>2. Rest' = Rest /\ Range(data') = Range(data) \cup Range(thread.chunk)
  <2>1. data \in Seq(Unit) /\ thread.chunk \in Seq(Unit) /\ Rest \in Seq(Unit)
    BY RestParts
  <2>2. Rest \o << >> = Rest /\ Range(Rest) = Range(data) \cup Range(thread.chunk)
    BY Zenon, <2>1, RestParts, Concatenated
  <2> QED  BY <1>1, <2>2 DEF Rest
<1>3. PreInv'
  BY SMT, <1>1, <1>2 DEF PreInv
<1>4. ASSUME told = "connected", fd # 0
      PROVE  \E m \in Nat, c \in {0, 1} : Carried(m, c)'
  <2>1. PICK m \in Nat, c \in {0, 1} : Carried(m, c)
    BY <1>4 DEF DataInv
  <2>2. (Freed <=> Freed') /\ taken'[fd] = taken[fd]
    BY <1>1 DEF Freed
  <2>3. c = 1 => Freed' /\ ~ reading' /\ thread'.pc \notin {"wait", "ready"}
    BY SMT, <1>1, <2>1, <2>2 DEF Carried
  <2>4. Carried(m, c)'
    BY Zenon, <1>1, <1>2, <2>1, <2>2, <2>3, CarriedOn
  <2> QED  BY <2>4
<1> QED  BY <1>1, <1>3, <1>4 DEF DataInv

\* The response that is accepted is all that was read: no message came with it.
LEMMA ParseResponseData ==
  ASSUME NetTypes, FlagTypes, ThreadTypes, DataTypes, Control, PreInv, ParseResponse
  PROVE  PreInv' /\ DataInv'
<1>1. /\ thread.pc = "parse" /\ told = "nothing" /\ fd \in Conns /\ fd # 0
      /\ thread.chunk = << >> /\ thread'.chunk = << >> /\ thread'.pc \in {"shaken", "refused"}
      /\ UNCHANGED <<taken, fd, data, told, heard>>
  BY SMT DEF ParseResponse, At, Control, ToldInv, FlagInv, FlagTypes, PreInv
<1>2. ASSUME thread'.pc = "shaken"
      PROVE  NoFrames(fd, taken[fd])
  <2>0. data \in Seq(Unit) /\ Len(data) \in Nat
    BY RestParts
  <2>1. PICK n \in 0 .. Len(data) : Stale(n) /\ Accepts(SubSeq(data, n + 1, Len(data)))
    <3>1. ASSUME ~ \E k \in 0 .. Len(data) : Stale(k) /\ Accepts(SubSeq(data, k + 1, Len(data)))
          PROVE  FALSE
      <4>1. At("refused")
        BY <3>1 DEF ParseResponse
      <4> QED  BY <1>2, <4>1 DEF At
    <3> QED  BY <3>1
  <2>. DEFINE answer == SubSeq(data, n + 1, Len(data))
  <2>2. /\ Len(answer) = Len(data) - n
        /\ \A i \in 1 .. Len(data) - n : answer[i] = data[n + i]
    BY <2>0, <2>1
  <2>3. ASSUME NEW k \in 1 .. Len(answer)
        PROVE  Kind(answer[k]) \in {"accept", "half", "rest"}
    <3>. DEFINE K == [i \in 1 .. Len(answer) |-> Kind(answer[i])]
    <3>. HIDE DEF answer
    <3>1. K = <<"accept">> \/ K = <<"half", "rest">>
      BY Zenon, <2>1 DEF Accepting, Accepts, answer
    <3>2. DOMAIN K = 1 .. Len(answer) /\ K[k] = Kind(answer[k])
      BY Zenon
    <3>. HIDE DEF K
    <3>3. CASE K = <<"accept">>
      <4>1. k \in DOMAIN <<"accept">>
        BY <3>2, <3>3
      <4> QED  BY <3>2, <3>3, <4>1
    <3>4. CASE K = <<"half", "rest">>
      <4>1. k \in DOMAIN <<"half", "rest">>
        BY <3>2, <3>4
      <4> QED  BY <3>2, <3>4, <4>1
    <3> QED  BY <3>1, <3>3, <3>4
  <2>. HIDE DEF answer
  <2>4. ASSUME NEW j \in 1 .. taken[fd]
        PROVE  Script[fd][j] \notin {"frame", "part"}
    <3>1. Range(thread.chunk) = {}
      BY <1>1 DEF Range
    <3>2. [conn |-> fd, pos |-> j] \in Range(data)
      BY <1>1, <3>1 DEF PreInv
    <3>3. PICK k \in 1 .. Len(data) : data[k] = [conn |-> fd, pos |-> j]
      BY <2>0, <3>2 DEF Range
    <3>4. data[k] # Cipher
      BY SMT, <1>1, <3>3 DEF Cipher
    <3>5. Kind(data[k]) = Script[fd][j]
      BY <3>3, <3>4 DEF Kind
    <3>6. ~ (k <= n)
      BY <2>1, <3>3 DEF Stale
    <3>7. k - n \in 1 .. Len(data) - n /\ n + (k - n) = k
      BY <2>0, <3>6
    <3>8. k - n \in 1 .. Len(answer) /\ answer[k - n] = data[k]
      BY <2>2, <3>7
    <3>9. Kind(answer[k - n]) \in {"accept", "half", "rest"}
      BY <2>3, <3>8
    <3> QED  BY <3>5, <3>8, <3>9
  <2> QED  BY <2>4 DEF NoFrames
<1>3. PreInv'
  BY SMT, <1>1, <1>2 DEF PreInv, NoFrames
<1> QED  BY <1>1, <1>3 DEF DataInv

\* When the handshake is reported nothing is parsed, and nothing is to be.
LEMMA ConnectCallbackData ==
  ASSUME NetTypes, FlagTypes, ThreadTypes, DataTypes, Control, PreInv, ConnectCallback
  PROVE  PreInv' /\ DataInv'
<1>1. /\ thread.pc = "accepted" /\ told = "nothing" /\ fd \in Conns /\ fd # 0
      /\ data' = << >> /\ thread'.chunk = << >> /\ thread'.pc = "check" /\ told' = "connected"
      /\ UNCHANGED <<taken, fd, heard>> /\ heard = << >> /\ NoFrames(fd, taken[fd])
  BY SMT DEF ConnectCallback, At, Control, ToldInv, FlagInv, FlagTypes, PreInv
<1>2. PreInv'
  BY SMT, <1>1 DEF PreInv
<1>3. Rest' = << >> /\ Len(<< >>) = 0
  BY <1>1 DEF Rest
<1>4. PICK t \in Nat : t = taken[fd]
  BY <1>1 DEF NetTypes
<1>5. HeardAt(fd, t) = {} /\ (t > 0 => Script[fd][t] # "part")
  BY SMT, <1>1, <1>4 DEF HeardAt, NoFrames
<1>6. DOMAIN heard = {} /\ Range(heard) = {}
  BY <1>1 DEF Range
<1>7. Carried(t, 0)'
  <2>1. t <= t /\ 0 = t - t + 0 /\ 1 .. t - t = {}
    BY SMT, <1>4
  <2> QED  BY Zenon, <1>1, <1>3, <1>5, <1>6, <2>1 DEF Carried
<1> QED  BY <1>2, <1>4, <1>7 DEF DataInv

\* Places in the scripts are numbers.
LEMMA PositionsAreNumbers ==
  Positions \subseteq Nat
<1>1. ASSUME NEW n \in Conns
      PROVE  DOMAIN Script[n] \subseteq Nat
  <2>1. Script[n] \in Seq(Units)
    BY ClientAssumption DEF Conns
  <2>2. DOMAIN Script[n] = 1 .. Len(Script[n]) /\ Len(Script[n]) \in Nat
    BY <2>1
  <2> QED  BY SMT, <2>2
<1> QED  BY Zenon, <1>1 DEF Positions

\* A number put behind others that are below it.
LEMMA AppendedNumber ==
  ASSUME NEW s \in Seq(Positions \cup {0}), NEW x \in Positions \cup {0}, NEW b \in Nat,
         NEW d \in Nat,
         \A k \in DOMAIN s : s[k] <= b, b <= d, x <= d
  PROVE  /\ \A k \in DOMAIN Append(s, x) : Append(s, x)[k] <= d
         /\ (x > b /\ \A j, k \in DOMAIN s : j < k => s[j] < s[k]) =>
              \A j, k \in DOMAIN Append(s, x) : j < k => Append(s, x)[j] < Append(s, x)[k]
<1>. DEFINE L == Len(s)
            a == Append(s, x)
<1>1. L \in Nat /\ DOMAIN s = 1 .. L /\ DOMAIN a = 1 .. L + 1
  OBVIOUS
<1>2. a[L + 1] = x
  OBVIOUS
<1>3. \A k \in 1 .. L : a[k] = s[k]
  OBVIOUS
<1>4. \A k \in 1 .. L : s[k] \in Nat
  <2>1. \A k \in 1 .. L : s[k] \in Positions \cup {0}
    BY <1>1
  <2>2. ASSUME NEW k \in 1 .. L
        PROVE  s[k] \in Nat
    <3>1. s[k] \in Positions \/ s[k] = 0
      BY <2>1
    <3>2. CASE s[k] \in Positions
      BY Zenon, <3>2, PositionsAreNumbers
    <3>3. CASE s[k] = 0
      BY SMT, <3>3
    <3> QED  BY <3>1, <3>2, <3>3
  <2> QED  BY <2>2
<1>5. x \in Nat
  BY PositionsAreNumbers
<1>. HIDE DEF L, a
<1>6. \A k \in 1 .. L + 1 : k \in 1 .. L \/ k = L + 1
  BY SMT, <1>1
<1>7. \A k \in DOMAIN a : a[k] <= d
  <2>1. ASSUME NEW k \in 1 .. L + 1
        PROVE  a[k] <= d
    <3>1. CASE k \in 1 .. L
      <4>1. a[k] = s[k] /\ s[k] <= b /\ s[k] \in Nat
        BY <1>1, <1>3, <1>4, <3>1
      <4> QED  BY SMT, <4>1
    <3>2. CASE k = L + 1
      BY <1>2, <3>2
    <3> QED  BY <1>6, <3>1, <3>2
  <2> QED  BY <1>1, <2>1
<1>8. ASSUME x > b, \A j, k \in DOMAIN s : j < k => s[j] < s[k]
      PROVE  \A j, k \in DOMAIN a : j < k => a[j] < a[k]
  <2>1. ASSUME NEW j \in 1 .. L + 1, NEW k \in 1 .. L + 1, j < k
        PROVE  a[j] < a[k]
    <3>1. j \in 1 .. L
      BY SMT, <1>1, <2>1
    <3>2. a[j] = s[j] /\ s[j] <= b /\ s[j] \in Nat
      BY <1>1, <1>3, <1>4, <3>1
    <3>3. CASE k \in 1 .. L
      BY <1>1, <1>3, <1>8, <2>1, <3>1, <3>2, <3>3
    <3>4. CASE k = L + 1
      BY SMT, <1>2, <1>5, <1>8, <3>2, <3>4
    <3> QED  BY <1>6, <3>3, <3>4
  <2> QED  BY <1>1, <2>1
<1> QED  BY <1>7, <1>8 DEF a

\* Behind a frame one message more is complete.
LEMMA HeardMore ==
  ASSUME NEW n \in Conns, NEW m \in Nat, NEW f \in {1, 2}, m + f <= Len(Script[n]),
         m > 0 => Script[n][m] # "part",
         \/ f = 1 /\ Script[n][m + 1] = "frame"
         \/ f = 2 /\ Script[n][m + 1] = "part" /\ Script[n][m + 2] = "end"
  PROVE  HeardAt(n, m + f) = HeardAt(n, m) \cup {m + 1} /\ Script[n][m + f] # "part"
<1>1. Script[n][m + f] # "part"
  BY SMT
<1>2. ASSUME NEW j
      PROVE  j \in HeardAt(n, m + f) <=> j \in HeardAt(n, m) \cup {m + 1}
  BY SMT DEF HeardAt
<1> QED  BY <1>1, <1>2

\* One frame more is parsed, or what looks like one.
LEMMA ParseFrameData ==
  ASSUME NetTypes, FlagTypes, ThreadTypes, DataTypes, Control, PreInv, DataInv, ParseFrame
  PROVE  PreInv' /\ DataInv'
<1>1. /\ thread.pc = "frames" /\ told = "connected" /\ fd \in Conns /\ fd # 0
      /\ thread.chunk = << >> /\ Rest = data
      /\ UNCHANGED <<taken, fd, reading, secure, ssl, told>>
  BY SMT, RestParts DEF ParseFrame, Control, ToldInv, FlagInv, FlagTypes, PreInv
<1>2. CASE FrameSize(data) = 0
  <2>1. At("check") /\ UNCHANGED <<data, heard>>
    BY <1>2 DEF ParseFrame
  <2> QED  BY SMT, <1>1, <2>1, KeptInv DEF At, Kept, Freed
<1>3. CASE FrameSize(data) # 0
  <2>1. PICK f \in {1, 2} : f = FrameSize(data)
    BY <1>3, FrameTypes DEF DataTypes
  <2>2. /\ data' = SubSeq(data, f + 1, Len(data)) /\ heard' = Append(heard, Message)
        /\ thread' = thread
    BY <1>3, <2>1 DEF ParseFrame
  <2>3. PICK m \in Nat, c \in {0, 1} : Carried(m, c)
    BY <1>1 DEF DataInv
  <2>4. PICK t \in Nat : t = taken[fd]
    BY <1>1 DEF NetTypes
  <2>5. /\ m <= t /\ Len(data) = t - m + c
        /\ \A k \in 1 .. t - m : data[k] = [conn |-> fd, pos |-> m + k]
        /\ c = 1 => data[t - m + 1] = Cipher /\ Freed
        /\ \A k \in DOMAIN heard : heard[k] <= m
    BY <1>1, <2>3, <2>4 DEF Carried
  <2>6. f <= t - m + c
    BY <1>3, <2>1, <2>5, FrameTypes DEF DataTypes
  <2>7. \/ f = 1 /\ Kind(data[1]) \in {"frame", "cipher"}
        \/ f = 2 /\ Kind(data[1]) = "part" /\ Kind(data[2]) \in {"end", "cipher"}
    BY Zenon, <1>3, <2>1 DEF FrameSize
  <2>8. t <= Len(Script[fd]) /\ Len(Script[fd]) \in Nat
    BY SMT, <1>1, <2>4, StreamTypes DEF NetTypes
  <2>9. PreInv'
    BY SMT, <1>1, <2>2 DEF PreInv
  <2>10. Rest' = SubSeq(data, f + 1, Len(data))
    <3>1. data \in Seq(Unit) /\ Len(data) \in Nat
      BY DEF DataTypes
    <3>2. SubSeq(data, f + 1, Len(data)) \in Seq(Unit)
      BY SMT, <3>1
    <3> QED  BY <1>1, <2>2, <3>2, Concatenated DEF Rest
  <2>11. /\ Len(Rest') = t - m + c - f
         /\ \A k \in 1 .. t - m + c - f : Rest'[k] = data[f + k]
    <3>1. data \in Seq(Unit) /\ f \in Nat /\ Len(data) \in Nat /\ f <= Len(data)
      BY <2>5, <2>6 DEF DataTypes
    <3>2. Len(SubSeq(data, f + 1, Len(data))) = Len(data) - f
      BY SMT, <3>1
    <3>3. \A k \in 1 .. Len(data) - f : SubSeq(data, f + 1, Len(data))[k] = data[f + k]
      BY SMT, <3>1
    <3> QED  BY <2>5, <2>10, <3>2, <3>3
  <2>12. heard \in Seq(Positions \cup {0}) /\ Message \in Positions \cup {0}
    BY <1>3, FrameTypes DEF DataTypes
  <2>13. (Freed <=> Freed') /\ taken'[fd'] = t /\ fd' = fd
    BY <1>1, <2>4 DEF Freed
  <2>14. CASE f <= t - m
    <3>1. \A k \in 1 .. f : data[k] = [conn |-> fd, pos |-> m + k] /\ data[k] # Cipher
                            /\ Kind(data[k]) = Script[fd][m + k]
      <4>1. \A k \in 1 .. f : k \in 1 .. t - m
        BY SMT, <2>14
      <4>2. \A k \in 1 .. f : data[k] = [conn |-> fd, pos |-> m + k]
        BY <2>5, <4>1
      <4>3. \A k \in 1 .. f : [conn |-> fd, pos |-> m + k] # Cipher
        BY SMT, <1>1 DEF Cipher
      <4>4. ASSUME NEW k \in 1 .. f
            PROVE  Kind(data[k]) = Script[fd][m + k]
        <5>1. data[k] = [conn |-> fd, pos |-> m + k] /\ data[k] # Cipher
          BY <4>2, <4>3
        <5>2. data[k].conn = fd /\ data[k].pos = m + k
          BY <5>1
        <5> QED  BY Zenon, <5>1, <5>2 DEF Kind
      <4> QED  BY <4>2, <4>3, <4>4
    <3>2. Message = m + 1
      <4>1. ToSet(SubSeq(data, 1, f)) = {data[k] : k \in 1 .. f}
        <5>1. data \in Seq(Unit) /\ f \in Nat /\ Len(data) \in Nat /\ f <= Len(data)
          BY <2>5, <2>6 DEF DataTypes
        <5>2. DOMAIN SubSeq(data, 1, f) = 1 .. f /\ \A k \in 1 .. f : SubSeq(data, 1,
            f)[k] = data[k]
          BY SMT, <5>1
        <5> QED  BY Zenon, <5>2 DEF ToSet
      <4>2. Cipher \notin ToSet(SubSeq(data, 1, f))
        BY <3>1, <4>1
      <4>3. Message = data[1].pos
        BY <2>1, <4>2 DEF Message
      <4>4. data[1] = [conn |-> fd, pos |-> m + 1]
        BY SMT, <3>1
      <4> QED  BY <4>3, <4>4
    <3>3. \A k \in 1 .. f : Script[fd][m + k] # "cipher"
      <4>1. \A k \in 1 .. f : m + k \in 1 .. Len(Script[fd])
        BY SMT, <2>8, <2>14
      <4> QED  BY Zenon, <1>1, <4>1, StreamTypes DEF Units
    <3>4. \/ f = 1 /\ Script[fd][m + 1] = "frame"
          \/ f = 2 /\ Script[fd][m + 1] = "part" /\ Script[fd][m + 2] = "end"
      <4>1. Kind(data[1]) = Script[fd][m + 1] /\ Script[fd][m + 1] # "cipher"
        <5>1. 1 \in 1 .. f
          BY SMT
        <5> QED  BY <3>1, <3>3, <5>1
      <4>2. f = 2 => Kind(data[2]) = Script[fd][m + 2] /\ Script[fd][m + 2] # "cipher"
        <5>1. f = 2 => 2 \in 1 .. f
          BY SMT
        <5> QED  BY <3>1, <3>3, <5>1
      <4> QED  BY Zenon, <2>7, <4>1, <4>2
    <3>5. PICK p \in Nat : p = m + f
      BY SMT
    <3>6. /\ p <= t /\ t - p + c = t - m + c - f /\ m <= p /\ m + 1 <= p /\ m + 1 > m
          /\ \A k \in 1 .. t - p : k \in 1 .. t - m + c - f /\ f + k \in 1 .. t - m
             /\ m + (f + k) = p + k
          /\ c = 1 => t - p + 1 \in 1 .. t - m + c - f /\ f + (t - p + 1) = t - m + 1
      BY SMT, <2>14, <3>5
    <3>7. /\ Len(Rest') = t - p + c
          /\ \A k \in 1 .. t - p : Rest'[k] = [conn |-> fd, pos |-> p + k]
          /\ c = 1 => Rest'[t - p + 1] = Cipher
      <4>1. \A k \in 1 .. t - p : Rest'[k] = data[f + k] /\ data[f + k] = [conn |-> fd,
          pos |-> m + (f + k)]
        BY <2>5, <2>11, <3>6
      <4>2. c = 1 => Rest'[t - p + 1] = data[f + (t - p + 1)]
        BY <2>11, <3>6
      <4> QED  BY <2>5, <2>11, <3>6, <4>1, <4>2
    <3>8. \A k \in DOMAIN heard' : heard'[k] <= p
      BY <2>2, <2>5, <2>12, <3>2, <3>6, AppendedNumber
    <3>9. ASSUME ~ Freed
          PROVE  /\ Range(heard') = HeardAt(fd, p)
                 /\ \A j, k \in DOMAIN heard' : j < k => heard'[j] < heard'[k]
                 /\ p > 0 => Script[fd][p] # "part"
      <4>1. /\ Range(heard) = HeardAt(fd, m)
            /\ \A j, k \in DOMAIN heard : j < k => heard[j] < heard[k]
            /\ m > 0 => Script[fd][m] # "part"
        BY <2>3, <3>9 DEF Carried
      <4>2. m + f <= Len(Script[fd])
        BY SMT, <2>8, <2>14
      <4>3. HeardAt(fd, m + f) = HeardAt(fd, m) \cup {m + 1} /\ Script[fd][m + f] # "part"
        BY <1>1, <3>4, <4>1, <4>2, HeardMore
      <4>4. Range(heard') = Range(heard) \cup {m + 1}
        BY <2>2, <2>12, <3>2, AppendRange
      <4>5. \A j, k \in DOMAIN heard' : j < k => heard'[j] < heard'[k]
        BY <2>2, <2>5, <2>12, <3>2, <3>6, <4>1, AppendedNumber
      <4> QED  BY <3>5, <4>1, <4>3, <4>4, <4>5
    <3>10. c = 1 => Freed /\ ~ reading /\ thread.pc \notin {"wait", "ready"}
      BY <2>3 DEF Carried
    <3>11. Carried(p, c)'
      BY Zenon, <1>1, <2>2, <2>13, <3>6, <3>7, <3>8, <3>9, <3>10 DEF Carried, HeardAt
    <3> QED  BY <2>9, <3>11 DEF DataInv
  <2>15. CASE f > t - m
    <3>1. c = 1 /\ f = t - m + 1 /\ t - m + c - f = 0
      BY SMT, <2>5, <2>6, <2>15
    <3>2. Freed /\ data[f] = Cipher
      BY <2>5, <3>1
    <3>3. Message = 0
      <4>1. data \in Seq(Unit) /\ f \in Nat /\ Len(data) \in Nat /\ f <= Len(data)
        BY <2>5, <2>6 DEF DataTypes
      <4>2. f \in DOMAIN SubSeq(data, 1, f) /\ SubSeq(data, 1, f)[f] = data[f]
        BY SMT, <4>1
      <4>3. Cipher \in ToSet(SubSeq(data, 1, f))
        BY Zenon, <3>2, <4>2 DEF ToSet
      <4> QED  BY <2>1, <4>3 DEF Message
    <3>4. \A k \in DOMAIN heard' : heard'[k] <= t
      <4>1. Message <= t /\ m <= t
        BY SMT, <2>5, <3>3
      <4> QED  BY <2>2, <2>5, <2>12, <4>1, AppendedNumber
    <3>5. Len(Rest') = t - t + 0 /\ 1 .. t - t = {} /\ t <= t /\ 0 # 1
      BY SMT, <2>11, <3>1
    <3>6. Carried(t, 0)'
      BY Zenon, <1>1, <2>13, <3>2, <3>4, <3>5 DEF Carried
    <3> QED  BY <2>9, <3>6 DEF DataInv
  <2> QED  BY SMT, <2>5, <2>14, <2>15
<1> QED  BY <1>2, <1>3

\* read() hands over some of what was sent.
LEMMA ReadSomeData ==
  ASSUME NetTypes, FlagTypes, ThreadTypes, DataTypes, Control, PreInv, DataInv, ReadSome
  PROVE  PreInv' /\ DataInv'
<1>1. /\ thread.pc = "wait" /\ fd \in Conns /\ fd # 0 /\ thread.chunk = << >>
      /\ UNCHANGED <<data, fd, told, heard, secure, ssl, reading>>
  BY SMT DEF ReadSome, Control, FlagInv, FlagTypes, PreInv
<1>2. CASE taken[fd] = sent[fd]
  <2>1. At("check") /\ taken' = taken
    BY <1>2 DEF ReadSome
  <2> QED  BY SMT, <1>1, <2>1, KeptInv DEF At, Kept, Freed
<1>3. CASE taken[fd] # sent[fd]
  <2>1. PICK k \in taken[fd] + 1 .. sent[fd] :
          /\ taken' = [taken EXCEPT ![fd] = k]
          /\ thread' = [pc |-> "data", chunk |-> SubSeq(Stream(fd), taken[fd] + 1, k)]
    BY Zenon, <1>3 DEF ReadSome, ReadUpTo
  <2>2. taken[fd] \in Nat /\ sent[fd] \in Nat
    BY <1>1 DEF NetTypes
  <2>3. k \in Nat /\ taken[fd] <= k /\ k <= sent[fd]
    BY SMT, <2>2
  <2> QED  BY Zenon, <1>1, <2>1, <2>3, ReadMore
<1> QED  BY <1>2, <1>3

\* So does SSL_read.
LEMMA SslReadData ==
  ASSUME NetTypes, FlagTypes, ThreadTypes, DataTypes, Control, PreInv, DataInv, SslRead
  PROVE  PreInv' /\ DataInv'
<1>1. /\ thread.pc = "ready" /\ fd \in Conns /\ fd # 0
      /\ UNCHANGED <<data, fd, told, heard, secure, ssl>>
  BY SMT DEF SslRead, Control, FlagInv, FlagTypes
<1>2. taken[fd] \in Nat /\ sent[fd] \in Nat /\ fetched[fd] \in Nat /\ fetched[fd] <= sent[fd]
  BY <1>1 DEF NetTypes
<1>3. PICK r \in Records : \E k \in taken[fd] + 1 .. r :
        /\ taken' = [taken EXCEPT ![fd] = k]
        /\ thread' = [pc |-> "data", chunk |-> SubSeq(Stream(fd), taken[fd] + 1, k)]
  BY Zenon DEF SslRead
<1>4. r \in 0 .. sent[fd]
  BY SMT, <1>2 DEF Records
<1>5. PICK k \in taken[fd] + 1 .. r :
        /\ taken' = [taken EXCEPT ![fd] = k]
        /\ thread' = [pc |-> "data", chunk |-> SubSeq(Stream(fd), taken[fd] + 1, k)]
  BY <1>3
<1>6. k \in Nat /\ taken[fd] <= k /\ k <= sent[fd]
  BY SMT, <1>2, <1>4
<1> QED  BY Zenon, <1>1, <1>5, <1>6, ReadMore

\* Open starts again with a connection of which nothing was read.
LEMMA OpenData ==
  ASSUME NetTypes, FlagTypes, StateTypes, ThreadTypes, DataTypes, Control, PreInv, DataInv, Open
  PROVE  PreInv' /\ DataInv'
<1>1. OpenRest
  BY OpenCases
<1>2. CASE OpenNew
  <2>1. opens + 1 \in Conns /\ opens + 1 > opens
    BY SMT, <1>1, ClientAssumption DEF OpenRest, StateTypes, Conns
  <2>2. sent[opens + 1] = 0
    BY <2>1 DEF Control, ConnInv
  <2>3. taken[opens + 1] = 0
    BY SMT, <2>1, <2>2 DEF NetTypes
  <2>4. /\ told' = "nothing" /\ heard' = << >> /\ fd' = opens + 1 /\ taken' = taken
        /\ thread' = thread /\ data' = data
    BY <1>1, <1>2 DEF OpenRest, OpenNew, Connects
  <2>5. thread.pc \in {"none", "check", "leave", "done"}
    BY SMT, <1>2 DEF OpenNew, Control, CallInv, Quiet
  <2>6. 1 .. 0 = {} /\ "nothing" # "connected"
    OBVIOUS
  <2>7. PreInv'
    BY SMT, <2>3, <2>4, <2>5, <2>6 DEF PreInv
  <2> QED  BY <2>4, <2>6, <2>7 DEF DataInv
<1>3. CASE OpenFailed
  <2>1. thread.pc \in {"none", "check", "leave", "done"}
    BY SMT, <1>3 DEF OpenFailed, Control, CallInv, Quiet
  <2> QED  BY SMT, <1>1, <1>3, <2>1, KeptInv DEF OpenRest, OpenFailed, ConnectFails, Kept, Freed
<1>4. CASE OpenAgain
  BY SMT, <1>1, <1>4, KeptInv DEF OpenRest, OpenAgain, Kept, Freed, Control, FlagInv
<1> QED  BY <1>2, <1>3, <1>4, OpenCases

\* What was read stays where it is, or moves on.
LEMMA DataStep ==
  ASSUME NetTypes, FlagTypes, StateTypes, ThreadTypes, AppTypes, DataTypes, Control, PreInv,
         DataInv,
         [Next]_vars
  PROVE  PreInv' /\ DataInv'
<1>1. CASE UNCHANGED vars
  BY SMT, <1>1, KeptInv DEF vars, Kept, Freed, Control, FlagInv
<1>2. CASE ReadSome
  BY <1>2, ReadSomeData
<1>3. CASE SslRead
  BY <1>3, SslReadData
<1>4. CASE SslGone
  BY <1>4, SslGoneData
<1>5. CASE OnDataReady
  BY <1>5, OnDataReadyData
<1>6. CASE ParseResponse
  BY <1>6, ParseResponseData
<1>7. CASE ConnectCallback
  BY <1>7, ConnectCallbackData
<1>8. CASE ParseFrame
  BY <1>8, ParseFrameData
<1>9. CASE Open
  BY <1>9, OpenData
<1>10. CASE \/ \E n \in Conns : ServerSends(n) \/ ServerHangsUp(n)
            \/ ReadCheck \/ ReadTimeout \/ ReadEnd \/ ReadReady \/ SslReadNothing
            \/ HandleClose \/ OnClosed \/ ReadLeave \/ HandshakeDone \/ RefuseCallback
            \/ DropConnection \/ RunFails \/ RunStarts \/ RunSet \/ StartHandshake
            \/ SendRequest \/ OpenDone \/ OpenTimeout \/ WaitFor \/ Join \/ Release
            \/ Unset \/ Wreck \/ Finish \/ Close
  BY <1>10, StepKeeps, KeptInv
<1> QED  BY <1>1, <1>2, <1>3, <1>4, <1>5, <1>6, <1>7, <1>8, <1>9, <1>10
         DEF Next, ReadThread, Opening, Closing

\* Every step keeps what the layers have in common.
LEMMA ControlStep ==
  ASSUME NetTypes, FlagTypes, StateTypes, ThreadTypes, AppTypes, Control, [Next]_vars
  PROVE  Control'
<1>1. CASE UNCHANGED vars
  <2>1. ConnInv'
    BY Zenon, <1>1 DEF vars, Control, ConnInv
  <2>2. FlagInv'
    BY Zenon, <1>1 DEF vars, Control, FlagInv, Freed
  <2>3. CallInv'
    BY Zenon, <1>1 DEF vars, Control, CallInv, Quiet
  <2>4. FreshInv'
    BY Zenon, <1>1 DEF vars, Control, FreshInv
  <2>5. ToldInv'
    BY Zenon, <1>1 DEF vars, Control, ToldInv, Alive
  <2>6. EndInv'
    BY Zenon, <1>1 DEF vars, Control, EndInv, EndSeen, Registered
  <2> QED  BY <2>1, <2>2, <2>3, <2>4, <2>5, <2>6 DEF Control
<1>2. CASE \E n \in Conns : ServerSends(n) \/ ServerHangsUp(n)
  BY <1>2, ServerSendsControl, ServerHangsUpControl
<1>3. CASE ReadCheck
  BY <1>3, ReadCheckControl
<1>4. CASE ReadTimeout
  BY <1>4, ReadTimeoutControl
<1>5. CASE ReadEnd
  BY <1>5, ReadEndControl
<1>6. CASE ReadSome
  BY <1>6, ReadSomeControl
<1>7. CASE ReadReady
  BY <1>7, ReadReadyControl
<1>8. CASE SslRead
  BY <1>8, SslReadControl
<1>9. CASE SslReadNothing
  BY <1>9, SslReadNothingControl
<1>10. CASE SslGone
  BY <1>10, SslGoneControl
<1>11. CASE HandleClose
  BY <1>11, HandleCloseControl
<1>12. CASE OnClosed
  BY <1>12, OnClosedControl
<1>13. CASE ReadLeave
  BY <1>13, ReadLeaveControl
<1>14. CASE OnDataReady
  BY <1>14, OnDataReadyControl
<1>15. CASE ParseResponse
  BY <1>15, ParseResponseControl
<1>16. CASE HandshakeDone
  BY <1>16, HandshakeDoneControl
<1>17. CASE ConnectCallback
  BY <1>17, ConnectCallbackControl
<1>18. CASE RefuseCallback
  BY <1>18, RefuseCallbackControl
<1>19. CASE DropConnection
  BY <1>19, DropConnectionControl
<1>20. CASE ParseFrame
  BY <1>20, ParseFrameControl
<1>21. CASE Open
  BY <1>21, OpenCases, OpenNewControl, OpenFailedControl, OpenAgainControl
<1>22. CASE RunFails
  BY <1>22, RunFailsControl
<1>23. CASE RunStarts
  BY <1>23, RunStartsControl
<1>24. CASE RunSet
  BY <1>24, RunSetControl
<1>25. CASE StartHandshake
  BY <1>25, StartHandshakeControl
<1>26. CASE SendRequest
  BY <1>26, SendRequestControl
<1>27. CASE OpenDone
  BY <1>27, OpenDoneControl
<1>28. CASE OpenTimeout
  BY <1>28, OpenTimeoutControl
<1>29. CASE Close
  BY <1>29, CloseControl
<1>30. CASE WaitFor
  BY <1>30, WaitForControl
<1>31. CASE Join
  BY <1>31, JoinControl
<1>32. CASE Release
  BY <1>32, ReleaseControl
<1>33. CASE Unset
  BY <1>33, UnsetControl
<1>34. CASE Wreck
  BY <1>34, WreckControl
<1>35. CASE Finish
  BY <1>35, FinishControl
<1> QED  BY <1>1, <1>2, <1>3, <1>4, <1>5, <1>6, <1>7, <1>8, <1>9, <1>10, <1>11, <1>12,
            <1>13, <1>14, <1>15, <1>16, <1>17, <1>18, <1>19, <1>20, <1>21, <1>22, <1>23,
            <1>24, <1>25, <1>26, <1>27, <1>28, <1>29, <1>30, <1>31, <1>32, <1>33, <1>34,
            <1>35
         DEF Next, ReadThread, Opening, Closing

\* The client begins as IInv says,
LEMMA InitInv ==
  ASSUME Init
  PROVE  IInv
<1>1. NetTypes
  BY SMT, StreamTypes DEF Init, NetTypes
<1>2. FlagTypes
  BY Zenon DEF Init, FlagTypes
<1>3. StateTypes
  <2>1. 0 \in 0 .. MaxOpens
    BY SMT, ClientAssumption
  <2> QED  BY Zenon, <2>1 DEF Init, StateTypes
<1>4. ThreadTypes
  <2>1. << >> \in Seq(Unit)
    OBVIOUS
  <2> QED  BY Zenon, <2>1 DEF Init, ThreadTypes, ThreadPcs
<1>5. AppTypes
  BY Zenon DEF Init, AppTypes, AppPcs
<1>6. DataTypes
  BY Zenon, EmptySeq DEF Init, DataTypes
<1>7. Control
  BY SMT DEF Init, Control, ConnInv, FlagInv, CallInv, FreshInv, ToldInv, EndInv, EndSeen,
     Quiet, Alive, Registered, Freed
<1>8. PreInv /\ DataInv
  BY SMT DEF Init, PreInv, DataInv
<1> QED  BY <1>1, <1>2, <1>3, <1>4, <1>5, <1>6, <1>7, <1>8 DEF IInv

\* and stays as it says.
LEMMA NextInv ==
  ASSUME IInv, [Next]_vars
  PROVE  IInv'
<1>1. NetTypes' /\ FlagTypes' /\ StateTypes' /\ ThreadTypes' /\ AppTypes' /\ DataTypes'
  BY NetTypesStep, FlagTypesStep, StateTypesStep, ThreadTypesStep, AppTypesStep,
       DataTypesStep DEF IInv
<1>2. Control'
  BY ControlStep DEF IInv
<1>3. PreInv' /\ DataInv'
  BY DataStep DEF IInv
<1> QED  BY <1>1, <1>2, <1>3 DEF IInv

-----------------------------------------------------------------------------
(* Theorems.                                                               *)

\* The inductive invariant of WebSocketClient: where the read thread and the
\* thread that calls can be at the same time, what the flags of the three
\* layers then say, and where what was read then is.
THEOREM ClientInvariance ==
  Spec => []IInv
<1>1. Init => IInv
  BY InitInv
<1>2. IInv /\ [Next]_vars => IInv'
  BY NextInv
<1> QED  BY <1>1, <1>2, PTL DEF Spec

\* Every variable of the client has its type.
THEOREM ClientTypes ==
  Spec => []TypeOK
<1>1. IInv => TypeOK
  <2>1. SUFFICES ASSUME IInv
                 PROVE  TypeOK
    OBVIOUS
  <2>2. \A n \in Conns : /\ sent[n] \in 0 .. Len(Script[n])
                         /\ fetched[n] \in 0 .. sent[n] /\ taken[n] \in 0 .. fetched[n]
    <3>1. ASSUME NEW n \in Conns
          PROVE  /\ sent[n] \in 0 .. Len(Script[n])
                 /\ fetched[n] \in 0 .. sent[n] /\ taken[n] \in 0 .. fetched[n]
      <4>1. /\ sent[n] \in Nat /\ fetched[n] \in Nat /\ taken[n] \in Nat
            /\ sent[n] <= Len(Script[n]) /\ fetched[n] <= sent[n] /\ taken[n] <= fetched[n]
        BY <2>1 DEF IInv, NetTypes
      <4> QED  BY SMT, <4>1, StreamTypes
    <3> QED  BY <3>1
  <2>3. thread \in [pc : ThreadPcs, chunk : Seq(Unit)] /\ app \in [pc : AppPcs, wait : BOOLEAN,
      dying : BOOLEAN]
    BY <2>1 DEF IInv, ThreadTypes, AppTypes
  <2>4. /\ hangup \in [Conns -> {"no", "closed", "reset"}]
        /\ file \in [Conns -> {"none", "open", "down", "closed"}]
        /\ asked \in [Conns -> BOOLEAN]
    BY <2>1 DEF IInv, NetTypes
  <2>5. FlagTypes /\ StateTypes /\ DataTypes
    BY <2>1 DEF IInv
  <2> QED  BY Zenon, <2>2, <2>3, <2>4, <2>5
           DEF TypeOK, ThreadPcs, AppPcs, FlagTypes, StateTypes, DataTypes
<1> QED  BY <1>1, ClientInvariance, PTL

\* After Close(true) no callback comes until the next Open, and none is running
\* or will run while the members of the client are destroyed.
THEOREM EndIsQuiet ==
  Spec => []QuietAfterEnd
<1>1. IInv => QuietAfterEnd
  BY SMT DEF IInv, Control, CallInv, Quiet, QuietAfterEnd
<1> QED  BY <1>1, ClientInvariance, PTL

\* Nothing the server sends after its answer is lost, doubled or reordered:
\* what was handed over, then the data, then what the read thread holds are
\* what was read.
THEOREM NothingLostInClient ==
  Spec => []MessagesAreStream
<1>1. IInv => MessagesAreStream
  <2>1. SUFFICES ASSUME IInv, told = "connected", fd # 0, ~ Freed
                 PROVE  /\ Rest = SubSeq(Stream(fd), taken[fd] - Len(Rest) + 1, taken[fd])
                        /\ Range(heard) = HeardAt(fd, taken[fd] - Len(Rest))
                        /\ \A j, k \in DOMAIN heard : j < k => heard[j] < heard[k]
    BY Zenon DEF MessagesAreStream, Rest
  <2>2. PICK m \in Nat, c \in {0, 1} : Carried(m, c)
    BY <2>1 DEF IInv, DataInv
  <2>3. c = 0
    BY <2>1, <2>2 DEF Carried
  <2>4. fd \in Conns
    BY <2>1 DEF IInv, FlagTypes
  <2>5. PICK t \in Nat : t = taken[fd]
    BY <2>1, <2>4 DEF IInv, NetTypes
  <2>6. /\ m <= t /\ Len(Rest) = t - m + 0
        /\ \A k \in 1 .. t - m : Rest[k] = [conn |-> fd, pos |-> m + k]
    BY <2>2, <2>3, <2>5 DEF Carried
  <2>7. t - Len(Rest) = m /\ Len(Rest) = t - m
    BY SMT, <2>6
  <2>8. t <= Len(Script[fd])
    BY SMT, <2>1, <2>4, <2>5, StreamTypes DEF IInv, NetTypes
  <2>9. /\ SubSeq(Stream(fd), m + 1, t) \in Seq(Unit) /\ Len(SubSeq(Stream(fd), m + 1, t)) = t - m
        /\ \A k \in 1 .. t - m : SubSeq(Stream(fd), m + 1, t)[k] = [conn |-> fd, pos |-> m + k]
    BY <2>4, <2>6, <2>8, ReadUnits
  <2>10. Rest = SubSeq(Stream(fd), m + 1, t)
    <3>. DEFINE part == SubSeq(Stream(fd), m + 1, t)
    <3>1. Rest \in Seq(Unit)
      BY <2>1, RestParts DEF IInv
    <3>2. /\ part \in Seq(Unit) /\ Len(part) = Len(Rest)
          /\ \A k \in 1 .. Len(Rest) : part[k] = Rest[k]
      BY <2>6, <2>7, <2>9
    <3>. HIDE DEF part
    <3>3. part = Rest
      BY <3>1, <3>2, SeqEqual
    <3> QED  BY <3>3 DEF part
  <2>11. /\ Range(heard) = HeardAt(fd, m)
         /\ \A j, k \in DOMAIN heard : j < k => heard[j] < heard[k]
    BY <2>1, <2>2 DEF Carried
  <2> QED  BY <2>5, <2>7, <2>10, <2>11
<1> QED  BY <1>1, ClientInvariance, PTL

\* Only these steps are seen by the user.
LEMMA UserSteps ==
  ASSUME [Next]_vars
  PROVE  UNCHANGED userVars \/ OnClosed \/ ConnectCallback \/ RefuseCallback \/ ParseFrame \/ Open
<1>1. CASE UNCHANGED vars
  BY <1>1 DEF vars
<1>2. CASE \E n \in Conns : ServerSends(n) \/ ServerHangsUp(n)
  BY Zenon, <1>2 DEF ServerSends, ServerHangsUp
<1>3. CASE \/ ReadCheck \/ ReadTimeout \/ ReadEnd \/ ReadSome \/ ReadReady \/ SslRead
         \/ SslReadNothing \/ SslGone
  BY Zenon, <1>3 DEF ReadCheck, ReadTimeout, ReadEnd, ReadSome, ReadReady, SslRead,
     SslReadNothing,
     SslGone
<1>4. CASE \/ HandleClose \/ ReadLeave \/ OnDataReady \/ ParseResponse \/ HandshakeDone
         \/ DropConnection \/ RunFails \/ RunStarts
  BY Zenon, <1>4 DEF HandleClose, ReadLeave, OnDataReady, ParseResponse, HandshakeDone,
     DropConnection, RunFails, RunStarts
<1>5. CASE \/ RunSet \/ StartHandshake \/ SendRequest \/ OpenDone \/ OpenTimeout \/ Close
         \/ WaitFor \/ Join
  BY Zenon, <1>5 DEF RunSet, StartHandshake, SendRequest, OpenDone, OpenTimeout, Close, WaitFor,
     Join
<1>6. CASE \/ Release \/ Unset \/ Wreck \/ Finish
  BY Zenon, <1>6 DEF Release, Unset, Wreck, Finish
<1> QED  BY <1>1, <1>2, <1>3, <1>4, <1>5, <1>6 DEF Next, ReadThread, Opening, Closing

\* The close callback is for an end that the server makes.
THEOREM CloseCallbackIsReal ==
  Spec => EndIsReal
<1>1. ASSUME IInv, [Next]_vars, told # "closed", told' = "closed"
      PROVE  (fd # 0 /\ hangup[fd] # "no") \/ \E n \in Registered : n # fd
  <2>1. CASE UNCHANGED userVars
    BY <1>1, <2>1
  <2>2. CASE OnClosed
    BY <1>1, <2>2 DEF OnClosed, IInv, Control, EndInv, EndSeen
  <2>3. CASE ConnectCallback \/ RefuseCallback \/ ParseFrame
    BY <1>1, <2>3 DEF ConnectCallback, RefuseCallback, ParseFrame
  <2>4. CASE Open
    BY <1>1, <2>4, OpenCases DEF OpenNew, OpenFailed, OpenAgain
  <2> QED  BY <1>1, <2>1, <2>2, <2>3, <2>4, UserSteps
<1>2. IInv /\ [Next]_vars =>
        [told # "closed" /\ told' = "closed" =>
           \/ fd # 0 /\ hangup[fd] # "no"
           \/ \E n \in Registered : n # fd]_vars
  BY <1>1
<1> QED  BY <1>2, ClientInvariance, PTL DEF Spec, EndIsReal

\* A message that is handed over comes after those before it; what is none
\* comes only when the SSL object was freed.
LEMMA MessageIsNew ==
  ASSUME IInv, ParseFrame, FrameSize(data) # 0
  PROVE  \/ Message = 0 /\ Freed
         \/ Message \in Positions /\ \A k \in 1 .. Len(heard) : heard[k] < Message
<1>1. thread.pc = "frames" /\ told = "connected" /\ fd # 0 /\ fd \in Conns /\ Rest = data
  BY SMT, RestParts DEF ParseFrame, IInv, Control, ToldInv, FlagInv, FlagTypes, PreInv
<1>2. PICK m \in Nat, c \in {0, 1} : Carried(m, c)
  BY <1>1 DEF IInv, DataInv
<1>3. PICK t \in Nat : t = taken[fd]
  BY <1>1 DEF IInv, NetTypes
<1>4. /\ m <= t /\ Len(data) = t - m + c
      /\ \A k \in 1 .. t - m : data[k] = [conn |-> fd, pos |-> m + k]
      /\ c = 1 => data[t - m + 1] = Cipher /\ Freed
      /\ \A k \in DOMAIN heard : heard[k] <= m
  BY <1>1, <1>2, <1>3 DEF Carried
<1>5. PICK f \in {1, 2} : f = FrameSize(data) /\ f <= Len(data)
  BY FrameTypes DEF IInv, DataTypes
<1>6. data \in Seq(Unit) /\ heard \in Seq(Positions \cup {0}) /\ Message \in Positions \cup {0}
  BY FrameTypes DEF IInv, DataTypes
<1>7. ToSet(SubSeq(data, 1, f)) = {data[k] : k \in 1 .. f}
  <2>1. DOMAIN SubSeq(data, 1, f) = 1 .. f /\ \A k \in 1 .. f : SubSeq(data, 1, f)[k] = data[k]
    BY SMT, <1>5, <1>6
  <2> QED  BY Zenon, <2>1 DEF ToSet
<1>8. CASE Cipher \in ToSet(SubSeq(data, 1, f))
  <2>1. Message = 0
    BY <1>5, <1>8 DEF Message
  <2>2. PICK k \in 1 .. f : data[k] = Cipher
    BY <1>7, <1>8
  <2>3. k \notin 1 .. t - m
    <3>1. ASSUME k \in 1 .. t - m
          PROVE  FALSE
      <4>1. data[k] = [conn |-> fd, pos |-> m + k]
        BY <1>4, <3>1
      <4> QED  BY <1>1, <2>2, <4>1 DEF Cipher
    <3> QED  BY <3>1
  <2>4. c = 1
    BY SMT, <1>4, <1>5, <2>3
  <2> QED  BY <1>4, <2>1, <2>4
<1>9. CASE Cipher \notin ToSet(SubSeq(data, 1, f))
  <2>1. Message = data[1].pos
    BY <1>5, <1>9 DEF Message
  <2>2. data[1] # Cipher
    <3>1. 1 \in 1 .. f
      BY SMT
    <3> QED  BY <1>7, <1>9, <3>1
  <2>3. 1 \in 1 .. t - m
    <3>1. t - m = 0 => c = 1 /\ t - m + 1 = 1
      BY SMT, <1>4, <1>5
    <3>2. t - m # 0
      BY <1>4, <2>2, <3>1
    <3> QED  BY SMT, <1>4, <3>2
  <2>4. Message = m + 1
    <3>1. data[1] = [conn |-> fd, pos |-> m + 1]
      BY <1>4, <2>3
    <3> QED  BY <2>1, <3>1
  <2>5. Message # 0
    BY SMT, <2>4
  <2>6. ASSUME NEW k \in 1 .. Len(heard)
        PROVE  heard[k] < Message
    <3>1. heard[k] \in Nat
      <4>1. heard[k] \in Positions \/ heard[k] = 0
        BY <1>6
      <4>2. CASE heard[k] \in Positions
        BY Zenon, <4>2, PositionsAreNumbers
      <4>3. CASE heard[k] = 0
        BY SMT, <4>3
      <4> QED  BY <4>1, <4>2, <4>3
    <3>2. heard[k] <= m
      BY <1>4, <1>6
    <3> QED  BY SMT, <2>4, <3>1, <3>2
  <2> QED  BY <1>6, <2>5, <2>6
<1> QED  BY <1>8, <1>9

\* The callbacks come as ClientSession promises.
THEOREM ClientKeepsPromise ==
  Spec => ImplementsSession
<1>1. Init => Session!Init
  BY DEF Init, Session!Init
<1>2. ASSUME IInv, [Next]_vars
      PROVE  [Session!Next]_Session!vars
  <2>1. CASE UNCHANGED userVars
    BY <2>1 DEF Session!vars
  <2>2. CASE OnClosed
    <3>1. told \in {"nothing", "connected"}
      BY <1>2, <2>2 DEF OnClosed, IInv, Control, ToldInv, Alive
    <3> QED  BY <2>2, <3>1 DEF OnClosed, Session!Next, Session!Closed
  <2>3. CASE ConnectCallback
    <3>1. told = "nothing"
      BY <1>2, <2>3 DEF ConnectCallback, IInv, Control, ToldInv
    <3> QED  BY <2>3, <3>1 DEF ConnectCallback, Session!Next, Session!Connected
  <2>4. CASE RefuseCallback
    <3>1. told = "nothing"
      BY <1>2, <2>4 DEF RefuseCallback, IInv, Control, ToldInv
    <3> QED  BY <2>4, <3>1 DEF RefuseCallback, Session!Next, Session!Refused
  <2>5. CASE ParseFrame
    <3>1. told = "connected" /\ told' = told
      BY <1>2, <2>5 DEF ParseFrame, IInv, Control, ToldInv
    <3>2. CASE FrameSize(data) = 0
      BY <2>5, <3>1, <3>2 DEF ParseFrame, Session!vars
    <3>3. CASE FrameSize(data) # 0
      <4>1. heard' = Append(heard, Message)
        BY <2>5, <3>3 DEF ParseFrame
      <4>2. CASE Message = 0 /\ Freed
        BY <3>1, <4>1, <4>2 DEF Session!Next, Session!Garbage
      <4>3. CASE Message \in Positions /\ \A k \in 1 .. Len(heard) : heard[k] < Message
        BY Zenon, <3>1, <4>1, <4>3 DEF Session!Next, Session!Message
      <4> QED  BY <1>2, <2>5, <3>3, <4>2, <4>3, MessageIsNew
    <3> QED  BY <3>2, <3>3
  <2>6. CASE Open
    <3>1. CASE OpenNew
      BY <3>1 DEF OpenNew, Session!Next, Session!Begin
    <3>2. CASE OpenFailed \/ OpenAgain
      BY <3>2 DEF OpenFailed, OpenAgain, Session!vars
    <3> QED  BY <2>6, <3>1, <3>2, OpenCases
  <2> QED  BY <1>2, <2>1, <2>2, <2>3, <2>4, <2>5, <2>6, UserSteps
<1> QED  BY <1>1, <1>2, ClientInvariance, PTL DEF Spec, ImplementsSession, Session!Spec
=============================================================================
