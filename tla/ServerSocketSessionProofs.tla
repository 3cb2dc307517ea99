--------------------- MODULE ServerSocketSessionProofs ---------------------
(***************************************************************************)
(* What the clients of ServerSocket receive and which read buffers are     *)
(* taken; then that it implements SessionEvents: the callbacks keep their  *)
(* promise, for every size of the table and every set of clients.          *)
(*                                                                         *)
(* That argument follows the tasks of each connection from the polling     *)
(* thread through the queue to the callback (Pipe): they are of one client *)
(* at a time, begin with its CONNECTION, and number its data without a gap *)
(* from what the kernel has to what the application was given.             *)
(***************************************************************************)
EXTENDS ServerSocketProofs

-----------------------------------------------------------------------------
(* Writes.                                                                 *)

\* At most one thread holds m_write_mutex.
Lock == \A v, w \in Writers : writer[v].pc = "send" /\ writer[w].pc = "send" => v = w

\* Every piece a client has received is of a call that has held the mutex,
\* and while it holds the mutex the client receives nothing else.
PieceInv(p, j) ==
  LET w == got[p][j].by IN
  /\ got[p][j].call <= writer[w].calls
  /\ got[p][j].call = writer[w].calls => writer[w].pc # "lock"
  /\ got[p][j].call = writer[w].calls /\ writer[w].pc = "send" =>
       \A k \in j .. Len(got[p]) : got[p][k] = SentPiece(w)

PiecesInv == \A p \in Peers : \A j \in 1 .. Len(got[p]) : PieceInv(p, j)

WriteInv == Lock /\ PiecesInv /\ WritesNotMixed

\* Whatever is not Write leaves the writers and what was sent alone.
LEMMA NoWrite ==
  ASSUME Next, ~ \E w \in Writers : Write(w)
  PROVE  UNCHANGED <<got, writer>>
BY DEF Next, Connect, Shake, Send, Hangup, Poll, PollCheck, PollWait, PollRefuse, PollAccept,
       PollAssign, PollReserve, PollShake, PollSecured, PollShakeEnd, PollExhausted, PollRead,
       PollEnd, PollAgain, Worker, WorkerCheck, WorkerTake, WorkerConnect, WorkerData,
       WorkerDisconnect, WorkerRelease, WorkerStop, InitServer, Run, CloseNoWait,
       CloseOrWaitFor, Cleanup, CleanupJoin, CleanupClose, CleanupFree, CleanupReap,
       CleanupFinish, clientVars

\* A call begins, and has sent nothing yet.
LEMMA WriteBeginKeeps ==
  ASSUME TypeOK, WriteInv, NEW w \in Writers, NEW i \in Slots, WriteBegin(w, i)
  PROVE  WriteInv'
<1>1. /\ got' = got /\ writer'[w].pc = "lock" /\ writer'[w].calls = writer[w].calls + 1
      /\ \A v \in Writers : v # w => writer'[v] = writer[v]
      /\ writer[w].calls \in Nat
      /\ \A p \in Peers : got[p] \in Seq(Piece)
  BY SocketAssumption DEF TypeOK, WriterState, WriteBegin, clientVars
<1>2. ASSUME NEW p \in Peers, NEW j \in 1 .. Len(got[p])
      PROVE  PieceInv(p, j)'
  <2>0. got[p][j] \in Piece
    BY <1>1, ElementOfSeq
  <2>1. got[p][j].by \in Writers /\ got[p][j].call \in Nat
    BY <2>0, SocketAssumption DEF Piece
  <2>2. PieceInv(p, j)
    BY DEF WriteInv, PiecesInv
  <2>3. CASE got[p][j].by = w
    BY <1>1, <2>1, <2>2, <2>3 DEF PieceInv
  <2>4. CASE got[p][j].by # w
    BY <1>1, <2>1, <2>2, <2>4 DEF PieceInv, SentPiece
  <2>. QED
    BY <2>3, <2>4
<1>3. Lock'
  BY <1>1 DEF WriteInv, Lock
<1>. QED
  BY <1>1, <1>2, <1>3 DEF WriteInv, PiecesInv, WritesNotMixed

\* A call gets the mutex that nobody holds.
LEMMA WriteLockKeeps ==
  ASSUME TypeOK, WriteInv, NEW w \in Writers, WriteLock(w)
  PROVE  WriteInv'
<1>1. /\ got' = got /\ writer[w].pc = "lock"
      /\ writer'[w].pc = "send" /\ writer'[w].calls = writer[w].calls
      /\ \A v \in Writers : v # w => writer'[v] = writer[v]
      /\ \A v \in Writers : writer[v].pc # "send"
      /\ \A p \in Peers : got[p] \in Seq(Piece)
  BY DEF TypeOK, WriterState, WriteLock, Unlocked, clientVars
<1>2. ASSUME NEW p \in Peers, NEW j \in 1 .. Len(got[p])
      PROVE  PieceInv(p, j)'
  <2>0. got[p][j] \in Piece
    BY <1>1, ElementOfSeq
  <2>1. got[p][j].by \in Writers
    BY <2>0 DEF Piece
  <2>2. PieceInv(p, j)
    BY DEF WriteInv, PiecesInv
  <2>3. CASE got[p][j].by = w
    BY <1>1, <2>1, <2>2, <2>3 DEF PieceInv
  <2>4. CASE got[p][j].by # w
    BY <1>1, <2>1, <2>2, <2>4 DEF PieceInv
  <2>. QED
    BY <2>3, <2>4
<1>3. Lock'
  BY <1>1 DEF WriteInv, Lock
<1>. QED
  BY <1>1, <1>2, <1>3 DEF WriteInv, PiecesInv, WritesNotMixed

\* A call that holds the mutex sends, or ends.
LEMMA WriteSendKeeps ==
  ASSUME TypeOK, WriterInv, WriteInv, NEW w \in Writers, WriteSend(w)
  PROVE  WriteInv'
<1>. DEFINE piece == SentPiece(w)
<1>1. /\ writer[w].pc = "send" /\ writer'[w].pc \in {"send", "idle"}
      /\ writer'[w].calls = writer[w].calls
      /\ writer'[w].pc = "send" => writer'[w].dest = writer[w].dest
      /\ \A v \in Writers : v # w => writer'[v] = writer[v] /\ writer[v].pc # "send"
  <2>1. writer \in [Writers -> WriterState] /\ Lock
    BY DEF TypeOK, WriteInv
  <2>2. /\ \/ writer' = [writer EXCEPT ![w] = Over(w)]
           \/ writer' = [writer EXCEPT ![w] = OneLess(w)]
        /\ writer[w].pc = "send" /\ OneLess(w).pc = "send"
        /\ OneLess(w).dest = writer[w].dest /\ OneLess(w).calls = writer[w].calls
    BY SendFacts
  <2>3. Over(w).pc = "idle" /\ Over(w).calls = writer[w].calls
    BY DEF Over
  <2>. QED
    BY <2>1, <2>2, <2>3 DEF Lock
<1>2. /\ piece \in Piece /\ piece.by = w /\ piece.call = writer[w].calls
      /\ got' = got \/ \E p \in Peers : got' = [got EXCEPT ![p] = Append(@, piece)]
  BY SendFacts DEF SentPiece
<1>3. writer'[w].pc = "send" => SentPiece(w)' = piece
  BY <1>1 DEF SentPiece
<1>. HIDE DEF piece
<1>4. ASSUME NEW p \in Peers
      PROVE  /\ got[p] \in Seq(Piece) /\ Len(got[p]) \in Nat /\ Len(got'[p]) \in Nat
             /\ Len(got'[p]) \in {Len(got[p]), Len(got[p]) + 1}
             /\ \A j \in 1 .. Len(got[p]) : got'[p][j] = got[p][j]
             /\ Len(got'[p]) = Len(got[p]) + 1 => got'[p][Len(got[p]) + 1] = piece
  <2>1. got[p] \in Seq(Piece) /\ got'[p] \in {got[p], Append(got[p], piece)}
    BY <1>2 DEF TypeOK
  <2>. QED
    BY <1>2, <2>1, AppendProperties
<1>5. ASSUME NEW p \in Peers, NEW j \in 1 .. Len(got'[p])
      PROVE  PieceInv(p, j)'
  <2>. DEFINE n == Len(got[p])
  <2>0. /\ n \in Nat /\ Len(got'[p]) \in {n, n + 1} /\ got[p] \in Seq(Piece)
        /\ \A k \in 1 .. n : got'[p][k] = got[p][k]
        /\ Len(got'[p]) = n + 1 => got'[p][n + 1] = piece
    BY <1>4
  <2>1. CASE j = n + 1
    <3>1. Len(got'[p]) = n + 1 /\ got'[p][j] = piece /\ j \in Nat
      BY <2>0, <2>1
    <3>2. \A k \in j .. Len(got'[p]) : k = j
      BY <2>0, <2>1, <3>1
    <3>3. writer[w].calls \in Nat
      BY SocketAssumption DEF TypeOK, WriterState
    <3>. QED
      BY <1>1, <1>2, <1>3, <3>1, <3>2, <3>3 DEF PieceInv
  <2>2. CASE j # n + 1
    <3>1. j \in 1 .. n /\ got'[p][j] = got[p][j] /\ PieceInv(p, j)
      BY <2>0, <2>2 DEF WriteInv, PiecesInv
    <3>2. got[p][j] \in Piece
      BY <2>0, <3>1, ElementOfSeq
    <3>3. CASE got[p][j].by # w
      BY <1>1, <3>1, <3>2, <3>3 DEF PieceInv, Piece
    <3>4. CASE got[p][j].by = w
      <4>1. ASSUME got[p][j].call = writer[w].calls, writer'[w].pc = "send"
            PROVE  \A k \in j .. Len(got'[p]) : got'[p][k] = piece
        <5>1. \A k \in j .. n : got[p][k] = piece
          BY <1>1, <3>1, <3>4, <4>1 DEF PieceInv, piece
        <5>2. ASSUME NEW k \in j .. Len(got'[p])
              PROVE  got'[p][k] = piece
          <6>1. k \in j .. n \/ (k = n + 1 /\ Len(got'[p]) = n + 1)
            BY <2>0, <3>1
          <6>2. \A l \in j .. n : l \in 1 .. n
            BY <2>0, <3>1
          <6>. QED
            BY Zenon, <2>0, <5>1, <6>1, <6>2
        <5>. QED
          BY <5>2
      <4>. QED
        BY <1>1, <1>3, <3>1, <3>4, <4>1 DEF PieceInv
    <3>. QED
      BY <3>3, <3>4
  <2>. QED
    BY <2>1, <2>2
<1>6. WritesNotMixed'
  <2>. SUFFICES ASSUME NEW p \in Peers, NEW j \in 1 .. Len(got'[p]),
                       NEW k \in 1 .. Len(got'[p]), NEW l \in 1 .. Len(got'[p]),
                       j < k, k < l, got'[p][j].by = got'[p][l].by,
                       got'[p][j].call = got'[p][l].call
                PROVE  got'[p][k] = got'[p][j]
    BY DEF WritesNotMixed
  <2>. DEFINE n == Len(got[p])
  <2>0. /\ n \in Nat /\ Len(got'[p]) \in {n, n + 1}
        /\ \A m \in 1 .. n : got'[p][m] = got[p][m]
        /\ Len(got'[p]) = n + 1 => got'[p][n + 1] = piece
    BY <1>4
  <2>1. j \in 1 .. n /\ k \in 1 .. n /\ got'[p][j] = got[p][j] /\ got'[p][k] = got[p][k]
    BY <2>0
  <2>2. CASE l \in 1 .. n
    BY <2>0, <2>1, <2>2 DEF WriteInv, WritesNotMixed
  <2>3. CASE l = n + 1
    <3>1. got[p][j].by = w /\ got[p][j].call = writer[w].calls
      BY <1>2, <2>0, <2>1, <2>3
    <3>2. PieceInv(p, j)
      BY <2>1 DEF WriteInv, PiecesInv
    <3>3. \A m \in j .. n : got[p][m] = piece
      BY <1>1, <3>1, <3>2 DEF PieceInv, piece
    <3>. QED
      BY <2>0, <2>1, <3>3
  <2>. QED
    BY <2>0, <2>2, <2>3
<1>7. Lock'
  BY <1>1 DEF WriteInv, Lock
<1>. QED
  BY <1>5, <1>6, <1>7 DEF WriteInv, PiecesInv

\* The parts of one Write stay together on every connection, whoever else
\* writes and whatever happens to the descriptor meanwhile.
THEOREM WritesStayWhole == Spec => []WritesNotMixed
<1>1. Init => WriteInv
  <2>. SUFFICES ASSUME Init PROVE WriteInv
    OBVIOUS
  <2>1. \A p \in Peers : Len(got[p]) = 0
    BY DEF Init
  <2>2. \A w \in Writers : writer[w].pc = "idle"
    BY DEF Init
  <2>. QED
    BY <2>1, <2>2 DEF WriteInv, Lock, PiecesInv, WritesNotMixed
<1>2. IInv /\ WriteInv /\ [Next]_vars => WriteInv'
  <2>. SUFFICES ASSUME IInv, WriteInv, [Next]_vars
                PROVE  WriteInv'
    OBVIOUS
  <2>1. CASE UNCHANGED <<got, writer>>
    BY <2>1 DEF WriteInv, Lock, PiecesInv, PieceInv, WritesNotMixed, SentPiece
  <2>2. CASE \E w \in Writers : Write(w)
    BY <2>2, WriteBeginKeeps, WriteLockKeeps, WriteSendKeeps DEF IInv, Write
  <2>3. UNCHANGED vars => UNCHANGED <<got, writer>>
    BY DEF vars, clientVars
  <2>. QED
    BY <2>1, <2>2, <2>3, NoWrite
<1>3. WriteInv => WritesNotMixed
  BY DEF WriteInv
<1>. QED
  BY <1>1, <1>2, <1>3, Invariance, PTL DEF Spec

-----------------------------------------------------------------------------
(* Clients.                                                                *)

\* A client is in one place: new, once in the listen queue, or on one
\* descriptor.
PeerInv ==
  /\ \A k, l \in 1 .. Len(backlog) : backlog[k] = backlog[l] => k = l
  /\ \A f \in Fds : owner[f] # Nobody => owner[f] \notin Range(backlog)
  /\ \A f, g \in Fds : owner[f] = owner[g] /\ owner[f] # Nobody => f = g
  /\ \A p \in Peers : phase[p] = "new" =>
       p \notin Range(backlog) /\ \A f \in Fds : owner[f] # p

\* Who leaves the listen queue and who is left there.
LEMMA ArrivedFacts ==
  ASSUME IInv, PeerInv, Arrived
  PROVE  /\ Head(backlog) \in Peers /\ Head(backlog) \in Range(backlog)
         /\ Head(backlog) \notin Range(backlog')
         /\ Range(backlog') \subseteq Range(backlog)
         /\ \A k, l \in 1 .. Len(backlog') : backlog'[k] = backlog'[l] => k = l
         /\ \A f \in Fds : owner[f] # Head(backlog)
         /\ phase[Head(backlog)] # "new"
         /\ FreeFd \in Fds /\ owner[FreeFd] = Nobody
<1>1. backlog \in Seq(Peers) /\ backlog # << >> /\ backlog' = Tail(backlog)
  BY DEF IInv, TypeOK, Arrived
<1>2. /\ Len(backlog) \in Nat \ {0} /\ Head(backlog) = backlog[1]
      /\ Range(backlog) = Range(backlog') \cup {Head(backlog)}
  BY <1>1, TailRange
<1>3. /\ backlog' \in Seq(Peers) /\ Len(backlog') = Len(backlog) - 1
      /\ \A k \in 1 .. Len(backlog') : backlog'[k] = backlog[k + 1]
      /\ Head(backlog) \in Peers
  BY <1>1, HeadTailProperties
<1>4. Head(backlog) \notin Range(backlog')
  <2>. SUFFICES ASSUME Head(backlog) \in Range(backlog') PROVE FALSE
    OBVIOUS
  <2>1. Range(backlog') = {backlog'[k] : k \in 1 .. Len(backlog')}
    BY <1>3, RangeEquality
  <2>2. PICK k \in 1 .. Len(backlog') : Head(backlog) = backlog'[k]
    BY <2>1
  <2>3. backlog[1] = backlog[k + 1] /\ k + 1 \in 1 .. Len(backlog) /\ 1 \in 1 .. Len(backlog)
    BY <1>2, <1>3, <2>2
  <2>4. 1 = k + 1
    BY <2>3 DEF PeerInv
  <2>. QED
    BY <2>4
<1>5. ASSUME NEW k \in 1 .. Len(backlog'), NEW l \in 1 .. Len(backlog'),
             backlog'[k] = backlog'[l]
      PROVE  k = l
  <2>1. /\ backlog[k + 1] = backlog[l + 1]
        /\ k + 1 \in 1 .. Len(backlog) /\ l + 1 \in 1 .. Len(backlog)
    BY <1>2, <1>3, <1>5
  <2>2. k + 1 = l + 1
    BY <2>1 DEF PeerInv
  <2>. QED
    BY <2>2
<1>6. Head(backlog) \in Range(backlog) /\ Range(backlog') \subseteq Range(backlog)
  BY <1>2
<1>7. (\A f \in Fds : owner[f] # Head(backlog)) /\ phase[Head(backlog)] # "new"
  BY <1>3, <1>6, Indices DEF PeerInv
<1>8. FreeFd \in Fds /\ owner[FreeFd] = Nobody
  BY FreeFdExists DEF Arrived, IInv
<1>. QED
  BY <1>3, <1>4, <1>5, <1>6, <1>7, <1>8

\* Only three steps take a client from the listen queue.
LEMMA OnlyArrivals ==
  ASSUME IInv, PeerInv, Next, Arrived
  PROVE  PollRefuse \/ PollAccept \/ PollReserve
<1>1. /\ Head(backlog) \in Range(backlog) /\ Head(backlog) \notin Range(backlog')
      /\ poll.pc = "batch" /\ backlog \in Seq(Peers)
  BY ArrivedFacts DEF Arrived, IInv, TypeOK
<1>2. backlog' # backlog
  BY <1>1
<1>3. ASSUME NEW q \in Peers, Connect(q)
      PROVE  FALSE
  <2>1. Range(backlog') = Range(backlog) \cup {q}
    BY <1>1, <1>3, AppendRange DEF Connect
  <2>. QED
    BY <1>1, <2>1
<1>4. ~ CleanupFinish
  BY <1>1 DEF CleanupFinish, IInv, CleanupInv
<1>. QED
  BY <1>1, <1>2, <1>3, <1>4 DEF Next, Shake, Send, Hangup, Poll, PollCheck, PollWait,
     PollAssign, PollShake, PollSecured, PollShakeEnd, PollExhausted, PollRead, PollEnd,
     PollAgain, Worker, WorkerCheck, WorkerTake, WorkerConnect, WorkerData, WorkerDisconnect,
     WorkerRelease, WorkerStop, InitServer, Run, CloseNoWait, CloseOrWaitFor, Cleanup,
     CleanupJoin, CleanupClose, CleanupFree, CleanupReap, Write, WriteBegin, WriteLock,
     WriteSend, clientVars, kernelVars

\* Most steps move no client, they only cut off some.
LEMMA NobodyMoves ==
  ASSUME IInv, Next, ~ \E p \in Peers : Connect(p), ~ Arrived, ~ CleanupFinish
  PROVE  /\ backlog' = backlog
         /\ \A f \in Fds : owner'[f] \in {owner[f], Nobody}
         /\ \A p \in Peers : phase'[p] = "new" => phase[p] = "new"
<1>. USE DEF clientVars, kernelVars
<1>0. /\ owner \in [Fds -> Peers \cup {Nobody}]
      /\ phase \in [Peers -> {"new", "open", "closed", "reset", "shut"}]
  BY DEF IInv, TypeOK
<1>1. ASSUME NEW f, CloseFd(f)
      PROVE  /\ \A g \in Fds : owner'[g] \in {owner[g], Nobody}
             /\ \A p \in Peers : phase'[p] = "new" => phase[p] = "new"
  BY <1>0, <1>1 DEF CloseFd
<1>2. CASE \/ \E i \in Slots : PollShakeEnd(i) \/ PollExhausted(i) \/ PollEnd(i)
           \/ CleanupClose
  <2>1. backlog' = backlog /\ \E f : CloseFd(f)
    BY <1>2 DEF PollShakeEnd, PollExhausted, PollEnd, CleanupClose, Drop
  <2>. QED
    BY <1>1, <2>1
<1>3. CASE \E p \in Peers : Hangup(p)
  BY <1>0, <1>3 DEF Hangup
<1>4. CASE \/ \E p \in Peers : Shake(p) \/ Send(p)
           \/ PollCheck \/ PollWait \/ PollAssign
           \/ \E i \in Slots : PollShake(i) \/ PollSecured(i) \/ PollRead(i) \/ PollAgain(i)
           \/ \E i \in Slots : Worker(i)
           \/ InitServer \/ Run \/ CloseNoWait \/ CloseOrWaitFor
           \/ CleanupJoin \/ CleanupFree \/ CleanupReap
           \/ \E w \in Writers : Write(w)
  <2>1. UNCHANGED <<backlog, owner, phase>>
    BY <1>4 DEF Shake, Send, PollCheck, PollWait, PollAssign, PollShake, PollSecured, PollRead,
       PollAgain, Worker, WorkerCheck, WorkerTake, WorkerConnect, WorkerData, WorkerDisconnect,
       WorkerRelease, WorkerStop, InitServer, Run, CloseNoWait, CloseOrWaitFor, CleanupJoin,
       CleanupFree, CleanupReap, Write, WriteBegin, WriteLock, WriteSend
  <2>. QED
    BY <2>1
<1>. QED
  BY <1>2, <1>3, <1>4 DEF Next, Poll, Cleanup, PollRefuse, PollAccept, PollReserve

\* A client never is in two places.
LEMMA PeerStep ==
  ASSUME IInv, PeerInv, [Next]_vars
  PROVE  PeerInv'
<1>0. /\ owner \in [Fds -> Peers \cup {Nobody}] /\ backlog \in Seq(Peers)
      /\ phase \in [Peers -> {"new", "open", "closed", "reset", "shut"}]
  BY DEF IInv, TypeOK
<1>1. CASE UNCHANGED vars
  BY <1>1 DEF PeerInv, vars, clientVars, kernelVars
<1>2. ASSUME NEW p \in Peers, Connect(p)
      PROVE  PeerInv'
  <2>1. /\ phase[p] = "new" /\ phase' = [phase EXCEPT ![p] = "open"]
        /\ backlog' = Append(backlog, p) /\ owner' = owner
    BY <1>2 DEF Connect
  <2>2. Range(backlog') = Range(backlog) \cup {p}
    BY <1>0, <2>1, AppendRange
  <2>3. /\ Len(backlog) \in Nat /\ Len(backlog') = Len(backlog) + 1
        /\ \A k \in 1 .. Len(backlog) : backlog'[k] = backlog[k]
        /\ backlog'[Len(backlog) + 1] = p
    BY <1>0, <2>1, AppendProperties
  <2>4. Range(backlog) = {backlog[k] : k \in 1 .. Len(backlog)}
    BY <1>0, RangeEquality
  <2>5. p \notin Range(backlog) /\ \A f \in Fds : owner[f] # p
    BY <2>1 DEF PeerInv
  <2>6. \A k \in 1 .. Len(backlog) : backlog[k] # p
    BY <2>4, <2>5
  <2>7. \A k, l \in 1 .. Len(backlog') : backlog'[k] = backlog'[l] => k = l
    BY <2>3, <2>6 DEF PeerInv
  <2>. QED
    BY <1>0, <2>1, <2>2, <2>5, <2>7 DEF PeerInv
<1>3. CASE Arrived /\ Next
  <2>. DEFINE p == Head(backlog)
  <2>1. /\ p \in Peers /\ p \in Range(backlog) /\ p \notin Range(backlog')
        /\ Range(backlog') \subseteq Range(backlog)
        /\ \A k, l \in 1 .. Len(backlog') : backlog'[k] = backlog'[l] => k = l
        /\ \A f \in Fds : owner[f] # p
        /\ phase[p] # "new"
        /\ FreeFd \in Fds /\ owner[FreeFd] = Nobody
    BY <1>3, ArrivedFacts
  <2>2. \/ owner' = owner /\ phase' = [phase EXCEPT ![p] = "shut"]
        \/ owner' = [owner EXCEPT ![FreeFd] = p] /\ phase' = phase
    BY <1>3, OnlyArrivals DEF PollRefuse, PollAccept, PollReserve, clientVars
  <2>. HIDE DEF p
  <2>. QED
    BY <1>0, <2>1, <2>2, Indices DEF PeerInv
<1>4. CASE CleanupFinish
  <2>1. /\ backlog' = << >> /\ Len(backlog') = 0 /\ Range(backlog') = {}
        /\ \A f \in Fds : owner'[f] \in {owner[f], Nobody}
        /\ \A p \in Peers : phase'[p] = "new" => phase[p] = "new"
    <3>1. backlog' = << >> /\ backlog' \in Seq(Peers) /\ Len(backlog') = 0
      BY <1>4, EmptySeq DEF CleanupFinish
    <3>2. DOMAIN << >> = {}
      OBVIOUS
    <3>3. Range(backlog') = {}
      BY <3>1, <3>2 DEF Range
    <3>. QED
      BY <1>0, <1>4, <3>1, <3>3 DEF CleanupFinish
  <2>. QED
    BY <1>0, <2>1, Indices DEF PeerInv
<1>5. CASE Next /\ ~ (\E p \in Peers : Connect(p)) /\ ~ Arrived /\ ~ CleanupFinish
  <2>1. /\ backlog' = backlog
        /\ \A f \in Fds : owner'[f] \in {owner[f], Nobody}
        /\ \A p \in Peers : phase'[p] = "new" => phase[p] = "new"
    BY <1>5, NobodyMoves
  <2>. QED
    BY <1>0, <2>1, Indices DEF PeerInv
<1>. QED
  BY <1>1, <1>2, <1>3, <1>4, <1>5

-----------------------------------------------------------------------------
(* Read buffers.                                                           *)

\* There is something to read from p, or its connection has ended.
HasNews(p) == fetched[p] < sent[p] \/ phase[p] \in {"closed", "reset"}

\* Without TLS, and if the kernel reports nothing without a reason, there is
\* still something to read from every client that the batch names.
NewsInv ==
  /\ ~ secure => \A p \in Peers : shake[p] = "none"
  /\ ~ secure /\ ~ SpuriousReads /\ poll.pc \in {"batch", "assign"} =>
       \A i \in poll.batch \ {Listener} : HasNews(owner[fd[i]])

\* A step that keeps the clients of the batch where they are, and what there
\* is to read from them.
LEMMA NewsKept ==
  ASSUME NewsInv,
         secure' = secure, ~ secure => shake' = shake,
         ~ secure /\ poll'.pc \in {"batch", "assign"} =>
           /\ poll.pc \in {"batch", "assign"}
           /\ \A i \in poll'.batch \ {Listener} :
                /\ i \in poll.batch
                /\ fd'[i] = fd[i] /\ owner'[fd[i]] = owner[fd[i]]
                /\ HasNews(owner[fd[i]]) => HasNews(owner[fd[i]])'
  PROVE  NewsInv'
<1>. SUFFICES ASSUME ~ secure, ~ SpuriousReads, poll'.pc \in {"batch", "assign"},
                     NEW i \in poll'.batch \ {Listener}
              PROVE  HasNews(owner[fd[i]])'
  BY DEF NewsInv
<1>1. HasNews(owner[fd[i]]) /\ fd'[i] = fd[i] /\ owner'[fd[i]] = owner[fd[i]]
  BY DEF NewsInv
<1>. QED
  BY <1>1 DEF HasNews

\* What the batch names has a descriptor and a client of its own.
LEMMA BatchClients ==
  ASSUME IInv, PeerInv, poll.pc \in {"batch", "assign"}
  PROVE  /\ poll.batch \ {Listener} \subseteq Slots
         /\ \A i \in poll.batch \ {Listener} :
              fd[i] \in Fds /\ owner[fd[i]] \in Peers /\ Live(i)
         /\ \A i, j \in poll.batch \ {Listener} :
              i # j => fd[i] # fd[j] /\ owner[fd[i]] # owner[fd[j]]
<1>1. poll.batch \ {Listener} \subseteq Slots
  BY BatchIsOfSlots
<1>2. ASSUME NEW i \in poll.batch \ {Listener}
      PROVE  fd[i] \in Fds /\ owner[fd[i]] \in Peers /\ Live(i)
  <2>1. Live(i) /\ i \in Slots
    BY <1>1 DEF IInv, PollInv
  <2>2. fd[i] \in Fds /\ watch[fd[i]] # None
    BY <2>1, Indices DEF IInv, TypeOK, Live
  <2>. QED
    BY <2>1, <2>2 DEF IInv, TypeOK, FdInv
<1>3. ASSUME NEW i \in poll.batch \ {Listener}, NEW j \in poll.batch \ {Listener}, i # j
      PROVE  fd[i] # fd[j] /\ owner[fd[i]] # owner[fd[j]]
  <2>1. fd[i] # fd[j]
    BY <1>2, <1>3 DEF Live
  <2>2. \A f, g \in Fds : owner[f] = owner[g] /\ owner[f] # Nobody => f = g
    BY DEF PeerInv
  <2>3. fd[i] \in Fds /\ fd[j] \in Fds /\ owner[fd[i]] # Nobody
    BY <1>2, Indices
  <2>. QED
    BY Zenon, <2>1, <2>2, <2>3
<1>. QED
  BY <1>1, <1>2, <1>3

\* Steps of the clients and of the polling thread.
LEMMA NewsPollStep ==
  ASSUME IInv, PeerInv, NewsInv,
         (\E p \in Peers : Connect(p) \/ Shake(p) \/ Send(p) \/ Hangup(p)) \/ Poll
  PROVE  NewsInv'
<1>. USE DEF tlsVars, clientVars, kernelVars, serverVars, tableVars, userVars
<1>0. /\ owner \in [Fds -> Peers \cup {Nobody}] /\ poll \in PollState
      /\ fd \in [Slots -> Fds \cup {None}]
      /\ phase \in [Peers -> {"new", "open", "closed", "reset", "shut"}]
      /\ sent \in [Peers -> 0 .. MaxSend] /\ fetched \in [Peers -> 0 .. MaxSend]
      /\ MaxSend \in Nat
  BY SocketAssumption DEF IInv, TypeOK
<1>1. poll.pc \in {"batch", "assign"} =>
        /\ poll.batch \ {Listener} \subseteq Slots
        /\ \A i \in poll.batch \ {Listener} :
             fd[i] \in Fds /\ owner[fd[i]] \in Peers /\ Live(i)
        /\ \A i, j \in poll.batch \ {Listener} :
             i # j => fd[i] # fd[j] /\ owner[fd[i]] # owner[fd[j]]
  BY BatchClients
<1>2. CASE \E p \in Peers : Connect(p) \/ Shake(p) \/ Send(p) \/ Hangup(p)
  <2>1. UNCHANGED <<secure, poll, fd, owner>> /\ (~ secure => shake' = shake)
    BY <1>2 DEF Connect, Shake, Send, Hangup
  <2>2. \A p \in Peers : HasNews(p) => HasNews(p)'
    <3>1. ASSUME NEW q \in Peers, Send(q)
          PROVE  \A p \in Peers : HasNews(p) => HasNews(p)'
      <4>1. PICK n \in 1 .. MaxSend - sent[q] : sent' = [sent EXCEPT ![q] = @ + n]
        BY <3>1 DEF Send
      <4>2. UNCHANGED <<fetched, phase>>
        BY <3>1 DEF Send
      <4>. QED
        BY <1>0, <4>1, <4>2 DEF HasNews
    <3>2. ASSUME NEW q \in Peers, Connect(q) \/ Shake(q) \/ Hangup(q)
          PROVE  \A p \in Peers : HasNews(p) => HasNews(p)'
      BY <1>0, <3>2 DEF HasNews, Connect, Shake, Hangup
    <3>. QED
      BY <1>2, <3>1, <3>2
  <2>. QED
    BY <1>1, <2>1, <2>2, NewsKept
<1>3. CASE PollCheck
  <2>1. UNCHANGED <<secure, shake>> /\ poll'.pc \in {"wait", "exited"}
    BY <1>0, <1>3 DEF PollCheck, PollState
  <2>. QED
    BY <2>1, NewsKept
<1>4. CASE PollWait
  <2>1. /\ UNCHANGED <<secure, shake, fetched, sent, phase, owner, fd>>
        /\ poll'.pc \in {"check", "batch"} /\ (poll'.pc = "batch" => poll'.batch \subseteq Ready)
    BY <1>0, <1>4 DEF PollWait, PollState
  <2>. SUFFICES ASSUME ~ secure, ~ SpuriousReads, poll'.pc \in {"batch", "assign"},
                       NEW i \in poll'.batch \ {Listener}
                PROVE  HasNews(owner[fd[i]])
    BY <2>1 DEF NewsInv, HasNews
  <2>2. PICK f \in Fds : watch[f] # None /\ Readable(owner[f]) /\ i = watch[f]
    BY <2>1 DEF Ready
  <2>3. fd[i] = f /\ owner[f] \in Peers
    <3>1. owner[f] # Nobody
      BY <2>2 DEF IInv, FdInv
    <3>2. poll.pc # "assign"
      BY <1>4 DEF PollWait
    <3>3. fd[watch[f]] = f
      BY Zenon, <3>1, <3>2 DEF IInv, DescriptorsTracked
    <3>. QED
      BY <1>0, <2>2, <3>1, <3>3
  <2>. QED
    BY <2>2, <2>3 DEF NewsInv, Readable, HasNews
<1>5. CASE PollRefuse
  <2>1. /\ Head(backlog) \in Peers /\ \A f \in Fds : owner[f] # Head(backlog)
        /\ poll.pc = "batch"
    BY <1>5, ArrivedFacts DEF PollRefuse, Arrived
  <2>2. poll'.batch \subseteq poll.batch
    BY <1>5, HandledType DEF PollRefuse, IInv
  <2>3. \A p \in Peers : p # Head(backlog) /\ HasNews(p) => HasNews(p)'
    BY <1>0, <1>5 DEF PollRefuse, HasNews
  <2>. QED
    BY <1>1, <1>5, <2>1, <2>2, <2>3, NewsKept DEF PollRefuse
<1>6. CASE PollAccept
  <2>1. owner[FreeFd] = Nobody /\ poll.pc = "batch" /\ poll'.batch = poll.batch
    BY <1>0, <1>6, ArrivedFacts DEF PollAccept, Arrived, PollState
  <2>2. /\ UNCHANGED <<secure, shake, fetched, sent, phase, fd>>
        /\ owner' = [owner EXCEPT ![FreeFd] = Head(backlog)]
    BY <1>6 DEF PollAccept
  <2>3. \A f \in Fds : owner[f] \in Peers => owner'[f] = owner[f]
    BY <1>0, <2>1, <2>2, Indices
  <2>4. \A p \in Peers : HasNews(p) => HasNews(p)'
    BY <2>2 DEF HasNews
  <2>. QED
    BY <1>1, <2>1, <2>2, <2>3, <2>4, NewsKept
<1>7. CASE PollAssign
  <2>1. /\ UNCHANGED <<secure, shake, fetched, sent, phase, owner>>
        /\ poll.pc = "assign" /\ poll'.batch \subseteq poll.batch
        /\ fd[poll.slot] = None /\ fd' = [fd EXCEPT ![poll.slot] = poll.file]
    BY <1>7 DEF PollAssign, Assign, IInv, PollInv
  <2>2. \A i \in poll.batch \ {Listener} : fd'[i] = fd[i]
    BY <1>0, <1>1, <2>1, Indices
  <2>3. \A p \in Peers : HasNews(p) => HasNews(p)'
    BY <2>1 DEF HasNews
  <2>. QED
    BY <1>1, <2>1, <2>2, <2>3, NewsKept
<1>8. CASE PollReserve \/ \E i \in Slots : PollShake(i) \/ PollSecured(i) \/ PollShakeEnd(i)
  <2>1. secure /\ secure' = secure
    BY <1>8 DEF PollReserve, PollShake, PollSecured, PollShakeEnd, ShakeEvent, IInv, PollInv
  <2>. QED
    BY <2>1, NewsKept
<1>9. ASSUME NEW i \in Slots, PollExhausted(i) \/ PollEnd(i) \/ PollRead(i) \/ PollAgain(i)
      PROVE  NewsInv'
  <2>1. /\ poll.pc = "batch" /\ i \in poll.batch /\ i # Listener
        /\ poll'.batch = poll.batch \ {i}
    BY <1>9, HandledType, Indices
       DEF PollExhausted, PollEnd, PollRead, PollAgain, ReadEvent, IInv
  <2>2. UNCHANGED <<secure, shake, sent, fd>>
    BY <1>9 DEF PollExhausted, PollEnd, PollRead, PollAgain
  <2>. DEFINE f == fd[i]
  <2>3. f \in Fds /\ owner[f] \in Peers
    BY <1>1, <2>1
  <2>4. /\ \A g \in Fds : g # f => owner'[g] = owner[g]
        /\ \A p \in Peers : p # owner[f] => phase'[p] = phase[p] /\ fetched'[p] = fetched[p]
    <3>1. CASE PollExhausted(i) \/ PollEnd(i)
      <4>1. CloseFd(f) /\ fetched' = fetched
        BY <3>1 DEF PollExhausted, PollEnd, Drop
      <4>. QED
        BY <1>0, <2>3, <4>1 DEF CloseFd
    <3>2. CASE PollRead(i)
      BY <1>0, <2>3, <3>2 DEF PollRead
    <3>3. CASE PollAgain(i)
      BY <3>3 DEF PollAgain
    <3>. QED
      BY <1>9, <3>1, <3>2, <3>3
  <2>. HIDE DEF f
  <2>5. ASSUME NEW j \in poll'.batch \ {Listener}
        PROVE  /\ j \in poll.batch /\ fd'[j] = fd[j] /\ owner'[fd[j]] = owner[fd[j]]
               /\ HasNews(owner[fd[j]]) => HasNews(owner[fd[j]])'
    <3>1. /\ j \in poll.batch /\ fd[j] # f /\ owner[fd[j]] # owner[f]
          /\ fd[j] \in Fds /\ owner[fd[j]] \in Peers
      BY <1>1, <2>1 DEF f
    <3>2. owner'[fd[j]] = owner[fd[j]]
      BY <2>4, <3>1
    <3>3. phase'[owner[fd[j]]] = phase[owner[fd[j]]] /\ fetched'[owner[fd[j]]] = fetched[owner[fd[j]]]
      BY <2>4, <3>1
    <3>. QED
      BY <2>2, <3>1, <3>2, <3>3 DEF HasNews
  <2>. QED
    BY <2>1, <2>2, <2>5, NewsKept
<1>. QED
  BY <1>2, <1>3, <1>4, <1>5, <1>6, <1>7, <1>8, <1>9 DEF Poll

\* Steps of everybody else.
LEMMA NewsOtherStep ==
  ASSUME IInv, PeerInv, NewsInv,
         \/ \E i \in Slots : Worker(i)
         \/ InitServer \/ Run \/ CloseNoWait \/ CloseOrWaitFor \/ Cleanup
         \/ \E w \in Writers : Write(w)
         \/ UNCHANGED vars
  PROVE  NewsInv'
<1>. USE DEF tlsVars, clientVars, kernelVars, serverVars, tableVars, userVars
<1>0. poll \in PollState /\ fd \in [Slots -> Fds \cup {None}]
  BY DEF IInv, TypeOK
<1>1. poll.pc \in {"batch", "assign"} =>
        /\ poll.batch \ {Listener} \subseteq Slots
        /\ \A i \in poll.batch \ {Listener} :
             fd[i] \in Fds /\ owner[fd[i]] \in Peers /\ Live(i)
  BY BatchClients
<1>2. ASSUME NEW i \in Slots, Worker(i)
      PROVE  NewsInv'
  <2>1. UNCHANGED <<secure, shake, poll, fetched, sent, phase, owner>>
    BY <1>2 DEF Worker, WorkerCheck, WorkerTake, WorkerConnect, WorkerData, WorkerDisconnect,
                WorkerRelease, WorkerStop
  <2>2. CASE WorkerRelease(i)
    <3>1. ~ Live(i) /\ \A j \in Slots : j # i => fd'[j] = fd[j]
      BY <1>0, <2>2 DEF WorkerRelease, IInv, EndInv, Ending
    <3>2. \A p \in Peers : HasNews(p) => HasNews(p)'
      BY <2>1 DEF HasNews
    <3>. QED
      BY <1>1, <2>1, <3>1, <3>2, NewsKept
  <2>3. CASE fd' = fd
    <3>1. \A p \in Peers : HasNews(p) => HasNews(p)'
      BY <2>1 DEF HasNews
    <3>. QED
      BY <1>1, <2>1, <2>3, <3>1, NewsKept
  <2>. QED
    BY <1>2, <2>2, <2>3 DEF Worker, WorkerCheck, WorkerTake, WorkerConnect, WorkerData,
       WorkerDisconnect, WorkerStop
<1>3. CASE Run \/ Cleanup
  <2>1. UNCHANGED <<secure, shake>> /\ poll'.pc \in {"check", "off"}
    BY <1>0, <1>3 DEF Run, Cleanup, CleanupJoin, CleanupClose, CleanupFree, CleanupReap,
       CleanupFinish, PollState, IInv, CleanupInv
  <2>. QED
    BY <2>1, NewsKept
<1>4. CASE \/ InitServer \/ CloseNoWait \/ CloseOrWaitFor
           \/ \E w \in Writers : Write(w)
           \/ UNCHANGED vars
  <2>1. UNCHANGED <<secure, shake, poll, fetched, sent, phase, owner, fd>>
    BY <1>4 DEF InitServer, CloseNoWait, CloseOrWaitFor, Write, WriteBegin, WriteLock,
       WriteSend, vars
  <2>2. \A p \in Peers : HasNews(p) => HasNews(p)'
    BY <2>1 DEF HasNews
  <2>. QED
    BY <1>1, <2>1, <2>2, NewsKept
<1>. QED
  BY <1>2, <1>3, <1>4

\* No buffer is lost with TLS, nor if the kernel reports nothing without a
\* reason.
ExactInv == secure \/ ~ SpuriousReads => BuffersAccounted

\* Every step takes a buffer exactly for what it queues, and frees it exactly
\* for what it has delivered.
LEMMA ExactStep ==
  ASSUME IInv, NewsInv, ExactInv, [Next]_vars
  PROVE  ExactInv'
<1>. USE DEF tlsVars, clientVars, kernelVars, serverVars, tableVars, userVars
<1>0. /\ worker \in [Slots -> WorkerState] /\ queue \in [Slots -> Seq(Task)]
      /\ owner \in [Fds -> Peers \cup {Nobody}] /\ taken \in [Peers -> 0 .. MaxSend]
      /\ sent \in [Peers -> 0 .. MaxSend] /\ MaxSend \in Nat
      /\ TypeOK /\ BufInv /\ IsFiniteSet(Holding)
      /\ Cardinality(Holding) \in Nat /\ used \in Nat
  BY FS_CardinalityType, SocketAssumption DEF IInv, BufInv, TypeOK
<1>1. secure' = secure
  BY DEF Next, vars, Connect, Shake, Send, Hangup, Poll, PollCheck, PollWait, PollRefuse,
         PollAccept, PollAssign, PollReserve, PollShake, PollSecured, PollShakeEnd,
         PollExhausted, PollRead, PollEnd, PollAgain, Worker, WorkerCheck, WorkerTake,
         WorkerConnect, WorkerData, WorkerDisconnect, WorkerRelease, WorkerStop, InitServer,
         Run, CloseNoWait, CloseOrWaitFor, Cleanup, CleanupJoin, CleanupClose, CleanupFree,
         CleanupReap, CleanupFinish, Write, WriteBegin, WriteLock, WriteSend
<1>. SUFFICES ASSUME used = Cardinality(Holding), secure \/ ~ SpuriousReads
              PROVE  used' = Cardinality(Holding')
  BY <1>1 DEF ExactInv, BuffersAccounted
<1>2. ASSUME UNCHANGED <<queue, used>>,
             \A i \in Slots : worker'[i].task.type = "DATA" <=> worker[i].task.type = "DATA"
      PROVE  used' = Cardinality(Holding')
  BY <1>2, SameHolding
<1>3. ASSUME used' = used, NEW i \in Slots, NEW task \in Task, Push(i, task),
             task.type # "DATA",
             \A j \in Slots : worker'[j].task.type = "DATA" <=> worker[j].task.type = "DATA"
      PROVE  used' = Cardinality(Holding')
  BY <1>0, <1>3, PushBuffers
<1>4. ASSUME NEW i \in Slots, Joinable(i), NEW new \in {Idle, [Idle EXCEPT !.pc = "check"]},
             worker' = [worker EXCEPT ![i] = new]
      PROVE  \A j \in Slots : worker'[j].task.type = "DATA" <=> worker[j].task.type = "DATA"
  <2>1. worker[i].task = NoTask
    BY <1>4 DEF Joinable, IInv, EndInv
  <2>2. new.task = NoTask
    BY DEF Idle
  <2>. QED
    BY <1>0, <1>4, <2>1, <2>2
<1>5. CASE PollAssign \/ \E i \in Slots : PollSecured(i)
  <2>1. PICK i \in Slots, f \in Fds : Assign(i, f) /\ owner[f] # Nobody /\ used' = used
    <3>1. CASE PollAssign
      BY <3>1 DEF PollAssign, IInv, PollInv
    <3>2. ASSUME NEW i \in Slots, PollSecured(i)
          PROVE  \E f \in Fds : Assign(i, f) /\ owner[f] # Nobody /\ used' = used
      BY <3>2, EventFacts, Indices DEF PollSecured, ShakeEvent, IInv
    <3>. QED
      BY <1>5, <3>1, <3>2
  <2>2. [type |-> "CONNECTION", peer |-> owner[f], unit |-> 0] \in Task
    BY <1>0, <2>1 DEF Task
  <2>3. /\ Push(i, [type |-> "CONNECTION", peer |-> owner[f], unit |-> 0])
        /\ Joinable(i) /\ worker' = [worker EXCEPT ![i] = [Idle EXCEPT !.pc = "check"]]
    BY <2>1 DEF Assign
  <2>. QED
    BY <1>3, <1>4, <2>1, <2>2, <2>3
<1>6. CASE \E i \in Slots : PollExhausted(i) \/ PollEnd(i)
  <2>1. PICK i \in Slots : PollExhausted(i) \/ PollEnd(i)
    BY <1>6
  <2>2. owner[fd[i]] \in Peers
    BY <2>1, EventFacts DEF PollExhausted, PollEnd, ReadEvent, IInv
  <2>3. [type |-> "DISCONNECTION", peer |-> owner[fd[i]], unit |-> 0] \in Task
    BY <1>0, <2>2 DEF Task
  <2>4. /\ Push(i, [type |-> "DISCONNECTION", peer |-> owner[fd[i]], unit |-> 0])
        /\ UNCHANGED <<used, worker>>
    BY <2>1 DEF PollExhausted, PollEnd, Drop
  <2>. QED
    BY <1>3, <2>3, <2>4
<1>7. CASE \E i \in Slots : PollRead(i)
  <2>1. PICK i \in Slots : PollRead(i)
    BY <1>7
  <2>. DEFINE p == owner[fd[i]]
              task == [type |-> "DATA", peer |-> p, unit |-> taken[p] + 1]
  <2>2. p \in Peers
    BY <2>1, EventFacts DEF PollRead, ReadEvent, IInv
  <2>3. Push(i, task) /\ used' = used + 1 /\ worker' = worker /\ taken[p] < sent[p]
    BY <2>1 DEF PollRead
  <2>4. taken[p] + 1 \in 0 .. MaxSend
    BY <1>0, <2>2, <2>3
  <2>5. task \in Task /\ task.type = "DATA"
    BY <2>2, <2>4 DEF Task
  <2>. HIDE DEF task
  <2>6. /\ Holding' = Holding \cup {<<i, Len(queue[i]) + 1>>}
        /\ <<i, Len(queue[i]) + 1>> \notin Holding
    BY <1>0, <2>3, <2>5, PushBuffers
  <2>7. Cardinality(Holding') = Cardinality(Holding) + 1
    BY <1>0, <2>6, FS_AddElement
  <2>. QED
    BY <2>3, <2>7
<1>8. ASSUME NEW i \in Slots, PollAgain(i)
      PROVE  used' = Cardinality(Holding')
  <2>1. /\ poll.pc = "batch" /\ i \in poll.batch \ {Listener} /\ ~ Readable(owner[fd[i]])
        /\ used' = IF secure THEN used ELSE used + 1
        /\ UNCHANGED <<queue, worker>>
    BY <1>8, Indices DEF PollAgain, ReadEvent
  <2>2. secure
    BY <2>1 DEF NewsInv, HasNews, Readable
  <2>. QED
    BY <1>2, <2>1, <2>2
<1>9. ASSUME NEW i \in Slots, WorkerTake(i), queue[i] # << >>
      PROVE  used' = Cardinality(Holding')
  <2>1. /\ worker'[i].task = Head(queue[i]) /\ queue'[i] = Tail(queue[i]) /\ used' = used
        /\ \A j \in Slots : j # i => worker'[j] = worker[j] /\ queue'[j] = queue[j]
    BY <1>0, <1>9 DEF WorkerTake
  <2>2. worker[i].task.type # "DATA"
    BY <1>9 DEF WorkerTake, IInv, EndInv, NoTask
  <2>3. Cardinality(Holding') = Cardinality(Holding)
    BY <1>0, <1>9, <2>1, <2>2, TakeBuffers
  <2>. QED
    BY <2>1, <2>3
<1>10. ASSUME NEW i \in Slots, WorkerData(i)
       PROVE  used' = Cardinality(Holding')
  <2>1. /\ queue' = queue /\ used' = used - 1 /\ worker[i].task.type = "DATA"
        /\ worker'[i].task.type # "DATA"
        /\ \A j \in Slots : j # i => worker'[j] = worker[j]
    BY <1>0, <1>10 DEF WorkerData, Idle, NoTask
  <2>2. Cardinality(Holding') = Cardinality(Holding) - 1
    BY <1>0, <2>1, DoneBuffers
  <2>. QED
    BY <2>1, <2>2
<1>11. ASSUME NEW i \in Slots, Worker(i), ~ WorkerData(i), ~ (WorkerTake(i) /\ queue[i] # << >>)
       PROVE  used' = Cardinality(Holding')
  <2>1. UNCHANGED <<queue, used>> /\ \A j \in Slots : j # i => worker'[j] = worker[j]
    BY <1>0, <1>11 DEF Worker, WorkerCheck, WorkerTake, WorkerConnect, WorkerDisconnect,
       WorkerRelease, WorkerStop
  <2>2. worker[i].task.type # "DATA"
    BY <1>11 DEF Worker, WorkerCheck, WorkerTake, WorkerConnect, WorkerDisconnect,
       WorkerRelease, WorkerStop, IInv, EndInv, NoTask
  <2>3. worker'[i].task.type # "DATA"
    <3>1. worker'[i].task \in {worker[i].task, NoTask}
      BY <1>0, <1>11 DEF Worker, WorkerCheck, WorkerTake, WorkerConnect, WorkerDisconnect,
         WorkerRelease, WorkerStop, Idle, WorkerState
    <3>. QED
      BY <2>2, <3>1 DEF NoTask
  <2>. QED
    BY <1>2, <2>1, <2>2, <2>3
<1>12. CASE CleanupReap \/ \E i \in Slots : PollShakeEnd(i)
  <2>1. PICK i \in Slots : /\ Joinable(i) /\ worker' = [worker EXCEPT ![i] = Idle]
                           /\ UNCHANGED <<queue, used>>
    BY <1>0, <1>12 DEF CleanupReap, PollShakeEnd, TypeOK, AppState
  <2>. QED
    BY <1>2, <1>4, <2>1
<1>13. CASE \/ \E p \in Peers : Connect(p) \/ Shake(p) \/ Send(p) \/ Hangup(p)
            \/ PollCheck \/ PollWait \/ PollRefuse \/ PollAccept \/ PollReserve
            \/ \E i \in Slots : PollShake(i)
            \/ InitServer \/ Run \/ CloseNoWait \/ CloseOrWaitFor
            \/ CleanupJoin \/ CleanupClose \/ CleanupFree \/ CleanupFinish
            \/ \E w \in Writers : Write(w)
            \/ UNCHANGED vars
  <2>1. UNCHANGED <<queue, used, worker>>
    BY <1>13 DEF Connect, Shake, Send, Hangup, PollCheck, PollWait, PollRefuse, PollAccept,
       PollReserve, PollShake, InitServer, Run, CloseNoWait, CloseOrWaitFor, CleanupJoin,
       CleanupClose, CleanupFree, CleanupFinish, Write, WriteBegin, WriteLock, WriteSend, vars
  <2>. QED
    BY <1>2, <2>1
<1>. QED
  BY <1>5, <1>6, <1>7, <1>8, <1>9, <1>10, <1>11, <1>12, <1>13 DEF Next, Poll, Cleanup

\* A client is in one place (PeerInv), a batch names clients with something
\* to read (NewsInv), and the buffers are those in the pipes (ExactInv).
THEOREM DataInvariance == Spec => [](PeerInv /\ NewsInv /\ ExactInv)
<1>1. Init => PeerInv /\ NewsInv /\ ExactInv
  <2>. SUFFICES ASSUME Init PROVE PeerInv /\ NewsInv /\ ExactInv
    OBVIOUS
  <2>1. /\ backlog = << >> /\ Len(backlog) = 0 /\ DOMAIN << >> = {}
        /\ \A f \in Fds : owner[f] = Nobody
        /\ \A p \in Peers : shake[p] = "none"
        /\ poll.pc = "off" /\ used = 0
    BY DEF Init
  <2>2. Range(backlog) = {}
    BY <2>1 DEF Range
  <2>3. Holding = {}
    <3>1. ASSUME NEW i \in Slots, NEW k \in Nat PROVE <<i, k>> \notin Holding
      <4>1. worker[i] = Idle /\ queue[i] = << >> /\ Len(queue[i]) = 0
        BY DEF Init
      <4>2. worker[i].task.type # "DATA" /\ k \notin 1 .. Len(queue[i])
        BY <4>1 DEF Idle, NoTask
      <4>. QED
        BY <4>2, HoldingIs DEF HoldingSays
    <3>. QED
      BY <3>1, HoldingIs DEF HoldingSays
  <2>4. Cardinality(Holding) = 0
    BY <2>3, FS_EmptySet
  <2>. QED
    BY <2>1, <2>2, <2>4, Indices DEF PeerInv, NewsInv, ExactInv, BuffersAccounted
<1>2. IInv /\ PeerInv /\ NewsInv /\ ExactInv /\ [Next]_vars
        => PeerInv' /\ NewsInv' /\ ExactInv'
  BY PeerStep, ExactStep, NewsPollStep, NewsOtherStep DEF Next
<1>. QED
  BY <1>1, <1>2, Invariance, PTL DEF Spec

\* Read buffers are conserved, whichever worker is behind and whatever is in
\* its queue when the connection ends: unless read() is tried, without TLS,
\* when there is nothing to read.
THEOREM BuffersConserved == Spec => [](secure \/ ~ SpuriousReads => BuffersAccounted)
<1>1. ExactInv => (secure \/ ~ SpuriousReads => BuffersAccounted)
  BY DEF ExactInv
<1>. QED
  BY <1>1, DataInvariance, PTL

-----------------------------------------------------------------------------
(* The session: the inductive invariant.                                   *)

\* Cleanup has not joined the polling thread yet.
Serving == ~ (started /\ poll.pc = "off")

\* A client is connected on connection i.
Assigned(i) == Live(i) /\ fd[i] \notin pending

\* The tasks of connection i, from the one its worker has in hand.
Pipe(i) == IF worker[i].pc = "call" THEN << worker[i].task >> \o queue[i] ELSE queue[i]

\* Connection i has to do with client p.
Serves(i, p) == \/ \E k \in 1 .. Len(Pipe(i)) : Pipe(i)[k].peer = p
                \/ Assigned(i) /\ owner[fd[i]] = p

\* No connection was assigned to p yet.
Newcomer(p) == \/ phase[p] = "new" \/ p \in Range(backlog)
               \/ \E f \in pending : owner[f] = p
               \/ poll.pc = "assign" /\ owner[poll.file] = p

\* A connection serves one client at a time, a client is served by one, and
\* of a newcomer nobody knows anything.
ServeInv ==
  /\ \A i \in Slots, p, q \in Peers : Serves(i, p) /\ Serves(i, q) => p = q
  /\ \A i, j \in Slots, p \in Peers : Serves(i, p) /\ Serves(j, p) => i = j
  /\ \A p \in Peers : Newcomer(p) =>
       /\ taken[p] = 0 /\ delivered[p] = 0 /\ p \notin met
       /\ \A i \in Slots : ~ Serves(i, p)

\* What is before the first unit in the pipe.
Ahead(i) == IF Pipe(i) # << >> /\ Pipe(i)[1].type = "CONNECTION" THEN 1 ELSE 0

\* A client is announced by its first task, and the units in the pipe and the
\* kernel follow those that were delivered.
FlowInv(i) ==
  /\ \A k \in 1 .. Len(Pipe(i)) :
       /\ Pipe(i)[k].type = "CONNECTION" => k = 1 /\ Pipe(i)[k].peer \notin met
       /\ Pipe(i)[k].type = "DATA" =>
            Pipe(i)[k].unit = delivered[Pipe(i)[k].peer] + k - Ahead(i)
  /\ Assigned(i) =>
       taken[owner[fd[i]]] = delivered[owner[fd[i]]] + Len(Pipe(i)) - Ahead(i)

\* The callback for the first task of the pipe gets the index.
Mine(i) == IF worker[i].pc = "call" THEN worker[i].idx = i ELSE idx[i] = i

\* A connection has its index as long as its client, until a shutdown.
IdxInv(i) ==
  /\ idx[i] \in {i, None} /\ worker[i].idx \in {i, None}
  /\ worker[i].pc = "call" /\ idx[i] = i => worker[i].idx = i
  /\ Serving /\ ~ Unassigned(i) => idx[i] = i

\* The application sees on an index whom the first task of the pipe is about.
ViewInv(i) ==
  /\ Mine(i) /\ Pipe(i) # << >> =>
       view[i] = IF Pipe(i)[1].type = "CONNECTION" THEN Nobody ELSE Pipe(i)[1].peer
  /\ Mine(i) /\ Pipe(i) = << >> /\ Assigned(i) => view[i] = owner[fd[i]]
  /\ Serving /\ (Unassigned(i) \/ worker[i].pc = "release") => view[i] = Nobody

SlotInv(i) == FlowInv(i) /\ IdxInv(i) /\ ViewInv(i)

SessionInv == ServeInv /\ \A i \in Slots : SlotInv(i)

-----------------------------------------------------------------------------
(* Pipes.                                                                  *)

\* What a pipe is.
LEMMA PipeIs ==
  ASSUME IInv, NEW i \in Slots
  PROVE  /\ queue[i] \in Seq(Task) /\ Len(queue[i]) \in Nat
         /\ Pipe(i) \in Seq(Task) /\ Len(Pipe(i)) \in Nat
         /\ worker[i].pc # "call" => Pipe(i) = queue[i]
         /\ worker[i].pc = "call" =>
              /\ worker[i].task \in Task
              /\ Pipe(i) # << >> /\ Len(Pipe(i)) = Len(queue[i]) + 1
              /\ Pipe(i)[1] = worker[i].task
              /\ \A k \in 1 .. Len(queue[i]) : Pipe(i)[k + 1] = queue[i][k]
<1>1. queue[i] \in Seq(Task) /\ Len(queue[i]) \in Nat
  BY DEF IInv, TypeOK
<1>2. CASE worker[i].pc # "call"
  BY <1>1, <1>2 DEF Pipe
<1>3. CASE worker[i].pc = "call"
  <2>. DEFINE one == << worker[i].task >>
  <2>1. worker[i].task \in Task
    BY <1>3 DEF IInv, TypeOK, WorkerState, EndInv
  <2>2. one \in Seq(Task) /\ Len(one) = 1 /\ one[1] = worker[i].task
    BY <2>1
  <2>3. Pipe(i) = one \o queue[i]
    BY <1>3 DEF Pipe
  <2>. HIDE DEF one
  <2>4. /\ Pipe(i) \in Seq(Task) /\ Len(Pipe(i)) = Len(one) + Len(queue[i])
        /\ \A k \in 1 .. Len(one) + Len(queue[i]) :
             Pipe(i)[k] = IF k <= Len(one) THEN one[k] ELSE queue[i][k - Len(one)]
    <3>1. /\ one \o queue[i] \in Seq(Task)
          /\ Len(one \o queue[i]) = Len(one) + Len(queue[i])
          /\ \A k \in 1 .. Len(one) + Len(queue[i]) :
               (one \o queue[i])[k] = IF k <= Len(one) THEN one[k] ELSE queue[i][k - Len(one)]
      BY <1>1, <2>2, ConcatProperties
    <3>. QED
      BY <2>3, <3>1
  <2>5. Len(Pipe(i)) # 0 /\ Pipe(i) # << >>
    BY <1>1, <2>2, <2>4, EmptySeq
  <2>6. \A k \in 1 .. Len(queue[i]) : Pipe(i)[k + 1] = queue[i][k]
    BY <1>1, <2>2, <2>4
  <2>7. Pipe(i)[1] = worker[i].task
    BY <1>1, <2>2, <2>4
  <2>. QED
    BY <1>1, <1>3, <2>1, <2>2, <2>4, <2>5, <2>6, <2>7
<1>. QED
  BY <1>2, <1>3

\* The same before and after a step.
PipeSays ==
  \A i \in Slots :
    /\ queue[i] \in Seq(Task) /\ Len(queue[i]) \in Nat
    /\ Pipe(i) \in Seq(Task) /\ Len(Pipe(i)) \in Nat
    /\ worker[i].pc # "call" => Pipe(i) = queue[i]
    /\ worker[i].pc = "call" =>
         /\ worker[i].task \in Task
         /\ Pipe(i) # << >> /\ Len(Pipe(i)) = Len(queue[i]) + 1
         /\ Pipe(i)[1] = worker[i].task
         /\ \A k \in 1 .. Len(queue[i]) : Pipe(i)[k + 1] = queue[i][k]

\* PipeIs, before and after a step.
LEMMA PipeBoth == (IInv => PipeSays) /\ (IInv' => PipeSays')
<1>1. IInv => PipeSays
  BY PipeIs DEF PipeSays
<1>. QED
  BY <1>1, PTL

\* A pipe that a step leaves alone.
LEMMA PipeSame ==
  ASSUME NEW i \in Slots, queue'[i] = queue[i],
         worker'[i].pc = "call" <=> worker[i].pc = "call",
         worker[i].pc = "call" => worker'[i].task = worker[i].task
  PROVE  Pipe(i)' = Pipe(i)
BY DEF Pipe

\* A worker takes the first task of its queue: the pipe stays as it is.
LEMMA PipeTake ==
  ASSUME IInv, IInv', NEW i \in Slots, worker[i].pc # "call", queue[i] # << >>,
         worker'[i].pc = "call", worker'[i].task = Head(queue[i]), queue'[i] = Tail(queue[i])
  PROVE  Pipe(i)' = Pipe(i)
<1>1. /\ Pipe(i) = queue[i] /\ queue[i] \in Seq(Task) /\ Len(queue[i]) \in Nat \ {0}
      /\ Head(queue[i]) = queue[i][1]
  BY PipeBoth, TailRange DEF PipeSays
<1>2. /\ Len(queue'[i]) = Len(queue[i]) - 1
      /\ \A k \in 1 .. Len(queue'[i]) : queue'[i][k] = queue[i][k + 1]
  BY <1>1, HeadTailProperties
<1>. DEFINE q == queue[i]
            r == Pipe(i)'
<1>3. /\ r \in Seq(Task) /\ Len(r) = Len(queue'[i]) + 1 /\ r[1] = q[1]
      /\ \A k \in 1 .. Len(queue'[i]) : r[k + 1] = queue'[i][k]
  BY <1>1, PipeBoth DEF PipeSays
<1>. HIDE DEF q, r
<1>4. q \in Seq(Task) /\ Len(r) = Len(q) /\ Len(q) \in Nat \ {0}
  BY <1>1, <1>2, <1>3 DEF q
<1>5. ASSUME NEW k \in 1 .. Len(q)
      PROVE  r[k] = q[k]
  <2>1. CASE k = 1
    BY <1>3, <2>1
  <2>2. CASE k # 1
    <3>1. k - 1 \in 1 .. Len(queue'[i]) /\ (k - 1) + 1 = k
      BY <1>2, <1>4, <2>2 DEF q
    <3>2. r[(k - 1) + 1] = queue'[i][k - 1] /\ queue'[i][k - 1] = q[(k - 1) + 1]
      BY <1>2, <1>3, <3>1 DEF q
    <3>. QED
      BY <3>1, <3>2
  <2>. QED
    BY <2>1, <2>2
<1>6. r = q
  BY <1>3, <1>4, <1>5, SeqEqual
<1>. QED
  BY <1>1, <1>6 DEF q, r

\* A task is appended.
LEMMA PipePush ==
  ASSUME IInv, IInv', NEW i \in Slots, NEW task \in Task, Push(i, task), worker' = worker
  PROVE  /\ Len(Pipe(i)') = Len(Pipe(i)) + 1
         /\ \A k \in 1 .. Len(Pipe(i)) : Pipe(i)'[k] = Pipe(i)[k]
         /\ Pipe(i)'[Len(Pipe(i)) + 1] = task
         /\ \A j \in Slots : j # i => Pipe(j)' = Pipe(j)
<1>0. PipeSays /\ PipeSays'
  BY PipeBoth
<1>1. queue'[i] = Append(queue[i], task) /\ \A j \in Slots : j # i => queue'[j] = queue[j]
  BY PushType DEF IInv
<1>2. /\ Len(queue[i]) \in Nat /\ Len(queue'[i]) = Len(queue[i]) + 1
      /\ \A k \in 1 .. Len(queue[i]) : queue'[i][k] = queue[i][k]
      /\ queue'[i][Len(queue[i]) + 1] = task
  BY <1>0, <1>1, AppendProperties DEF PipeSays
<1>3. CASE worker[i].pc # "call"
  <2>1. Pipe(i) = queue[i] /\ Pipe(i)' = queue'[i]
    BY <1>0, <1>3 DEF PipeSays
  <2>2. \A j \in Slots : j # i => Pipe(j)' = Pipe(j)
    BY <1>1, PipeSame
  <2>. QED
    BY <1>2, <2>1, <2>2
<1>4. CASE worker[i].pc = "call"
  <2>. DEFINE r == Pipe(i)'
  <2>1. /\ Len(Pipe(i)) = Len(queue[i]) + 1 /\ Pipe(i)[1] = worker[i].task
        /\ \A k \in 1 .. Len(queue[i]) : Pipe(i)[k + 1] = queue[i][k]
        /\ Len(r) = Len(queue'[i]) + 1 /\ r[1] = worker[i].task
        /\ \A k \in 1 .. Len(queue'[i]) : r[k + 1] = queue'[i][k]
    BY <1>0, <1>4 DEF PipeSays
  <2>. HIDE DEF r
  <2>2. ASSUME NEW k \in 1 .. Len(Pipe(i))
        PROVE  r[k] = Pipe(i)[k]
    <3>1. CASE k = 1
      BY <2>1, <3>1
    <3>2. CASE k # 1
      <4>1. /\ k - 1 \in 1 .. Len(queue[i]) /\ k - 1 \in 1 .. Len(queue'[i])
            /\ (k - 1) + 1 = k
        BY <1>2, <2>1, <3>2
      <4>2. /\ r[(k - 1) + 1] = queue'[i][k - 1] /\ queue'[i][k - 1] = queue[i][k - 1]
            /\ Pipe(i)[(k - 1) + 1] = queue[i][k - 1]
        BY <1>2, <2>1, <4>1
      <4>. QED
        BY <4>1, <4>2
    <3>. QED
      BY <3>1, <3>2
  <2>3. r[Len(Pipe(i)) + 1] = task /\ Len(r) = Len(Pipe(i)) + 1
    BY <1>2, <2>1
  <2>. QED
    BY <1>1, <2>2, <2>3, PipeSame DEF r
<1>5. \A j \in Slots : j # i => Pipe(j)' = Pipe(j)
  BY <1>1, PipeSame
<1>. QED
  BY <1>3, <1>4, <1>5

\* A worker is done with its task.
LEMMA PipePop ==
  ASSUME IInv, IInv', NEW i \in Slots, worker[i].pc = "call", worker'[i].pc # "call",
         queue' = queue
  PROVE  /\ Len(Pipe(i)) = Len(Pipe(i)') + 1 /\ Pipe(i)[1] = worker[i].task
         /\ Len(Pipe(i)') \in Nat
         /\ \A k \in 1 .. Len(Pipe(i)') :
              Pipe(i)'[k] = Pipe(i)[k + 1] /\ k + 1 \in 1 .. Len(Pipe(i))
<1>1. PipeSays /\ PipeSays'
  BY PipeBoth
<1>. QED
  BY <1>1 DEF PipeSays

-----------------------------------------------------------------------------
(* Newcomers and shutdowns.                                                *)

\* No step begins an assignment or a handshake but those that take a client
\* from the listen queue.
LEMMA NothingBegins ==
  ASSUME IInv, Next, ~ Arrived
  PROVE  /\ pending' \subseteq pending
         /\ poll'.pc = "assign" => poll' = poll
<1>. USE DEF tlsVars, clientVars, kernelVars, serverVars, tableVars, userVars
<1>0. poll \in PollState
  BY DEF IInv, TypeOK
<1>1. CASE PollCheck \/ PollWait \/ PollAssign \/ Run \/ CleanupJoin
  <2>1. poll'.pc # "assign"
    <3>1. CASE PollCheck \/ PollWait
      BY <1>0, <3>1 DEF PollCheck, PollWait, PollState
    <3>2. CASE PollAssign
      BY <3>2 DEF PollAssign
    <3>3. CASE Run \/ CleanupJoin
      BY <1>0, <3>3 DEF Run, CleanupJoin, PollState
    <3>. QED
      BY <1>1, <3>1, <3>2, <3>3
  <2>2. pending' = pending
    BY <1>1 DEF PollCheck, PollWait, PollAssign, Run, CleanupJoin
  <2>. QED
    BY <2>1, <2>2
<1>2. CASE \E i \in Slots : \/ PollShake(i) \/ PollSecured(i) \/ PollShakeEnd(i)
                            \/ PollExhausted(i) \/ PollRead(i) \/ PollEnd(i) \/ PollAgain(i)
  <2>1. PICK i \in Slots : Handled(i) /\ pending' \subseteq pending
    BY <1>2 DEF PollShake, PollSecured, PollShakeEnd, PollExhausted, PollRead, PollEnd, PollAgain
  <2>2. poll'.pc \in {"check", "batch"}
    BY <2>1, HandledType DEF IInv
  <2>. QED
    BY <2>1, <2>2
<1>3. CASE \/ \E p \in Peers : Connect(p) \/ Shake(p) \/ Send(p) \/ Hangup(p)
           \/ \E i \in Slots : Worker(i)
           \/ InitServer \/ CloseNoWait \/ CloseOrWaitFor
           \/ CleanupClose \/ CleanupFree \/ CleanupReap \/ CleanupFinish
           \/ \E w \in Writers : Write(w)
  BY <1>3 DEF Connect, Shake, Send, Hangup, Worker, WorkerCheck, WorkerTake, WorkerConnect,
     WorkerData, WorkerDisconnect, WorkerRelease, WorkerStop, InitServer, CloseNoWait,
     CloseOrWaitFor, CleanupClose, CleanupFree, CleanupReap, CleanupFinish, Write, WriteBegin,
     WriteLock, WriteSend
<1>. QED
  BY <1>1, <1>2, <1>3 DEF Next, Poll, Cleanup, PollRefuse, PollAccept, PollReserve

\* What the steps that take a client from the listen queue do to descriptors.
LEMMA ArrivedEffect ==
  ASSUME IInv, PeerInv, PollRefuse \/ PollAccept \/ PollReserve
  PROVE  /\ \/ PollRefuse /\ owner' = owner /\ watch' = watch /\ fd' = fd /\ pending' = pending
            \/ /\ owner' = [owner EXCEPT ![FreeFd] = Head(backlog)]
               /\ watch' = [watch EXCEPT ![FreeFd] = Min(Free)]
               /\ Min(Free) \in Slots /\ fd[Min(Free)] = None
               /\ \/ PollAccept /\ fd' = fd /\ pending' = pending /\ pending = {}
                     /\ poll'.pc = "assign" /\ poll'.file = FreeFd
                  \/ PollReserve /\ fd' = [fd EXCEPT ![Min(Free)] = FreeFd]
                     /\ pending' = pending \cup {FreeFd} /\ poll'.pc # "assign"
         /\ PollRefuse => poll'.pc # "assign"
         /\ Arrived /\ poll.pc = "batch"
         /\ UNCHANGED <<idx, queue, worker, view, taken, delivered, met, started>>
         /\ \A p \in Peers : phase'[p] = "new" => phase[p] = "new"
<1>. USE DEF tlsVars, clientVars, kernelVars, serverVars, tableVars, userVars
<1>0. poll \in PollState /\ phase \in [Peers -> {"new", "open", "closed", "reset", "shut"}]
  BY DEF IInv, TypeOK
<1>1. PollRefuse => poll'.pc # "assign"
  BY HandledType DEF PollRefuse, IInv
<1>2. CASE PollAccept
  <2>1. Min(Free) \in Slots /\ fd[Min(Free)] = None
    BY <1>2, FreeSlotExists DEF PollAccept
  <2>2. poll'.pc = "assign" /\ poll'.file = FreeFd
    BY <1>0, <1>2 DEF PollAccept, PollState
  <2>3. pending = {}
    BY <1>2 DEF PollAccept, IInv, PollInv
  <2>4. poll.pc = "batch" /\ Arrived
    BY <1>2 DEF PollAccept, Arrived
  <2>. QED
    BY <1>2, <2>1, <1>1, <2>2, <2>3, <2>4 DEF PollAccept
<1>3. CASE PollReserve
  <2>1. Min(Free) \in Slots /\ fd[Min(Free)] = None
    BY <1>3, FreeSlotExists DEF PollReserve
  <2>2. poll'.pc # "assign"
    BY <1>3, HandledType DEF PollReserve, IInv
  <2>. QED
    BY <1>1, <1>3, <2>1, <2>2 DEF PollReserve, Arrived
<1>4. CASE PollRefuse
  BY <1>0, <1>1, <1>4 DEF PollRefuse, Arrived
<1>. QED
  BY <1>2, <1>3, <1>4

\* Nobody becomes a newcomer.
LEMMA NewcomersStay ==
  ASSUME IInv, PeerInv, Next, NEW p \in Peers, Newcomer(p)'
  PROVE  Newcomer(p)
<1>0. /\ owner \in [Fds -> Peers \cup {Nobody}] /\ backlog \in Seq(Peers) /\ pending \subseteq Fds
      /\ poll.pc = "assign" => poll.file \in Fds
  BY DEF IInv, TypeOK, PollInv
<1>1. CASE \E q \in Peers : Connect(q)
  <2>1. PICK q \in Peers : Connect(q)
    BY <1>1
  <2>2. Range(backlog') = Range(backlog) \cup {q} /\ phase[q] = "new"
    BY <1>0, <2>1, AppendRange DEF Connect
  <2>3. UNCHANGED <<owner, pending, poll>> /\ phase' = [phase EXCEPT ![q] = "open"]
    BY <2>1 DEF Connect, tlsVars, serverVars
  <2>4. phase'[p] = "new" => phase[p] = "new"
    BY <2>3 DEF IInv, TypeOK
  <2>. QED
    BY <2>2, <2>3, <2>4 DEF Newcomer
<1>2. CASE PollRefuse \/ PollAccept \/ PollReserve
  <2>1. /\ \/ PollRefuse /\ owner' = owner /\ pending' = pending
           \/ /\ owner' = [owner EXCEPT ![FreeFd] = Head(backlog)]
              /\ \/ pending' = {} /\ poll'.file = FreeFd
                 \/ pending' = pending \cup {FreeFd} /\ poll'.pc # "assign"
        /\ PollRefuse => poll'.pc # "assign"
        /\ phase'[p] = "new" => phase[p] = "new"
        /\ Arrived
    BY <1>2, ArrivedEffect
  <2>2. /\ Head(backlog) \in Range(backlog) /\ Range(backlog') \subseteq Range(backlog)
        /\ FreeFd \in Fds /\ owner[FreeFd] = Nobody
    BY <2>1, ArrivedFacts
  <2>3. \A f \in Fds : owner'[f] = owner[f] \/ owner'[f] \in Range(backlog)
    BY <1>0, <2>1, <2>2
  <2>4. p # Nobody
    BY Indices
  <2>. QED
    BY <1>0, <2>1, <2>2, <2>3, <2>4 DEF Newcomer
<1>3. CASE CleanupFinish
  <2>1. /\ backlog' = << >> /\ pending' = {} /\ poll' = poll /\ poll.pc = "off"
        /\ phase'[p] = "new" => phase[p] = "new"
    BY <1>3 DEF CleanupFinish, serverVars, IInv, CleanupInv, TypeOK
  <2>2. DOMAIN << >> = {}
    OBVIOUS
  <2>3. Range(backlog') = {}
    BY <2>1, <2>2 DEF Range
  <2>. QED
    BY <2>1, <2>3 DEF Newcomer
<1>4. CASE ~ (\E q \in Peers : Connect(q)) /\ ~ CleanupFinish
           /\ ~ PollRefuse /\ ~ PollAccept /\ ~ PollReserve
  <2>1. ~ Arrived
    BY <1>4, OnlyArrivals
  <2>2. /\ backlog' = backlog
        /\ \A f \in Fds : owner'[f] \in {owner[f], Nobody}
        /\ phase'[p] = "new" => phase[p] = "new"
    BY <1>4, <2>1, NobodyMoves
  <2>3. pending' \subseteq pending /\ (poll'.pc = "assign" => poll' = poll)
    BY <2>1, NothingBegins
  <2>. QED
    BY <1>0, <2>2, <2>3, Indices DEF Newcomer
<1>. QED
  BY <1>1, <1>2, <1>3, <1>4

\* A shutdown that has begun is not taken back.
LEMMA ServingStays ==
  ASSUME IInv, Next, Serving'
  PROVE  Serving
<1>. USE DEF tlsVars, clientVars, kernelVars, serverVars, tableVars, userVars
<1>. SUFFICES ASSUME started, poll.pc = "off"
              PROVE  started' /\ poll'.pc = "off"
  BY DEF Serving
<1>1. ~ Poll
  BY DEF Poll, PollCheck, PollWait, PollRefuse, PollAccept, PollAssign, PollReserve, PollShake,
     PollSecured, PollShakeEnd, PollExhausted, PollRead, PollEnd, PollAgain, Arrived, ShakeEvent,
     ReadEvent
<1>2. CASE \E p \in Peers : Connect(p) \/ Shake(p) \/ Send(p) \/ Hangup(p)
  BY <1>2 DEF Connect, Shake, Send, Hangup
<1>3. CASE \E i \in Slots : Worker(i)
  BY <1>3 DEF Worker, WorkerCheck, WorkerTake, WorkerConnect, WorkerData, WorkerDisconnect,
     WorkerRelease, WorkerStop
<1>4. CASE InitServer \/ Run \/ CloseNoWait \/ CloseOrWaitFor
  BY <1>4 DEF InitServer, Run, CloseNoWait, CloseOrWaitFor
<1>5. CASE Cleanup
  BY <1>5 DEF Cleanup, CleanupJoin, CleanupClose, CleanupFree, CleanupReap, CleanupFinish, IInv,
     TypeOK, PollState
<1>6. CASE \E w \in Writers : Write(w)
  BY <1>6 DEF Write, WriteBegin, WriteLock, WriteSend
<1>. QED
  BY <1>1, <1>2, <1>3, <1>4, <1>5, <1>6 DEF Next

-----------------------------------------------------------------------------
(* Steps that leave a connection alone.                                    *)

\* A step after which connection j has the same tasks and index, and the same
\* client if it still has one.
Still(j) ==
  /\ Pipe(j)' = Pipe(j)
  /\ idx'[j] = idx[j] /\ view'[j] = view[j]
  /\ worker'[j].idx \in {worker[j].idx, idx[j], None}
  /\ worker'[j].pc = "call" =>
       worker'[j].idx = IF worker[j].pc = "call" THEN worker[j].idx ELSE idx[j]
  /\ worker'[j].pc # "call" => worker[j].pc # "call"
  /\ worker'[j].pc = "release" => worker[j].pc = "release"
  /\ Assigned(j)' => Assigned(j) /\ owner'[fd'[j]] = owner[fd[j]]
  /\ Serving' => Serving /\ (Unassigned(j)' <=> Unassigned(j))

\* What the application was given of a client, and the server has read.
Untouched(p) ==
  taken'[p] = taken[p] /\ delivered'[p] = delivered[p] /\ (p \in met' => p \in met)

\* Such a step keeps what is known of the connection, if it touches no client
\* that the connection serves.
LEMMA StillKeeps ==
  ASSUME IInv, IInv', NEW j \in Slots, SlotInv(j), Still(j),
         \A p \in Peers : Serves(j, p) => Untouched(p)
  PROVE  SlotInv(j)'
<1>0. Pipe(j) \in Seq(Task) /\ \A k \in 1 .. Len(Pipe(j)) : Pipe(j)[k] \in Task
  BY PipeBoth, ElementOfSeq DEF PipeSays
<1>1. Ahead(j)' = Ahead(j)
  BY DEF Still, Ahead
<1>2. ASSUME NEW k \in 1 .. Len(Pipe(j))
      PROVE  /\ Untouched(Pipe(j)[k].peer)
             /\ Pipe(j)'[k] = Pipe(j)[k]
  <2>1. Pipe(j)[k].peer \in Peers
    BY <1>0 DEF Task
  <2>. QED
    BY <2>1 DEF Serves, Still
<1>3. Assigned(j)' => /\ Untouched(owner[fd[j]]) /\ Assigned(j)
                      /\ owner'[fd'[j]] = owner[fd[j]]
  <2>1. Assigned(j) => owner[fd[j]] \in Peers
    <3>1. Assigned(j) => fd[j] \in Fds /\ watch[fd[j]] # None
      BY Indices DEF Assigned, Live, IInv, TypeOK
    <3>2. \A f \in Fds : watch[f] # None => owner[f] \in Peers
      BY DEF IInv, TypeOK, FdInv
    <3>. QED
      BY Zenon, <3>1, <3>2
  <2>. QED
    BY <2>1 DEF Serves, Still
<1>4. FlowInv(j)'
  BY <1>1, <1>2, <1>3 DEF SlotInv, FlowInv, Untouched, Still
<1>5. IdxInv(j)'
  BY DEF SlotInv, IdxInv, Still
<1>6. ViewInv(j)'
  <2>1. Mine(j)' = Mine(j)
    BY DEF Mine, Still
  <2>. QED
    BY <2>1 DEF SlotInv, ViewInv, Still
<1>. QED
  BY <1>4, <1>5, <1>6 DEF SlotInv

\* Nor does it begin to serve anybody.
LEMMA StillServes ==
  ASSUME NEW j \in Slots, Still(j), NEW p, Serves(j, p)'
  PROVE  Serves(j, p)
BY DEF Still, Serves

\* What is known of the clients holds as long as no connection gets a new one
\* and no step touches a newcomer.
LEMMA ServeKept ==
  ASSUME IInv, PeerInv, Next, ServeInv,
         \A i \in Slots, p \in Peers : Serves(i, p)' => Serves(i, p),
         \A p \in Peers : Newcomer(p) => Untouched(p)
  PROVE  ServeInv'
<1>1. \A p \in Peers : Newcomer(p)' => Newcomer(p)
  BY NewcomersStay
<1>. QED
  BY <1>1 DEF ServeInv, Untouched

\* A step that leaves every connection alone.
LEMMA AllStill ==
  ASSUME IInv, IInv', PeerInv, SessionInv, Next,
         \A j \in Slots : Still(j), \A p \in Peers : Untouched(p)
  PROVE  SessionInv'
<1>1. ServeInv'
  BY StillServes, ServeKept DEF SessionInv
<1>2. \A j \in Slots : SlotInv(j)'
  BY StillKeeps DEF SessionInv
<1>. QED
  BY <1>1, <1>2 DEF SessionInv

\* Steps that have nothing to do with the table.
LEMMA OutsideStep ==
  ASSUME IInv, IInv', PeerInv, SessionInv,
         \/ \E p \in Peers : Connect(p) \/ Shake(p) \/ Send(p) \/ Hangup(p)
         \/ PollCheck \/ PollWait
         \/ \E i \in Slots : PollShake(i) \/ PollAgain(i)
         \/ InitServer \/ Run \/ CloseNoWait \/ CloseOrWaitFor \/ CleanupJoin
         \/ \E w \in Writers : Write(w)
  PROVE  SessionInv'
<1>1. UNCHANGED <<fd, idx, queue, worker, view, owner, watch, pending, taken, delivered, met>>
  BY DEF Connect, Shake, Send, Hangup, PollCheck, PollWait, PollShake, PollAgain, InitServer,
     Run, CloseNoWait, CloseOrWaitFor, CleanupJoin, Write, WriteBegin, WriteLock, WriteSend,
     tlsVars, clientVars, kernelVars, serverVars, tableVars, userVars
<1>2. Next
  BY DEF Next, Poll, Cleanup
<1>3. Serving' => Serving
  BY <1>2, ServingStays
<1>4. \A j \in Slots : Pipe(j)' = Pipe(j)
  BY <1>1, PipeSame
<1>5. \A j \in Slots : Still(j)
  BY <1>1, <1>3, <1>4 DEF Still, Assigned, Unassigned, Live
<1>6. \A p \in Peers : Untouched(p)
  BY <1>1 DEF Untouched
<1>. QED
  BY <1>2, <1>5, <1>6, AllStill

\* A client is accepted, or refused.
LEMMA AcceptStep ==
  ASSUME IInv, IInv', PeerInv, SessionInv, PollRefuse \/ PollAccept \/ PollReserve
  PROVE  SessionInv'
<1>. DEFINE s == Min(Free)
<1>1. /\ \/ owner' = owner /\ watch' = watch /\ fd' = fd /\ pending' = pending
         \/ /\ owner' = [owner EXCEPT ![FreeFd] = Head(backlog)]
            /\ watch' = [watch EXCEPT ![FreeFd] = s]
            /\ s \in Slots /\ fd[s] = None
            /\ \/ fd' = fd /\ pending' = pending /\ pending = {}
               \/ fd' = [fd EXCEPT ![s] = FreeFd] /\ pending' = pending \cup {FreeFd}
      /\ Arrived /\ poll.pc = "batch"
      /\ UNCHANGED <<idx, queue, worker, view, taken, delivered, met, started>>
  BY ArrivedEffect
<1>2. FreeFd \in Fds /\ owner[FreeFd] = Nobody
  BY <1>1, ArrivedFacts
<1>3. /\ owner \in [Fds -> Peers \cup {Nobody}] /\ watch \in [Fds -> Slots \cup {None}]
      /\ fd \in [Slots -> Fds \cup {None}] /\ watch[FreeFd] = None
  BY <1>2 DEF IInv, TypeOK, FdInv
<1>4. Next
  BY DEF Next, Poll
<1>5. Serving' => Serving
  BY <1>4, ServingStays
<1>6. \A j \in Slots : Pipe(j)' = Pipe(j)
  BY <1>1, PipeSame
<1>. HIDE DEF s
<1>7. ASSUME NEW j \in Slots
      PROVE  /\ Assigned(j)' => Assigned(j) /\ owner'[fd'[j]] = owner[fd[j]]
             /\ Unassigned(j)' <=> Unassigned(j)
  <2>1. CASE owner' = owner /\ watch' = watch /\ fd' = fd /\ pending' = pending
    BY <2>1 DEF Assigned, Unassigned, Live
  <2>2. CASE /\ owner' = [owner EXCEPT ![FreeFd] = Head(backlog)]
             /\ watch' = [watch EXCEPT ![FreeFd] = s] /\ s \in Slots /\ fd[s] = None
             /\ fd' = fd /\ pending' = pending /\ pending = {}
    BY <1>2, <1>3, <2>2, Indices DEF Assigned, Unassigned, Live
  <2>3. CASE /\ owner' = [owner EXCEPT ![FreeFd] = Head(backlog)]
             /\ watch' = [watch EXCEPT ![FreeFd] = s] /\ s \in Slots /\ fd[s] = None
             /\ fd' = [fd EXCEPT ![s] = FreeFd] /\ pending' = pending \cup {FreeFd}
    <3>1. CASE j = s
      BY <1>2, <1>3, <2>3, <3>1, Indices DEF Assigned, Unassigned, Live
    <3>2. CASE j # s
      BY <1>2, <1>3, <2>3, <3>2, Indices DEF Assigned, Unassigned, Live
    <3>. QED
      BY <3>1, <3>2
  <2>. QED
    BY <1>1, <2>1, <2>2, <2>3
<1>8. \A j \in Slots : Still(j)
  BY <1>1, <1>5, <1>6, <1>7 DEF Still
<1>9. \A p \in Peers : Untouched(p)
  BY <1>1 DEF Untouched
<1>. QED
  BY <1>4, <1>8, <1>9, AllStill

-----------------------------------------------------------------------------
(* Steps of the polling thread on one connection.                          *)

\* A client is assigned to a connection that serves nobody.
LEMMA AssignSession ==
  ASSUME IInv, IInv', PeerInv, SessionInv, PollAssign \/ \E i \in Slots : PollSecured(i)
  PROVE  SessionInv'
<1>1. PICK i \in Slots, f \in Fds :
        /\ Assign(i, f) /\ owner[f] # Nobody /\ watch[f] = i /\ Unassigned(i)
        /\ pending' = pending \ {f}
        /\ poll.pc \in {"batch", "assign"} /\ poll'.pc \in {"check", "batch"}
        /\ poll.pc = "assign" => poll.file = f
        /\ poll.pc = "batch" => f \in pending
  BY AssignCases
<1>2. /\ UNCHANGED <<phase, backlog, owner, watch, view, taken, delivered, met>>
      /\ Next
  BY DEF PollAssign, PollSecured, Next, Poll, tlsVars, clientVars, kernelVars, userVars
<1>3. /\ owner \in [Fds -> Peers \cup {Nobody}] /\ watch \in [Fds -> Slots \cup {None}]
      /\ fd \in [Slots -> Fds \cup {None}] /\ idx \in [Slots -> Slots \cup {None}]
      /\ worker \in [Slots -> WorkerState] /\ queue \in [Slots -> Seq(Task)]
  BY DEF IInv, TypeOK
<1>. DEFINE p == owner[f]
            task == [type |-> "CONNECTION", peer |-> p, unit |-> 0]
<1>4. p \in Peers /\ task \in Task /\ task.type = "CONNECTION" /\ task.peer = p
  BY <1>1, <1>3, SocketAssumption DEF Task
<1>5. /\ Push(i, task) /\ fd' = [fd EXCEPT ![i] = f] /\ idx' = [idx EXCEPT ![i] = i]
      /\ worker' = [worker EXCEPT ![i] = [Idle EXCEPT !.pc = "check"]]
  BY <1>1 DEF Assign
<1>6. Newcomer(p)
  BY <1>1 DEF Newcomer
<1>7. ~ Newcomer(p)'
  <2>1. phase[p] # "new" /\ p \notin Range(backlog) /\ \A g \in Fds : owner[g] = p => g = f
    BY <1>1, <1>4 DEF PeerInv
  <2>2. pending \subseteq Fds
    BY DEF IInv, TypeOK
  <2>. QED
    BY <1>1, <1>2, <2>1, <2>2 DEF Newcomer
<1>. HIDE DEF task
<1>8. queue[i] = << >> /\ worker[i].pc \in {"none", "stopping", "exited"}
  BY <1>1 DEF IInv, FreshInv
<1>9. /\ queue'[i] = Append(queue[i], task)
      /\ \A j \in Slots : j # i => queue'[j] = queue[j]
  BY <1>4, <1>5, PushType DEF IInv
<1>10. /\ worker'[i].pc = "check" /\ worker'[i].idx = None
       /\ fd'[i] = f /\ idx'[i] = i
       /\ \A j \in Slots : j # i => worker'[j] = worker[j] /\ fd'[j] = fd[j] /\ idx'[j] = idx[j]
  BY <1>3, <1>5 DEF Idle
<1>11. Len(Pipe(i)') = 1 /\ Pipe(i)'[1] = task /\ Pipe(i)' # << >>
  <2>1. Len(queue[i]) = 0 /\ queue[i] \in Seq(Task)
    BY <1>3, <1>8, EmptySeq
  <2>2. Len(queue'[i]) = 1 /\ queue'[i][1] = task
    BY <1>4, <1>9, <2>1, AppendProperties
  <2>3. Pipe(i)' = queue'[i]
    BY <1>10, PipeBoth DEF PipeSays
  <2>4. Len(<< >>) = 0
    OBVIOUS
  <2>. QED
    BY <2>2, <2>3, <2>4
<1>12. Serving
  BY <1>1 DEF Serving
<1>13. ASSUME NEW j \in Slots, j # i
       PROVE  Still(j)
  <2>1. Pipe(j)' = Pipe(j)
    BY <1>9, <1>10, <1>13, PipeSame
  <2>2. Live(j) => fd[j] # f
    BY <1>1, <1>13 DEF Live
  <2>. QED
    BY <1>1, <1>2, <1>10, <1>12, <1>13, <2>1, <2>2 DEF Still, Assigned, Unassigned, Live
<1>14. Assigned(i)' /\ ~ Unassigned(i)'
  BY <1>1, <1>2, <1>10, Indices DEF Assigned, Unassigned, Live
<1>15. \A q \in Peers : Serves(i, q)' => q = p
  <2>1. \A k \in 1 .. Len(Pipe(i)') : Pipe(i)'[k].peer = p
    BY <1>4, <1>11
  <2>2. owner'[fd'[i]] = p
    BY <1>2, <1>10
  <2>. QED
    BY <2>1, <2>2 DEF Serves
<1>16. \A j \in Slots, q \in Peers : j # i /\ Serves(j, q)' => Serves(j, q)
  BY <1>13, StillServes
<1>17. ServeInv'
  <2>1. \A j \in Slots : ~ Serves(j, p)
    BY <1>4, <1>6 DEF SessionInv, ServeInv
  <2>2. \A q \in Peers : Newcomer(q)' => Newcomer(q) /\ q # p
    BY <1>2, <1>7, NewcomersStay
  <2>. QED
    BY <1>2, <1>15, <1>16, <2>1, <2>2 DEF SessionInv, ServeInv
<1>18. SlotInv(i)'
  <2>1. taken'[p] = 0 /\ delivered'[p] = 0 /\ p \notin met' /\ owner'[fd'[i]] = p
    BY <1>2, <1>4, <1>6, <1>10 DEF SessionInv, ServeInv
  <2>2. Ahead(i)' = 1
    BY <1>4, <1>11 DEF Ahead
  <2>3. FlowInv(i)'
    BY <1>4, <1>11, <2>1, <2>2 DEF FlowInv
  <2>4. IdxInv(i)'
    BY <1>10 DEF IdxInv
  <2>5. view'[i] = Nobody
    BY <1>1, <1>2, <1>12 DEF SessionInv, SlotInv, ViewInv
  <2>6. ViewInv(i)'
    BY <1>4, <1>10, <1>11, <1>14, <2>5 DEF ViewInv
  <2>. QED
    BY <2>3, <2>4, <2>6 DEF SlotInv
<1>19. ASSUME NEW j \in Slots, j # i
       PROVE  SlotInv(j)'
  BY <1>2, <1>13, <1>19, StillKeeps DEF SessionInv, Untouched
<1>. QED
  BY <1>17, <1>18, <1>19 DEF SessionInv

\* Closing descriptor f ends the connection that has it, and no other.
LEMMA ClosedFd ==
  ASSUME IInv, NEW f, f \in Fds \cup {None}, CloseFd(f), UNCHANGED <<backlog, fd, pending>>
  PROVE  \A j \in Slots :
           /\ Live(j)' <=> Live(j) /\ fd[j] # f
           /\ Live(j)' => owner'[fd[j]] = owner[fd[j]]
<1>1. CASE f = None
  BY <1>1, Indices DEF CloseFd, Live
<1>2. CASE f \in Fds
  <2>1. /\ \A g \in Fds : g # f => owner'[g] = owner[g] /\ watch'[g] = watch[g]
        /\ watch'[f] = None
    BY <1>2, CloseFdEffect
  <2>2. fd \in [Slots -> Fds \cup {None}]
    BY DEF IInv, TypeOK
  <2>3. ASSUME NEW j \in Slots
        PROVE  /\ Live(j)' <=> Live(j) /\ fd[j] # f
               /\ Live(j)' => owner'[fd[j]] = owner[fd[j]]
    <3>1. CASE fd[j] = f
      BY <2>1, <3>1, Indices DEF Live
    <3>2. CASE fd[j] # f
      BY <2>1, <2>2, <3>2, Indices DEF Live
    <3>. QED
      BY <3>1, <3>2
  <2>. QED
    BY <2>3
<1>. QED
  BY <1>1, <1>2

\* A task follows the others of its client.
LEMMA PushSession ==
  ASSUME IInv, IInv', PeerInv, SessionInv,
         NEW i \in Slots, PollExhausted(i) \/ PollEnd(i) \/ PollRead(i)
  PROVE  SessionInv'
<1>. DEFINE p == owner[fd[i]]
            f == fd[i]
<1>0. /\ poll.pc = "batch" /\ i \in poll.batch /\ f \notin pending /\ f \in Fds /\ Live(i)
      /\ p \in Peers /\ Next
  BY EventFacts
     DEF PollExhausted, PollEnd, PollRead, ReadEvent, IInv, Next, Poll
<1>1. /\ UNCHANGED <<fd, idx, worker, view, delivered, met, pending, backlog>>
  BY DEF PollExhausted, PollEnd, PollRead, tlsVars, kernelVars, userVars
<1>2. /\ owner \in [Fds -> Peers \cup {Nobody}] /\ watch \in [Fds -> Slots \cup {None}]
      /\ fd \in [Slots -> Fds \cup {None}] /\ taken \in [Peers -> 0 .. MaxSend]
      /\ sent \in [Peers -> 0 .. MaxSend] /\ MaxSend \in Nat
      /\ delivered \in [Peers -> 0 .. MaxSend]
  BY SocketAssumption DEF IInv, TypeOK
<1>3. PICK task \in Task :
        /\ Push(i, task) /\ task.peer = p
        /\ \/ /\ task.type = "DISCONNECTION" /\ taken' = taken /\ CloseFd(f)
           \/ /\ task.type = "DATA" /\ task.unit = taken[p] + 1
              /\ taken' = [taken EXCEPT ![p] = @ + 1] /\ UNCHANGED <<owner, watch>>
  <2>1. CASE PollExhausted(i) \/ PollEnd(i)
    <3>. DEFINE task == [type |-> "DISCONNECTION", peer |-> p, unit |-> 0]
    <3>1. task \in Task
      BY <1>0, <1>2 DEF Task
    <3>2. Push(i, task) /\ taken' = taken /\ CloseFd(f)
      BY <2>1 DEF PollExhausted, PollEnd, Drop
    <3>. QED
      BY <3>1, <3>2
  <2>2. CASE PollRead(i)
    <3>. DEFINE task == [type |-> "DATA", peer |-> p, unit |-> taken[p] + 1]
    <3>1. taken[p] < sent[p]
      BY <2>2 DEF PollRead
    <3>2. taken[p] + 1 \in 0 .. MaxSend
      BY <1>0, <1>2, <3>1
    <3>3. task \in Task
      BY <1>0, <3>2 DEF Task
    <3>4. Push(i, task) /\ taken' = [taken EXCEPT ![p] = @ + 1] /\ UNCHANGED <<owner, watch>>
      BY <2>2 DEF PollRead, kernelVars
    <3>. QED
      BY <3>3, <3>4
  <2>. QED
    BY <2>1, <2>2
<1>4. /\ Len(Pipe(i)') = Len(Pipe(i)) + 1
      /\ \A k \in 1 .. Len(Pipe(i)) : Pipe(i)'[k] = Pipe(i)[k]
      /\ Pipe(i)'[Len(Pipe(i)) + 1] = task
      /\ \A j \in Slots : j # i => Pipe(j)' = Pipe(j)
  BY <1>1, <1>3, PipePush
<1>5. /\ Len(Pipe(i)) \in Nat /\ Pipe(i) \in Seq(Task) /\ Pipe(i)' # << >>
      /\ Pipe(i) # << >> => Len(Pipe(i)) >= 1
      /\ Pipe(i) = << >> => Len(Pipe(i)) = 0
  <2>1. Pipe(i) \in Seq(Task) /\ Len(Pipe(i)) \in Nat
    BY PipeBoth DEF PipeSays
  <2>2. Len(<< >>) = 0 /\ (Pipe(i) # << >> => Len(Pipe(i)) \in Nat \ {0})
    BY <2>1, EmptySeq
  <2>. QED
    BY <1>4, <2>1, <2>2
<1>6. Assigned(i) /\ Serves(i, p)
  BY <1>0 DEF Assigned, Serves
<1>7. Serving' => Serving
  BY <1>0, ServingStays
<1>8. \A j \in Slots :
        /\ Live(j)' => Live(j) /\ owner'[fd[j]] = owner[fd[j]]
        /\ j # i => (Live(j)' <=> Live(j))
        /\ task.type = "DISCONNECTION" => ~ Live(i)'
  <2>1. CASE CloseFd(f)
    <3>1. \A j \in Slots :
            /\ Live(j)' <=> Live(j) /\ fd[j] # f
            /\ Live(j)' => owner'[fd[j]] = owner[fd[j]]
      BY <1>0, <1>1, <2>1, ClosedFd
    <3>2. \A j \in Slots : j # i /\ Live(j) => fd[j] # f
      BY <1>0 DEF Live
    <3>. QED
      BY <3>1, <3>2
  <2>2. CASE UNCHANGED <<owner, watch>> /\ task.type = "DATA"
    BY <1>1, <2>2 DEF Live
  <2>. QED
    BY <1>3, <2>1, <2>2
<1>9. ASSUME NEW j \in Slots, j # i
      PROVE  Still(j)
  BY <1>1, <1>4, <1>7, <1>8, <1>9 DEF Still, Assigned, Unassigned
<1>10. \A q \in Peers : q # p => Untouched(q)
  BY <1>1, <1>2, <1>3 DEF Untouched
<1>11. ASSUME NEW q \in Peers, Serves(i, q)'
       PROVE  Serves(i, q)
  <2>1. CASE Assigned(i)' /\ owner'[fd'[i]] = q
    BY <1>1, <1>8, <2>1 DEF Assigned, Serves
  <2>2. ASSUME NEW k \in 1 .. Len(Pipe(i)'), Pipe(i)'[k].peer = q
        PROVE  Serves(i, q)
    <3>1. k \in 1 .. Len(Pipe(i)) \/ k = Len(Pipe(i)) + 1
      BY <1>4, <1>5
    <3>. QED
      BY <1>3, <1>4, <1>6, <2>2, <3>1 DEF Serves
  <2>. QED
    BY <1>11, <2>1, <2>2 DEF Serves
<1>12. ServeInv'
  <2>1. \A j \in Slots, q \in Peers : Serves(j, q)' => Serves(j, q)
    BY <1>9, <1>11, StillServes
  <2>2. \A q \in Peers : Newcomer(q) => q # p
    BY <1>6 DEF SessionInv, ServeInv
  <2>. QED
    BY <1>0, <1>10, <2>1, <2>2, ServeKept DEF SessionInv
<1>13. ASSUME NEW j \in Slots, j # i
       PROVE  SlotInv(j)'
  <2>1. \A q \in Peers : Serves(j, q) => q # p
    BY <1>6, <1>13 DEF SessionInv, ServeInv
  <2>. QED
    BY <1>9, <1>10, <1>13, <2>1, StillKeeps DEF SessionInv
<1>14. Ahead(i)' = Ahead(i) /\ Ahead(i) \in {0, 1} /\ (Pipe(i) = << >> => Ahead(i) = 0)
  BY <1>3, <1>4, <1>5 DEF Ahead
<1>15. FlowInv(i)'
  <2>. DEFINE n == Len(Pipe(i))
              a == Ahead(i)
  <2>0. FlowInv(i)
    BY DEF SessionInv, SlotInv
  <2>1. taken[p] = delivered[p] + n - a /\ taken[p] \in Nat /\ delivered[p] \in Nat
    BY <1>0, <1>2, <1>6, <2>0 DEF FlowInv
  <2>2. ASSUME NEW k \in 1 .. Len(Pipe(i)')
        PROVE  /\ Pipe(i)'[k].type = "CONNECTION" => k = 1 /\ Pipe(i)'[k].peer \notin met'
               /\ Pipe(i)'[k].type = "DATA" =>
                    Pipe(i)'[k].unit = delivered'[Pipe(i)'[k].peer] + k - a
    <3>1. CASE k \in 1 .. n
      BY <1>1, <1>4, <2>0, <3>1 DEF FlowInv
    <3>2. CASE k = n + 1
      <4>1. Pipe(i)'[k] = task
        BY <1>4, <3>2
      <4>2. task.type = "DATA" => task.unit = delivered[p] + k - a
        BY <1>3, <1>5, <1>14, <2>1, <3>2
      <4>. QED
        BY <1>1, <1>3, <4>1, <4>2
    <3>. QED
      BY <1>4, <1>5, <3>1, <3>2
  <2>3. Assigned(i)' =>
          taken'[owner'[fd'[i]]] = delivered'[owner'[fd'[i]]] + Len(Pipe(i)') - a
    <3>. SUFFICES ASSUME Assigned(i)'
                  PROVE  taken'[p] = delivered[p] + (n + 1) - a
      BY <1>1, <1>4, <1>8 DEF Assigned
    <3>1. taken'[p] = taken[p] + 1
      BY <1>0, <1>2, <1>3, <1>8 DEF Assigned
    <3>. QED
      BY <1>5, <1>14, <2>1, <3>1
  <2>. QED
    BY <1>14, <2>2, <2>3 DEF FlowInv
<1>16. IdxInv(i)'
  BY <1>0, <1>1, <1>7, Indices DEF SessionInv, SlotInv, IdxInv, Unassigned
<1>17. ViewInv(i)'
  <2>1. Mine(i)' = Mine(i)
    BY <1>1 DEF Mine
  <2>2. ~ Unassigned(i)' /\ worker'[i].pc # "release"
    BY <1>0, <1>1, Indices DEF Unassigned, IInv, EndInv, Ending
  <2>3. CASE Pipe(i) = << >>
    <3>1. Pipe(i)'[1] = task
      BY <1>4, <1>5, <2>3
    <3>. QED
      BY <1>1, <1>3, <1>5, <1>6, <2>1, <2>2, <2>3, <3>1 DEF SessionInv, SlotInv, ViewInv
  <2>4. CASE Pipe(i) # << >>
    <3>1. Pipe(i)'[1] = Pipe(i)[1]
      BY <1>4, <1>5, <2>4
    <3>. QED
      BY <1>1, <1>5, <2>1, <2>2, <2>4, <3>1 DEF SessionInv, SlotInv, ViewInv
  <2>. QED
    BY <2>3, <2>4
<1>. QED
  BY <1>12, <1>13, <1>15, <1>16, <1>17 DEF SessionInv, SlotInv

\* A handshake fails: the connection had no client yet.
LEMMA ShakeEndSession ==
  ASSUME IInv, IInv', PeerInv, SessionInv, NEW i \in Slots, PollShakeEnd(i)
  PROVE  SessionInv'
<1>. DEFINE f == fd[i]
<1>0. /\ poll.pc = "batch" /\ f \in pending /\ f \in Fds /\ Live(i) /\ Next
      /\ Joinable(i) /\ CloseFd(f) /\ pending' = pending \ {f}
  BY EventFacts DEF PollShakeEnd, ShakeEvent, IInv, Next, Poll
<1>1. /\ worker \in [Slots -> WorkerState] /\ fd \in [Slots -> Fds \cup {None}]
      /\ idx \in [Slots -> Slots \cup {None}]
  BY DEF IInv, TypeOK
<1>2. /\ UNCHANGED <<queue, view, taken, delivered, met, backlog, started>>
      /\ worker'[i] = Idle /\ fd'[i] = None /\ idx'[i] = None
      /\ \A j \in Slots : j # i => worker'[j] = worker[j] /\ fd'[j] = fd[j] /\ idx'[j] = idx[j]
  BY <1>1 DEF PollShakeEnd, userVars
<1>3. \A g \in Fds : g # f => owner'[g] = owner[g] /\ watch'[g] = watch[g]
  BY <1>0, <1>2, CloseFdEffect
<1>4. Serving /\ Unassigned(i)
  BY <1>0 DEF Serving, Unassigned
<1>5. ASSUME NEW j \in Slots, j # i
      PROVE  Still(j)
  <2>1. Pipe(j)' = Pipe(j)
    BY <1>2, <1>5, PipeSame
  <2>2. fd[j] = f => ~ Live(j) /\ ~ Live(j)'
    <3>1. watch'[f] = None
      BY <1>0, <1>2, CloseFdEffect
    <3>. QED
      BY <1>0, <1>2, <1>5, <3>1, Indices DEF Live
  <2>3. fd[j] # f => (Live(j)' <=> Live(j)) /\ (Live(j) => owner'[fd[j]] = owner[fd[j]])
    BY <1>1, <1>2, <1>3, <1>5 DEF Live
  <2>. QED
    BY <1>0, <1>2, <1>4, <1>5, <2>1, <2>2, <2>3 DEF Still, Assigned, Unassigned
<1>6. Pipe(i)' = Pipe(i) /\ Pipe(i) = << >>
  <2>1. queue[i] = << >> /\ worker[i].pc # "call"
    BY <1>0, <1>4 DEF IInv, FreshInv
  <2>2. worker'[i].pc # "call"
    BY <1>2 DEF Idle
  <2>. QED
    BY <1>2, <2>1, <2>2 DEF Pipe
<1>7. ~ Assigned(i)' /\ ~ Assigned(i)
  BY <1>0, <1>2 DEF Assigned, Live
<1>8. \A q \in Peers : Untouched(q)
  BY <1>2 DEF Untouched
<1>9. ServeInv'
  <2>1. \A q \in Peers : Serves(i, q)' => Serves(i, q)
    BY <1>6, <1>7 DEF Serves
  <2>2. \A j \in Slots, q \in Peers : Serves(j, q)' => Serves(j, q)
    BY <1>5, <2>1, StillServes
  <2>. QED
    BY <1>0, <1>8, <2>2, ServeKept DEF SessionInv
<1>10. SlotInv(i)'
  <2>1. Len(Pipe(i)') = 0
    BY <1>6
  <2>2. FlowInv(i)'
    BY <1>7, <2>1 DEF FlowInv
  <2>3. IdxInv(i)'
    BY <1>2 DEF IdxInv, Unassigned, Idle
  <2>4. view'[i] = Nobody
    BY <1>2, <1>4 DEF SessionInv, SlotInv, ViewInv
  <2>5. ViewInv(i)'
    BY <1>6, <1>7, <2>4 DEF ViewInv
  <2>. QED
    BY <2>2, <2>3, <2>5 DEF SlotInv
<1>11. ASSUME NEW j \in Slots, j # i
       PROVE  SlotInv(j)'
  BY <1>5, <1>8, <1>11, StillKeeps DEF SessionInv
<1>. QED
  BY <1>9, <1>10, <1>11 DEF SessionInv

-----------------------------------------------------------------------------
(* Steps of the workers and of Cleanup.                                    *)

\* A worker looks for its next task, or ends.
LEMMA WorkerQuietSession ==
  ASSUME IInv, IInv', PeerInv, SessionInv,
         NEW i \in Slots, WorkerCheck(i) \/ WorkerTake(i) \/ WorkerStop(i)
  PROVE  SessionInv'
<1>0. worker \in [Slots -> WorkerState] /\ queue \in [Slots -> Seq(Task)]
  BY DEF IInv, TypeOK
<1>1. /\ UNCHANGED <<fd, idx, view, owner, watch, pending, taken, delivered, met, poll, started>>
      /\ \A j \in Slots : j # i => worker'[j] = worker[j] /\ queue'[j] = queue[j]
      /\ worker[i].pc # "call" /\ worker'[i].pc # "release"
  BY <1>0 DEF WorkerCheck, WorkerTake, WorkerStop, WorkerState, tlsVars, clientVars, kernelVars,
              serverVars, userVars
<1>2. Next
  BY DEF Next, Worker
<1>3. Pipe(i)' = Pipe(i) /\ worker'[i].idx \in {worker[i].idx, idx[i]}
      /\ (worker'[i].pc = "call" => worker'[i].idx = idx[i])
  <2>1. CASE WorkerTake(i) /\ queue[i] # << >>
    <3>1. /\ worker'[i].pc = "call" /\ worker'[i].task = Head(queue[i])
          /\ worker'[i].idx = idx[i] /\ queue'[i] = Tail(queue[i])
      BY <1>0, <2>1 DEF WorkerTake
    <3>. QED
      BY <1>1, <2>1, <3>1, PipeTake
  <2>2. CASE ~ (WorkerTake(i) /\ queue[i] # << >>)
    <3>1. worker'[i].pc # "call" /\ worker'[i].idx = worker[i].idx /\ queue' = queue
      BY <1>0, <2>2 DEF WorkerCheck, WorkerTake, WorkerStop, WorkerState
    <3>. QED
      BY <1>1, <3>1, PipeSame
  <2>. QED
    BY <2>1, <2>2
<1>4. \A j \in Slots : j # i => Pipe(j)' = Pipe(j)
  BY <1>1, PipeSame
<1>5. \A j \in Slots : Still(j)
  BY <1>1, <1>3, <1>4 DEF Still, Assigned, Unassigned, Live, Serving
<1>6. \A q \in Peers : Untouched(q)
  BY <1>1 DEF Untouched
<1>. QED
  BY <1>2, <1>5, <1>6, AllStill

\* While the server runs, a worker that calls back has a client's index.
LEMMA CallHasIndex ==
  ASSUME IInv, SessionInv, NEW i \in Slots, worker[i].pc = "call", Serving
  PROVE  worker[i].idx = i /\ ~ Unassigned(i)
<1>1. ~ Unassigned(i)
  BY DEF Serving, IInv, FreshInv
<1>. QED
  BY <1>1 DEF SessionInv, SlotInv, IdxInv

\* What a worker's callback is about: the first task of its pipe.
LEMMA CallFacts ==
  ASSUME IInv, SessionInv, NEW i \in Slots, worker[i].pc = "call"
  PROVE  LET t == worker[i].task IN
         /\ t \in Task /\ t.peer \in Peers /\ Serves(i, t.peer)
         /\ Pipe(i) # << >> /\ Pipe(i)[1] = t /\ 1 \in 1 .. Len(Pipe(i))
         /\ Ahead(i) = IF t.type = "CONNECTION" THEN 1 ELSE 0
         /\ t.type = "CONNECTION" => t.peer \notin met
         /\ t.type = "DATA" => t.unit = delivered[t.peer] + 1
         /\ delivered[t.peer] \in Nat
         /\ worker[i].idx \in {i, None}
         /\ worker[i].idx = i =>
              view[i] = IF t.type = "CONNECTION" THEN Nobody ELSE t.peer
<1>. DEFINE t == worker[i].task
<1>1. /\ t \in Task /\ Pipe(i) # << >> /\ Pipe(i)[1] = t
      /\ Len(Pipe(i)) = Len(queue[i]) + 1 /\ Len(queue[i]) \in Nat
  BY PipeBoth DEF PipeSays
<1>2. t.peer \in Peers
  BY <1>1 DEF Task
<1>3. 1 \in 1 .. Len(Pipe(i)) /\ Serves(i, t.peer)
  BY <1>1 DEF Serves
<1>4. Ahead(i) = IF t.type = "CONNECTION" THEN 1 ELSE 0
  BY <1>1 DEF Ahead
<1>5. delivered[t.peer] \in Nat
  BY <1>2, SocketAssumption DEF IInv, TypeOK
<1>6. /\ t.type = "CONNECTION" => t.peer \notin met
      /\ t.type = "DATA" => t.unit = delivered[t.peer] + 1
  BY <1>1, <1>3, <1>4, <1>5 DEF SessionInv, SlotInv, FlowInv
<1>7. /\ worker[i].idx \in {i, None}
      /\ worker[i].idx = i => view[i] = IF t.type = "CONNECTION" THEN Nobody ELSE t.peer
  BY <1>1 DEF SessionInv, SlotInv, IdxInv, ViewInv, Mine
<1>. QED
  BY <1>1, <1>2, <1>3, <1>4, <1>5, <1>6, <1>7

\* A worker calls back.
LEMMA CallSession ==
  ASSUME IInv, IInv', PeerInv, SessionInv, NEW i \in Slots,
         WorkerConnect(i) \/ WorkerData(i) \/ WorkerDisconnect(i)
  PROVE  SessionInv'
<1>. DEFINE t == worker[i].task
            p == t.peer
<1>0. /\ worker \in [Slots -> WorkerState] /\ worker[i].pc = "call" /\ Next
      /\ delivered \in [Peers -> 0 .. MaxSend] /\ view \in [Slots -> Peers \cup {Nobody}]
      /\ taken \in [Peers -> 0 .. MaxSend] /\ MaxSend \in Nat
  BY SocketAssumption DEF WorkerConnect, WorkerData, WorkerDisconnect, IInv, TypeOK, Next, Worker
<1>1. /\ p \in Peers /\ Serves(i, p)
      /\ Pipe(i) # << >> /\ Pipe(i)[1] = t /\ 1 \in 1 .. Len(Pipe(i))
      /\ Ahead(i) = IF t.type = "CONNECTION" THEN 1 ELSE 0
      /\ t.type = "DATA" => t.unit = delivered[p] + 1
      /\ delivered[p] \in Nat
      /\ worker[i].idx \in {i, None}
      /\ worker[i].idx = i => view[i] = IF t.type = "CONNECTION" THEN Nobody ELSE p
  BY <1>0, CallFacts
<1>2. /\ UNCHANGED <<fd, idx, queue, owner, watch, pending, taken, poll, started>>
      /\ \A j \in Slots : j # i => worker'[j] = worker[j]
      /\ worker'[i].pc # "call" /\ worker'[i].idx = None
      /\ worker'[i].pc = "release" => t.type = "DISCONNECTION"
      /\ t.type \in {"CONNECTION", "DATA", "DISCONNECTION"}
      /\ t.type = "CONNECTION" => met' = met \cup {p}
      /\ t.type # "CONNECTION" => met' = met
      /\ t.type = "DATA" => delivered' = [delivered EXCEPT ![p] = t.unit]
      /\ t.type # "DATA" => delivered' = delivered
      /\ \A j \in Slots : j # worker[i].idx => view'[j] = view[j]
      /\ worker[i].idx = i =>
           view'[i] = IF t.type = "DISCONNECTION" THEN Nobody ELSE p
  BY <1>0, <1>1 DEF WorkerConnect, WorkerData, WorkerDisconnect, Idle, tlsVars, clientVars,
     kernelVars, serverVars
<1>3. /\ Len(Pipe(i)) = Len(Pipe(i)') + 1 /\ Len(Pipe(i)') \in Nat
      /\ \A k \in 1 .. Len(Pipe(i)') :
           Pipe(i)'[k] = Pipe(i)[k + 1] /\ k + 1 \in 1 .. Len(Pipe(i))
      /\ Pipe(i)' \in Seq(Task)
  BY <1>0, <1>2, PipePop, PipeBoth DEF PipeSays
<1>. HIDE DEF t, p
<1>4. \A j \in Slots : j # i => Pipe(j)' = Pipe(j)
  BY <1>2, PipeSame
<1>5. ASSUME NEW j \in Slots
      PROVE  /\ Assigned(j)' <=> Assigned(j)
             /\ Unassigned(j)' <=> Unassigned(j)
             /\ Serving' <=> Serving
             /\ owner'[fd'[j]] = owner[fd[j]]
  BY <1>2 DEF Assigned, Unassigned, Live, Serving
<1>6. ASSUME NEW j \in Slots, j # i
      PROVE  Still(j)
  <2>1. view'[j] = view[j]
    BY <1>1, <1>2, <1>6, Indices
  <2>. QED
    BY <1>2, <1>4, <1>5, <1>6, <2>1 DEF Still
<1>7. \A q \in Peers : q # p => Untouched(q)
  BY <1>0, <1>2 DEF Untouched
<1>8. ASSUME NEW k \in 1 .. Len(Pipe(i)')
      PROVE  Pipe(i)'[k].peer = p /\ Pipe(i)'[k].type # "CONNECTION"
  <2>1. Pipe(i)'[k] = Pipe(i)[k + 1] /\ k + 1 \in 1 .. Len(Pipe(i)) /\ k + 1 # 1
    BY <1>3
  <2>2. Pipe(i)'[k] \in Task
    BY <1>3, ElementOfSeq
  <2>3. Pipe(i)[k + 1].peer \in Peers
    BY <2>1, <2>2 DEF Task
  <2>4. Serves(i, Pipe(i)[k + 1].peer)
    BY <2>1 DEF Serves
  <2>5. Pipe(i)[k + 1].peer = p
    BY <1>1, <2>3, <2>4 DEF SessionInv, ServeInv
  <2>6. Pipe(i)[k + 1].type # "CONNECTION"
    BY <2>1 DEF SessionInv, SlotInv, FlowInv
  <2>. QED
    BY <2>1, <2>5, <2>6
<1>9. ServeInv'
  <2>1. \A q \in Peers : Serves(i, q)' => Serves(i, q)
    BY <1>1, <1>5, <1>8 DEF Serves
  <2>2. \A j \in Slots, q \in Peers : Serves(j, q)' => Serves(j, q)
    BY <1>6, <2>1, StillServes
  <2>3. \A q \in Peers : Newcomer(q) => q # p
    BY <1>1 DEF SessionInv, ServeInv
  <2>. QED
    BY <1>0, <1>7, <2>2, <2>3, ServeKept DEF SessionInv
<1>10. ASSUME NEW j \in Slots, j # i
       PROVE  SlotInv(j)'
  <2>1. \A q \in Peers : Serves(j, q) => q # p
    BY <1>1, <1>10 DEF SessionInv, ServeInv
  <2>. QED
    BY <1>6, <1>7, <1>10, <2>1, StillKeeps DEF SessionInv
<1>11. Pipe(i)' # << >> => Len(Pipe(i)') >= 1
  BY <1>3, EmptySeq
<1>12. Ahead(i)' = 0
  BY <1>8, <1>11 DEF Ahead
<1>13. Assigned(i) => owner[fd[i]] = p
  <2>1. Assigned(i) => owner[fd[i]] \in Peers
    <3>1. Assigned(i) => fd[i] \in Fds /\ watch[fd[i]] # None
      BY Indices DEF Assigned, Live, IInv, TypeOK
    <3>2. \A f \in Fds : watch[f] # None => owner[f] \in Peers
      BY DEF IInv, TypeOK, FdInv
    <3>. QED
      BY Zenon, <3>1, <3>2
  <2>. QED
    BY <1>1, <2>1 DEF SessionInv, ServeInv, Serves
<1>14. FlowInv(i)'
  <2>. DEFINE a == Ahead(i)
              n == Len(Pipe(i))
  <2>0. FlowInv(i) /\ a \in {0, 1} /\ (a = 0 <=> t.type # "CONNECTION")
    BY <1>1 DEF SessionInv, SlotInv
  <2>1. /\ a = 1 => delivered'[p] = delivered[p]
        /\ a = 0 /\ t.type # "DISCONNECTION" => delivered'[p] = delivered[p] + 1
    BY <1>0, <1>1, <1>2, <2>0
  <2>2. t.type = "DISCONNECTION" => Len(Pipe(i)') = 0 /\ ~ Assigned(i)
    <3>1. t.type = "DISCONNECTION" => queue[i] = << >> /\ ~ Live(i)
      BY DEF IInv, EndInv, Ending, t
    <3>2. worker'[i].pc # "call" => Pipe(i)' = queue'[i]
      BY PipeBoth DEF PipeSays
    <3>. QED
      BY <1>2, <3>1, <3>2 DEF Assigned
  <2>3. ASSUME NEW k \in 1 .. Len(Pipe(i)')
        PROVE  Pipe(i)'[k].type = "DATA" => Pipe(i)'[k].unit = delivered'[p] + k
    <3>1. /\ Pipe(i)'[k] = Pipe(i)[k + 1] /\ k + 1 \in 1 .. Len(Pipe(i)) /\ k \in Nat
          /\ t.type # "DISCONNECTION" /\ Pipe(i)[k + 1].peer = p
      BY <1>3, <1>8, <2>2
    <3>2. Pipe(i)[k + 1].type = "DATA" =>
            Pipe(i)[k + 1].unit = delivered[p] + (k + 1) - a
      BY <2>0, <3>1 DEF FlowInv
    <3>3. delivered[p] + (k + 1) - a = delivered'[p] + k
      <4>1. CASE a = 0
        <5>1. delivered'[p] = delivered[p] + 1
          BY <2>1, <3>1, <4>1
        <5>2. delivered[p] \in Nat /\ k \in Nat
          BY <1>1, <3>1
        <5>. QED
          BY <4>1, <5>1, <5>2
      <4>2. CASE a = 1
        BY <1>1, <2>1, <3>1, <4>2
      <4>. QED
        BY <2>0, <4>1, <4>2
    <3>. QED
      BY <3>1, <3>2, <3>3
  <2>4. Assigned(i)' => taken'[p] = delivered'[p] + Len(Pipe(i)')
    <3>1. Assigned(i) => taken[p] = delivered[p] + n - a /\ t.type # "DISCONNECTION"
      BY <1>13, <2>0, <2>2 DEF FlowInv
    <3>2. taken' = taken /\ n = Len(Pipe(i)') + 1 /\ Len(Pipe(i)') \in Nat
      BY <1>2, <1>3
    <3>3. Assigned(i)' => Assigned(i)
      BY <1>5
    <3>4. Assigned(i) => taken[p] = delivered'[p] + Len(Pipe(i)')
      <4>1. CASE a = 0
        BY <1>1, <2>1, <3>1, <3>2, <4>1
      <4>2. CASE a = 1
        BY <1>1, <2>1, <3>1, <3>2, <4>2
      <4>. QED
        BY <2>0, <4>1, <4>2
    <3>. SUFFICES ASSUME Assigned(i)'
                  PROVE  taken'[p] = delivered'[p] + Len(Pipe(i)')
      OBVIOUS
    <3>5. taken'[p] = taken[p]
      BY <3>2
    <3>6. taken[p] = delivered'[p] + Len(Pipe(i)')
      BY <3>3, <3>4
    <3>. QED
      BY <3>5, <3>6
  <2>5. delivered'[p] \in Nat
    BY <1>1, SocketAssumption DEF IInv, TypeOK
  <2>. HIDE DEF a, n
  <2>6. \A k \in 1 .. Len(Pipe(i)') : delivered'[p] + k - 0 = delivered'[p] + k
    BY <2>5
  <2>7. delivered'[p] + Len(Pipe(i)') - 0 = delivered'[p] + Len(Pipe(i)')
    BY <1>3, <2>5
  <2>8. Assigned(i)' => owner'[fd'[i]] = p
    BY <1>5, <1>13
  <2>. QED
    BY <1>8, <1>12, <2>3, <2>4, <2>6, <2>7, <2>8 DEF FlowInv
<1>15. IdxInv(i)'
  BY <1>2, <1>5 DEF SessionInv, SlotInv, IdxInv
<1>16. ViewInv(i)'
  <2>1. Mine(i)' => worker[i].idx = i
    BY <1>0, <1>2 DEF Mine, SessionInv, SlotInv, IdxInv
  <2>2. Mine(i)' /\ (Pipe(i)' # << >> \/ Assigned(i)') => view'[i] = p
    <3>1. t.type = "DISCONNECTION" => Pipe(i)' = << >> /\ ~ Assigned(i)
      <4>1. t.type = "DISCONNECTION" => queue[i] = << >> /\ ~ Live(i)
        BY DEF IInv, EndInv, Ending, t
      <4>2. worker'[i].pc # "call" => Pipe(i)' = queue'[i]
        BY PipeBoth DEF PipeSays
      <4>. QED
        BY <1>2, <4>1, <4>2 DEF Assigned
    <3>. QED
      BY <1>2, <1>5, <2>1, <3>1
  <2>3. Pipe(i)' # << >> => Pipe(i)'[1].peer = p /\ Pipe(i)'[1].type # "CONNECTION"
    BY <1>3, <1>8, <1>11
  <2>4. Serving' => ~ Unassigned(i)' /\ worker[i].idx = i
    BY <1>0, <1>5, CallHasIndex
  <2>5. worker'[i].pc = "release" /\ Serving' => view'[i] = Nobody
    BY <1>2, <2>4
  <2>6. Assigned(i)' => owner'[fd'[i]] = p
    BY <1>5, <1>13
  <2>. QED
    BY <2>2, <2>3, <2>4, <2>5, <2>6 DEF ViewInv
<1>. QED
  BY <1>9, <1>10, <1>14, <1>15, <1>16 DEF SessionInv, SlotInv

\* A connection whose descriptor was closed is made available again.
LEMMA FreedSession ==
  ASSUME IInv, IInv', PeerInv, SessionInv, Next, NEW i \in Slots, ~ Live(i),
         fd' = [fd EXCEPT ![i] = None], idx' = [idx EXCEPT ![i] = None],
         UNCHANGED <<queue, view, owner, watch, pending, taken, delivered, met>>,
         \A j \in Slots : /\ worker'[j].task = worker[j].task /\ worker'[j].idx = worker[j].idx
                          /\ worker'[j].pc = "call" <=> worker[j].pc = "call"
                          /\ j # i => worker'[j] = worker[j],
         Serving => Unassigned(i) \/ worker[i].pc = "release"
  PROVE  SessionInv'
<1>1. /\ fd'[i] = None /\ idx'[i] = None
      /\ \A j \in Slots : j # i => fd'[j] = fd[j] /\ idx'[j] = idx[j]
  BY DEF IInv, TypeOK
<1>2. \A j \in Slots : Pipe(j)' = Pipe(j)
  BY PipeSame
<1>3. Serving' => Serving
  BY ServingStays
<1>4. \A p \in Peers : Untouched(p)
  BY DEF Untouched
<1>5. ASSUME NEW j \in Slots, j # i
      PROVE  Still(j)
  BY <1>1, <1>2, <1>3, <1>5 DEF Still, Assigned, Unassigned, Live
<1>6. ~ Assigned(i)' /\ ~ Assigned(i) /\ Unassigned(i)'
  BY <1>1 DEF Assigned, Unassigned, Live
<1>7. ServeInv'
  <2>1. \A p \in Peers : Serves(i, p)' => Serves(i, p)
    BY <1>2, <1>6 DEF Serves
  <2>2. \A j \in Slots, p \in Peers : Serves(j, p)' => Serves(j, p)
    BY <1>5, <2>1, StillServes
  <2>. QED
    BY <1>4, <2>2, ServeKept DEF SessionInv
<1>8. SlotInv(i)'
  <2>0. FlowInv(i) /\ IdxInv(i) /\ ViewInv(i)
    BY DEF SessionInv, SlotInv
  <2>1. FlowInv(i)'
    BY <1>2, <1>6, <2>0 DEF FlowInv, Ahead
  <2>2. IdxInv(i)'
    BY <1>1, <1>6, <2>0, Indices DEF IdxInv
  <2>3. ViewInv(i)'
    <3>1. Mine(i)' => Mine(i)
      BY <1>1, Indices DEF Mine
    <3>. QED
      BY <1>2, <1>3, <1>6, <2>0, <3>1 DEF ViewInv
  <2>. QED
    BY <2>1, <2>2, <2>3 DEF SlotInv
<1>9. ASSUME NEW j \in Slots, j # i
      PROVE  SlotInv(j)'
  BY <1>4, <1>5, <1>9, StillKeeps DEF SessionInv
<1>. QED
  BY <1>7, <1>8, <1>9 DEF SessionInv

\* A worker, or Cleanup, frees a connection.
LEMMA FreeSession ==
  ASSUME IInv, IInv', PeerInv, SessionInv,
         CleanupFree \/ \E i \in Slots : WorkerRelease(i)
  PROVE  SessionInv'
<1>1. CASE CleanupFree
  <2>1. app.slot \in Slots /\ ~ Live(app.slot) /\ poll.pc = "off"
    BY <1>1 DEF CleanupFree, IInv, TypeOK, AppState, CleanupInv
  <2>2. Serving => Unassigned(app.slot)
    BY <2>1 DEF Serving, Unassigned, IInv, FreshInv
  <2>3. Next
    BY <1>1 DEF Next, Cleanup
  <2>4. /\ fd' = [fd EXCEPT ![app.slot] = None] /\ idx' = [idx EXCEPT ![app.slot] = None]
        /\ UNCHANGED <<queue, view, owner, watch, pending, taken, delivered, met, worker>>
    BY <1>1 DEF CleanupFree, tlsVars, clientVars, kernelVars, userVars
  <2>. QED
    BY <2>1, <2>2, <2>3, <2>4, FreedSession
<1>2. ASSUME NEW i \in Slots, WorkerRelease(i)
      PROVE  SessionInv'
  <2>1. ~ Live(i) /\ worker[i].pc = "release"
    BY <1>2 DEF WorkerRelease, IInv, EndInv, Ending
  <2>2. Next
    BY <1>2 DEF Next, Worker
  <2>3. /\ fd' = [fd EXCEPT ![i] = None] /\ idx' = [idx EXCEPT ![i] = None]
        /\ UNCHANGED <<queue, view, owner, watch, pending, taken, delivered, met>>
    BY <1>2 DEF WorkerRelease, tlsVars, clientVars, kernelVars, userVars
  <2>4. \A j \in Slots : /\ worker'[j].task = worker[j].task /\ worker'[j].idx = worker[j].idx
                         /\ worker'[j].pc = "call" <=> worker[j].pc = "call"
                         /\ j # i => worker'[j] = worker[j]
    <3>1. worker \in [Slots -> WorkerState]
      BY DEF IInv, TypeOK
    <3>. QED
      BY <1>2, <3>1 DEF WorkerRelease, WorkerState
  <2>. QED
    BY <2>1, <2>2, <2>3, <2>4, FreedSession
<1>. QED
  BY <1>1, <1>2

\* Cleanup closes a connection's descriptor, joins its worker, and at the end
\* closes what is left of the handshakes.
LEMMA CleanupSession ==
  ASSUME IInv, IInv', PeerInv, SessionInv, CleanupClose \/ CleanupReap \/ CleanupFinish
  PROVE  SessionInv'
<1>1. /\ UNCHANGED <<queue, fd, idx, view, taken, delivered, met>>
      /\ Next /\ poll.pc = "off"
  BY DEF CleanupClose, CleanupReap, CleanupFinish, tableVars, userVars, clientVars, Next, Cleanup,
     IInv, CleanupInv
<1>2. Serving' => Serving
  BY <1>1, ServingStays
<1>3. Serving => \A j \in Slots : fd[j] = None
  BY <1>1 DEF Serving, IInv, FreshInv
<1>4. ASSUME NEW j \in Slots
      PROVE  Serving' => Serving /\ (Unassigned(j)' <=> Unassigned(j))
  BY <1>1, <1>2, <1>3 DEF Unassigned
<1>5. \A j \in Slots :
        /\ Pipe(j)' = Pipe(j)
        /\ worker'[j].idx \in {worker[j].idx, None}
        /\ worker'[j].pc = "call" => worker'[j].idx = worker[j].idx
        /\ worker'[j].pc = "call" <=> worker[j].pc = "call"
        /\ worker'[j].pc = "release" => worker[j].pc = "release"
  <2>1. CASE CleanupReap
    <3>1. \A j \in Slots : \/ worker'[j] = worker[j]
                           \/ /\ worker'[j] = Idle
                              /\ worker[j].pc \in {"none", "exited"}
      BY <2>1 DEF CleanupReap, Joinable, IInv, TypeOK
    <3>. QED
      BY <1>1, <3>1, PipeSame DEF Idle
  <2>2. CASE CleanupClose \/ CleanupFinish
    <3>1. worker' = worker
      BY <2>2 DEF CleanupClose, CleanupFinish, tableVars
    <3>. QED
      BY <1>1, <3>1, PipeSame
  <2>. QED
    BY <2>1, <2>2
<1>6. \A j \in Slots : Assigned(j)' => Assigned(j) /\ owner'[fd'[j]] = owner[fd[j]]
  <2>1. CASE CleanupClose
    <3>1. CloseFd(fd[app.slot]) /\ UNCHANGED <<backlog, fd, pending>>
      BY <2>1 DEF CleanupClose, tlsVars, tableVars
    <3>2. fd[app.slot] \in Fds \cup {None}
      BY DEF IInv, TypeOK, AppState
    <3>3. \A j \in Slots : Live(j)' => Live(j) /\ owner'[fd[j]] = owner[fd[j]]
      BY <3>1, <3>2, ClosedFd
    <3>. QED
      BY <3>1, <3>3 DEF Assigned
  <2>2. CASE CleanupReap
    BY <1>1, <2>2 DEF CleanupReap, Assigned, Live, tlsVars, kernelVars
  <2>3. CASE CleanupFinish
    <3>1. \A j \in Slots : fd[j] = None
      BY <2>3 DEF CleanupFinish, IInv, CleanupInv
    <3>. QED
      BY <1>1, <3>1 DEF Assigned, Live
  <2>. QED
    BY <2>1, <2>2, <2>3
<1>7. \A j \in Slots : Still(j)
  BY <1>1, <1>4, <1>5, <1>6 DEF Still
<1>8. \A p \in Peers : Untouched(p)
  BY <1>1 DEF Untouched
<1>. QED
  BY <1>1, <1>7, <1>8, AllStill

-----------------------------------------------------------------------------
(* The theorems.                                                           *)

\* In the beginning nobody is served.
LEMMA InitSession == Init => SessionInv
<1>. SUFFICES ASSUME Init PROVE SessionInv
  OBVIOUS
<1>1. ASSUME NEW i \in Slots
      PROVE  /\ Pipe(i) = << >> /\ Len(Pipe(i)) = 0 /\ ~ Assigned(i) /\ view[i] = Nobody
             /\ idx[i] = None /\ worker[i].idx = None /\ worker[i].pc = "none" /\ Unassigned(i)
  BY DEF Init, Pipe, Assigned, Unassigned, Live, Idle
<1>2. \A i \in Slots : SlotInv(i)
  BY <1>1 DEF SlotInv, FlowInv, IdxInv, ViewInv
<1>3. \A i \in Slots, p \in Peers : ~ Serves(i, p)
  BY <1>1 DEF Serves
<1>4. ServeInv
  BY <1>3 DEF ServeInv, Init
<1>. QED
  BY <1>2, <1>4 DEF SessionInv

\* Every step keeps the invariant.
LEMMA SessionStep ==
  ASSUME IInv, PeerInv, SessionInv, [Next]_vars
  PROVE  SessionInv'
<1>0. IInv'
  BY InvariantStep
<1>1. CASE UNCHANGED vars
  <2>. USE <1>1 DEF vars, tlsVars, clientVars, kernelVars, serverVars, tableVars, userVars
  <2>1. \A i \in Slots, p \in Peers : Serves(i, p)' <=> Serves(i, p)
    BY DEF Serves, Pipe, Assigned, Live
  <2>2. \A i \in Slots :
          Mine(i)' = Mine(i) /\ Serving' = Serving /\ Unassigned(i)' = Unassigned(i)
    BY DEF Mine, Serving, Unassigned, Live
  <2>3. ServeInv'
    <3>1. \A p \in Peers : Newcomer(p)' <=> Newcomer(p)
      BY DEF Newcomer
    <3>. QED
      BY <2>1, <3>1 DEF SessionInv, ServeInv
  <2>4. \A i \in Slots : Pipe(i)' = Pipe(i) /\ Ahead(i)' = Ahead(i) /\ Assigned(i)' = Assigned(i)
    BY DEF Pipe, Ahead, Assigned, Live
  <2>5. \A i \in Slots : SlotInv(i)'
    BY <2>2, <2>4 DEF SessionInv, SlotInv, FlowInv, IdxInv, ViewInv
  <2>. QED
    BY <2>3, <2>5 DEF SessionInv
<1>2. CASE Next
  <2>1. CASE \/ \E p \in Peers : Connect(p) \/ Shake(p) \/ Send(p) \/ Hangup(p)
             \/ InitServer \/ Run \/ CloseNoWait \/ CloseOrWaitFor
             \/ \E w \in Writers : Write(w)
    BY <1>0, <2>1, OutsideStep
  <2>2. CASE Poll
    BY <1>0, <2>2, OutsideStep, AcceptStep, AssignSession, PushSession, ShakeEndSession DEF Poll
  <2>3. CASE \E i \in Slots : Worker(i)
    BY <1>0, <2>3, WorkerQuietSession, CallSession, FreeSession DEF Worker
  <2>4. CASE Cleanup
    BY <1>0, <2>4, OutsideStep, FreeSession, CleanupSession DEF Cleanup
  <2>. QED
    BY <1>2, <2>1, <2>2, <2>3, <2>4 DEF Next
<1>. QED
  BY <1>1, <1>2

\* ServeInv and SlotInv hold of every reachable state.
THEOREM SessionInvariance == Spec => []SessionInv
<1>1. IInv /\ (PeerInv /\ NewsInv /\ ExactInv) /\ SessionInv /\ [Next]_vars => SessionInv'
  BY SessionStep
<1>. QED
  BY <1>1, InitSession, Invariance, DataInvariance, PTL DEF Spec

\* What the application knows changes in its callbacks only.
LEMMA QuietStep ==
  ASSUME [Next]_vars,
         ~ \E i \in Slots : WorkerConnect(i) \/ WorkerData(i) \/ WorkerDisconnect(i)
  PROVE  UNCHANGED <<view, met, delivered>>
BY DEF vars, userVars, Next, Connect, Shake, Send, Hangup, Poll, PollCheck, PollWait, PollRefuse,
   PollAccept, PollAssign, PollReserve, PollShake, PollSecured, PollShakeEnd, PollExhausted,
   PollRead, PollEnd, PollAgain, Worker, WorkerCheck, WorkerTake, WorkerRelease, WorkerStop,
   InitServer, Run, CloseNoWait, CloseOrWaitFor, Cleanup, CleanupJoin, CleanupClose,
   CleanupFree, CleanupReap, CleanupFinish, Write, WriteBegin, WriteLock, WriteSend

\* A shutdown begins, or is as far as it was.
LEMMA ClosingStep ==
  ASSUME IInv, [Next]_vars
  PROVE  \/ (started /\ poll.pc = "off")' = (started /\ poll.pc = "off")
         \/ (started /\ poll.pc = "off")' = TRUE /\ CleanupJoin
<1>1. CASE UNCHANGED vars
  BY <1>1 DEF vars, serverVars
<1>2. CASE Next /\ Serving' /\ Serving
  BY <1>2 DEF Serving
<1>3. CASE Next /\ Serving' /\ ~ Serving
  BY <1>3, ServingStays
<1>4. CASE Next /\ ~ Serving' /\ ~ Serving
  BY <1>4 DEF Serving
<1>5. CASE Next /\ ~ Serving' /\ Serving
  <2>1. CASE CleanupJoin
    BY <1>5, <2>1 DEF Serving
  <2>2. CASE Poll
    <3>1. poll.pc # "off" /\ poll'.pc # "off"
      <4>1. CASE \E i \in Slots :
                   Handled(i) /\ (ShakeEvent(i) \/ ReadEvent(i))
        BY <4>1, HandledType DEF ShakeEvent, ReadEvent, IInv
      <4>2. CASE PollCheck \/ PollWait
        BY <4>2 DEF PollCheck, PollWait, IInv, TypeOK, PollState
      <4>3. CASE PollAssign
        BY <4>3 DEF PollAssign
      <4>4. CASE PollRefuse \/ PollReserve
        BY <4>4, HandledType DEF PollRefuse, PollReserve, Arrived, IInv
      <4>5. CASE PollAccept
        BY <4>5 DEF PollAccept, Arrived, IInv, TypeOK, PollState
      <4>. QED
        BY <2>2, <4>1, <4>2, <4>3, <4>4, <4>5
           DEF Poll, PollShake, PollSecured, PollShakeEnd, PollExhausted, PollRead, PollEnd,
               PollAgain
    <3>. QED
      BY <1>5, <3>1 DEF Serving
  <2>3. CASE Run
    BY <1>5, <2>3 DEF Run, Serving, IInv, TypeOK, PollState
  <2>4. CASE ~ CleanupJoin /\ ~ Poll /\ ~ Run
    <3>1. started' = started /\ poll' = poll
      BY <1>5, <2>4
         DEF serverVars, Next, Connect, Shake, Send, Hangup, Worker, WorkerCheck, WorkerTake,
             WorkerConnect, WorkerData, WorkerDisconnect, WorkerRelease, WorkerStop,
             InitServer, CloseNoWait, CloseOrWaitFor, Cleanup, CleanupClose, CleanupFree,
             CleanupReap, CleanupFinish, Write, WriteBegin, WriteLock, WriteSend
    <3>. QED
      BY <3>1
  <2>. QED
    BY <2>1, <2>2, <2>3, <2>4
<1>. QED
  BY <1>1, <1>2, <1>3, <1>4, <1>5

\* A callback is an event of the abstract specification: on the index of its
\* client while the server runs, perhaps on none once a shutdown has begun.
LEMMA CallRefines ==
  ASSUME IInv, SessionInv, NEW i \in Slots,
         WorkerConnect(i) \/ WorkerData(i) \/ WorkerDisconnect(i)
  PROVE  [Sessions!Next]_Sessions!vars
<1>. DEFINE t == worker[i].task
            p == t.peer
            closing == started /\ poll.pc = "off"
<1>0. /\ worker[i].pc = "call" /\ UNCHANGED <<started, poll>>
      /\ view \in [Slots -> Peers \cup {Nobody}] /\ Nobody \notin Peers
      /\ delivered \in [Peers -> 0 .. MaxSend]
  BY Indices DEF WorkerConnect, WorkerData, WorkerDisconnect, serverVars, IInv, TypeOK
<1>1. /\ p \in Peers
      /\ t.type = "CONNECTION" => p \notin met
      /\ t.type = "DATA" => t.unit = delivered[p] + 1
      /\ worker[i].idx \in {i, None}
      /\ worker[i].idx = i => view[i] = IF t.type = "CONNECTION" THEN Nobody ELSE p
  BY <1>0, CallFacts
<1>2. ~ closing => worker[i].idx = i
  BY <1>0, CallHasIndex DEF Serving
<1>3. closing' = closing
  BY <1>0
<1>4. CASE WorkerConnect(i)
  <2>1. t.type = "CONNECTION" /\ met' = met \cup {p} /\ delivered' = delivered
    BY <1>4 DEF WorkerConnect
  <2>2. view' = [s \in Slots |-> IF s = worker[i].idx THEN p ELSE view[s]]
    BY <1>4 DEF WorkerConnect
  <2>3. CASE worker[i].idx = i
    <3>1. view' = [view EXCEPT ![i] = p] /\ view[i] = Nobody
      BY <1>0, <1>1, <2>1, <2>2, <2>3
    <3>. HIDE DEF p, t, closing
    <3>2. Sessions!Connected(i, p)
      BY <1>1, <1>3, <2>1, <3>1 DEF Sessions!Connected, closing
    <3>. QED
      BY <1>1, <3>2 DEF Sessions!Next
  <2>4. CASE worker[i].idx = None
    <3>1. view' = view /\ closing
      BY <1>0, <1>2, <2>2, <2>4, Indices
    <3>. HIDE DEF p, t, closing
    <3>2. Sessions!Stray(p)
      BY <1>1, <1>3, <2>1, <3>1 DEF Sessions!Stray, closing
    <3>. QED
      BY <1>1, <3>2 DEF Sessions!Next
  <2>. QED
    BY <1>1, <2>3, <2>4
<1>5. CASE WorkerData(i)
  <2>1. t.type = "DATA" /\ met' = met /\ view' = view
    BY <1>5 DEF WorkerData
  <2>2. delivered' = [delivered EXCEPT ![p] = @ + 1]
    BY <1>0, <1>1, <1>5, <2>1 DEF WorkerData
  <2>. HIDE DEF p, closing
  <2>3. CASE ~ closing
    <3>1. view[i] = p
      BY <1>1, <1>2, <2>1, <2>3
    <3>. HIDE DEF t
    <3>2. Sessions!DataReady(i)
      BY <1>0, <1>1, <1>3, <2>1, <2>2, <3>1 DEF Sessions!DataReady, closing
    <3>. QED
      BY <3>2 DEF Sessions!Next
  <2>4. CASE closing
    <3>. HIDE DEF t
    <3>1. Sessions!Stray(p)
      BY <1>3, <2>1, <2>2, <2>4 DEF Sessions!Stray, closing
    <3>. QED
      BY <1>1, <3>1 DEF Sessions!Next
  <2>. QED
    BY <2>3, <2>4
<1>6. CASE WorkerDisconnect(i)
  <2>1. t.type = "DISCONNECTION" /\ met' = met /\ delivered' = delivered
    BY <1>6 DEF WorkerDisconnect
  <2>2. view' = [s \in Slots |-> IF s = worker[i].idx THEN Nobody ELSE view[s]]
    BY <1>6 DEF WorkerDisconnect
  <2>3. CASE worker[i].idx = i
    <3>1. view' = [view EXCEPT ![i] = Nobody] /\ view[i] # Nobody
      BY <1>0, <1>1, <2>1, <2>2, <2>3
    <3>. HIDE DEF p, t, closing
    <3>2. Sessions!Disconnected(i)
      BY <1>3, <2>1, <3>1 DEF Sessions!Disconnected, closing
    <3>. QED
      BY <3>2 DEF Sessions!Next
  <2>4. CASE worker[i].idx = None
    <3>1. view' = view
      BY <1>0, <2>2, <2>4, Indices
    <3>. HIDE DEF p, t, closing
    <3>. QED
      BY <1>3, <2>1, <3>1 DEF Sessions!vars, closing
  <2>. QED
    BY <1>1, <2>3, <2>4
<1>. QED
  BY <1>4, <1>5, <1>6

\* ImplementsSessions: on every index the callbacks announce one client after
\* another, hand over its data in order, and end it, although the polling
\* thread closes and reuses descriptors while workers are still behind.
THEOREM Implements == Spec => ImplementsSessions
<1>1. Init => Sessions!Init
  BY DEF Init, Sessions!Init
<1>2. IInv /\ SessionInv /\ [Next]_vars => [Sessions!Next]_Sessions!vars
  <2>. SUFFICES ASSUME IInv, SessionInv, [Next]_vars
                PROVE  [Sessions!Next]_Sessions!vars
    OBVIOUS
  <2>1. CASE \E i \in Slots : WorkerConnect(i) \/ WorkerData(i) \/ WorkerDisconnect(i)
    BY <2>1, CallRefines
  <2>2. CASE ~ \E i \in Slots : WorkerConnect(i) \/ WorkerData(i) \/ WorkerDisconnect(i)
    <3>1. UNCHANGED <<view, met, delivered>>
      BY <2>2, QuietStep
    <3>2. CASE (started /\ poll.pc = "off")' = (started /\ poll.pc = "off")
      BY <3>1, <3>2 DEF Sessions!vars
    <3>3. CASE (started /\ poll.pc = "off")' = TRUE
      <4>1. Sessions!BeginClose
        BY <3>1, <3>3 DEF Sessions!BeginClose
      <4>. QED
        BY <4>1 DEF Sessions!Next
    <3>. QED
      BY <3>2, <3>3, ClosingStep
  <2>. QED
    BY <2>1, <2>2
<1>. QED
  BY <1>1, <1>2, Invariance, SessionInvariance, PTL DEF Spec, ImplementsSessions, Sessions!Spec
=============================================================================
