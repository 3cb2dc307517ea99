------------------------- MODULE ServerSocketProofs -------------------------
(***************************************************************************)
(* Theorems about ServerSocket, for every size of the table and every set  *)
(* of clients and writers, with and without TLS: types, descriptors, what  *)
(* Close leaves behind, and the inductive invariant they follow from.      *)
(*                                                                         *)
(* The invariant says how a connection of the table, its descriptor, its   *)
(* queue and its worker may differ while the polling thread has closed and *)
(* reused descriptors and the worker is still behind (Live, Unassigned,    *)
(* Ending), and what Cleanup may rely on when it goes through the table.   *)
(***************************************************************************)
EXTENDS ServerSocket, ProofLemmas

-----------------------------------------------------------------------------
(* The inductive invariant.                                                *)

\* Connection i has a descriptor, and it is open and registered for i.
Live(i) == fd[i] # None /\ watch[fd[i]] = i

\* No client was assigned to connection i yet, or its handshake is pending.
Unassigned(i) == fd[i] = None \/ (fd[i] \in pending /\ Live(i))

\* The worker of connection i has come to the last task of its client.
Ending(i) == worker[i].task.type = "DISCONNECTION" \/ worker[i].pc = "release"

\* A registered descriptor is open and an open one registered.
FdInv == \A f \in Fds : owner[f] # Nobody <=> watch[f] # None

\* The polling thread's batch speaks of connections that still are what they
\* were when epoll_wait reported them, and what it is about to assign is open.
PollInv ==
  /\ poll.pc = "assign" =>
       /\ ~ secure
       /\ poll.slot \in Slots /\ poll.file \in Fds
       /\ owner[poll.file] # Nobody /\ watch[poll.file] = poll.slot
       /\ fd[poll.slot] = None
  /\ poll.pc \in {"batch", "assign"} => \A i \in poll.batch \ {Listener} : Live(i)
  /\ pending # {} => secure

\* The last task of a client is the last in its queue; it is there, or in the
\* hands of the worker, only after the descriptor was closed.
EndInv ==
  \A i \in Slots :
    /\ \A k \in 1 .. Len(queue[i]) :
         queue[i][k].type = "DISCONNECTION" => k = Len(queue[i]) /\ ~ Live(i)
    /\ Ending(i) => queue[i] = << >> /\ ~ Live(i)
    /\ worker[i].pc = "call" <=> worker[i].task # NoTask

\* Nothing is left of a connection's last client when the next is assigned.
FreshInv ==
  /\ poll.pc # "off" =>
       \A i \in Slots : Unassigned(i) =>
         queue[i] = << >> /\ worker[i].pc \in {"none", "stopping", "exited"}
  /\ ~ started =>
       /\ poll.pc = "off"
       /\ \A i \in Slots : fd[i] = None /\ queue[i] = << >> /\ worker[i].pc = "none"

\* Cleanup goes through the table after the polling thread has ended.
CleanupInv ==
  app.pc \in {"close", "free", "reap", "finish"} =>
    /\ poll.pc = "off"
    /\ app.pc = "free" => ~ Live(app.slot)
    /\ app.pc = "reap" => fd[app.slot] = None
    /\ \A i \in Slots :
         i < app.slot \/ app.pc = "finish" => fd[i] = None /\ worker[i].pc = "none"

\* A connected client waits in the listen queue or has a descriptor; after a
\* cleanup there is none, nor a thread.
ReachInv ==
  /\ \A p \in Peers : phase[p] = "open" => p \in Range(backlog) \cup Range(owner)
  /\ started /\ poll.pc = "off" /\ app.pc \in {"idle", "join"} =>
       /\ ~ listening
       /\ \A p \in Peers : phase[p] # "open"
       /\ \A i \in Slots : worker[i].pc = "none"

\* What a client has sent ends with the end of a record.
DataInv == \A p \in Peers : sent[p] \in records[p] \cup {0}

\* A buffer is taken for every unit on its way to the application.
BufInv == IsFiniteSet(Holding) /\ Cardinality(Holding) <= used

\* A call of Write that has begun has a descriptor, a client and a number.
WriterInv ==
  \A w \in Writers : writer[w].pc # "idle" =>
    /\ writer[w].file \in Fds /\ writer[w].dest \in Peers
    /\ writer[w].left \in 1 .. Parts /\ writer[w].calls \in 1 .. MaxWrites

IInv ==
  /\ TypeOK /\ WriterInv /\ FdInv /\ PollInv /\ DescriptorsTracked /\ EndInv
  /\ FreshInv /\ CleanupInv /\ ReachInv /\ DataInv /\ BufInv

-----------------------------------------------------------------------------
(* Types.                                                                  *)

\* The constants that index the table.
LEMMA Indices ==
  /\ ClientCount \in Nat \ {0} /\ PoolSize \in Nat
  /\ Slots \subseteq Nat /\ Fds \subseteq Nat /\ Slots \subseteq Fds
  /\ None \notin Slots /\ None \notin Fds /\ Listener \notin Slots /\ Listener \in Nat
  /\ 0 \in Slots /\ Nobody \notin Peers
BY SocketAssumption DEF Slots, Fds, None, Listener, PoolSize

\* The least descriptor that is not open exists while the polling thread is
\* between two clients: each open one has a connection of its own.
LEMMA FreeFdExists ==
  ASSUME TypeOK, DescriptorsTracked, poll.pc = "batch"
  PROVE  FreeFd \in Fds /\ owner[FreeFd] = Nobody
<1>. DEFINE F == {f \in Fds : owner[f] = Nobody}
<1>1. F # {}
  <2>. SUFFICES ASSUME F = {} PROVE FALSE
    OBVIOUS
  <2>1. \A f \in Fds : watch[f] \in Slots /\ fd[watch[f]] = f
    BY DEF DescriptorsTracked
  <2>2. watch \in [Fds -> Slots]
    BY <2>1 DEF TypeOK
  <2>3. /\ IsFiniteSet(Fds) /\ Cardinality(Fds) = ClientCount + 1
        /\ IsFiniteSet(Slots) /\ Cardinality(Slots) = ClientCount
    <3>1. 0 \in Int /\ ClientCount \in Int /\ ClientCount - 1 \in Int /\ ClientCount > 0
      BY Indices
    <3>2. /\ IsFiniteSet(0 .. ClientCount)
          /\ Cardinality(0 .. ClientCount) = ClientCount - 0 + 1
      BY <3>1, FS_Interval
    <3>3. /\ IsFiniteSet(0 .. ClientCount - 1)
          /\ Cardinality(0 .. ClientCount - 1) = (ClientCount - 1) - 0 + 1
      BY <3>1, FS_Interval
    <3>. QED
      BY <3>1, <3>2, <3>3 DEF Fds, Slots
  <2>4. Cardinality(Slots) < Cardinality(Fds)
    BY <2>3, Indices
  <2>5. PICK x, y \in Fds : x # y /\ watch[x] = watch[y]
    BY <2>2, <2>3, <2>4, FS_PigeonHole
  <2>. QED
    BY <2>1, <2>5
<1>2. F \subseteq Nat
  BY Indices
<1>. HIDE DEF F
<1>3. Min(F) \in F
  BY <1>1, <1>2, LeastOfNats
<1>. QED
  BY <1>3 DEF F, FreeFd

\* The least connection without a descriptor.
LEMMA FreeSlotExists ==
  ASSUME Free # {}
  PROVE  Min(Free) \in Slots /\ fd[Min(Free)] = None
<1>1. Free \subseteq Nat
  BY Indices DEF Free
<1>2. Min(Free) \in Free
  BY <1>1, LeastOfNats
<1>. QED
  BY <1>2 DEF Free

\* Closing a descriptor.
LEMMA CloseFdType ==
  ASSUME TypeOK, NEW f, CloseFd(f)
  PROVE  /\ phase' \in [Peers -> {"new", "open", "closed", "reset", "shut"}]
         /\ owner' \in [Fds -> Peers \cup {Nobody}]
         /\ watch' \in [Fds -> Slots \cup {None}]
BY DEF TypeOK, CloseFd

\* Appending a task.
LEMMA PushType ==
  ASSUME TypeOK, NEW i \in Slots, NEW task \in Task, Push(i, task)
  PROVE  /\ queue' \in [Slots -> Seq(Task)]
         /\ queue'[i] = Append(queue[i], task)
         /\ \A j \in Slots : j # i => queue'[j] = queue[j]
<1>1. queue \in [Slots -> Seq(Task)] /\ queue[i] \in Seq(Task)
  BY DEF TypeOK
<1>2. Append(queue[i], task) \in Seq(Task)
  BY <1>1, AppendProperties
<1>. QED
  BY <1>1, <1>2 DEF Push

\* The connections a batch names, and their clients.
LEMMA EventFacts ==
  ASSUME TypeOK, FdInv, PollInv, NEW i \in Slots, poll.pc = "batch", i \in poll.batch
  PROVE  /\ fd[i] \in Fds /\ Live(i)
         /\ owner[fd[i]] \in Peers
<1>1. Live(i)
  BY Indices DEF PollInv
<1>2. fd[i] \in Fds /\ watch[fd[i]] # None
  BY <1>1, Indices DEF Live, TypeOK
<1>. QED
  BY <1>1, <1>2, Indices DEF TypeOK, FdInv

\* The end of one event.
LEMMA HandledType ==
  ASSUME TypeOK, NEW e, Handled(e)
  PROVE  /\ poll' \in PollState
         /\ poll'.pc \in {"check", "batch"}
         /\ poll'.batch = poll.batch \ {e}
         /\ poll'.slot = poll.slot /\ poll'.file = poll.file
BY DEF TypeOK, PollState, Handled

\* Every step of a client keeps the types.
LEMMA ClientType ==
  ASSUME TypeOK, NEW p \in Peers, Connect(p) \/ Shake(p) \/ Send(p) \/ Hangup(p)
  PROVE  TypeOK'
<1>. USE DEF tlsVars, clientVars, kernelVars, serverVars, tableVars, userVars
<1>1. CASE Connect(p)
  <2>1. backlog' \in Seq(Peers)
    BY <1>1, AppendProperties DEF TypeOK, Connect
  <2>. QED
    BY <1>1, <2>1 DEF TypeOK, Connect
<1>2. CASE Shake(p)
  BY <1>2 DEF TypeOK, Shake
<1>3. CASE Send(p)
  <2>1. PICK n \in 1 .. MaxSend - sent[p] :
          /\ sent' = [sent EXCEPT ![p] = @ + n]
          /\ records' = [records EXCEPT ![p] = @ \cup {sent[p] + n}]
    BY <1>3 DEF Send
  <2>2. sent[p] + n \in 1 .. MaxSend
    BY SocketAssumption DEF TypeOK
  <2>3. sent' \in [Peers -> 0 .. MaxSend] /\ records' \in [Peers -> SUBSET (1 .. MaxSend)]
    BY <2>1, <2>2 DEF TypeOK
  <2>. QED
    BY <1>3, <2>3 DEF TypeOK, Send
<1>4. CASE Hangup(p)
  BY <1>4 DEF TypeOK, Hangup
<1>. QED
  BY <1>1, <1>2, <1>3, <1>4

\* Every step of the polling thread keeps the types.
LEMMA PollType ==
  ASSUME IInv, Poll
  PROVE  TypeOK'
<1>. USE DEF tlsVars, clientVars, kernelVars, serverVars, tableVars, userVars
<1>0. TypeOK /\ FdInv /\ PollInv /\ DescriptorsTracked /\ DataInv
  BY DEF IInv
<1>1. CASE PollCheck
  <2>1. poll' \in PollState
    BY <1>0, <1>1 DEF TypeOK, PollState, PollCheck
  <2>. QED
    BY <1>0, <1>1, <2>1 DEF TypeOK, PollCheck
<1>2. CASE PollWait
  <2>1. Ready \subseteq Slots \cup {Listener}
    BY <1>0 DEF TypeOK, Ready
  <2>2. poll' \in PollState
    <3>1. poll \in PollState
      BY <1>0 DEF TypeOK
    <3>2. CASE poll' = [poll EXCEPT !.pc = "check"]
      BY <3>1, <3>2 DEF PollState
    <3>3. ASSUME NEW batch \in SUBSET Ready,
                 poll' = [poll EXCEPT !.pc = "batch", !.batch = batch]
          PROVE  poll' \in PollState
      BY <2>1, <3>1, <3>3 DEF PollState
    <3>. QED
      BY Zenon, <1>2, <3>2, <3>3 DEF PollWait
  <2>. QED
    BY <1>0, <1>2, <2>2 DEF TypeOK, PollWait
<1>3. CASE Arrived /\ (PollRefuse \/ PollAccept \/ PollReserve)
  <2>1. backlog' \in Seq(Peers) /\ Head(backlog) \in Peers
    BY <1>0, <1>3, HeadTailProperties DEF TypeOK, Arrived
  <2>2. FreeFd \in Fds
    BY <1>0, <1>3, FreeFdExists DEF Arrived
  <2>3. CASE PollRefuse
    <3>1. poll' \in PollState
      BY <1>0, <2>3, HandledType DEF PollRefuse
    <3>. QED
      BY <1>0, <2>1, <2>3, <3>1 DEF TypeOK, PollRefuse
  <2>4. CASE PollAccept
    <3>1. Min(Free) \in Slots
      BY <2>4, FreeSlotExists DEF PollAccept
    <3>2. poll' \in PollState
      BY <1>0, <2>2, <2>4, <3>1 DEF TypeOK, PollState, PollAccept
    <3>. QED
      BY <1>0, <2>1, <2>2, <2>4, <3>1, <3>2 DEF TypeOK, PollAccept
  <2>5. CASE PollReserve
    <3>1. Min(Free) \in Slots
      BY <2>5, FreeSlotExists DEF PollReserve
    <3>2. poll' \in PollState
      BY <1>0, <2>5, HandledType DEF PollReserve
    <3>. QED
      BY <1>0, <2>1, <2>2, <2>5, <3>1, <3>2 DEF TypeOK, PollReserve
  <2>. QED
    BY <1>3, <2>3, <2>4, <2>5
<1>4. ASSUME NEW i \in Slots, NEW f \in Fds, Assign(i, f), owner[f] # Nobody
      PROVE  /\ fd' \in [Slots -> Fds \cup {None}] /\ idx' \in [Slots -> Slots \cup {None}]
             /\ running' \in [Slots -> BOOLEAN] /\ queue' \in [Slots -> Seq(Task)]
             /\ worker' \in [Slots -> WorkerState]
  <2>1. [type |-> "CONNECTION", peer |-> owner[f], unit |-> 0] \in Task
    BY <1>0, <1>4, SocketAssumption DEF TypeOK, Task
  <2>2. queue' \in [Slots -> Seq(Task)]
    BY <1>0, <1>4, <2>1, PushType DEF Assign
  <2>3. [Idle EXCEPT !.pc = "check"] \in WorkerState
    BY DEF Idle, WorkerState
  <2>. QED
    BY <1>0, <1>4, <2>2, <2>3 DEF TypeOK, Assign
<1>5. CASE PollAssign
  <2>1. poll' \in PollState
    BY <1>0, <1>5 DEF TypeOK, PollState, PollAssign
  <2>2. /\ fd' \in [Slots -> Fds \cup {None}] /\ idx' \in [Slots -> Slots \cup {None}]
        /\ running' \in [Slots -> BOOLEAN] /\ queue' \in [Slots -> Seq(Task)]
        /\ worker' \in [Slots -> WorkerState]
    BY <1>0, <1>4, <1>5 DEF PollAssign, PollInv
  <2>. QED
    BY <1>0, <1>5, <2>1, <2>2 DEF TypeOK, PollAssign
<1>6. ASSUME NEW i \in Slots,
             \/ PollShake(i) \/ PollSecured(i) \/ PollShakeEnd(i)
             \/ PollExhausted(i) \/ PollRead(i) \/ PollEnd(i) \/ PollAgain(i)
      PROVE  TypeOK'
  <2>0. Handled(i) /\ (ShakeEvent(i) \/ ReadEvent(i))
    BY <1>6 DEF PollShake, PollSecured, PollShakeEnd, PollExhausted, PollRead, PollEnd, PollAgain
  <2>1. poll' \in PollState
    BY <1>0, <2>0, HandledType
  <2>2. fd[i] \in Fds /\ owner[fd[i]] \in Peers
    BY <1>0, <2>0, EventFacts DEF ShakeEvent, ReadEvent
  <2>3. CASE PollShake(i)
    BY <1>0, <2>1, <2>2, <2>3 DEF TypeOK, PollShake
  <2>4. CASE PollSecured(i)
    <3>1. /\ fd' \in [Slots -> Fds \cup {None}] /\ idx' \in [Slots -> Slots \cup {None}]
          /\ running' \in [Slots -> BOOLEAN] /\ queue' \in [Slots -> Seq(Task)]
          /\ worker' \in [Slots -> WorkerState]
      BY <1>4, <2>2, <2>4, Indices DEF PollSecured
    <3>. QED
      BY <1>0, <2>1, <2>2, <2>4, <3>1 DEF TypeOK, PollSecured
  <2>5. CASE PollShakeEnd(i)
    <3>1. Idle \in WorkerState
      BY DEF Idle, WorkerState
    <3>2. /\ phase' \in [Peers -> {"new", "open", "closed", "reset", "shut"}]
          /\ owner' \in [Fds -> Peers \cup {Nobody}]
          /\ watch' \in [Fds -> Slots \cup {None}]
      BY <1>0, <2>5, CloseFdType DEF PollShakeEnd
    <3>. QED
      BY <1>0, <2>1, <2>2, <2>5, <3>1, <3>2 DEF TypeOK, PollShakeEnd
  <2>6. ASSUME Drop(i)
        PROVE  /\ phase' \in [Peers -> {"new", "open", "closed", "reset", "shut"}]
               /\ owner' \in [Fds -> Peers \cup {Nobody}]
               /\ watch' \in [Fds -> Slots \cup {None}]
               /\ queue' \in [Slots -> Seq(Task)]
    <3>1. [type |-> "DISCONNECTION", peer |-> owner[fd[i]], unit |-> 0] \in Task
      BY <2>2, SocketAssumption DEF Task
    <3>. QED
      BY <1>0, <2>6, <3>1, PushType, CloseFdType DEF Drop
  <2>7. CASE PollExhausted(i)
    BY <1>0, <2>1, <2>6, <2>7 DEF TypeOK, PollExhausted
  <2>8. CASE PollEnd(i)
    BY <1>0, <2>1, <2>6, <2>8 DEF TypeOK, PollEnd
  <2>9. CASE PollAgain(i)
    <3>1. used' \in 0 .. PoolSize
      BY <1>0, <2>9, Indices DEF TypeOK, PollAgain
    <3>. QED
      BY <1>0, <2>1, <2>9, <3>1 DEF TypeOK, PollAgain
  <2>10. CASE PollRead(i)
    <3>. DEFINE p == owner[fd[i]]
                later == {n \in records[p] : n > fetched[p]}
    <3>1. /\ taken[p] < sent[p] /\ used < PoolSize
          /\ fetched' = [fetched EXCEPT ![p] = IF taken[p] < @ THEN @ ELSE Min(later)]
          /\ used' = used + 1
          /\ taken' = [taken EXCEPT ![p] = @ + 1]
          /\ Push(i, [type |-> "DATA", peer |-> p, unit |-> taken[p] + 1])
      BY <2>10 DEF PollRead
    <3>2. /\ p \in Peers /\ taken[p] \in 0 .. MaxSend /\ sent[p] \in 0 .. MaxSend
          /\ fetched[p] \in 0 .. MaxSend /\ records[p] \subseteq 1 .. MaxSend
          /\ sent[p] \in records[p] \cup {0} /\ used \in 0 .. PoolSize /\ PoolSize \in Nat
      BY <1>0, <2>2, Indices DEF TypeOK, DataInv
    <3>3. used' \in 0 .. PoolSize /\ taken[p] + 1 \in 0 .. MaxSend
      BY <3>1, <3>2, SocketAssumption
    <3>4. ~ (taken[p] < fetched[p]) => Min(later) \in 0 .. MaxSend
      <4>1. ASSUME ~ (taken[p] < fetched[p]) PROVE sent[p] \in later
        BY <3>1, <3>2, <4>1, SocketAssumption
      <4>2. later \subseteq Nat
        BY <3>2
      <4>3. ~ (taken[p] < fetched[p]) => Min(later) \in later
        BY <4>1, <4>2, LeastOfNats
      <4>. QED
        BY <4>3, <3>2
    <3>. HIDE DEF later
    <3>5. fetched' \in [Peers -> 0 .. MaxSend] /\ taken' \in [Peers -> 0 .. MaxSend]
      BY <1>0, <3>1, <3>2, <3>3, <3>4 DEF TypeOK
    <3>6. [type |-> "DATA", peer |-> p, unit |-> taken[p] + 1] \in Task
      BY <3>2, <3>3 DEF Task
    <3>7. queue' \in [Slots -> Seq(Task)]
      BY <1>0, <3>1, <3>6, PushType
    <3>. HIDE DEF p
    <3>. QED
      BY <1>0, <2>1, <2>10, <3>3, <3>5, <3>7 DEF TypeOK, PollRead
  <2>. QED
    BY <1>6, <2>3, <2>4, <2>5, <2>7, <2>8, <2>9, <2>10
<1>. QED
  BY <1>1, <1>2, <1>3, <1>5, <1>6 DEF Poll, PollRefuse, PollAccept, PollReserve

\* The task a worker is at, by its type.
LEMMA TaskFacts ==
  ASSUME TypeOK, NEW i \in Slots
  PROVE  /\ worker[i] \in WorkerState
         /\ worker[i].idx \in Slots \cup {None}
         /\ worker[i].task.type \in {"CONNECTION", "DATA", "DISCONNECTION"}
              => /\ worker[i].task \in Task
                 /\ worker[i].task.peer \in Peers
                 /\ worker[i].task.unit \in 0 .. MaxSend
BY DEF TypeOK, WorkerState, Task, NoTask

\* A worker at a data task holds a buffer.
LEMMA DataHeld ==
  ASSUME TypeOK, BufInv, NEW i \in Slots, worker[i].task.type = "DATA"
  PROVE  used > 0
<1>1. <<i, 0>> \in Holding
  BY DEF Holding
<1>2. Cardinality(Holding) # 0
  BY <1>1, FS_EmptySet DEF BufInv
<1>3. Cardinality(Holding) \in Nat
  BY FS_CardinalityType DEF BufInv
<1>. QED
  BY <1>2, <1>3, Indices DEF TypeOK, BufInv

\* Every step of a worker keeps the types.
LEMMA WorkerType ==
  ASSUME TypeOK, BufInv, NEW i \in Slots, Worker(i)
  PROVE  TypeOK'
<1>. USE DEF tlsVars, clientVars, kernelVars, serverVars, tableVars, userVars
<1>0. /\ worker \in [Slots -> WorkerState] /\ worker[i] \in WorkerState
      /\ queue \in [Slots -> Seq(Task)] /\ queue[i] \in Seq(Task)
      /\ idx[i] \in Slots \cup {None}
  BY DEF TypeOK
<1>1. /\ [Idle EXCEPT !.pc = "check"] \in WorkerState
      /\ [Idle EXCEPT !.pc = "release"] \in WorkerState
      /\ \A s \in {"check", "wait", "stopping", "exited"} :
           [worker[i] EXCEPT !.pc = s] \in WorkerState
  BY <1>0 DEF Idle, WorkerState
<1>2. CASE WorkerCheck(i)
  <2>1. worker' = [worker EXCEPT ![i] = [worker[i] EXCEPT
                                            !.pc = IF running[i] THEN "wait" ELSE "exited"]]
    BY <1>2 DEF WorkerCheck
  <2>2. worker' \in [Slots -> WorkerState]
    BY <1>0, <1>1, <2>1
  <2>. QED
    BY <1>2, <2>2 DEF TypeOK, WorkerCheck
<1>3. CASE WorkerTake(i)
  <2>1. CASE queue[i] = << >>
    <3>1. worker' = [worker EXCEPT ![i] = [worker[i] EXCEPT !.pc = "check"]]
      BY <1>3, <2>1 DEF WorkerTake
    <3>2. worker' \in [Slots -> WorkerState]
      BY <1>0, <1>1, <3>1
    <3>. QED
      BY <1>3, <2>1, <3>2 DEF TypeOK, WorkerTake
  <2>2. CASE queue[i] # << >>
    <3>1. Head(queue[i]) \in Task /\ Tail(queue[i]) \in Seq(Task)
      BY <1>0, <2>2, HeadTailProperties
    <3>2. [pc |-> "call", task |-> Head(queue[i]), idx |-> idx[i]] \in WorkerState
      BY <1>0, <3>1 DEF WorkerState
    <3>3. worker' \in [Slots -> WorkerState] /\ queue' \in [Slots -> Seq(Task)]
      BY <1>0, <1>3, <2>2, <3>1, <3>2 DEF WorkerTake
    <3>. QED
      BY <1>3, <3>3 DEF TypeOK, WorkerTake
  <2>. QED
    BY <2>1, <2>2
<1>4. CASE WorkerConnect(i)
  <2>1. worker[i].task.peer \in Peers
    BY <1>4, TaskFacts DEF WorkerConnect
  <2>2. worker' \in [Slots -> WorkerState]
    BY <1>0, <1>1, <1>4 DEF WorkerConnect
  <2>3. view' \in [Slots -> Peers \cup {Nobody}] /\ met' \in SUBSET Peers
    BY <1>4, <2>1 DEF TypeOK, WorkerConnect
  <2>. QED
    BY <1>4, <2>2, <2>3 DEF TypeOK, WorkerConnect
<1>5. CASE WorkerData(i)
  <2>1. worker[i].task.peer \in Peers /\ worker[i].task.unit \in 0 .. MaxSend
    BY <1>5, TaskFacts DEF WorkerData
  <2>2. worker' \in [Slots -> WorkerState]
    BY <1>0, <1>1, <1>5 DEF WorkerData
  <2>3. used' \in 0 .. PoolSize
    <3>1. used \in 0 .. PoolSize /\ PoolSize \in Nat
      BY Indices DEF TypeOK
    <3>2. used' = used - 1 /\ used > 0
      BY <1>5, DataHeld DEF WorkerData
    <3>. QED
      BY <3>1, <3>2
  <2>. QED
    BY <1>5, <2>1, <2>2, <2>3 DEF TypeOK, WorkerData
<1>6. CASE WorkerDisconnect(i)
  <2>1. worker' \in [Slots -> WorkerState]
    BY <1>0, <1>1, <1>6 DEF WorkerDisconnect
  <2>. QED
    BY <1>6, <2>1 DEF TypeOK, WorkerDisconnect
<1>7. CASE WorkerRelease(i)
  <2>1. worker' = [worker EXCEPT ![i] = [worker[i] EXCEPT !.pc = "stopping"]]
    BY <1>7 DEF WorkerRelease
  <2>2. worker' \in [Slots -> WorkerState]
    BY <1>0, <1>1, <2>1
  <2>. QED
    BY <1>7, <2>2 DEF TypeOK, WorkerRelease
<1>8. CASE WorkerStop(i)
  <2>1. worker' = [worker EXCEPT ![i] = [worker[i] EXCEPT !.pc = "exited"]]
    BY <1>8 DEF WorkerStop
  <2>2. worker' \in [Slots -> WorkerState]
    BY <1>0, <1>1, <2>1
  <2>. QED
    BY <1>8, <2>2 DEF TypeOK, WorkerStop
<1>. QED
  BY <1>2, <1>3, <1>4, <1>5, <1>6, <1>7, <1>8 DEF Worker

\* Every step of the application that starts or ends the server keeps the
\* types.
LEMMA AppType ==
  ASSUME TypeOK, InitServer \/ Run \/ CloseNoWait \/ CloseOrWaitFor \/ Cleanup
  PROVE  TypeOK'
<1>. USE DEF tlsVars, clientVars, kernelVars, serverVars, tableVars, userVars
<1>0. app \in AppState /\ app.slot \in Slots
  BY DEF TypeOK, AppState
<1>1. CASE InitServer
  BY <1>1 DEF TypeOK, InitServer
<1>2. CASE Run
  <2>1. poll' \in PollState
    BY <1>2 DEF TypeOK, PollState, Run
  <2>. QED
    BY <1>2, <2>1 DEF TypeOK, Run
<1>3. CASE CloseNoWait
  BY <1>3 DEF TypeOK, CloseNoWait
<1>4. CASE CloseOrWaitFor
  <2>1. app' \in AppState
    BY <1>0, <1>4 DEF AppState, CloseOrWaitFor
  <2>. QED
    BY <1>4, <2>1 DEF TypeOK, CloseOrWaitFor
<1>5. CASE CleanupJoin
  <2>1. poll' \in PollState /\ app' \in AppState
    BY <1>5, Indices DEF TypeOK, PollState, AppState, CleanupJoin
  <2>. QED
    BY <1>5, <2>1 DEF TypeOK, CleanupJoin
<1>6. CASE CleanupClose
  <2>1. app' \in AppState
    BY <1>0, <1>6 DEF AppState, CleanupClose
  <2>2. /\ phase' \in [Peers -> {"new", "open", "closed", "reset", "shut"}]
        /\ owner' \in [Fds -> Peers \cup {Nobody}]
        /\ watch' \in [Fds -> Slots \cup {None}]
    BY <1>6, CloseFdType DEF CleanupClose
  <2>. QED
    BY <1>6, <2>1, <2>2 DEF TypeOK, CleanupClose
<1>7. CASE CleanupFree
  <2>1. app' \in AppState
    BY <1>0, <1>7 DEF AppState, CleanupFree
  <2>. QED
    BY <1>0, <1>7, <2>1 DEF TypeOK, CleanupFree
<1>8. CASE CleanupReap
  <2>1. app' \in AppState
    BY <1>0, <1>8, Indices DEF AppState, CleanupReap
  <2>2. Idle \in WorkerState
    BY DEF Idle, WorkerState
  <2>. QED
    BY <1>0, <1>8, <2>1, <2>2 DEF TypeOK, CleanupReap
<1>9. CASE CleanupFinish
  <2>1. app' \in AppState
    BY <1>9, Indices DEF AppState, CleanupFinish
  <2>2. /\ phase' \in [Peers -> {"new", "open", "closed", "reset", "shut"}]
        /\ owner' \in [Fds -> Peers \cup {Nobody}]
        /\ watch' \in [Fds -> Slots \cup {None}]
    BY <1>9 DEF TypeOK, CleanupFinish
  <2>3. backlog' \in Seq(Peers) /\ pending' \in SUBSET Fds
    BY <1>9, EmptySeq DEF CleanupFinish
  <2>. QED
    BY <1>9, <2>1, <2>2, <2>3 DEF TypeOK, CleanupFinish
<1>. QED
  BY <1>1, <1>2, <1>3, <1>4, <1>5, <1>6, <1>7, <1>8, <1>9 DEF Cleanup

\* The piece that writer w sends, and the record of w after it.
SentPiece(w) == [by |-> w, call |-> writer[w].calls, dest |-> writer[w].dest]
OneLess(w) == [writer[w] EXCEPT !.left = @ - 1]
Over(w) == [pc |-> "idle", file |-> None, dest |-> Nobody, ssl |-> Nobody,
            left |-> 0, calls |-> writer[w].calls]

\* One send of a writer: the call goes on or is over, and at most one client
\* gets at most one piece.
LEMMA SendFacts ==
  ASSUME TypeOK, WriterInv, NEW w \in Writers, WriteSend(w)
  PROVE  /\ \/ writer' = [writer EXCEPT ![w] = Over(w)]
            \/ writer[w].left # 1 /\ writer' = [writer EXCEPT ![w] = OneLess(w)]
         /\ got' = got \/ \E p \in Peers : got' = [got EXCEPT ![p] = Append(@, SentPiece(w))]
         /\ writer[w].pc = "send" /\ SentPiece(w) \in Piece
         /\ OneLess(w).pc = "send" /\ OneLess(w).file = writer[w].file
         /\ OneLess(w).dest = writer[w].dest /\ OneLess(w).calls = writer[w].calls
         /\ writer[w].left # 1 => OneLess(w).left \in 1 .. Parts /\ OneLess(w) \in WriterState
         /\ Over(w) \in WriterState
<1>0. /\ writer \in [Writers -> WriterState] /\ writer[w] \in WriterState
      /\ Parts \in Nat \ {0} /\ MaxWrites \in Nat /\ writer[w].pc = "send"
  BY SocketAssumption DEF TypeOK, WriteSend
<1>1. /\ \/ writer' = [writer EXCEPT ![w] = Over(w)]
         \/ writer[w].left # 1 /\ writer' = [writer EXCEPT ![w] = OneLess(w)]
      /\ got' = got \/ \E p \in Peers : got' = [got EXCEPT ![p] = Append(@, SentPiece(w))]
  <2>. DEFINE now == owner[writer[w].file]
              p == IF writer[w].ssl \in {Nobody, now} THEN now ELSE Nobody
  <2>1. now \in Peers \cup {Nobody}
    BY <1>0 DEF WriterInv, TypeOK
  <2>2. p # Nobody => p \in Peers
    BY <2>1
  <2>3. WriteEnd(w) <=> writer' = [writer EXCEPT ![w] = Over(w)]
    BY <1>0 DEF WriteEnd, Over
  <2>4. (writer' = [writer EXCEPT ![w].left = @ - 1])
          <=> (writer' = [writer EXCEPT ![w] = OneLess(w)])
    BY <1>0 DEF OneLess
  <2>. QED
    BY <2>2, <2>3, <2>4 DEF WriteSend, SentPiece
<1>2. SentPiece(w) \in Piece
  BY <1>0 DEF WriterInv, SentPiece, Piece
<1>3. /\ OneLess(w).pc = "send" /\ OneLess(w).file = writer[w].file
      /\ OneLess(w).dest = writer[w].dest /\ OneLess(w).calls = writer[w].calls
      /\ writer[w].left # 1 => OneLess(w).left \in 1 .. Parts
  BY <1>0 DEF WriterInv, WriterState, OneLess
<1>4. writer[w].left # 1 => OneLess(w) \in WriterState
  BY <1>0 DEF WriterInv, WriterState, OneLess
<1>5. Over(w) \in WriterState
  BY <1>0 DEF WriterState, Over
<1>. QED
  BY <1>0, <1>1, <1>2, <1>3, <1>4, <1>5

\* Every step of Write keeps the types.
LEMMA WriteType ==
  ASSUME TypeOK, WriterInv, NEW w \in Writers, Write(w)
  PROVE  TypeOK' /\ WriterInv'
<1>. USE DEF tlsVars, clientVars, kernelVars, serverVars, tableVars, userVars
<1>0. /\ writer \in [Writers -> WriterState] /\ writer[w] \in WriterState
      /\ Parts \in Nat \ {0} /\ MaxWrites \in Nat
  BY SocketAssumption DEF TypeOK
<1>1. ASSUME NEW i \in Slots, WriteBegin(w, i)
      PROVE  TypeOK' /\ WriterInv'
  <2>. DEFINE begun == [pc |-> "lock", file |-> fd[i], dest |-> view[i], ssl |-> Nobody,
                        left |-> Parts, calls |-> writer[w].calls + 1]
  <2>1. /\ fd[i] \in Fds /\ view[i] \in Peers
        /\ writer[w].calls \in 0 .. MaxWrites /\ writer[w].calls < MaxWrites
    BY <1>0, <1>1 DEF TypeOK, WriterState, WriteBegin
  <2>2. begun \in WriterState
    BY <1>0, <2>1 DEF WriterState
  <2>3. writer' = [writer EXCEPT ![w] = begun]
    BY <1>1 DEF WriteBegin
  <2>4. /\ begun.file \in Fds /\ begun.dest \in Peers
        /\ begun.left \in 1 .. Parts /\ begun.calls \in 1 .. MaxWrites
    BY <1>0, <2>1
  <2>. HIDE DEF begun
  <2>5. writer' \in [Writers -> WriterState]
    BY <1>0, <2>2, <2>3
  <2>6. WriterInv'
    BY <1>0, <2>3, <2>4 DEF WriterInv
  <2>. QED
    BY <1>1, <2>5, <2>6 DEF TypeOK, WriteBegin
<1>2. CASE WriteLock(w)
  <2>. DEFINE held == IF secure /\ writer[w].file \notin pending
                      THEN owner[writer[w].file] ELSE Nobody
              begun == [writer[w] EXCEPT !.pc = "send", !.ssl = held]
  <2>1. writer' = [writer EXCEPT ![w] = begun]
    BY <1>0, <1>2 DEF WriteLock
  <2>2. held \in Peers \cup {Nobody}
    BY <1>2 DEF TypeOK, WriterInv, WriteLock
  <2>. HIDE DEF held
  <2>3. begun \in WriterState
    BY <1>0, <2>2 DEF WriterState
  <2>4. /\ begun.file \in Fds /\ begun.dest \in Peers
        /\ begun.left \in 1 .. Parts /\ begun.calls \in 1 .. MaxWrites
    BY <1>0, <1>2 DEF WriterInv, WriterState, WriteLock
  <2>. HIDE DEF begun
  <2>5. writer' \in [Writers -> WriterState]
    BY <1>0, <2>1, <2>3
  <2>6. WriterInv'
    BY <1>0, <2>1, <2>4 DEF WriterInv
  <2>. QED
    BY <1>2, <2>5, <2>6 DEF TypeOK, WriteLock
<1>3. CASE WriteSend(w)
  <2>1. /\ \/ writer' = [writer EXCEPT ![w] = Over(w)]
           \/ writer[w].left # 1 /\ writer' = [writer EXCEPT ![w] = OneLess(w)]
        /\ got' = got \/ \E p \in Peers : got' = [got EXCEPT ![p] = Append(@, SentPiece(w))]
        /\ writer[w].pc = "send" /\ SentPiece(w) \in Piece
    BY <1>3, SendFacts
  <2>2. got' \in [Peers -> Seq(Piece)]
    <3>1. \A p \in Peers : got[p] \in Seq(Piece) /\ Append(got[p], SentPiece(w)) \in Seq(Piece)
      BY <2>1, AppendProperties DEF TypeOK
    <3>2. ASSUME NEW p \in Peers, got' = [got EXCEPT ![p] = Append(@, SentPiece(w))]
          PROVE  got' \in [Peers -> Seq(Piece)]
      BY <3>1, <3>2 DEF TypeOK
    <3>. QED
      BY <2>1, <3>2 DEF TypeOK
  <2>3. /\ writer[w].left # 1 => OneLess(w).left \in 1 .. Parts /\ OneLess(w) \in WriterState
        /\ OneLess(w).file \in Fds /\ OneLess(w).dest \in Peers
        /\ OneLess(w).calls \in 1 .. MaxWrites
        /\ Over(w) \in WriterState /\ Over(w).pc = "idle"
    BY <1>3, <2>1, SendFacts DEF WriterInv, Over
  <2>4. writer' \in [Writers -> WriterState]
    BY <1>0, <2>1, <2>3
  <2>5. WriterInv'
    BY <1>0, <2>1, <2>3 DEF WriterInv
  <2>. QED
    BY <1>3, <2>2, <2>4, <2>5 DEF TypeOK, WriteSend
<1>. QED
  BY <1>1, <1>2, <1>3 DEF Write

-----------------------------------------------------------------------------
(* Buffers.                                                                *)

HoldingSays ==
  /\ \A x \in Holding : \E i \in Slots, k \in Nat : x = <<i, k>>
  /\ \A i \in Slots, k \in Nat :
       <<i, k>> \in Holding
         <=> \/ k = 0 /\ worker[i].task.type = "DATA"
             \/ k \in 1 .. Len(queue[i]) /\ queue[i][k].type = "DATA"

\* The members of Holding, one by one.
LEMMA HoldingIs == HoldingSays
<1>1. \A x \in Holding : \E i \in Slots, k \in Nat : x = <<i, k>>
  BY DEF Holding
<1>2. ASSUME NEW i \in Slots, NEW k \in Nat
      PROVE  <<i, k>> \in Holding
               <=> \/ k = 0 /\ worker[i].task.type = "DATA"
                   \/ k \in 1 .. Len(queue[i]) /\ queue[i][k].type = "DATA"
  BY DEF Holding
<1>. QED
  BY <1>1, <1>2 DEF HoldingSays

\* The same before and after a step.
LEMMA HoldingStep == HoldingSays /\ HoldingSays'
BY HoldingIs, PTL

\* A step that neither touches a queue nor a data task of a worker keeps the
\* set of what is held.
LEMMA SameHolding ==
  ASSUME queue' = queue,
         \A i \in Slots : worker'[i].task.type = "DATA" <=> worker[i].task.type = "DATA"
  PROVE  Holding' = Holding
<1>1. \A i \in Slots, k \in Nat : <<i, k>> \in Holding' <=> <<i, k>> \in Holding
  BY HoldingStep DEF HoldingSays
<1>2. \A x \in Holding \cup Holding' : \E i \in Slots, k \in Nat : x = <<i, k>>
  BY HoldingStep DEF HoldingSays
<1>. QED
  BY <1>1, <1>2

\* Such a step keeps the account, too, if it takes and frees no buffer.
LEMMA SameBuffers ==
  ASSUME BufInv, UNCHANGED <<queue, used>>,
         \A i \in Slots : worker'[i].task.type = "DATA" <=> worker[i].task.type = "DATA"
  PROVE  BufInv'
<1>1. Holding' = Holding
  BY SameHolding
<1>. QED
  BY <1>1 DEF BufInv

\* The same of one place, before and after a step.
LEMMA HoldingAt ==
  ASSUME NEW i \in Slots, NEW k \in Nat
  PROVE  /\ <<i, k>> \in Holding
              <=> \/ k = 0 /\ worker[i].task.type = "DATA"
                  \/ k \in 1 .. Len(queue[i]) /\ queue[i][k].type = "DATA"
         /\ <<i, k>> \in Holding'
              <=> \/ k = 0 /\ worker'[i].task.type = "DATA"
                  \/ k \in 1 .. Len(queue'[i]) /\ queue'[i][k].type = "DATA"
BY HoldingStep DEF HoldingSays

\* A step that appends a task: a buffer more is held if it is one of data.
LEMMA PushBuffers ==
  ASSUME TypeOK, BufInv, NEW i \in Slots, NEW task \in Task, Push(i, task),
         \A j \in Slots : worker'[j].task.type = "DATA" <=> worker[j].task.type = "DATA"
  PROVE  /\ Holding' = IF task.type = "DATA" THEN Holding \cup {<<i, Len(queue[i]) + 1>>}
                                             ELSE Holding
         /\ <<i, Len(queue[i]) + 1>> \notin Holding
<1>1. queue[i] \in Seq(Task) /\ Len(queue[i]) \in Nat
  BY DEF TypeOK
<1>2. /\ queue'[i] = Append(queue[i], task)
      /\ \A j \in Slots : j # i => queue'[j] = queue[j]
  BY PushType
<1>3. /\ Len(queue'[i]) = Len(queue[i]) + 1
      /\ \A k \in 1 .. Len(queue[i]) : queue'[i][k] = queue[i][k]
      /\ queue'[i][Len(queue[i]) + 1] = task
  BY <1>1, <1>2, AppendProperties
<1>4. ASSUME NEW j \in Slots, NEW k \in Nat
      PROVE  <<j, k>> \in Holding'
               <=> \/ <<j, k>> \in Holding
                   \/ task.type = "DATA" /\ j = i /\ k = Len(queue[i]) + 1
  <2>1. CASE j # i
    BY <1>2, <2>1, HoldingStep DEF HoldingSays
  <2>2. CASE j = i
    <3>. DEFINE n == Len(queue[i])
    <3>1. <<i, k>> \in Holding <=> \/ k = 0 /\ worker[i].task.type = "DATA"
                                   \/ k \in 1 .. n /\ queue[i][k].type = "DATA"
      BY HoldingAt
    <3>2. <<i, k>> \in Holding' <=> \/ k = 0 /\ worker'[i].task.type = "DATA"
                                    \/ k \in 1 .. n + 1 /\ queue'[i][k].type = "DATA"
      BY <1>3, HoldingAt
    <3>3. n \in Nat /\ n + 1 # 0 /\ (k \in 1 .. n + 1 <=> k \in 1 .. n \/ k = n + 1)
      BY <1>1
    <3>4. worker'[i].task.type = "DATA" <=> worker[i].task.type = "DATA"
      OBVIOUS
    <3>5. CASE k = n + 1
      BY <1>3, <2>2, <3>1, <3>2, <3>3, <3>5
    <3>6. CASE k # n + 1
      <4>1. k \in 1 .. n => queue'[i][k] = queue[i][k]
        BY <1>3
      <4>2. k \in 1 .. n + 1 <=> k \in 1 .. n
        BY <3>3, <3>6
      <4>3. /\ k = 0 /\ worker'[i].task.type = "DATA" <=> k = 0 /\ worker[i].task.type = "DATA"
            /\ k \in 1 .. n + 1 /\ queue'[i][k].type = "DATA"
                 <=> k \in 1 .. n /\ queue[i][k].type = "DATA"
        BY <3>4, <4>1, <4>2
      <4>4. <<i, k>> \in Holding' <=> <<i, k>> \in Holding
        BY Zenon, <3>1, <3>2, <4>3
      <4>. QED
        BY Zenon, <2>2, <3>6, <4>4
    <3>. QED
      BY <3>5, <3>6
  <2>. QED
    BY <2>1, <2>2
<1>5. <<i, Len(queue[i]) + 1>> \notin Holding
  BY <1>1, HoldingStep DEF HoldingSays
<1>6. \A x \in Holding \cup Holding' : \E j \in Slots, k \in Nat : x = <<j, k>>
  BY HoldingStep DEF HoldingSays
<1>7. \A x : x \in Holding'
         <=> x \in Holding \/ (task.type = "DATA" /\ x = <<i, Len(queue[i]) + 1>>)
  BY <1>1, <1>4, <1>6
<1>. QED
  BY <1>5, <1>7

\* A step that appends a task which is not one of data.
LEMMA PushNoBuffer ==
  ASSUME TypeOK, BufInv, NEW i \in Slots, NEW task \in Task, Push(i, task),
         task.type # "DATA", used' = used,
         \A j \in Slots : worker'[j].task.type = "DATA" <=> worker[j].task.type = "DATA"
  PROVE  BufInv'
<1>1. Holding' = Holding
  BY PushBuffers
<1>. QED
  BY <1>1 DEF BufInv

\* A worker takes the first task of its queue: what it held moves up by one.
LEMMA TakeBuffers ==
  ASSUME TypeOK, BufInv, NEW i \in Slots, queue[i] # << >>,
         worker[i].task.type # "DATA",
         worker'[i].task = Head(queue[i]), queue'[i] = Tail(queue[i]),
         \A j \in Slots : j # i => worker'[j] = worker[j] /\ queue'[j] = queue[j]
  PROVE  IsFiniteSet(Holding') /\ Cardinality(Holding') = Cardinality(Holding)
<1>1. /\ queue[i] \in Seq(Task) /\ Len(queue[i]) \in Nat \ {0}
      /\ Head(queue[i]) = queue[i][1]
  BY TailRange DEF TypeOK
<1>2. /\ Len(queue'[i]) = Len(queue[i]) - 1
      /\ \A k \in 1 .. Len(queue[i]) - 1 : queue'[i][k] = queue[i][k + 1]
  BY <1>1, HeadTailProperties
<1>. DEFINE to == [x \in Holding |-> IF x[1] = i THEN <<i, x[2] - 1>> ELSE x]
<1>3. ASSUME NEW k \in Nat
      PROVE  <<i, k>> \in Holding' <=> <<i, k + 1>> \in Holding
  <2>1. CASE k = 0
    BY <1>1, <1>2, <2>1, HoldingStep DEF HoldingSays
  <2>2. CASE k # 0
    <3>1. <<i, k>> \in Holding' <=> k \in 1 .. Len(queue'[i]) /\ queue'[i][k].type = "DATA"
      BY <2>2, HoldingStep DEF HoldingSays
    <3>2. k + 1 \in Nat /\ k + 1 # 0
      OBVIOUS
    <3>3. <<i, k + 1>> \in Holding
            <=> k + 1 \in 1 .. Len(queue[i]) /\ queue[i][k + 1].type = "DATA"
      BY <3>2, HoldingStep DEF HoldingSays
    <3>4. k \in 1 .. Len(queue'[i]) <=> k + 1 \in 1 .. Len(queue[i])
      BY <1>1, <1>2, <2>2
    <3>5. k \in 1 .. Len(queue'[i]) => queue'[i][k] = queue[i][k + 1]
      BY <1>1, <1>2
    <3>. QED
      BY <3>1, <3>3, <3>4, <3>5
  <2>. QED
    BY <2>1, <2>2
<1>4. ASSUME NEW j \in Slots, j # i, NEW k \in Nat
      PROVE  <<j, k>> \in Holding' <=> <<j, k>> \in Holding
  BY <1>4, HoldingStep DEF HoldingSays
<1>5. <<i, 0>> \notin Holding
  BY HoldingStep DEF HoldingSays
<1>6. \A x \in Holding \cup Holding' : \E j \in Slots, k \in Nat : x = <<j, k>>
  BY HoldingStep DEF HoldingSays
<1>7. \A x \in Holding :
        \/ \E k \in Nat : x = <<i, k + 1>> /\ to[x] = <<i, k>>
        \/ x[1] # i /\ to[x] = x
  <2>. SUFFICES ASSUME NEW j \in Slots, NEW k \in Nat, <<j, k>> \in Holding
                PROVE  \/ \E n \in Nat : <<j, k>> = <<i, n + 1>> /\ to[<<j, k>>] = <<i, n>>
                       \/ j # i /\ to[<<j, k>>] = <<j, k>>
    BY <1>6
  <2>1. CASE j = i
    <3>1. k # 0 /\ k - 1 \in Nat /\ (k - 1) + 1 = k
      BY <1>5, <2>1
    <3>. QED
      BY <2>1, <3>1
  <2>. QED
    BY <2>1
<1>8. to \in [Holding -> Holding']
  BY <1>3, <1>4, <1>6, <1>7
<1>9. ASSUME NEW x \in Holding, NEW y \in Holding, to[x] = to[y]
      PROVE  x = y
  BY <1>7, <1>9
<1>10. ASSUME NEW y \in Holding'
       PROVE  \E x \in Holding : to[x] = y
  <2>1. PICK j \in Slots, k \in Nat : y = <<j, k>>
    BY <1>6
  <2>2. CASE j = i
    <3>1. <<i, k + 1>> \in Holding
      BY <1>3, <2>1, <2>2
    <3>2. to[<<i, k + 1>>] = <<i, k>>
      BY <3>1
    <3>. QED
      BY <2>1, <2>2, <3>1, <3>2
  <2>3. CASE j # i
    BY <1>4, <2>1, <2>3
  <2>. QED
    BY <2>2, <2>3
<1>. HIDE DEF to
<1>11. to \in Bijection(Holding, Holding')
  BY <1>8, <1>9, <1>10 DEF Bijection, Injection, Surjection, IsInjective
<1>12. ExistsBijection(Holding, Holding')
  BY <1>11 DEF ExistsBijection
<1>. QED
  BY <1>12, FS_Bijection DEF BufInv

\* A worker is done with its data task, or is taken away with it.
LEMMA DoneBuffers ==
  ASSUME BufInv, NEW i \in Slots, queue' = queue,
         worker[i].task.type = "DATA", worker'[i].task.type # "DATA",
         \A j \in Slots : j # i => worker'[j] = worker[j]
  PROVE  /\ IsFiniteSet(Holding')
         /\ Cardinality(Holding') = Cardinality(Holding) - 1
<1>1. <<i, 0>> \in Holding
  BY HoldingStep DEF HoldingSays
<1>2. ASSUME NEW j \in Slots, NEW k \in Nat
      PROVE  <<j, k>> \in Holding' <=> <<j, k>> \in Holding /\ <<j, k>> # <<i, 0>>
  BY HoldingStep DEF HoldingSays
<1>3. \A x \in Holding \cup Holding' : \E j \in Slots, k \in Nat : x = <<j, k>>
  BY HoldingStep DEF HoldingSays
<1>4. Holding' = Holding \ {<<i, 0>>}
  BY <1>2, <1>3
<1>. QED
  BY <1>1, <1>4, FS_RemoveElement DEF BufInv

-----------------------------------------------------------------------------
(* The invariant is inductive.                                             *)

\* Steps of the clients.
LEMMA ClientStep ==
  ASSUME IInv, NEW p \in Peers, Connect(p) \/ Shake(p) \/ Send(p) \/ Hangup(p)
  PROVE  IInv'
<1>. USE DEF tlsVars, clientVars, kernelVars, serverVars, tableVars, userVars
<1>1. TypeOK' /\ WriterInv'
  BY ClientType DEF IInv, WriterInv, Connect, Shake, Send, Hangup
<1>2. /\ FdInv' /\ PollInv' /\ DescriptorsTracked' /\ EndInv'
      /\ FreshInv' /\ CleanupInv'
  BY DEF IInv, Connect, Shake, Send, Hangup, FdInv, PollInv, DescriptorsTracked, EndInv,
         FreshInv, CleanupInv, Live, Unassigned, Ending
<1>3. UNCHANGED <<queue, worker, used>>
  BY DEF Connect, Shake, Send, Hangup
<1>4. BufInv'
  BY <1>3, SameBuffers DEF IInv
<1>5. DataInv'
  <2>1. CASE Send(p)
    BY <2>1 DEF IInv, DataInv, TypeOK, Send
  <2>. QED
    BY <2>1 DEF IInv, DataInv, Connect, Shake, Hangup
<1>6. ReachInv'
  <2>1. CASE Connect(p)
    <3>1. Range(backlog') = Range(backlog) \cup {p}
      BY <2>1, AppendRange DEF IInv, TypeOK, Connect
    <3>. QED
      BY <2>1, <3>1 DEF IInv, ReachInv, TypeOK, Connect
  <2>. QED
    BY <2>1 DEF IInv, ReachInv, TypeOK, Shake, Send, Hangup
<1>. QED
  BY <1>1, <1>2, <1>4, <1>5, <1>6 DEF IInv

\* What a batch is when epoll_wait fills it, and otherwise keeps.
LEMMA PollLoopStep ==
  ASSUME IInv, PollCheck \/ PollWait
  PROVE  IInv'
<1>. USE DEF tlsVars, clientVars, kernelVars, serverVars, tableVars, userVars
<1>0. poll \in PollState
  BY DEF IInv, TypeOK
<1>1. TypeOK' /\ WriterInv'
  BY PollType DEF IInv, WriterInv, Poll, PollCheck, PollWait
<1>2. UNCHANGED <<queue, worker, used>>
  BY DEF PollCheck, PollWait
<1>3. BufInv'
  BY <1>2, SameBuffers DEF IInv
<1>4. /\ poll.pc \in {"check", "wait"} /\ poll'.pc \in {"check", "wait", "batch", "exited"}
      /\ poll'.pc = "batch" => poll'.batch \subseteq Ready
  BY <1>0 DEF PollState, PollCheck, PollWait
<1>5. ASSUME poll'.pc = "batch", NEW i \in poll'.batch \ {Listener}
      PROVE  Live(i)
  <2>1. PICK f \in Fds : watch[f] # None /\ i = watch[f]
    BY <1>4, <1>5 DEF Ready
  <2>. QED
    BY <1>4, <2>1, Indices DEF IInv, FdInv, DescriptorsTracked, Live
<1>6. /\ FdInv' /\ DescriptorsTracked' /\ EndInv' /\ PollInv' /\ FreshInv'
      /\ CleanupInv' /\ DataInv' /\ ReachInv'
  <2>1. UNCHANGED <<phase, sent, records, pending, secure, listening, backlog, owner, watch,
                    started, fd, queue, worker, app>>
    BY DEF PollCheck, PollWait
  <2>. QED
    BY <1>4, <1>5, <2>1 DEF IInv, FdInv, DescriptorsTracked, EndInv, PollInv, FreshInv,
       CleanupInv, DataInv, ReachInv, Live, Unassigned, Ending
<1>. QED
  BY <1>1, <1>3, <1>6 DEF IInv

\* A client is taken from the listen queue.
LEMMA ArrivedStep ==
  ASSUME IInv, PollRefuse \/ PollAccept \/ PollReserve
  PROVE  IInv'
<1>. USE DEF tlsVars, clientVars, kernelVars, serverVars, tableVars, userVars
<1>0. /\ poll \in PollState /\ poll.pc = "batch" /\ Listener \in poll.batch
      /\ backlog \in Seq(Peers) /\ backlog # << >> /\ backlog' = Tail(backlog)
      /\ owner \in [Fds -> Peers \cup {Nobody}] /\ watch \in [Fds -> Slots \cup {None}]
      /\ fd \in [Slots -> Fds \cup {None}]
  BY DEF IInv, TypeOK, Arrived, PollRefuse, PollAccept, PollReserve
<1>1. TypeOK' /\ WriterInv'
  BY PollType DEF IInv, WriterInv, Poll, PollRefuse, PollAccept, PollReserve
<1>2. BufInv'
  <2>1. UNCHANGED <<queue, worker, used>>
    BY DEF PollRefuse, PollAccept, PollReserve
  <2>. QED
    BY <2>1, SameBuffers DEF IInv
<1>3. Range(backlog) = Range(backlog') \cup {Head(backlog)} /\ Head(backlog) \in Peers
  BY <1>0, TailRange, HeadTailProperties
<1>4. CASE PollRefuse
  <2>1. poll'.pc \in {"check", "batch"} /\ poll'.batch \subseteq poll.batch
    BY <1>4, HandledType DEF IInv, PollRefuse
  <2>2. UNCHANGED <<sent, records, pending, secure, listening, owner, watch,
                    started, fd, queue, worker, app>>
    BY <1>4 DEF PollRefuse
  <2>3. /\ FdInv' /\ DescriptorsTracked' /\ EndInv' /\ PollInv' /\ FreshInv'
        /\ CleanupInv' /\ DataInv'
    BY <1>0, <2>1, <2>2 DEF IInv, FdInv, DescriptorsTracked, EndInv, PollInv, FreshInv,
       CleanupInv, DataInv, Live, Unassigned, Ending
  <2>4. ReachInv'
    BY <1>0, <1>3, <1>4, <2>1, <2>2 DEF IInv, TypeOK, ReachInv, PollRefuse
  <2>. QED
    BY <1>1, <1>2, <2>3, <2>4 DEF IInv
<1>5. CASE PollAccept \/ PollReserve
  <2>. DEFINE f == FreeFd
              s == Min(Free)
  <2>1. f \in Fds /\ owner[f] = Nobody
    BY <1>0, FreeFdExists DEF IInv
  <2>2. s \in Slots /\ fd[s] = None
    BY <1>5, FreeSlotExists DEF PollAccept, PollReserve
  <2>3. /\ owner' = [owner EXCEPT ![f] = Head(backlog)]
        /\ watch' = [watch EXCEPT ![f] = s]
        /\ UNCHANGED <<phase, sent, records, secure, listening, started, queue, worker, app>>
    BY <1>5 DEF PollAccept, PollReserve
  <2>4. \/ /\ PollAccept /\ ~ secure /\ UNCHANGED <<pending, fd>>
           /\ poll'.pc = "assign" /\ poll'.batch = poll.batch
           /\ poll'.slot = s /\ poll'.file = f
        \/ /\ PollReserve /\ secure
           /\ pending' = pending \cup {f} /\ fd' = [fd EXCEPT ![s] = f]
           /\ poll'.pc \in {"check", "batch"} /\ poll'.batch = poll.batch \ {Listener}
    BY <1>0, <1>5, HandledType DEF IInv, PollState, PollAccept, PollReserve
  <2>. HIDE DEF f, s
  <2>5. ReachInv' /\ DataInv' /\ CleanupInv' /\ FdInv'
    <3>1. Range(owner') = {owner'[g] : g \in Fds} /\ Range(owner) = {owner[g] : g \in Fds}
      BY <1>0, <2>3 DEF Range
    <3>2. Range(owner) \ {Nobody} \subseteq Range(owner') /\ Head(backlog) \in Range(owner')
      BY <1>0, <2>1, <2>3, <3>1
    <3>3. ReachInv'
      BY <1>0, <1>3, <2>3, <2>4, <3>2, Indices DEF IInv, ReachInv
    <3>4. DataInv' /\ CleanupInv'
      BY <1>0, <2>3, <2>4 DEF IInv, DataInv, CleanupInv
    <3>5. FdInv'
      BY <1>0, <1>3, <2>1, <2>2, <2>3, Indices DEF IInv, FdInv
    <3>. QED
      BY <3>3, <3>4, <3>5
  <2>6. \A i \in Slots : i # s => (Live(i)' <=> Live(i))
    BY <1>0, <2>1, <2>2, <2>3, <2>4, Indices DEF IInv, FdInv, Live
  <2>7. PollInv'
    <3>1. \A i \in poll.batch \ {Listener} : i \in Slots /\ Live(i) /\ i # s
      BY <1>0, <2>2 DEF IInv, PollInv, PollState, Live
    <3>. QED
      BY <1>0, <1>3, <2>1, <2>2, <2>3, <2>4, <2>6, <3>1, Indices DEF IInv, PollInv
  <2>8. DescriptorsTracked'
    BY <1>0, <2>1, <2>2, <2>3, <2>4, Indices DEF IInv, DescriptorsTracked
  <2>9. ~ Ending(s) /\ queue[s] = << >> /\ worker[s].pc \in {"none", "stopping", "exited"}
    BY <1>0, <2>2 DEF IInv, FreshInv, EndInv, Unassigned, Ending, NoTask
  <2>10. EndInv'
    BY <2>3, <2>6, <2>9 DEF IInv, EndInv, Ending
  <2>11. FreshInv'
    <3>1. ASSUME NEW i \in Slots, i # s, Unassigned(i)'
          PROVE  Unassigned(i)
      BY <1>0, <2>1, <2>2, <2>3, <2>4, <2>6, <3>1, Indices DEF IInv, FdInv, Unassigned, Live
    <3>. QED
      BY <1>0, <2>3, <2>4, <2>9, <3>1 DEF IInv, FreshInv
  <2>. QED
    BY <1>1, <1>2, <2>5, <2>7, <2>8, <2>10, <2>11 DEF IInv
<1>. QED
  BY <1>4, <1>5

\* What Assign does to connection i, whose last client has left nothing.
LEMMA AssignFacts ==
  ASSUME IInv, NEW i \in Slots, NEW f \in Fds, Assign(i, f), owner[f] # Nobody,
         poll.pc # "off", Unassigned(i), used' = used
  PROVE  /\ fd' = [fd EXCEPT ![i] = f]
         /\ worker' = [worker EXCEPT ![i] = [Idle EXCEPT !.pc = "check"]]
         /\ Len(queue'[i]) = 1 /\ queue'[i][1].type = "CONNECTION"
         /\ \A j \in Slots : j # i => queue'[j] = queue[j] /\ worker'[j] = worker[j]
         /\ worker'[i].pc = "check" /\ worker'[i].task = NoTask
         /\ BufInv'
<1>. DEFINE task == [type |-> "CONNECTION", peer |-> owner[f], unit |-> 0]
<1>1. /\ fd' = [fd EXCEPT ![i] = f]
      /\ worker' = [worker EXCEPT ![i] = [Idle EXCEPT !.pc = "check"]]
      /\ Push(i, task) /\ Joinable(i)
  BY DEF Assign
<1>2. task \in Task
  BY SocketAssumption DEF IInv, TypeOK, Task
<1>3. task.type = "CONNECTION"
  OBVIOUS
<1>. HIDE DEF task
<1>4. /\ queue' \in [Slots -> Seq(Task)] /\ queue'[i] = Append(queue[i], task)
      /\ \A j \in Slots : j # i => queue'[j] = queue[j]
  BY <1>1, <1>2, PushType DEF IInv
<1>5. queue[i] = << >> /\ Len(queue[i]) = 0 /\ queue[i] \in Seq(Task)
  BY EmptySeq DEF IInv, TypeOK, FreshInv
<1>6. Len(queue'[i]) = 1 /\ queue'[i][1] = task
  BY <1>2, <1>4, <1>5, AppendProperties
<1>7. /\ worker'[i] = [Idle EXCEPT !.pc = "check"]
      /\ \A j \in Slots : j # i => worker'[j] = worker[j]
  BY <1>1 DEF IInv, TypeOK
<1>8. worker'[i].pc = "check" /\ worker'[i].task = NoTask
  BY <1>7 DEF Idle
<1>9. worker[i].task = NoTask
  BY <1>1 DEF Joinable, IInv, EndInv
<1>10. \A j \in Slots : worker'[j].task.type = "DATA" <=> worker[j].task.type = "DATA"
  BY <1>7, <1>8, <1>9
<1>11. BufInv'
  BY <1>1, <1>2, <1>3, <1>10, PushNoBuffer DEF IInv
<1>. QED
  BY <1>1, <1>3, <1>4, <1>6, <1>7, <1>8, <1>11

\* Who is assigned to which connection.
LEMMA AssignCases ==
  ASSUME IInv, PollAssign \/ \E i \in Slots : PollSecured(i)
  PROVE  \E i \in Slots, f \in Fds :
           /\ Assign(i, f) /\ owner[f] # Nobody /\ watch[f] = i /\ Unassigned(i)
           /\ used' = used /\ pending' = pending \ {f}
           /\ poll.pc \in {"batch", "assign"} /\ poll'.pc \in {"check", "batch"}
           /\ poll'.batch \subseteq poll.batch
           /\ poll.pc = "assign" => poll.slot = i /\ poll.file = f
           /\ poll.pc = "batch" => f \in pending
           /\ fd[i] \in {None, f}
<1>. USE DEF tlsVars, clientVars, kernelVars, serverVars, tableVars, userVars
<1>1. CASE PollAssign
  <2>. DEFINE i == poll.slot
              f == poll.file
  <2>1. /\ i \in Slots /\ f \in Fds /\ fd[i] = None /\ owner[f] # Nobody /\ watch[f] = i
        /\ pending = {} /\ poll.pc = "assign"
    BY <1>1 DEF IInv, PollInv, PollAssign
  <2>2. /\ Assign(i, f) /\ used' = used /\ pending' = pending \ {f}
        /\ poll'.pc \in {"check", "batch"} /\ poll'.batch \subseteq poll.batch
    BY <1>1, <2>1 DEF PollAssign
  <2>. QED
    BY <2>1, <2>2 DEF Unassigned
<1>2. CASE \E i \in Slots : PollSecured(i)
  <2>1. PICK i \in Slots : PollSecured(i)
    BY <1>2
  <2>2. /\ poll.pc = "batch" /\ i \in poll.batch /\ fd[i] \in pending
        /\ pending' = pending \ {fd[i]} /\ Assign(i, fd[i]) /\ used' = used
        /\ Handled(i)
    BY <2>1 DEF PollSecured, ShakeEvent
  <2>3. fd[i] \in Fds /\ owner[fd[i]] \in Peers /\ Live(i)
    BY <2>2, EventFacts DEF IInv
  <2>4. poll'.pc \in {"check", "batch"} /\ poll'.batch \subseteq poll.batch
    BY <2>2, HandledType DEF IInv
  <2>. QED
    BY <2>2, <2>3, <2>4, Indices DEF Unassigned, Live
<1>. QED
  BY <1>1, <1>2

\* A client is assigned to a connection.
LEMMA AssignStep ==
  ASSUME IInv, PollAssign \/ \E i \in Slots : PollSecured(i)
  PROVE  IInv'
<1>. USE DEF tlsVars, clientVars, kernelVars, serverVars, tableVars, userVars
<1>0. /\ poll \in PollState
      /\ owner \in [Fds -> Peers \cup {Nobody}] /\ watch \in [Fds -> Slots \cup {None}]
      /\ fd \in [Slots -> Fds \cup {None}] /\ pending \subseteq Fds
  BY DEF IInv, TypeOK
<1>1. TypeOK' /\ WriterInv'
  BY PollType DEF IInv, WriterInv, Poll, PollAssign, PollSecured
<1>2. PICK i \in Slots, f \in Fds :
        /\ Assign(i, f) /\ owner[f] # Nobody /\ watch[f] = i /\ Unassigned(i)
        /\ used' = used /\ pending' = pending \ {f}
        /\ poll.pc \in {"batch", "assign"} /\ poll'.pc \in {"check", "batch"}
        /\ poll'.batch \subseteq poll.batch
        /\ poll.pc = "assign" => poll.slot = i /\ poll.file = f
        /\ fd[i] \in {None, f}
  BY AssignCases
<1>3. /\ fd' = [fd EXCEPT ![i] = f]
      /\ worker' = [worker EXCEPT ![i] = [Idle EXCEPT !.pc = "check"]]
      /\ Len(queue'[i]) = 1 /\ queue'[i][1].type = "CONNECTION"
      /\ \A j \in Slots : j # i => queue'[j] = queue[j] /\ worker'[j] = worker[j]
      /\ worker'[i].pc = "check" /\ worker'[i].task = NoTask
      /\ BufInv'
  BY <1>2, AssignFacts
<1>4. UNCHANGED <<phase, sent, records, secure, listening, backlog, owner, watch, started, app>>
  BY DEF PollAssign, PollSecured
<1>5. \A j \in Slots : j # i => (Live(j)' <=> Live(j))
  BY <1>0, <1>2, <1>3, <1>4 DEF Live
<1>6. /\ FdInv' /\ DataInv' /\ CleanupInv' /\ ReachInv'
  BY <1>2, <1>4 DEF IInv, FdInv, DataInv, CleanupInv, ReachInv
<1>7. PollInv'
  <2>1. Live(i)'
    BY <1>0, <1>2, <1>3, <1>4, Indices DEF Live
  <2>. QED
    BY <1>0, <1>2, <1>4, <1>5, <2>1 DEF IInv, PollInv, PollState
<1>8. DescriptorsTracked'
  <2>1. \A g \in Fds : g # f /\ owner[g] # Nobody => watch[g] \in Slots /\ fd[watch[g]] = g
    BY <1>2 DEF IInv, DescriptorsTracked
  <2>2. \A g \in Fds : g # f /\ owner[g] # Nobody => watch[g] # i
    BY <1>2, <2>1, Indices
  <2>. QED
    BY <1>0, <1>2, <1>3, <1>4, <2>1, <2>2 DEF DescriptorsTracked
<1>9. EndInv'
  <2>1. ~ Ending(i)'
    BY <1>3 DEF Ending, NoTask
  <2>2. \A j \in Slots : j # i => (Ending(j)' <=> Ending(j))
    BY <1>3 DEF Ending
  <2>3. \A k \in 1 .. Len(queue'[i]) : queue'[i][k].type # "DISCONNECTION"
    BY <1>3
  <2>. QED
    BY <1>3, <1>5, <2>1, <2>2, <2>3 DEF IInv, EndInv
<1>10. FreshInv'
  <2>1. ~ Unassigned(i)'
    BY <1>0, <1>2, <1>3, Indices DEF Unassigned
  <2>2. \A j \in Slots : j # i /\ Unassigned(j)' => Unassigned(j)
    BY <1>0, <1>2, <1>3, <1>4 DEF Unassigned, Live
  <2>. QED
    BY <1>0, <1>2, <1>3, <1>4, <2>1, <2>2 DEF IInv, FreshInv
<1>. QED
  BY <1>1, <1>3, <1>6, <1>7, <1>8, <1>9, <1>10 DEF IInv

\* A handshake goes on, or there is nothing to read.
LEMMA QuietEventStep ==
  ASSUME IInv, NEW i \in Slots, PollShake(i) \/ PollAgain(i)
  PROVE  IInv'
<1>. USE DEF tlsVars, clientVars, kernelVars, serverVars, tableVars, userVars
<1>1. TypeOK' /\ WriterInv'
  BY PollType DEF IInv, WriterInv, Poll, PollShake, PollAgain
<1>2. Handled(i) /\ poll.pc = "batch" /\ poll \in PollState
  BY DEF PollShake, PollAgain, ShakeEvent, ReadEvent, IInv, TypeOK
<1>3. poll'.pc \in {"check", "batch"} /\ poll'.batch \subseteq poll.batch
  BY <1>2, HandledType DEF IInv
<1>4. UNCHANGED <<phase, sent, records, secure, pending, listening, backlog, owner, watch,
                  started, app, fd, queue, worker>>
  BY DEF PollShake, PollAgain
<1>5. BufInv'
  <2>1. Holding' = Holding
    BY <1>4, SameHolding
  <2>2. Cardinality(Holding) \in Nat /\ used \in Nat
    BY FS_CardinalityType DEF IInv, BufInv, TypeOK
  <2>3. used' \in {used, used + 1}
    BY DEF PollShake, PollAgain
  <2>. QED
    BY <2>1, <2>2, <2>3 DEF IInv, BufInv
<1>6. /\ FdInv' /\ DescriptorsTracked' /\ EndInv' /\ PollInv' /\ FreshInv'
      /\ CleanupInv' /\ DataInv' /\ ReachInv'
  BY <1>2, <1>3, <1>4 DEF IInv, FdInv, DescriptorsTracked, EndInv, PollInv, FreshInv,
     CleanupInv, DataInv, ReachInv, Live, Unassigned, Ending
<1>. QED
  BY <1>1, <1>5, <1>6 DEF IInv

\* Closing descriptor f cuts its client off and disturbs nobody else.
LEMMA CloseFdEffect ==
  ASSUME IInv, NEW f \in Fds, CloseFd(f), UNCHANGED backlog
  PROVE  /\ \A g \in Fds : g # f => owner'[g] = owner[g] /\ watch'[g] = watch[g]
         /\ owner'[f] = Nobody /\ watch'[f] = None
         /\ \A p \in Peers : phase'[p] = "open" =>
              phase[p] = "open" /\ p \in Range(backlog') \cup Range(owner')
         /\ FdInv'
<1>0. /\ owner \in [Fds -> Peers \cup {Nobody}] /\ watch \in [Fds -> Slots \cup {None}]
      /\ phase \in [Peers -> {"new", "open", "closed", "reset", "shut"}]
      /\ fd \in [Slots -> Fds \cup {None}]
  BY DEF IInv, TypeOK
<1>1. /\ \A g \in Fds : g # f => owner'[g] = owner[g] /\ watch'[g] = watch[g]
      /\ owner'[f] = Nobody /\ watch'[f] = None
      /\ owner' \in [Fds -> Peers \cup {Nobody}]
      /\ owner[f] # Nobody => phase' = [phase EXCEPT ![owner[f]] = "shut"]
      /\ owner[f] = Nobody => phase' = phase
  BY <1>0 DEF CloseFd, IInv, FdInv
<1>2. ASSUME NEW p \in Peers, phase'[p] = "open"
      PROVE  phase[p] = "open" /\ p \in Range(backlog') \cup Range(owner')
  <2>1. phase[p] = "open" /\ owner[f] # p
    BY <1>0, <1>1, <1>2, Indices
  <2>2. p \in Range(backlog) \cup Range(owner)
    BY <2>1 DEF IInv, ReachInv
  <2>3. Range(owner) = {owner[g] : g \in Fds} /\ Range(owner') = {owner'[g] : g \in Fds}
    BY <1>0, <1>1 DEF Range
  <2>4. p \in Range(owner) => p \in Range(owner')
    BY <1>1, <2>1, <2>3
  <2>. QED
    BY <2>1, <2>2, <2>4
<1>3. FdInv'
  BY <1>1 DEF IInv, FdInv
<1>. QED
  BY <1>1, <1>2, <1>3

\* A handshake fails.
LEMMA ShakeEndStep ==
  ASSUME IInv, NEW i \in Slots, PollShakeEnd(i)
  PROVE  IInv'
<1>. USE DEF tlsVars, clientVars, kernelVars, serverVars, tableVars, userVars
<1>0. /\ poll \in PollState /\ poll.pc = "batch" /\ i \in poll.batch
      /\ fd[i] \in pending /\ fd[i] \in Fds /\ Live(i) /\ Handled(i)
      /\ fd \in [Slots -> Fds \cup {None}] /\ watch \in [Fds -> Slots \cup {None}]
      /\ worker \in [Slots -> WorkerState]
  BY EventFacts DEF PollShakeEnd, ShakeEvent, IInv, TypeOK
<1>1. TypeOK' /\ WriterInv'
  BY PollType DEF IInv, WriterInv, Poll, PollShakeEnd
<1>2. poll'.pc \in {"check", "batch"} /\ poll'.batch = poll.batch \ {i}
  BY <1>0, HandledType DEF IInv
<1>3. /\ CloseFd(fd[i]) /\ Joinable(i) /\ pending' = pending \ {fd[i]}
      /\ fd' = [fd EXCEPT ![i] = None] /\ worker' = [worker EXCEPT ![i] = Idle]
      /\ UNCHANGED <<sent, records, secure, listening, backlog, started, used, app, queue>>
  BY DEF PollShakeEnd
<1>. DEFINE f == fd[i]
<1>4. /\ \A g \in Fds : g # f => owner'[g] = owner[g] /\ watch'[g] = watch[g]
      /\ owner'[f] = Nobody /\ watch'[f] = None
      /\ \A p \in Peers : phase'[p] = "open" =>
           phase[p] = "open" /\ p \in Range(backlog') \cup Range(owner')
      /\ FdInv'
  BY <1>0, <1>3, CloseFdEffect
<1>5. /\ worker'[i] = Idle /\ \A j \in Slots : j # i => worker'[j] = worker[j]
      /\ fd'[i] = None /\ \A j \in Slots : j # i => fd'[j] = fd[j]
  BY <1>0, <1>3
<1>6. \A j \in Slots : Live(j)' <=> j # i /\ Live(j)
  <2>1. ~ Live(i)'
    BY <1>5 DEF Live
  <2>2. ASSUME NEW j \in Slots, j # i
        PROVE  Live(j)' <=> Live(j)
    <3>1. CASE fd[j] = f
      BY <1>0, <1>4, <1>5, <2>2, <3>1, Indices DEF Live
    <3>2. CASE fd[j] # f
      <4>1. fd'[j] = fd[j] /\ (fd[j] # None => fd[j] \in Fds)
        BY <1>0, <1>5, <2>2
      <4>2. fd[j] # None => watch'[fd[j]] = watch[fd[j]]
        BY <1>4, <3>2, <4>1
      <4>. QED
        BY <4>1, <4>2 DEF Live
    <3>. QED
      BY <3>1, <3>2
  <2>. QED
    BY <2>1, <2>2
<1>7. BufInv'
  <2>1. worker[i].task = NoTask /\ worker'[i].task = NoTask
    BY <1>3, <1>5 DEF Joinable, IInv, EndInv, Idle
  <2>2. \A j \in Slots : worker'[j].task.type = "DATA" <=> worker[j].task.type = "DATA"
    BY <1>5, <2>1
  <2>. QED
    BY <1>3, <2>2, SameBuffers DEF IInv
<1>8. PollInv'
  BY <1>0, <1>2, <1>3, <1>6, Indices DEF IInv, PollInv, PollState
<1>9. DescriptorsTracked'
  <2>1. \A g \in Fds : owner[g] # Nobody => watch[g] \in Slots /\ fd[watch[g]] = g
    BY <1>0 DEF IInv, DescriptorsTracked
  <2>. QED
    BY <1>4, <1>5, <2>1 DEF DescriptorsTracked
<1>10. EndInv'
  <2>1. worker'[i].pc # "call" /\ worker'[i].task = NoTask /\ ~ Ending(i)'
    BY <1>5 DEF Idle, NoTask, Ending
  <2>2. \A j \in Slots : j # i => (Ending(j)' <=> Ending(j))
    BY <1>5 DEF Ending
  <2>. QED
    BY <1>3, <1>5, <1>6, <2>1, <2>2 DEF IInv, EndInv
<1>11. FreshInv'
  <2>1. queue[i] = << >>
    BY <1>0 DEF IInv, FreshInv, Unassigned
  <2>2. \A j \in Slots : j # i /\ Unassigned(j)' => Unassigned(j)
    BY <1>3, <1>5, <1>6 DEF Unassigned
  <2>3. worker'[i].pc = "none"
    BY <1>5 DEF Idle
  <2>. QED
    BY <1>0, <1>2, <1>3, <1>5, <2>1, <2>2, <2>3 DEF IInv, FreshInv
<1>12. CleanupInv' /\ DataInv' /\ ReachInv'
  BY <1>0, <1>2, <1>3, <1>4 DEF IInv, CleanupInv, DataInv, ReachInv
<1>. QED
  BY <1>1, <1>4, <1>7, <1>8, <1>9, <1>10, <1>11, <1>12 DEF IInv

\* A connection is dropped.
LEMMA DropStep ==
  ASSUME IInv, NEW i \in Slots, PollExhausted(i) \/ PollEnd(i)
  PROVE  IInv'
<1>. USE DEF tlsVars, clientVars, kernelVars, serverVars, tableVars, userVars
<1>0. /\ poll \in PollState /\ poll.pc = "batch" /\ i \in poll.batch
      /\ fd[i] \notin pending /\ fd[i] \in Fds /\ Live(i) /\ Handled(i)
      /\ owner[fd[i]] \in Peers
      /\ fd \in [Slots -> Fds \cup {None}] /\ watch \in [Fds -> Slots \cup {None}]
      /\ queue \in [Slots -> Seq(Task)]
  BY EventFacts DEF PollExhausted, PollEnd, ReadEvent, IInv, TypeOK
<1>1. TypeOK' /\ WriterInv'
  BY PollType DEF IInv, WriterInv, Poll, PollExhausted, PollEnd
<1>2. poll'.pc \in {"check", "batch"} /\ poll'.batch = poll.batch \ {i}
  BY <1>0, HandledType DEF IInv
<1>. DEFINE f == fd[i]
            task == [type |-> "DISCONNECTION", peer |-> owner[fd[i]], unit |-> 0]
<1>3. /\ CloseFd(f) /\ Push(i, task)
      /\ UNCHANGED <<sent, records, secure, pending, listening, backlog, started, used, app,
                     fd, worker>>
  BY DEF PollExhausted, PollEnd, Drop
<1>4. /\ \A g \in Fds : g # f => owner'[g] = owner[g] /\ watch'[g] = watch[g]
      /\ owner'[f] = Nobody /\ watch'[f] = None
      /\ \A p \in Peers : phase'[p] = "open" =>
           phase[p] = "open" /\ p \in Range(backlog') \cup Range(owner')
      /\ FdInv'
  BY <1>0, <1>3, CloseFdEffect
<1>5. task \in Task /\ task.type = "DISCONNECTION"
  BY <1>0, SocketAssumption DEF Task
<1>. HIDE DEF task
<1>6. queue'[i] = Append(queue[i], task) /\ \A j \in Slots : j # i => queue'[j] = queue[j]
  BY <1>3, <1>5, PushType DEF IInv
<1>7. /\ Len(queue[i]) \in Nat /\ Len(queue'[i]) = Len(queue[i]) + 1
      /\ \A k \in 1 .. Len(queue[i]) : queue'[i][k] = queue[i][k]
  BY <1>0, <1>5, <1>6, AppendProperties
<1>8. \A j \in Slots : Live(j)' <=> j # i /\ Live(j)
  <2>1. ~ Live(i)'
    BY <1>0, <1>3, <1>4, Indices DEF Live
  <2>2. ASSUME NEW j \in Slots, j # i
        PROVE  Live(j)' <=> Live(j)
    <3>1. CASE fd[j] = f
      BY <1>0, <1>3, <1>4, <2>2, <3>1, Indices DEF Live
    <3>2. CASE fd[j] # f
      BY <1>0, <1>3, <1>4, <2>2, <3>2, Indices DEF Live
    <3>. QED
      BY <3>1, <3>2
  <2>. QED
    BY <2>1, <2>2
<1>9. BufInv'
  BY <1>3, <1>5, PushNoBuffer DEF IInv
<1>10. PollInv'
  BY <1>0, <1>2, <1>3, <1>8, Indices DEF IInv, PollInv, PollState
<1>11. DescriptorsTracked'
  BY <1>0, <1>3, <1>4 DEF IInv, DescriptorsTracked
<1>12. EndInv'
  <2>1. /\ \A k \in 1 .. Len(queue[i]) : queue[i][k].type # "DISCONNECTION"
        /\ ~ Ending(i)
    BY <1>0 DEF IInv, EndInv
  <2>2. \A k \in 1 .. Len(queue'[i]) :
          queue'[i][k].type = "DISCONNECTION" => k = Len(queue'[i]) /\ ~ Live(i)'
    BY <1>7, <1>8, <2>1
  <2>3. \A j \in Slots : Ending(j)' <=> Ending(j)
    BY <1>3 DEF Ending
  <2>. QED
    BY <1>3, <1>6, <1>8, <2>1, <2>2, <2>3 DEF IInv, EndInv
<1>13. FreshInv'
  <2>1. \A j \in Slots : Unassigned(j)' => Unassigned(j) /\ j # i
    BY <1>0, <1>3, <1>8, Indices DEF Unassigned
  <2>. QED
    BY <1>0, <1>2, <1>3, <1>6, <2>1 DEF IInv, FreshInv
<1>14. CleanupInv' /\ DataInv' /\ ReachInv'
  BY <1>0, <1>2, <1>3, <1>4 DEF IInv, CleanupInv, DataInv, ReachInv
<1>. QED
  BY <1>1, <1>4, <1>9, <1>10, <1>11, <1>12, <1>13, <1>14 DEF IInv

\* A unit is read into a buffer and queued.
LEMMA ReadStep ==
  ASSUME IInv, NEW i \in Slots, PollRead(i)
  PROVE  IInv'
<1>. USE DEF tlsVars, clientVars, kernelVars, serverVars, tableVars, userVars
<1>0. /\ poll \in PollState /\ poll.pc = "batch" /\ i \in poll.batch
      /\ fd[i] \notin pending /\ fd[i] \in Fds /\ Live(i) /\ Handled(i)
      /\ owner[fd[i]] \in Peers /\ queue \in [Slots -> Seq(Task)]
  BY EventFacts DEF PollRead, ReadEvent, IInv, TypeOK
<1>1. TypeOK' /\ WriterInv'
  BY PollType DEF IInv, WriterInv, Poll, PollRead
<1>2. poll'.pc \in {"check", "batch"} /\ poll'.batch \subseteq poll.batch
  BY <1>0, HandledType DEF IInv
<1>. DEFINE p == owner[fd[i]]
            task == [type |-> "DATA", peer |-> p, unit |-> taken[p] + 1]
<1>3. /\ Push(i, task) /\ used' = used + 1
      /\ UNCHANGED <<phase, sent, records, secure, pending, listening, backlog, owner, watch,
                     started, app, fd, worker>>
  BY DEF PollRead
<1>4. task \in Task /\ task.type = "DATA"
  <2>1. taken[p] \in 0 .. MaxSend /\ sent[p] \in 0 .. MaxSend /\ taken[p] < sent[p]
    BY <1>0 DEF IInv, TypeOK, PollRead
  <2>2. taken[p] + 1 \in 0 .. MaxSend
    BY <2>1, SocketAssumption
  <2>. QED
    BY <1>0, <2>2 DEF Task
<1>. HIDE DEF task
<1>5. queue'[i] = Append(queue[i], task) /\ \A j \in Slots : j # i => queue'[j] = queue[j]
  BY <1>3, <1>4, PushType DEF IInv
<1>6. /\ Len(queue[i]) \in Nat /\ Len(queue'[i]) = Len(queue[i]) + 1
      /\ \A k \in 1 .. Len(queue[i]) : queue'[i][k] = queue[i][k]
      /\ queue'[i][Len(queue[i]) + 1] = task
  BY <1>0, <1>4, <1>5, AppendProperties
<1>7. BufInv'
  <2>1. /\ Holding' = Holding \cup {<<i, Len(queue[i]) + 1>>}
        /\ <<i, Len(queue[i]) + 1>> \notin Holding
    BY <1>3, <1>4, PushBuffers DEF IInv
  <2>2. /\ IsFiniteSet(Holding')
        /\ Cardinality(Holding') = Cardinality(Holding) + 1
    BY <2>1, FS_AddElement DEF IInv, BufInv
  <2>3. Cardinality(Holding) \in Nat /\ used \in Nat /\ Cardinality(Holding) <= used
    BY FS_CardinalityType DEF IInv, BufInv, TypeOK
  <2>. QED
    BY <1>3, <2>2, <2>3 DEF BufInv
<1>8. EndInv'
  <2>1. \A k \in 1 .. Len(queue[i]) : queue[i][k].type # "DISCONNECTION"
    BY <1>0 DEF IInv, EndInv
  <2>2. \A k \in 1 .. Len(queue'[i]) : queue'[i][k].type # "DISCONNECTION"
    BY <1>4, <1>6, <2>1
  <2>3. ~ Ending(i)
    BY <1>0 DEF IInv, EndInv
  <2>. QED
    BY <1>3, <1>5, <2>2, <2>3 DEF IInv, EndInv, Live, Ending
<1>9. FreshInv'
  <2>1. ~ Unassigned(i)
    BY <1>0, Indices DEF Unassigned
  <2>2. \A j \in Slots : Unassigned(j)' <=> Unassigned(j)
    BY <1>3 DEF Unassigned, Live
  <2>. QED
    BY <1>0, <1>2, <1>3, <1>5, <2>1, <2>2 DEF IInv, FreshInv
<1>10. /\ FdInv' /\ DescriptorsTracked' /\ PollInv' /\ CleanupInv' /\ DataInv' /\ ReachInv'
  BY <1>0, <1>2, <1>3 DEF IInv, FdInv, DescriptorsTracked, PollInv, CleanupInv, DataInv,
     ReachInv, Live
<1>. QED
  BY <1>1, <1>7, <1>8, <1>9, <1>10 DEF IInv

\* The polling thread keeps the invariant.
LEMMA PollStep ==
  ASSUME IInv, Poll
  PROVE  IInv'
BY PollLoopStep, ArrivedStep, AssignStep, QuietEventStep, ShakeEndStep, DropStep, ReadStep
   DEF Poll

\* The events of a batch are of connections or of the listening socket.
LEMMA BatchIsOfSlots ==
  ASSUME IInv
  PROVE  poll.batch \ {Listener} \subseteq Slots
BY DEF IInv, TypeOK, PollState

\* What holds while a worker has work, and what its steps leave alone.
LEMMA WorkerFrame ==
  ASSUME IInv, NEW i \in Slots, Worker(i)
  PROVE  /\ UNCHANGED <<phase, sent, records, pending, secure, listening, backlog, owner, watch,
                        started, poll, app>>
         /\ \A j \in Slots : j # i =>
              worker'[j] = worker[j] /\ queue'[j] = queue[j] /\ fd'[j] = fd[j]
         /\ \A j \in Slots : fd'[j] \in {fd[j], None}
         /\ worker[i].pc \notin {"none", "exited"}
         /\ started
         /\ FdInv' /\ DataInv' /\ CleanupInv' /\ ReachInv'
<1>. USE DEF tlsVars, clientVars, kernelVars, serverVars, tableVars, userVars
<1>1. /\ UNCHANGED <<phase, sent, records, pending, secure, listening, backlog, owner, watch,
                     started, poll, app>>
      /\ worker[i].pc \notin {"none", "exited"}
  BY DEF Worker, WorkerCheck, WorkerTake, WorkerConnect, WorkerData, WorkerDisconnect,
         WorkerRelease, WorkerStop
<1>2. /\ \A j \in Slots : j # i =>
           worker'[j] = worker[j] /\ queue'[j] = queue[j] /\ fd'[j] = fd[j]
      /\ \A j \in Slots : fd'[j] \in {fd[j], None}
  <2>1. /\ worker \in [Slots -> WorkerState] /\ queue \in [Slots -> Seq(Task)]
        /\ fd \in [Slots -> Fds \cup {None}]
    BY DEF IInv, TypeOK
  <2>. QED
    BY <2>1 DEF Worker, WorkerCheck, WorkerTake, WorkerConnect, WorkerData, WorkerDisconnect,
                WorkerRelease, WorkerStop
<1>3. started
  BY <1>1 DEF IInv, FreshInv
<1>4. FdInv' /\ DataInv'
  BY <1>1 DEF IInv, FdInv, DataInv
<1>5. ReachInv'
  BY <1>1, <1>3 DEF IInv, ReachInv
<1>6. CleanupInv'
  <2>1. app.pc \in {"close", "free", "reap", "finish"} => app.slot \in Slots
    BY DEF IInv, TypeOK, AppState
  <2>2. ASSUME app.pc \in {"close", "free", "reap", "finish"}
        PROVE  /\ poll.pc = "off"
               /\ app.pc = "free" => ~ Live(app.slot)
               /\ app.pc = "reap" => fd[app.slot] = None
               /\ ~ (i < app.slot \/ app.pc = "finish")
               /\ \A j \in Slots :
                    j < app.slot \/ app.pc = "finish" => fd[j] = None /\ worker[j].pc = "none"
    BY <1>1, <2>2 DEF IInv, CleanupInv
  <2>3. \A j \in Slots : Live(j)' => Live(j)
    BY <1>1, <1>2, Indices DEF Live
  <2>. QED
    BY <1>1, <1>2, <2>1, <2>2, <2>3, Indices DEF CleanupInv
<1>. QED
  BY <1>1, <1>2, <1>3, <1>4, <1>5, <1>6

\* A worker looks for its next task.
LEMMA WorkerTakeStep ==
  ASSUME IInv, NEW i \in Slots, WorkerCheck(i) \/ WorkerTake(i)
  PROVE  IInv'
<1>. USE DEF tlsVars, clientVars, kernelVars, serverVars, tableVars, userVars
<1>0. /\ worker \in [Slots -> WorkerState] /\ worker[i] \in WorkerState
      /\ queue \in [Slots -> Seq(Task)] /\ queue[i] \in Seq(Task)
      /\ worker[i].pc \in {"check", "wait"}
  BY DEF IInv, TypeOK, WorkerCheck, WorkerTake
<1>1. TypeOK' /\ WriterInv'
  BY WorkerType DEF IInv, WriterInv, Worker, WorkerCheck, WorkerTake
<1>2. /\ UNCHANGED <<phase, sent, records, pending, secure, listening, backlog, owner, watch,
                     started, poll, app>>
      /\ \A j \in Slots : j # i =>
           worker'[j] = worker[j] /\ queue'[j] = queue[j] /\ fd'[j] = fd[j]
      /\ FdInv' /\ DataInv' /\ CleanupInv' /\ ReachInv'
      /\ started
  BY WorkerFrame DEF Worker
<1>3. UNCHANGED <<fd, used>>
  BY DEF WorkerCheck, WorkerTake
<1>4. \/ /\ queue' = queue /\ worker'[i].pc \in {"check", "wait", "exited"}
         /\ worker'[i].task = worker[i].task
      \/ /\ queue[i] # << >> /\ queue'[i] = Tail(queue[i])
         /\ worker'[i].pc = "call" /\ worker'[i].task = Head(queue[i])
  <2>1. CASE WorkerCheck(i)
    BY <1>0, <2>1 DEF WorkerCheck, WorkerState
  <2>2. CASE WorkerTake(i) /\ queue[i] = << >>
    BY <1>0, <2>2 DEF WorkerTake, WorkerState
  <2>3. CASE WorkerTake(i) /\ queue[i] # << >>
    BY <1>0, <2>3 DEF WorkerTake
  <2>. QED
    BY <2>1, <2>2, <2>3
<1>5. worker[i].task = NoTask
  BY <1>0 DEF IInv, EndInv
<1>6. \A j \in Slots : Live(j)' <=> Live(j)
  BY <1>2, <1>3 DEF Live
<1>7. ASSUME queue' = queue, worker'[i].pc # "call", worker'[i].task = NoTask
      PROVE  BufInv' /\ EndInv'
  <2>1. \A j \in Slots : worker'[j].task = worker[j].task
    BY <1>2, <1>5, <1>7
  <2>2. BufInv'
    BY <1>3, <1>7, <2>1, SameBuffers DEF IInv
  <2>3. EndInv'
    <3>1. ~ Ending(i)' \/ Ending(i)
      BY <1>4, <1>5, <1>7 DEF Ending, NoTask
    <3>2. \A j \in Slots : j # i => (Ending(j)' <=> Ending(j))
      BY <1>2 DEF Ending
    <3>. QED
      BY <1>2, <1>6, <1>7, <3>1, <3>2 DEF IInv, EndInv
  <2>. QED
    BY <2>2, <2>3
<1>8. ASSUME queue[i] # << >>, queue'[i] = Tail(queue[i]),
             worker'[i].pc = "call", worker'[i].task = Head(queue[i])
      PROVE  BufInv' /\ EndInv'
  <2>1. /\ Len(queue[i]) \in Nat \ {0} /\ Head(queue[i]) = queue[i][1]
        /\ Head(queue[i]) \in Task
        /\ Len(queue'[i]) = Len(queue[i]) - 1
        /\ \A k \in 1 .. Len(queue'[i]) : queue'[i][k] = queue[i][k + 1]
        /\ queue'[i] \in Seq(Task)
    BY <1>0, <1>8, TailRange, HeadTailProperties
  <2>2. worker[i].task.type # "DATA"
    BY <1>5 DEF NoTask
  <2>3. BufInv'
    <3>1. IsFiniteSet(Holding') /\ Cardinality(Holding') = Cardinality(Holding)
      BY <1>2, <1>8, <2>2, TakeBuffers DEF IInv
    <3>. QED
      BY <1>3, <3>1 DEF IInv, BufInv
  <2>4. EndInv'
    <3>1. \A k \in 1 .. Len(queue[i]) :
            queue[i][k].type = "DISCONNECTION" => k = Len(queue[i]) /\ ~ Live(i)
      BY DEF IInv, EndInv
    <3>2. \A k \in 1 .. Len(queue'[i]) :
            queue'[i][k].type = "DISCONNECTION" => k = Len(queue'[i]) /\ ~ Live(i)'
      <4>. SUFFICES ASSUME NEW k \in 1 .. Len(queue'[i]), queue'[i][k].type = "DISCONNECTION"
                    PROVE  k = Len(queue'[i]) /\ ~ Live(i)'
        OBVIOUS
      <4>. DEFINE n == Len(queue[i])
      <4>1. n \in Nat \ {0} /\ Len(queue'[i]) = n - 1
        BY <2>1
      <4>. HIDE DEF n
      <4>2. k \in 1 .. n - 1 /\ k + 1 \in 1 .. n
        BY <4>1
      <4>3. queue[i][k + 1].type = "DISCONNECTION"
        BY <2>1
      <4>4. k + 1 = n /\ ~ Live(i)
        BY <3>1, <4>2, <4>3 DEF n
      <4>. QED
        BY <1>6, <4>1, <4>2, <4>4
    <3>3. Ending(i)' => queue'[i] = << >> /\ ~ Live(i)'
      <4>. SUFFICES ASSUME Ending(i)'
                    PROVE  queue'[i] = << >> /\ ~ Live(i)'
        OBVIOUS
      <4>1. queue[i][1].type = "DISCONNECTION"
        BY <1>8, <2>1 DEF Ending
      <4>2. 1 \in 1 .. Len(queue[i])
        BY <2>1
      <4>3. Len(queue[i]) = 1 /\ ~ Live(i)
        BY <3>1, <4>1, <4>2
      <4>4. Len(queue'[i]) = 0
        BY <2>1, <4>3
      <4>. QED
        BY <1>6, <2>1, <4>3, <4>4, EmptySeq
    <3>4. worker'[i].task # NoTask
      BY <1>8, <2>1, SocketAssumption DEF Task, NoTask
    <3>5. \A j \in Slots : j # i => (Ending(j)' <=> Ending(j))
      BY <1>2 DEF Ending
    <3>6. worker'[i].pc = "call" <=> worker'[i].task # NoTask
      BY <1>8, <3>4
    <3>7. ASSUME NEW j \in Slots, j # i
          PROVE  /\ \A k \in 1 .. Len(queue'[j]) :
                      queue'[j][k].type = "DISCONNECTION" => k = Len(queue'[j]) /\ ~ Live(j)'
                 /\ Ending(j)' => queue'[j] = << >> /\ ~ Live(j)'
                 /\ worker'[j].pc = "call" <=> worker'[j].task # NoTask
      BY <1>2, <1>6, <3>5, <3>7 DEF IInv, EndInv
    <3>. QED
      BY <3>2, <3>3, <3>6, <3>7 DEF EndInv
  <2>. QED
    BY <2>3, <2>4
<1>9. FreshInv'
  <2>1. \A j \in Slots : Unassigned(j)' <=> Unassigned(j)
    BY <1>2, <1>3, <1>6 DEF Unassigned
  <2>2. poll.pc # "off" => ~ Unassigned(i)
    BY <1>0 DEF IInv, FreshInv
  <2>. QED
    BY <1>2, <2>1, <2>2 DEF IInv, FreshInv
<1>10. DescriptorsTracked' /\ PollInv'
  BY <1>2, <1>3, <1>6, BatchIsOfSlots DEF IInv, DescriptorsTracked, PollInv
<1>11. BufInv' /\ EndInv'
  BY <1>4, <1>5, <1>7, <1>8
<1>. QED
  BY <1>1, <1>2, <1>9, <1>10, <1>11 DEF IInv

\* A worker calls back, or ends.
LEMMA WorkerCallStep ==
  ASSUME IInv, NEW i \in Slots,
         WorkerConnect(i) \/ WorkerData(i) \/ WorkerDisconnect(i) \/ WorkerStop(i)
  PROVE  IInv'
<1>. USE DEF tlsVars, clientVars, kernelVars, serverVars, tableVars, userVars
<1>0. /\ worker \in [Slots -> WorkerState] /\ worker[i] \in WorkerState
      /\ worker[i].pc \in {"call", "stopping"}
  BY DEF IInv, TypeOK, WorkerConnect, WorkerData, WorkerDisconnect, WorkerStop
<1>1. TypeOK' /\ WriterInv'
  BY WorkerType DEF IInv, WriterInv, Worker, WorkerConnect, WorkerData, WorkerDisconnect,
                    WorkerStop
<1>2. /\ UNCHANGED <<phase, sent, records, pending, secure, listening, backlog, owner, watch,
                     started, poll, app>>
      /\ \A j \in Slots : j # i =>
           worker'[j] = worker[j] /\ queue'[j] = queue[j] /\ fd'[j] = fd[j]
      /\ FdInv' /\ DataInv' /\ CleanupInv' /\ ReachInv'
      /\ started
  BY WorkerFrame DEF Worker
<1>3. UNCHANGED <<fd, queue>>
  BY DEF WorkerConnect, WorkerData, WorkerDisconnect, WorkerStop
<1>4. /\ worker'[i].task = NoTask
      /\ worker'[i].pc \in {"check", "release", "exited"}
      /\ worker'[i].pc = "release" => worker[i].task.type = "DISCONNECTION"
      /\ worker'[i].pc = "exited" <=> worker[i].pc = "stopping"
  <2>1. CASE WorkerStop(i)
    BY <1>0, <2>1 DEF WorkerStop, WorkerState, IInv, EndInv
  <2>2. CASE WorkerConnect(i) \/ WorkerData(i) \/ WorkerDisconnect(i)
    BY <1>0, <2>2 DEF WorkerConnect, WorkerData, WorkerDisconnect, Idle
  <2>. QED
    BY <2>1, <2>2
<1>5. \A j \in Slots : (Live(j)' <=> Live(j)) /\ (Unassigned(j)' <=> Unassigned(j))
  BY <1>2, <1>3 DEF Live, Unassigned
<1>6. EndInv'
  <2>1. Ending(i)' => Ending(i)
    BY <1>4 DEF Ending, NoTask
  <2>2. \A j \in Slots : j # i => (Ending(j)' <=> Ending(j))
    BY <1>2 DEF Ending
  <2>. QED
    BY <1>2, <1>3, <1>4, <1>5, <2>1, <2>2 DEF IInv, EndInv
<1>7. FreshInv'
  <2>1. poll.pc # "off" /\ Unassigned(i) => worker[i].pc = "stopping"
    BY <1>0 DEF IInv, FreshInv
  <2>. QED
    BY <1>2, <1>3, <1>4, <1>5, <2>1 DEF IInv, FreshInv
<1>8. DescriptorsTracked' /\ PollInv'
  BY <1>2, <1>3, <1>5, BatchIsOfSlots DEF IInv, DescriptorsTracked, PollInv
<1>9. BufInv'
  <2>1. CASE WorkerData(i)
    <3>1. worker[i].task.type = "DATA" /\ used' = used - 1 /\ worker'[i].task.type # "DATA"
      BY <1>4, <2>1 DEF WorkerData, NoTask
    <3>2. IsFiniteSet(Holding') /\ Cardinality(Holding') = Cardinality(Holding) - 1
      BY <1>2, <1>3, <3>1, DoneBuffers DEF IInv
    <3>3. Cardinality(Holding) \in Nat /\ used \in Nat /\ Cardinality(Holding) <= used
      BY FS_CardinalityType DEF IInv, BufInv, TypeOK
    <3>. QED
      BY <3>1, <3>2, <3>3 DEF BufInv
  <2>2. CASE WorkerConnect(i) \/ WorkerDisconnect(i) \/ WorkerStop(i)
    <3>1. used' = used /\ worker[i].task.type # "DATA" /\ worker'[i].task.type # "DATA"
      <4>1. CASE WorkerConnect(i)
        BY <1>4, <4>1 DEF WorkerConnect, NoTask
      <4>2. CASE WorkerDisconnect(i)
        BY <1>4, <4>2 DEF WorkerDisconnect, NoTask
      <4>3. CASE WorkerStop(i)
        BY <1>4, <4>3 DEF WorkerStop, IInv, EndInv, NoTask
      <4>. QED
        BY <2>2, <4>1, <4>2, <4>3
    <3>2. \A j \in Slots : worker'[j].task.type = "DATA" <=> worker[j].task.type = "DATA"
      BY <1>2, <3>1
    <3>. QED
      BY <1>3, <3>1, <3>2, SameBuffers DEF IInv
  <2>. QED
    BY <2>1, <2>2
<1>. QED
  BY <1>1, <1>2, <1>6, <1>7, <1>8, <1>9 DEF IInv

\* A worker makes its connection available again.
LEMMA WorkerReleaseStep ==
  ASSUME IInv, NEW i \in Slots, WorkerRelease(i)
  PROVE  IInv'
<1>. USE DEF tlsVars, clientVars, kernelVars, serverVars, tableVars, userVars
<1>0. /\ worker \in [Slots -> WorkerState] /\ worker[i] \in WorkerState
      /\ fd \in [Slots -> Fds \cup {None}] /\ watch \in [Fds -> Slots \cup {None}]
      /\ worker[i].pc = "release" /\ Ending(i)
  BY DEF IInv, TypeOK, WorkerRelease, Ending
<1>1. TypeOK' /\ WriterInv'
  BY WorkerType DEF IInv, WriterInv, Worker, WorkerRelease
<1>2. /\ UNCHANGED <<phase, sent, records, pending, secure, listening, backlog, owner, watch,
                     started, poll, app>>
      /\ \A j \in Slots : j # i =>
           worker'[j] = worker[j] /\ queue'[j] = queue[j] /\ fd'[j] = fd[j]
      /\ FdInv' /\ DataInv' /\ CleanupInv' /\ ReachInv'
      /\ started
  BY WorkerFrame DEF Worker
<1>3. UNCHANGED <<queue, used>> /\ fd'[i] = None
  BY <1>0 DEF WorkerRelease
<1>4. worker'[i].pc = "stopping" /\ worker'[i].task = NoTask /\ worker[i].task = NoTask
  BY <1>0 DEF WorkerRelease, WorkerState, IInv, EndInv
<1>5. queue[i] = << >> /\ ~ Live(i)
  BY <1>0 DEF IInv, EndInv
<1>6. \A j \in Slots : Live(j)' <=> Live(j)
  BY <1>2, <1>3, <1>5 DEF Live
<1>7. BufInv'
  <2>1. \A j \in Slots : worker'[j].task.type = "DATA" <=> worker[j].task.type = "DATA"
    BY <1>2, <1>4
  <2>. QED
    BY <1>3, <2>1, SameBuffers DEF IInv
<1>8. EndInv'
  <2>1. ~ Ending(i)'
    BY <1>4 DEF Ending, NoTask
  <2>2. \A j \in Slots : j # i => (Ending(j)' <=> Ending(j))
    BY <1>2 DEF Ending
  <2>. QED
    BY <1>2, <1>3, <1>4, <1>6, <2>1, <2>2 DEF IInv, EndInv
<1>9. FreshInv'
  <2>1. \A j \in Slots : j # i => (Unassigned(j)' <=> Unassigned(j))
    BY <1>2, <1>6 DEF Unassigned
  <2>. QED
    BY <1>2, <1>3, <1>4, <1>5, <2>1 DEF IInv, FreshInv
<1>10. PollInv'
  <2>1. poll.pc = "assign" => poll.slot \in Slots /\ fd'[poll.slot] = None
    BY <1>2, <1>3 DEF IInv, PollInv
  <2>. QED
    BY <1>2, <1>6, <2>1, BatchIsOfSlots DEF IInv, PollInv
<1>11. DescriptorsTracked'
  <2>1. \A f \in Fds : owner[f] # Nobody /\ watch[f] = i => fd[i] # f
    BY <1>5, Indices DEF Live
  <2>. QED
    BY <1>2, <1>3, <2>1 DEF IInv, DescriptorsTracked
<1>. QED
  BY <1>1, <1>2, <1>7, <1>8, <1>9, <1>10, <1>11 DEF IInv

\* The workers keep the invariant.
LEMMA WorkerStep ==
  ASSUME IInv, NEW i \in Slots, Worker(i)
  PROVE  IInv'
BY WorkerTakeStep, WorkerCallStep, WorkerReleaseStep DEF Worker

\* Init, Run, Close and the beginning of Cleanup.
LEMMA AppStep ==
  ASSUME IInv, InitServer \/ Run \/ CloseNoWait \/ CloseOrWaitFor \/ CleanupJoin
  PROVE  IInv'
<1>. USE DEF tlsVars, clientVars, kernelVars, serverVars, tableVars, userVars
<1>0. poll \in PollState /\ app \in AppState
  BY DEF IInv, TypeOK
<1>1. TypeOK' /\ WriterInv'
  BY AppType DEF IInv, WriterInv, InitServer, Run, CloseNoWait, CloseOrWaitFor, CleanupJoin,
                 Cleanup
<1>2. UNCHANGED <<phase, sent, records, pending, secure, backlog, owner, watch, used,
                  fd, queue, worker>>
  BY DEF InitServer, Run, CloseNoWait, CloseOrWaitFor, CleanupJoin
<1>3. BufInv'
  BY <1>2, SameBuffers DEF IInv
<1>4. FdInv' /\ DataInv' /\ EndInv'
  BY <1>2 DEF IInv, FdInv, DataInv, EndInv, Live, Ending
<1>5. CASE InitServer \/ CloseNoWait \/ CloseOrWaitFor
  <2>1. /\ UNCHANGED <<poll, started, listening>>
        /\ app'.pc = app.pc \/ (app.pc = "idle" /\ app'.pc = "join")
        /\ app'.slot = app.slot
    BY <1>0, <1>5 DEF InitServer, CloseNoWait, CloseOrWaitFor, AppState
  <2>. QED
    BY <1>1, <1>2, <1>3, <1>4, <2>1 DEF IInv, PollInv, DescriptorsTracked, FreshInv, CleanupInv,
       ReachInv, Live, Unassigned
<1>6. CASE Run
  <2>1. ~ started /\ app.pc = "idle" /\ app' = app /\ poll'.pc = "check" /\ started'
    BY <1>0, <1>6 DEF Run, PollState
  <2>2. /\ poll.pc = "off"
        /\ \A i \in Slots : fd[i] = None /\ queue[i] = << >> /\ worker[i].pc = "none"
    BY <2>1 DEF IInv, FreshInv
  <2>3. FreshInv' /\ CleanupInv' /\ ReachInv'
    BY <1>2, <2>1, <2>2 DEF IInv, FreshInv, CleanupInv, ReachInv
  <2>4. PollInv' /\ DescriptorsTracked'
    BY <1>2, <2>1, <2>2 DEF IInv, PollInv, DescriptorsTracked
  <2>. QED
    BY <1>1, <1>3, <1>4, <2>3, <2>4 DEF IInv
<1>7. CASE CleanupJoin
  <2>1. /\ poll.pc \in {"off", "exited"} /\ poll'.pc = "off"
        /\ app'.pc = "close" /\ app'.slot = 0 /\ UNCHANGED <<started, listening>>
    BY <1>0, <1>7 DEF CleanupJoin, PollState
  <2>2. FreshInv' /\ ReachInv'
    BY <1>2, <2>1 DEF IInv, FreshInv, ReachInv
  <2>3. PollInv' /\ DescriptorsTracked'
    <3>1. poll'.pc \notin {"batch", "assign"} /\ poll.pc # "assign"
      BY <2>1
    <3>2. PollInv'
      BY <1>2, <3>1 DEF IInv, PollInv
    <3>3. DescriptorsTracked'
      BY <1>2, <3>1 DEF IInv, DescriptorsTracked
    <3>. QED
      BY <3>2, <3>3
  <2>4. CleanupInv'
    <3>1. \A i \in Slots : ~ (i < 0)
      BY Indices
    <3>. QED
      BY <2>1, <3>1 DEF CleanupInv
  <2>. QED
    BY <1>1, <1>3, <1>4, <2>2, <2>3, <2>4 DEF IInv
<1>. QED
  BY <1>5, <1>6, <1>7

\* Cleanup closes the descriptor of a connection, whoever has it by now.
LEMMA CleanupCloseStep ==
  ASSUME IInv, CleanupClose
  PROVE  IInv'
<1>. USE DEF tlsVars, clientVars, kernelVars, serverVars, tableVars, userVars
<1>0. /\ app \in AppState /\ app.pc = "close" /\ app.slot \in Slots
      /\ owner \in [Fds -> Peers \cup {Nobody}] /\ watch \in [Fds -> Slots \cup {None}]
      /\ fd \in [Slots -> Fds \cup {None}] /\ poll.pc = "off"
  BY DEF IInv, TypeOK, AppState, CleanupInv, CleanupClose
<1>1. TypeOK' /\ WriterInv'
  BY AppType DEF IInv, WriterInv, CleanupClose, Cleanup
<1>2. /\ UNCHANGED <<sent, records, pending, secure, listening, backlog, used, started, poll,
                     fd, queue, worker>>
      /\ CloseFd(fd[app.slot]) /\ app'.pc = "free" /\ app'.slot = app.slot
  BY <1>0 DEF CleanupClose, AppState
<1>3. BufInv'
  BY <1>2, SameBuffers DEF IInv
<1>4. /\ \A g \in Fds : \/ owner'[g] = owner[g] /\ watch'[g] = watch[g] /\ g # fd[app.slot]
                        \/ owner'[g] = Nobody /\ watch'[g] = None
      /\ \A p \in Peers : phase'[p] = "open" =>
           phase[p] = "open" /\ p \in Range(backlog') \cup Range(owner')
      /\ FdInv'
  <2>1. CASE fd[app.slot] \in Fds
    BY <1>2, <2>1, CloseFdEffect
  <2>2. CASE fd[app.slot] \notin Fds
    BY <1>2, <2>2 DEF CloseFd, IInv, FdInv, ReachInv
  <2>. QED
    BY <2>1, <2>2
<1>5. /\ \A j \in Slots : Live(j)' => Live(j)
      /\ ~ Live(app.slot)'
  BY <1>0, <1>2, <1>4, Indices DEF Live
<1>6. EndInv'
  BY <1>2, <1>5 DEF IInv, EndInv, Ending
<1>7. FreshInv' /\ PollInv' /\ DataInv'
  BY <1>0, <1>2 DEF IInv, FreshInv, PollInv, DataInv
<1>8. DescriptorsTracked'
  BY <1>0, <1>2, <1>4 DEF IInv, DescriptorsTracked
<1>9. CleanupInv'
  BY <1>0, <1>2, <1>5 DEF IInv, CleanupInv
<1>10. ReachInv'
  BY <1>2, <1>4 DEF ReachInv
<1>. QED
  BY <1>1, <1>3, <1>4, <1>6, <1>7, <1>8, <1>9, <1>10 DEF IInv

\* Cleanup frees a connection and joins its worker.
LEMMA CleanupFreeStep ==
  ASSUME IInv, CleanupFree \/ CleanupReap
  PROVE  IInv'
<1>. USE DEF tlsVars, clientVars, kernelVars, serverVars, tableVars, userVars
<1>0. /\ app \in AppState /\ app.pc \in {"free", "reap"} /\ app.slot \in Slots
      /\ watch \in [Fds -> Slots \cup {None}]
      /\ fd \in [Slots -> Fds \cup {None}] /\ poll.pc = "off"
      /\ worker \in [Slots -> WorkerState]
  BY DEF IInv, TypeOK, AppState, CleanupInv, CleanupFree, CleanupReap
<1>1. TypeOK' /\ WriterInv'
  BY AppType DEF IInv, WriterInv, CleanupFree, CleanupReap, Cleanup
<1>2. UNCHANGED <<phase, sent, records, pending, secure, listening, backlog, owner, watch,
                  used, started, poll, queue>>
  BY DEF CleanupFree, CleanupReap
<1>3. FdInv' /\ PollInv' /\ DataInv'
  BY <1>0, <1>2 DEF IInv, FdInv, PollInv, DataInv
<1>s. PICK s \in Slots : s = app.slot
  BY <1>0
<1>4. CASE CleanupFree
  <2>1. /\ ~ Live(s) /\ fd' = [fd EXCEPT ![s] = None] /\ worker' = worker
        /\ app'.pc = "reap" /\ app'.slot = s
    BY <1>0, <1>s, <1>4 DEF CleanupFree, IInv, CleanupInv, AppState
  <2>2. \A j \in Slots : Live(j)' <=> Live(j)
    BY <1>0, <1>2, <2>1 DEF Live
  <2>3. BufInv'
    BY <1>2, <2>1, SameBuffers DEF IInv
  <2>4. EndInv'
    BY <1>2, <2>1, <2>2 DEF IInv, EndInv, Ending
  <2>5. FreshInv'
    BY <1>0, <1>2, <2>1 DEF IInv, FreshInv
  <2>6. DescriptorsTracked'
    <3>1. \A f \in Fds : owner[f] # Nobody /\ watch[f] = s => fd[s] # f
      BY <2>1, Indices DEF Live
    <3>. QED
      BY <1>0, <1>2, <2>1, <3>1 DEF IInv, DescriptorsTracked
  <2>7. CleanupInv' /\ ReachInv'
    BY <1>0, <1>2, <1>s, <1>4, <2>1 DEF IInv, CleanupInv, ReachInv, CleanupFree
  <2>. QED
    BY <1>1, <1>3, <2>3, <2>4, <2>5, <2>6, <2>7 DEF IInv
<1>5. CASE CleanupReap
  <2>1. /\ fd[s] = None /\ Joinable(s) /\ worker' = [worker EXCEPT ![s] = Idle] /\ fd' = fd
        /\ \/ s + 1 \in Slots /\ app'.pc = "close" /\ app'.slot = s + 1
           \/ s + 1 \notin Slots /\ app'.pc = "finish"
    BY <1>0, <1>s, <1>5 DEF CleanupReap, IInv, CleanupInv
  <2>2. /\ worker'[s].pc = "none" /\ worker'[s].task = NoTask /\ worker[s].task = NoTask
        /\ \A j \in Slots : j # s => worker'[j] = worker[j]
    BY <1>0, <2>1 DEF Joinable, Idle, IInv, EndInv
  <2>3. BufInv'
    <3>1. \A j \in Slots : worker'[j].task.type = "DATA" <=> worker[j].task.type = "DATA"
      BY <2>2
    <3>. QED
      BY <1>2, <3>1, SameBuffers DEF IInv
  <2>4. EndInv'
    <3>1. ~ Ending(s)'
      BY <2>2 DEF Ending, NoTask
    <3>2. \A j \in Slots : /\ Live(j)' <=> Live(j)
                           /\ j # s => (Ending(j)' <=> Ending(j))
      BY <1>2, <2>1, <2>2 DEF Live, Ending
    <3>. QED
      BY <1>2, <2>2, <3>1, <3>2 DEF IInv, EndInv
  <2>5. FreshInv' /\ DescriptorsTracked'
    BY <1>0, <1>2, <2>1, <2>2 DEF IInv, FreshInv, DescriptorsTracked
  <2>6. CleanupInv'
    <3>1. \A j \in Slots : j < s => fd[j] = None /\ worker[j].pc = "none"
      BY <1>0, <1>s, <1>5 DEF IInv, CleanupInv, CleanupReap
    <3>2. \A j \in Slots : j < s + 1 \/ s + 1 \notin Slots => j < s \/ j = s
      BY <1>0, Indices DEF Slots
    <3>3. \A j \in Slots : j < s + 1 \/ s + 1 \notin Slots =>
            fd'[j] = None /\ worker'[j].pc = "none"
      BY <2>1, <2>2, <3>1, <3>2
    <3>. QED
      BY <1>0, <1>2, <2>1, <3>3 DEF CleanupInv
  <2>7. ReachInv'
    BY <1>2, <2>1 DEF IInv, ReachInv
  <2>. QED
    BY <1>1, <1>3, <2>3, <2>4, <2>5, <2>6, <2>7 DEF IInv
<1>. QED
  BY <1>4, <1>5

\* Cleanup ends: nothing is left to close but the listen queue.
LEMMA CleanupFinishStep ==
  ASSUME IInv, CleanupFinish
  PROVE  IInv'
<1>. USE DEF tlsVars, clientVars, kernelVars, serverVars, tableVars, userVars
<1>0. /\ app \in AppState /\ app.pc = "finish" /\ poll.pc = "off"
      /\ owner \in [Fds -> Peers \cup {Nobody}]
      /\ \A i \in Slots : fd[i] = None /\ worker[i].pc = "none"
  BY DEF IInv, TypeOK, CleanupInv, CleanupFinish
<1>1. TypeOK' /\ WriterInv'
  BY AppType DEF IInv, WriterInv, CleanupFinish, Cleanup
<1>2. /\ UNCHANGED <<sent, records, secure, used, started, poll, fd, queue, worker>>
      /\ pending' = {} /\ ~ listening' /\ app'.pc = "idle"
      /\ \A f \in Fds : owner'[f] = (IF f \in pending THEN Nobody ELSE owner[f])
      /\ \A f \in Fds : watch'[f] = (IF f \in pending THEN None ELSE watch[f])
      /\ \A p \in Peers : phase'[p] = "open" => phase[p] = "open" /\ p \notin Range(backlog)
  BY DEF CleanupFinish
<1>3. \A f \in Fds : owner[f] = Nobody
  <2>. SUFFICES ASSUME NEW f \in Fds, owner[f] # Nobody PROVE FALSE
    OBVIOUS
  <2>1. watch[f] \in Slots /\ fd[watch[f]] = f
    BY <1>0 DEF IInv, DescriptorsTracked
  <2>2. fd[watch[f]] = None
    BY <1>0, <2>1
  <2>. QED
    BY <2>1, <2>2, Indices
<1>4. \A p \in Peers : phase'[p] # "open"
  <2>1. Range(owner) = {owner[f] : f \in Fds}
    BY <1>0 DEF Range
  <2>. QED
    BY <1>2, <1>3, <2>1, Indices DEF IInv, ReachInv
<1>5. BufInv'
  BY <1>2, SameBuffers DEF IInv
<1>6. \A j \in Slots : ~ Live(j) /\ ~ Live(j)'
  BY <1>0, <1>2 DEF Live
<1>7. EndInv'
  BY <1>2, <1>6 DEF IInv, EndInv, Ending
<1>8. FdInv' /\ DescriptorsTracked'
  BY <1>2, <1>3 DEF IInv, FdInv, DescriptorsTracked
<1>9. PollInv' /\ FreshInv' /\ CleanupInv' /\ DataInv'
  BY <1>0, <1>2 DEF IInv, PollInv, FreshInv, CleanupInv, DataInv
<1>10. ReachInv'
  BY <1>0, <1>2, <1>4 DEF ReachInv
<1>. QED
  BY <1>1, <1>5, <1>7, <1>8, <1>9, <1>10 DEF IInv

\* Write.
LEMMA WriteStep ==
  ASSUME IInv, NEW w \in Writers, Write(w)
  PROVE  IInv'
<1>. USE DEF tlsVars, clientVars, kernelVars, serverVars, tableVars, userVars
<1>1. TypeOK' /\ WriterInv'
  BY WriteType DEF IInv
<1>2. UNCHANGED <<tlsVars, phase, sent, taken, kernelVars, serverVars, tableVars, app, userVars>>
  BY DEF Write, WriteBegin, WriteLock, WriteSend
<1>3. BufInv'
  BY <1>2, SameBuffers DEF IInv
<1>4. /\ FdInv' /\ PollInv' /\ DescriptorsTracked' /\ EndInv'
      /\ FreshInv' /\ CleanupInv' /\ DataInv' /\ ReachInv'
  BY <1>2 DEF IInv, FdInv, PollInv, DescriptorsTracked, EndInv,
     FreshInv, CleanupInv, DataInv, ReachInv, Live, Unassigned, Ending
<1>. QED
  BY <1>1, <1>3, <1>4 DEF IInv

\* The initial states satisfy the invariant.
LEMMA InitIInv ==
  ASSUME Init
  PROVE  IInv
<1>0. /\ MaxSend \in Nat /\ MaxWrites \in Nat /\ Parts \in Nat
  BY SocketAssumption
<1>1. TypeOK
  <2>1. poll \in PollState /\ app \in AppState
    BY Indices DEF Init, PollState, AppState
  <2>2. worker \in [Slots -> WorkerState]
    BY DEF Init, WorkerState, Idle
  <2>3. writer \in [Writers -> WriterState]
    BY <1>0 DEF Init, WriterState
  <2>4. << >> \in Seq(Piece) /\ << >> \in Seq(Peers) /\ << >> \in Seq(Task)
    BY EmptySeq
  <2>5. /\ 0 \in 0 .. MaxSend /\ 0 \in 0 .. PoolSize
        /\ {} \in SUBSET (1 .. MaxSend) /\ {} \in SUBSET Fds /\ {} \in SUBSET Peers
    BY <1>0, Indices
  <2>. QED
    BY <2>1, <2>2, <2>3, <2>4, <2>5 DEF Init, TypeOK
<1>2. WriterInv
  BY DEF Init, WriterInv
<1>3. FdInv /\ PollInv /\ DescriptorsTracked /\ CleanupInv /\ DataInv
  BY DEF Init, FdInv, PollInv, DescriptorsTracked, CleanupInv, DataInv
<1>4. EndInv /\ FreshInv
  <2>1. Len(<< >>) = 0
    OBVIOUS
  <2>. QED
    BY <2>1 DEF Init, EndInv, FreshInv, Idle, Ending, NoTask
<1>5. ReachInv
  BY DEF Init, ReachInv
<1>6. BufInv
  <2>1. ASSUME NEW i \in Slots
        PROVE  worker[i].task.type # "DATA" /\ Len(queue[i]) = 0
    <3>1. worker[i] = Idle /\ queue[i] = << >>
      BY DEF Init
    <3>2. worker[i].task.type # "DATA"
      BY <3>1 DEF Idle, NoTask
    <3>3. Len(queue[i]) = 0
      BY <3>1
    <3>. QED
      BY <3>2, <3>3
  <2>2. ASSUME NEW i \in Slots, NEW k \in Nat
        PROVE  <<i, k>> \notin Holding
    <3>1. worker[i].task.type # "DATA" /\ k \notin 1 .. Len(queue[i])
      BY <2>1
    <3>. QED
      BY <3>1, HoldingIs DEF HoldingSays
  <2>3. Holding = {}
    BY <2>2, HoldingIs DEF HoldingSays
  <2>. QED
    BY <2>3, FS_EmptySet DEF Init, BufInv
<1>. QED
  BY <1>1, <1>2, <1>3, <1>4, <1>5, <1>6 DEF IInv

\* Every step keeps the invariant.
LEMMA InvariantStep ==
  ASSUME IInv, [Next]_vars
  PROVE  IInv'
<1>1. CASE UNCHANGED vars
  <2>. USE <1>1 DEF vars, tlsVars, clientVars, kernelVars, serverVars, tableVars, userVars
  <2>1. BufInv'
    BY SameBuffers DEF IInv
  <2>2. /\ FdInv' /\ PollInv' /\ DescriptorsTracked' /\ EndInv'
        /\ FreshInv' /\ CleanupInv' /\ DataInv' /\ ReachInv'
    BY DEF IInv, FdInv, PollInv, DescriptorsTracked, EndInv,
       FreshInv, CleanupInv, DataInv, ReachInv, Live, Unassigned, Ending
  <2>3. TypeOK' /\ WriterInv'
    BY DEF IInv, TypeOK, WriterInv
  <2>. QED
    BY <2>1, <2>2, <2>3 DEF IInv
<1>2. CASE Next
  BY <1>2, ClientStep, PollStep, WorkerStep, AppStep, CleanupCloseStep, CleanupFreeStep,
     CleanupFinishStep, WriteStep DEF Next, Cleanup
<1>. QED
  BY <1>1, <1>2

\* The invariant holds throughout: a connection of the table, its descriptor,
\* its queue and its worker only differ in the ways that the code allows for,
\* in every state of every server.
THEOREM Invariance == Spec => []IInv
BY InitIInv, InvariantStep, PTL DEF Spec

-----------------------------------------------------------------------------
(* What follows.                                                           *)

\* Every variable has its type, for every number of connections, clients and
\* writing threads: the table is never indexed with what is not an index, the
\* kernel always has a descriptor left for a client that is accepted, a task
\* always names a client, the count of buffers never passes its limits.
THEOREM TypeCorrect == Spec => []TypeOK
<1>1. IInv => TypeOK
  BY DEF IInv
<1>. QED
  BY <1>1, Invariance, PTL

\* No descriptor is leaked, whatever order the polling thread, the workers and
\* Cleanup close and reuse them in.
THEOREM NoDescriptorLeaks == Spec => []DescriptorsTracked
<1>1. IInv => DescriptorsTracked
  BY DEF IInv
<1>. QED
  BY <1>1, Invariance, PTL

\* When Close(true) or WaitFor has returned, no client is connected and no
\* thread of the server runs.
THEOREM CloseIsFinal == Spec => []ClosedIsClosed
<1>1. IInv => ClosedIsClosed
  BY DEF IInv, ReachInv, ClosedIsClosed
<1>. QED
  BY <1>1, Invariance, PTL
=============================================================================
