------------------------------ MODULE EchoProofs ------------------------------
(***************************************************************************)
(* Proofs about EchoServer, for any clients, descriptors, threads and      *)
(* queue limit: typing, and that a connection accepted on a number nobody  *)
(* was using any more stays registered and has none of its events lost.    *)
(***************************************************************************)
EXTENDS EchoServer, QueueTheorems, TLAPS

\* No thread is about to unregister a connection's number but the one that
\* closed it, after which the number is nobody's or a reused one.
NoStaleDel ==
  \A w \in Workers :
    pc[w] = "del" => conn[job[w]] \in reused \union {None}

\* A read blocks before set_nonblocking only for a thread that has the number
\* from an earlier connection, so that this one is reused.
NoStaleRead ==
  \A w \in Workers :
    pc[w] = "blocked" => conn[job[w]] \in reused \union {None}

FreshNumber ==
  main = "accepted" /\ InUse(cfd) => conn[cfd] \in reused \union {None}

\* A connection is waiting in the backlog, or open on one descriptor, or
\* closed; a client that has not connected has none.  One that a read is
\* blocked on has been accepted and is not closed yet.
OnePlace ==
  /\ IsInjective(backlog)
  /\ \A c \in Range(backlog) : c \notin shut /\ \A f \in Fds : conn[f] # c
  /\ \A f \in Fds : conn[f] \notin shut
  /\ \A f, g \in Fds : conn[f] = conn[g] /\ conn[f] # None => f = g
  /\ \A c \in Clients :
       client[c] = "new" => /\ c \notin Range(backlog) \union shut
                            /\ \A f \in Fds : conn[f] # c
  /\ \A w \in Workers :
       held[w] # None => /\ held[w] \notin Range(backlog) \union shut
                         /\ client[held[w]] # "new"

\* The line a client sent last is the only one under way.
LastLine(c) == <<c, sent[c]>>

\* How far a client's exchange is: every line answered; the last one under
\* way or lost; or broken off.
Exchange(c) ==
  /\ client[c] \in {"new", "idle", "ended"} =>
       inbox[c] = <<>> /\ outbox[c] = <<>> /\ got[c] = FirstLines(c, sent[c])
  /\ client[c] = "reading" =>
       /\ sent[c] >= 1 /\ got[c] = FirstLines(c, sent[c] - 1)
       /\ outbox[c] \in {<<>>, <<LastLine(c)>>}
       /\ outbox[c] = <<>> \/ inbox[c] = <<>>
  /\ client[c] = "gone" =>
       outbox[c] = <<>> /\ \E n \in 0 .. sent[c] : got[c] = FirstLines(c, n)
  /\ inbox[c] \in {<<>>, <<LastLine(c)>>}

\* A thread that is about to answer a client has its last line, which is
\* nowhere else.
Carries(w) ==
  pc[w] = "write" /\ Peer(w) \notin reused \union {None} =>
    /\ client[Peer(w)] \in {"reading", "gone"}
    /\ buf[w] = <<LastLine(Peer(w))>>
    /\ inbox[Peer(w)] = <<>> /\ outbox[Peer(w)] = <<>>
    /\ \A v \in Workers : pc[v] = "write" /\ Peer(v) = Peer(w) => v = w

Exchanges ==
  /\ \A c \in Clients \ reused : Exchange(c)
  /\ \A w \in Workers : Carries(w)

Registered == NoStaleDel /\ NoStaleRead /\ FreshNumber /\ OpenIsWatched

IInv == TypeOK /\ Registered /\ OnePlace /\ NoEdgeLost /\ Exchanges

-----------------------------------------------------------------------------
(* Typing.                                                                 *)

\* Sequences of lines and of descriptors keep their type.
LEMMA SeqFacts ==
  /\ \A S : <<>> \in Seq(S)
  /\ \A S : \A s, t \in Seq(S) : s \o t \in Seq(S)
  /\ \A S : \A s \in Seq(S) : \A x \in S : Append(s, x) \in Seq(S)
  /\ \A S : \A s \in Seq(S) : s # <<>> => Head(s) \in S /\ Tail(s) \in Seq(S)
  OBVIOUS

LEMMA ExceptType ==
  \A D, R : \A f \in [D -> R], x \in D, v \in R : [f EXCEPT ![x] = v] \in [D -> R]
  OBVIOUS

LEMMA TypedInit == Init => TypeOK
<1> SUFFICES ASSUME Init PROVE TypeOK
  OBVIOUS
<1>1. ClientsOK /\ KernelOK
  BY SeqFacts DEF Init, ClientsOK, KernelOK
<1>2. LoopOK /\ PoolOK
  BY SeqFacts, ServerAssumption DEF Init, LoopOK, PoolOK
<1> QED
  BY <1>1, <1>2 DEF Init, TypeOK

\* What a step leaves alone keeps its type.
LEMMA Untouched ==
  /\ ClientsOK /\ UNCHANGED clients => ClientsOK'
  /\ KernelOK /\ UNCHANGED kernel => KernelOK'
  /\ LoopOK /\ UNCHANGED <<loop, backlog>> => LoopOK'
  /\ PoolOK /\ UNCHANGED pool => PoolOK'
<1>1. ClientsOK /\ UNCHANGED clients => ClientsOK'
  BY DEF ClientsOK, clients
<1>2. KernelOK /\ UNCHANGED kernel => KernelOK'
  BY DEF KernelOK, kernel
<1>3. LoopOK /\ UNCHANGED <<loop, backlog>> => LoopOK'
  BY DEF LoopOK, loop
<1>4. PoolOK /\ UNCHANGED pool => PoolOK'
  BY DEF PoolOK, pool
<1> QED
  BY <1>1, <1>2, <1>3, <1>4

\* A client's step keeps the types.
LEMMA TypedClient ==
  ASSUME TypeOK, NEW c \in Clients,
         Connect(c) \/ Send(c) \/ EndOfInput(c) \/ Receive(c) \/ Leave(c)
  PROVE  TypeOK'
<1> USE DEF TypeOK, history
<1>1. CASE Connect(c)
  <2>0. backlog \in Seq(Clients)
    BY DEF ClientsOK
  <2>5. backlog' \in Seq(Clients) /\ backlog' # <<>>
    BY <1>1, <2>0 DEF Connect
  <2>1. ClientsOK'
    BY <1>1, <2>5 DEF Connect, ClientsOK
  <2>2. LoopOK'
    BY <1>1, <2>5 DEF Connect, LoopOK, loop
  <2> QED
    BY <1>1, <2>1, <2>2, Untouched DEF Connect
<1>2. CASE Send(c)
  <2>1. ClientsOK' /\ <<c, sent[c] + 1>> \in Lines
    BY <1>2 DEF Send, Lines, ClientsOK
  <2>2. inbox' \in [Clients -> Seq(Lines)]
    BY <1>2, <2>1, SeqFacts DEF Send, KernelOK
  <2>3. KernelOK'
    BY <1>2, <2>2 DEF Send, Edge, KernelOK
  <2> QED
    BY <1>2, <2>1, <2>3, Untouched DEF Send
<1>3. CASE Receive(c)
  <2>0. c \in Clients /\ got[c] \in Seq(Lines) /\ outbox[c] \in Seq(Lines)
    BY DEF ClientsOK, KernelOK
  <2>5. got[c] \o outbox[c] \in Seq(Lines) /\ <<>> \in Seq(Lines)
    BY ONLY <2>0, SeqFacts
  <2>6. got \in [Clients -> Seq(Lines)] /\ outbox \in [Clients -> Seq(Lines)]
    BY DEF ClientsOK, KernelOK
  <2>7. /\ got' = [got EXCEPT ![c] = got[c] \o outbox[c]] \/ got' = got
        /\ outbox' = [outbox EXCEPT ![c] = <<>>] \/ outbox' = outbox
    BY <1>3 DEF Receive
  <2>1. got' \in [Clients -> Seq(Lines)] /\ outbox' \in [Clients -> Seq(Lines)]
    <3>1. got' \in [Clients -> Seq(Lines)]
      <4>1. CASE got' = [got EXCEPT ![c] = got[c] \o outbox[c]]
        BY ONLY <4>1, <2>0, <2>5, <2>6, ExceptType
      <4> QED
        BY ONLY <4>1, <2>6, <2>7
    <3>2. outbox' \in [Clients -> Seq(Lines)]
      <4>1. CASE outbox' = [outbox EXCEPT ![c] = <<>>]
        BY ONLY <4>1, <2>0, <2>5, <2>6, ExceptType
      <4> QED
        BY ONLY <4>1, <2>6, <2>7
    <3> QED
      BY <3>1, <3>2
  <2>2. ClientsOK' /\ KernelOK'
    BY <1>3, <2>1 DEF Receive, ClientsOK, KernelOK
  <2> QED
    BY <1>3, <2>2, Untouched DEF Receive
<1>4. CASE Leave(c)
  <2>1. ClientsOK'
    BY <1>4 DEF Leave, ClientsOK
  <2>0. <<>> \in Seq(Lines)
    BY SeqFacts
  <2>2. outbox' \in [Clients -> Seq(Lines)]
    <3>1. outbox \in [Clients -> Seq(Lines)] /\ outbox' = [outbox EXCEPT ![c] = <<>>]
      BY <1>4 DEF Leave, KernelOK
    <3> QED
      BY ONLY <2>0, <3>1, ExceptType
  <2>3. KernelOK'
    BY <1>4, <2>2 DEF Leave, Edge, KernelOK
  <2> QED
    BY <1>4, <2>1, <2>3, Untouched DEF Leave
<1>5. CASE EndOfInput(c)
  <2>1. ClientsOK'
    BY <1>5 DEF EndOfInput, ClientsOK
  <2> QED
    BY <1>5, <2>1, Untouched DEF EndOfInput, loop
<1> QED
  BY <1>1, <1>2, <1>3, <1>4, <1>5

\* A step of the main thread keeps them.
LEMMA TypedMain == ASSUME TypeOK, Main PROVE TypeOK'
<1> USE DEF TypeOK, history
<1>1. CASE EpollWait
  <2>1. KernelOK'
    BY <1>1 DEF EpollWait, KernelOK
  <2>2. batch' \subseteq Registrations \union {Listening}
    BY <1>1 DEF EpollWait, KernelOK
  <2>3. Listening \in batch' => backlog # <<>>
    BY <1>1, ServerAssumption DEF EpollWait, KernelOK, Registrations
  <2>4. LoopOK'
    BY <1>1, <2>2, <2>3 DEF EpollWait, LoopOK, clients
  <2> QED
    BY <1>1, <2>1, <2>4, Untouched DEF EpollWait
<1>2. CASE Accept
  <2>1. backlog # <<>> /\ backlog \in Seq(Clients)
    BY <1>2 DEF Accept, LoopOK, ClientsOK
  <2>2. Head(backlog) \in Clients /\ Tail(backlog) \in Seq(Clients)
    BY <2>1, SeqFacts
  <2>3. ClientsOK' /\ KernelOK' /\ reused' \subseteq Clients
    BY <1>2, <2>2 DEF Accept, ClientsOK, KernelOK
  <2>4. LoopOK'
    BY <1>2, ServerAssumption DEF Accept, LoopOK, Rest
  <2> QED
    BY <1>2, <2>3, <2>4, Untouched DEF Accept
<1>3. CASE Register
  <2>1. Added \subseteq Registrations /\ watched \subseteq Added
    BY <1>3, ServerAssumption DEF Register, Added, Registrations, KernelOK, LoopOK
  <2>2. KernelOK' /\ LoopOK'
    BY <1>3, <2>1, ServerAssumption DEF Register, KernelOK, LoopOK, clients
  <2> QED
    BY <1>3, <2>2, Untouched DEF Register
<1>6. CASE SetNonblocking
  <2>1. LoopOK'
    BY <1>6, ServerAssumption DEF SetNonblocking, LoopOK, clients
  <2> QED
    BY <1>6, <2>1, Untouched DEF SetNonblocking
<1>4. CASE AddTaskSignal
  <2>1. LoopOK' /\ PoolOK'
    BY <1>4 DEF AddTaskSignal, WakeOne, LoopOK, PoolOK, clients
  <2> QED
    BY <1>4, <2>1, Untouched DEF AddTaskSignal
<1>5. ASSUME NEW e \in Registrations, AddTask(e) PROVE TypeOK'
  <2>1. e[1] \in Clients /\ e[2] \in Fds
    BY <1>5 DEF Registrations
  <2>2. m_tasks' \in Seq(Fds) /\ refused' \subseteq Clients
    <3>1. m_tasks \in Seq(Fds) /\ Append(m_tasks, e[2]) \in Seq(Fds)
      BY <2>1, SeqFacts DEF PoolOK
    <3> QED
      BY <1>5, <2>1, <3>1 DEF AddTask
  <2>3. LoopOK' /\ PoolOK'
    BY <1>5, <2>2 DEF AddTask, Rest, LoopOK, PoolOK, clients
  <2> QED
    BY <1>5, <2>2, <2>3, Untouched DEF AddTask
<1> QED
  BY <1>1, <1>2, <1>3, <1>4, <1>5, <1>6 DEF Main

\* So does a step of a pool thread.
LEMMA TypedWorker ==
  ASSUME TypeOK, NEW w \in Workers, Worker(w) \/ SpuriousWakeup(w)
  PROVE  TypeOK'
<1> USE DEF TypeOK, history
<1>0. /\ pc[w] # "take" => job[w] \in Fds
      /\ job[w] \in Fds => Peer(w) \in Clients \union {None}
  BY DEF PoolOK, KernelOK, Peer
<1>1. CASE Run(w) \/ SpuriousWakeup(w)
  <2>1. m_tasks # <<>> => Head(m_tasks) \in Fds /\ Tail(m_tasks) \in Seq(Fds)
    BY SeqFacts DEF PoolOK
  <2>2. ASSUME SpuriousWakeup(w) \/ (Run(w) /\ m_tasks = <<>>) PROVE PoolOK'
    <3>1. UNCHANGED <<m_tasks, pc, job, buf, held>> /\ waiting' \subseteq Workers
      BY <2>2 DEF Run, SpuriousWakeup, PoolOK
    <3> QED
      BY <3>1 DEF PoolOK
  <2>3. ASSUME Run(w) /\ m_tasks # <<>> PROVE PoolOK'
    <3>1. /\ m_tasks' \in Seq(Fds) /\ waiting' = waiting /\ buf' = buf /\ held' = held
          /\ job' = [job EXCEPT ![w] = Head(m_tasks)]
          /\ pc' = [pc EXCEPT ![w] = "read"]
      BY <2>1, <2>3 DEF Run
    <3>2. /\ pc' \in [Workers -> {"take", "read", "blocked", "write", "close", "del"}]
          /\ job' \in [Workers -> Fds \union {None}]
      BY <2>1, <2>3, <3>1 DEF PoolOK
    <3>3. \A v \in Workers : pc'[v] = "take" <=> job'[v] = None
      BY <2>1, <2>3, <3>1, ServerAssumption DEF PoolOK
    <3>4. \A v \in Workers : pc'[v] = "blocked" <=> held'[v] # None
      <4>1. pc[w] = "take"
        BY <2>3 DEF Run
      <4> QED
        BY <3>1, <4>1 DEF PoolOK
    <3>5. held' \in [Workers -> Clients \union {None}] /\ buf' \in [Workers -> Seq(Lines)]
      BY <3>1 DEF PoolOK
    <3> QED
      BY <3>1, <3>2, <3>3, <3>4, <3>5 DEF PoolOK
  <2>4. UNCHANGED <<kernel, clients, loop, history>>
    BY <1>1 DEF Run, SpuriousWakeup
  <2> QED
    BY <1>1, <2>2, <2>3, <2>4, Untouched DEF clients, kernel, loop
<1>7. ASSUME NEW S \in SUBSET Clients, CloseAll(S)
      PROVE  /\ shut' \subseteq Clients /\ watched' \subseteq Registrations
             /\ edges' \subseteq watched'
  BY <1>7 DEF CloseAll, KernelOK
<1>8. ASSUME NEW S, inbox' = Drained(S) PROVE inbox' \in [Clients -> Seq(Lines)]
  BY <1>8, SeqFacts DEF Drained, KernelOK
<1>9. ASSUME ReadReturns(w), conn' = conn, outbox' = outbox,
             inbox' \in [Clients -> Seq(Lines)]
      PROVE  KernelOK'
  <2> DEFINE S == {c \in {held[w]} \ {None} : /\ \A f \in Fds : conn[f] # c
                                           /\ \A v \in Workers \ {w} : held[v] # c}
  <2>1. S \in SUBSET Clients
    BY DEF PoolOK
  <2>2. CloseAll(S)
    BY <1>9 DEF ReadReturns
  <2> HIDE DEF S
  <2> QED
    BY <1>7, <1>9, <2>1, <2>2 DEF KernelOK
<1>10. ASSUME ReadReturns(w), NEW p \in {"write", "close"}, pc' = [pc EXCEPT ![w] = p],
              pc[w] \in {"read", "blocked"}, UNCHANGED <<m_tasks, waiting, job>>,
              buf' \in [Workers -> Seq(Lines)]
       PROVE  PoolOK'
  <2>1. held' = [held EXCEPT ![w] = None]
    BY <1>10 DEF ReadReturns
  <2> QED
    BY <1>10, <2>1 DEF PoolOK
<1>2. CASE ReadData(w)
  <2>1. Source(w) \in Clients /\ inbox[Source(w)] \in Seq(Lines)
    BY <1>0, <1>2 DEF ReadData, Source, KernelOK, PoolOK
  <2>2. KernelOK'
    BY <1>2, <1>8, <1>9 DEF ReadData
  <2>3. buf' \in [Workers -> Seq(Lines)]
    BY <1>2, <2>1 DEF ReadData, PoolOK
  <2>4. PoolOK'
    BY <1>2, <1>10, <2>3 DEF ReadData
  <2> QED
    BY <1>2, <2>2, <2>4, Untouched DEF ReadData, clients
<1>11. CASE ReadBlocks(w)
  <2>1. Peer(w) \in Clients /\ pc[w] = "read"
    BY <1>0, <1>11 DEF ReadBlocks
  <2>2. PoolOK'
    <3>1. /\ UNCHANGED <<m_tasks, waiting, job, buf>>
          /\ held' = [held EXCEPT ![w] = Peer(w)]
          /\ pc' = [pc EXCEPT ![w] = "blocked"]
          /\ Peer(w) # None
      BY <1>11 DEF ReadBlocks
    <3> HIDE DEF Peer
    <3> QED
      BY <2>1, <3>1 DEF PoolOK
  <2> QED
    BY <1>11, <2>2, Untouched DEF ReadBlocks, clients
<1>3. CASE Write(w)
  <2>1. outbox' \in [Clients -> Seq(Lines)]
    BY <1>0, <1>3, SeqFacts DEF Write, KernelOK, PoolOK
  <2>2. buf' \in [Workers -> Seq(Lines)]
    BY <1>3, SeqFacts DEF Write, PoolOK
  <2>3. KernelOK' /\ PoolOK'
    BY <1>3, <2>1, <2>2 DEF Write, KernelOK, PoolOK
  <2> QED
    BY <1>3, <2>3, Untouched DEF Write, clients
<1>4. CASE ReadEnds(w)
  <2>1. KernelOK'
    BY <1>4, <1>9 DEF ReadEnds, KernelOK
  <2>2. PoolOK'
    BY <1>4, <1>10 DEF ReadEnds, ToClose, PoolOK
  <2> QED
    BY <1>4, <2>1, <2>2, Untouched DEF ReadEnds, clients
<1>5. CASE Close(w)
  <2> DEFINE S == {Peer(w)} \ ({None} \union Range(held))
  <2>1. S \in SUBSET Clients /\ job[w] \in Fds
    BY <1>0, <1>5 DEF Close
  <2>2. CloseAll(S) /\ inbox' = Drained(S)
    BY <1>5 DEF Close
  <2> HIDE DEF S
  <2>3. KernelOK'
    <3>1. conn' \in [Fds -> Clients \union {None}] /\ outbox' = outbox
      BY <1>5, <2>1 DEF Close, KernelOK
    <3> QED
      BY <1>7, <1>8, <2>1, <2>2, <3>1 DEF KernelOK
  <2>4. PoolOK'
    BY <1>5 DEF Close, PoolOK
  <2> QED
    BY <1>5, <2>3, <2>4, Untouched DEF Close, clients
<1>6. CASE EpollDel(w)
  <2>1. KernelOK' /\ PoolOK'
    BY <1>6 DEF EpollDel, KernelOK, PoolOK
  <2> QED
    BY <1>6, <2>1, Untouched DEF EpollDel, clients
<1> QED
  BY <1>1, <1>2, <1>3, <1>4, <1>5, <1>6, <1>11 DEF Worker

LEMMA TypedStep == TypeOK /\ [Next]_vars => TypeOK'
<1>1. TypeOK /\ UNCHANGED vars => TypeOK'
  BY Untouched DEF TypeOK, vars, history, clients
<1> QED
  BY <1>1, TypedClient, TypedMain, TypedWorker DEF Next

-----------------------------------------------------------------------------
(* Popping a queue.                                                        *)

LEMMA PopInjective ==
  ASSUME NEW S, NEW q \in Seq(S), q # <<>>, IsInjective(q)
  PROVE  /\ IsInjective(Tail(q)) /\ Head(q) \in Range(q)
         /\ Range(Tail(q)) = Range(q) \ {Head(q)}
<1>1. 1 \in 0 .. Len(q) /\ Tail(q) = SubSeq(q, 1 + 1, Len(q)) /\ Head(q) = q[1]
  OBVIOUS
<1>2. {q[i] : i \in 1 .. 1} = {q[1]}
  OBVIOUS
<1>3. IsInjective(Tail(q)) /\ Range(Tail(q)) = Range(q) \ {Head(q)}
  BY <1>1, <1>2, DropInjective
<1>4. Head(q) \in Range(q)
  BY <1>1 DEF Range
<1> QED
  BY <1>3, <1>4

LEMMA PopRange ==
  ASSUME NEW S, NEW q \in Seq(S), q # <<>>
  PROVE  Range(q) \subseteq Range(Tail(q)) \union {Head(q)}
<1>1. ASSUME NEW i \in 1 .. Len(q) PROVE q[i] \in Range(Tail(q)) \union {Head(q)}
  <2>1. CASE i = 1
    BY <2>1
  <2>2. CASE i # 1
    <3>1. i - 1 \in DOMAIN Tail(q) /\ Tail(q)[i - 1] = q[i]
      BY <2>2
    <3> QED
      BY <3>1 DEF Range
  <2> QED
    BY <2>1, <2>2
<1> QED
  BY <1>1 DEF Range

LEMMA PopSubset ==
  ASSUME NEW S, NEW q \in Seq(S), q # <<>>
  PROVE  Range(Tail(q)) \subseteq Range(q) /\ Head(q) \in Range(q)
<1>1. \A i \in DOMAIN Tail(q) : i + 1 \in DOMAIN q /\ Tail(q)[i] = q[i + 1]
  OBVIOUS
<1>2. 1 \in DOMAIN q /\ Head(q) = q[1]
  OBVIOUS
<1> QED
  BY <1>1, <1>2 DEF Range

-----------------------------------------------------------------------------
(* Registration.                                                           *)

\* Clients and the rest of main neither open a descriptor nor remove one; a
\* connection that is closed is not open under any other number.
LEMMA RegisteredStep ==
  TypeOK /\ OnePlace /\ Registered /\ [Next]_vars => Registered'
<1> SUFFICES ASSUME TypeOK, OnePlace, Registered, [Next]_vars PROVE Registered'
  OBVIOUS
<1>0. /\ conn \in [Fds -> Clients \union {None}]
      /\ job \in [Workers -> Fds \union {None}]
      /\ pc \in [Workers -> {"take", "read", "blocked", "write", "close", "del"}]
      /\ \A w \in Workers : pc[w] # "take" => job[w] \in Fds
      /\ main \in {"accepted", "add"} <=> cfd # None
      /\ cfd \in Fds \union {None}
      /\ m_tasks \in Seq(Fds)
  BY DEF TypeOK, KernelOK, PoolOK, LoopOK
<1> USE DEF Registered, NoStaleDel, NoStaleRead, OpenIsWatched
<1>1. CASE UNCHANGED <<conn, watched, main, cfd, batch, m_tasks, pc, job, reused>>
  BY <1>1 DEF FreshNumber, InUse
<1>2. CASE \E c \in Clients :
             Connect(c) \/ Send(c) \/ EndOfInput(c) \/ Receive(c) \/ Leave(c)
  BY <1>1, <1>2 DEF Connect, Send, EndOfInput, Receive, Leave, kernel, loop, pool, history
\* While a number is being set up its users can only become fewer.
<1>9. ASSUME main' = "accepted" => main = "accepted", cfd' = cfd, reused' = reused,
             \A f \in Fds : (InUse(f)' => InUse(f)) /\ conn'[f] \in {conn[f], None}
      PROVE  FreshNumber'
  <2>1. main' = "accepted" => cfd \in Fds
    BY <1>0, <1>9
  <2> QED
    BY <1>9, <2>1 DEF FreshNumber
<1>3. CASE Accept
  <2>1. CASE UNCHANGED <<conn, main, cfd, reused>>
    <3>1. main' # "accepted"
      BY <1>3, <2>1 DEF Accept
    <3> QED
      BY <1>3, <2>1, <3>1 DEF Accept, pool, FreshNumber
  <2>2. CASE \E f \in Fds : conn[f] = None /\ conn' = [conn EXCEPT ![f] = Head(backlog)]
                           /\ cfd' = f /\ main' = "accepted"
                           /\ reused' = IF InUse(f) THEN reused \union {Head(backlog)} ELSE reused
    <3>1. PICK f \in Fds :
            /\ conn[f] = None /\ conn' = [conn EXCEPT ![f] = Head(backlog)]
            /\ cfd' = f /\ main' = "accepted"
            /\ reused' = IF InUse(f) THEN reused \union {Head(backlog)} ELSE reused
      BY <2>2
    <3>2. pc' = pc /\ job' = job /\ watched' = watched /\ main = "loop" /\ cfd = None
          /\ m_tasks' = m_tasks /\ batch' = batch \ {Listening}
      BY <1>0, <1>3 DEF Accept, Rest, pool
    <3>3. \A g \in Fds \ {f} : conn'[g] = conn[g]
      BY <1>0, <3>1
    <3>4. conn'[f] = Head(backlog)
      BY <1>0, <3>1
    <3>5. NoStaleDel' /\ NoStaleRead'
      <4>1. ASSUME NEW w \in Workers, job[w] = f
            PROVE  conn'[f] \in reused'
        BY <3>1, <3>4, <4>1 DEF InUse
      <4> QED
        BY <1>0, <3>1, <3>2, <3>3, <4>1
    <3>6. OpenIsWatched'
      BY <3>1, <3>2, <3>3, ServerAssumption
    <3>7. FreshNumber'
      <4>1. InUse(f)' => InUse(f)
        BY <3>2 DEF InUse
      <4> QED
        BY <3>1, <3>4, <4>1 DEF FreshNumber
    <3> QED
      BY <3>5, <3>6, <3>7
  <2> QED
    BY <1>3, <2>1, <2>2 DEF Accept
<1>4. CASE EpollWait \/ AddTaskSignal \/ \E e \in Registrations : AddTask(e)
  <2>1. /\ UNCHANGED <<conn, watched, cfd, pc, job, reused>>
        /\ main' # "accepted"
    BY <1>4 DEF EpollWait, AddTaskSignal, AddTask, kernel, clients, pool, history
  <2> QED
    BY <1>0, <2>1 DEF FreshNumber
<1>10. CASE SetNonblocking
  <2>1. /\ UNCHANGED <<conn, watched, pc, job, reused>>
        /\ main = "accepted" /\ main' # "accepted" /\ cfd \in Fds
        /\ conn[cfd] # None => cfd' = cfd
    BY <1>0, <1>10, ServerAssumption DEF SetNonblocking, kernel, pool, history
  <2> QED
    BY <1>0, <2>1 DEF FreshNumber
<1>5. CASE Register
  <2>1. /\ conn' = conn /\ pc' = pc /\ job' = job /\ reused' = reused
        /\ main = "add" /\ watched' = Added /\ main' # "accepted"
    BY <1>5 DEF Register, pool, history
  <2> QED
    BY <1>0, <2>1 DEF Added, FreshNumber
\* Registrations end with their connections only.
<1>11. ASSUME NEW S, CloseAll(S), cfd' = cfd, reused' = reused,
              \A f \in Fds : /\ conn'[f] \in {conn[f], None}
                             /\ conn'[f] # None => conn[f] \notin S
       PROVE  OpenIsWatched'
  <2>1. watched' = {e \in watched : e[1] \notin S}
    BY <1>11 DEF CloseAll
  <2>2. ASSUME NEW f \in Fds, conn'[f] \notin reused' \union {None}
        PROVE  <<conn'[f], f>> \in watched' \/ cfd' = f
    <3>1. conn'[f] = conn[f] /\ conn[f] \notin S /\ conn[f] \notin reused \union {None}
      BY <1>11, <2>2
    <3>2. <<conn[f], f>> \in watched \/ cfd = f
      BY <3>1
    <3> QED
      BY <1>11, <2>1, <3>1, <3>2
  <2> QED
    BY <2>2
<1>6. ASSUME NEW w \in Workers, Worker(w) PROVE Registered'
  <2>1. CASE Run(w) \/ Write(w)
    <3>1. /\ UNCHANGED <<conn, watched, main, cfd, batch, reused>>
          /\ \A v \in Workers :
               pc'[v] \in {"del", "blocked"} => pc'[v] = pc[v] /\ job'[v] = job[v]
      BY <1>0, <2>1 DEF Run, Write, kernel, loop, history
    <3>2. \A f \in Fds : InUse(f)' => InUse(f)
      <4>1. CASE UNCHANGED <<m_tasks, job>>
        BY <3>1, <4>1 DEF InUse
      <4>2. CASE Run(w) /\ m_tasks # <<>>
        <5>1. m_tasks' = Tail(m_tasks) /\ job' = [job EXCEPT ![w] = Head(m_tasks)]
          BY <4>2 DEF Run
        <5>2. Range(m_tasks') \subseteq Range(m_tasks) /\ Head(m_tasks) \in Range(m_tasks)
          BY <1>0, <4>2, <5>1, PopSubset
        <5> QED
          BY <1>0, <3>1, <5>1, <5>2 DEF InUse
      <4> QED
        BY <2>1, <4>1, <4>2 DEF Run, Write
    <3> QED
      BY <1>9, <3>1, <3>2
  <2>2. CASE ReadBlocks(w)
    <3>1. /\ UNCHANGED <<conn, watched, main, cfd, batch, m_tasks, job, reused>>
          /\ \A v \in Workers \ {w} : pc'[v] = pc[v]
          /\ pc[w] = "read" /\ pc'[w] = "blocked"
          /\ main = "accepted" /\ cfd = job[w]
      BY <1>0, <2>2 DEF ReadBlocks, Blocking, kernel, loop, history
    <3>2. FreshNumber'
      BY <1>9, <3>1 DEF InUse
    <3>3. conn[job[w]] \in reused \union {None}
      BY <3>1 DEF FreshNumber, InUse
    <3> QED
      BY <3>1, <3>2, <3>3
  <2>3. CASE ReadData(w) \/ ReadEnds(w)
    <3>1. /\ UNCHANGED <<conn, main, cfd, batch, m_tasks, job, reused>>
          /\ \A v \in Workers :
               pc'[v] \in {"del", "blocked"} => pc'[v] = pc[v]
          /\ ReadReturns(w)
      BY <1>0, <2>3 DEF ReadData, ReadEnds, ToClose, loop, history
    <3>2. OpenIsWatched'
      <4> DEFINE S == {c \in {held[w]} \ {None} : /\ \A f \in Fds : conn[f] # c
                                               /\ \A v \in Workers \ {w} : held[v] # c}
      <4>1. CloseAll(S) /\ \A f \in Fds : conn[f] \notin S
        BY <3>1 DEF ReadReturns
      <4> HIDE DEF S
      <4> QED
        BY <1>11, <3>1, <4>1
    <3>3. FreshNumber'
      BY <1>9, <3>1 DEF InUse
    <3> QED
      BY <3>1, <3>2, <3>3
  <2>4. CASE Close(w)
    <3>1. /\ job[w] \in Fds /\ UNCHANGED <<main, cfd, batch, m_tasks, job, reused>>
          /\ conn'[job[w]] = None
          /\ \A f \in Fds \ {job[w]} : conn'[f] = conn[f]
          /\ \A v \in Workers \ {w} : pc'[v] = pc[v]
          /\ pc'[w] = "del"
      BY <1>0, <2>4 DEF Close, loop, history
    <3>2. OpenIsWatched'
      <4> DEFINE S == {Peer(w)} \ ({None} \union Range(held))
      <4>1. CloseAll(S)
        BY <2>4 DEF Close
      <4>2. \A f \in Fds : conn'[f] # None => conn[f] \notin S
        BY <1>0, <3>1 DEF OnePlace, Peer
      <4> HIDE DEF S
      <4> QED
        BY <1>11, <3>1, <4>1, <4>2
    <3>3. FreshNumber'
      BY <1>9, <3>1 DEF InUse
    <3> QED
      BY <1>0, <3>1, <3>2, <3>3
  <2>5. CASE EpollDel(w)
    <3>1. /\ pc[w] = "del" /\ job[w] \in Fds
          /\ UNCHANGED <<conn, reused, main, cfd, batch, m_tasks>>
          /\ watched' = watched \ {<<conn[job[w]], job[w]>>}
          /\ pc'[w] = "take" /\ job'[w] = None
          /\ \A v \in Workers \ {w} : pc'[v] = pc[v] /\ job'[v] = job[v]
      BY <1>0, <2>5 DEF EpollDel, Peer, loop, history
    <3>2. conn[job[w]] \in reused \union {None}
      BY <3>1
    <3>3. OpenIsWatched'
      BY <3>1, <3>2
    <3>4. FreshNumber'
      <4>1. \A f \in Fds : InUse(f)' => InUse(f)
        BY <3>1, ServerAssumption DEF InUse
      <4> QED
        BY <1>9, <3>1, <4>1
    <3> QED
      BY <3>1, <3>3, <3>4
  <2> QED
    BY <1>6, <2>1, <2>2, <2>3, <2>4, <2>5 DEF Worker
<1>7. CASE \E w \in Workers : SpuriousWakeup(w)
  BY <1>1, <1>7 DEF SpuriousWakeup, kernel, loop, history
<1>8. CASE UNCHANGED vars
  BY <1>1, <1>8 DEF vars, kernel, loop, pool, history
<1> QED
  BY <1>2, <1>3, <1>4, <1>5, <1>6, <1>7, <1>8, <1>10 DEF Next, Main

-----------------------------------------------------------------------------
(* Where a connection is.                                                  *)

\* Closing connections that are open nowhere else, or about to be open
\* nowhere, leaves each of the others in its place.
LEMMA OnePlaceStep == TypeOK /\ OnePlace /\ [Next]_vars => OnePlace'
<1> SUFFICES ASSUME TypeOK, OnePlace, [Next]_vars PROVE OnePlace'
  OBVIOUS
<1>0. /\ conn \in [Fds -> Clients \union {None}] /\ backlog \in Seq(Clients)
      /\ client \in [Clients -> {"new", "idle", "reading", "ended", "gone"}]
      /\ shut \subseteq Clients /\ None \notin Clients
      /\ held \in [Workers -> Clients \union {None}]
      /\ Listening \in batch => backlog # <<>>
      /\ None \notin Range(backlog)
  <2>1. backlog \in Seq(Clients) /\ None \notin Clients
    BY ServerAssumption DEF TypeOK, ClientsOK
  <2>2. None \notin Range(backlog)
    BY <2>1 DEF Range
  <2> QED
    BY <2>1, <2>2 DEF TypeOK, KernelOK, ClientsOK, LoopOK, PoolOK
<1> USE DEF OnePlace
<1>1. ASSUME UNCHANGED <<backlog, conn, shut, held>>,
             \A c \in Clients : client'[c] = "new" => client[c] = "new"
      PROVE  OnePlace'
  BY <1>0, <1>1
<1>2. ASSUME NEW c \in Clients, Connect(c) PROVE OnePlace'
  <2>1. /\ client[c] = "new" /\ backlog' = Append(backlog, c)
        /\ client'[c] = "idle" /\ UNCHANGED <<conn, shut, held>>
        /\ \A d \in Clients \ {c} : client'[d] = client[d]
    BY <1>0, <1>2 DEF Connect, kernel, pool
  <2>2. c \notin Range(backlog) /\ c \notin shut /\ \A f \in Fds : conn[f] # c
    BY <2>1
  <2>3. IsInjective(backlog') /\ Range(backlog') = Range(backlog) \union {c}
    BY <1>0, <2>1, <2>2, RangeAppend, InjectiveAppend
  <2>4. \A w \in Workers : held[w] # None =>
          held[w] \in Clients \ {c} /\ held[w] \notin Range(backlog') \union shut
    BY <1>0, <2>1, <2>3
  <2> QED
    BY <2>1, <2>2, <2>3, <2>4
<1>3. ASSUME NEW c \in Clients, Send(c) \/ EndOfInput(c) \/ Receive(c) \/ Leave(c)
      PROVE  OnePlace'
  <2>1. UNCHANGED <<backlog, conn, shut, held>>
    BY <1>3 DEF Send, EndOfInput, Receive, Leave, kernel, pool
  <2>2. \A d \in Clients : client'[d] = "new" => client[d] = "new"
    BY <1>0, <1>3 DEF Send, EndOfInput, Receive, Leave
  <2> QED
    BY <1>1, <2>1, <2>2
<1>4. CASE Accept
  <2>1. CASE UNCHANGED <<backlog, conn>>
    BY <1>1, <1>4, <2>1 DEF Accept, pool
  <2>2. ASSUME NEW f \in Fds, conn[f] = None,
               conn' = [conn EXCEPT ![f] = Head(backlog)], backlog' = Tail(backlog)
        PROVE  OnePlace'
    <3>1. backlog # <<>> /\ client' = client /\ shut' = shut /\ held' = held
      BY <1>0, <1>4 DEF Accept, pool
    <3>2. /\ IsInjective(backlog') /\ Head(backlog) \in Range(backlog)
          /\ Range(backlog') = Range(backlog) \ {Head(backlog)}
      BY <1>0, <2>2, <3>1, PopInjective
    <3>3. conn'[f] = Head(backlog) /\ \A g \in Fds \ {f} : conn'[g] = conn[g]
      BY <1>0, <2>2
    <3> QED
      BY <3>1, <3>2, <3>3
  <2> QED
    BY <1>4, <2>1, <2>2 DEF Accept
<1>5. CASE \/ EpollWait \/ SetNonblocking \/ Register \/ AddTaskSignal
           \/ \E e \in Registrations : AddTask(e)
  BY <1>1, <1>5
     DEF EpollWait, SetNonblocking, Register, AddTaskSignal, AddTask, kernel, clients, pool
<1>6. ASSUME NEW w \in Workers, Close(w) PROVE OnePlace'
  <2> DEFINE S == {Peer(w)} \ ({None} \union Range(held))
  <2>1. job[w] \in Fds
    BY <1>6 DEF TypeOK, PoolOK, Close
  <2>2. /\ shut' = shut \union S
        /\ conn'[job[w]] = None /\ \A g \in Fds \ {job[w]} : conn'[g] = conn[g]
        /\ backlog' = backlog /\ client' = client /\ held' = held
    BY <1>0, <1>6, <2>1 DEF Close, CloseAll, clients
  <2>3. \A c \in S : c = conn[job[w]] /\ c # None /\ \A v \in Workers : held[v] # c
    BY <1>0 DEF Peer, Range
  <2> HIDE DEF S
  <2> QED
    BY <1>0, <2>1, <2>2, <2>3
<1>7. ASSUME NEW w \in Workers, ReadData(w) \/ ReadEnds(w) PROVE OnePlace'
  <2> DEFINE S == {c \in {held[w]} \ {None} : /\ \A f \in Fds : conn[f] # c
                                           /\ \A v \in Workers \ {w} : held[v] # c}
  <2>1. /\ shut' = shut \union S /\ held' = [held EXCEPT ![w] = None]
        /\ UNCHANGED <<conn, backlog, client>>
    BY <1>7 DEF ReadData, ReadEnds, ReadReturns, CloseAll, clients
  <2>2. \A c \in S : /\ c = held[w] /\ c # None /\ \A f \in Fds : conn[f] # c
                     /\ \A v \in Workers \ {w} : held[v] # c
    OBVIOUS
  <2> HIDE DEF S
  <2>3. /\ held'[w] = None
        /\ \A v \in Workers \ {w} : held'[v] = held[v] /\ held[v] \notin S
    BY <1>0, <2>1, <2>2
  <2> QED
    BY <1>0, <2>1, <2>2, <2>3
<1>8. ASSUME NEW w \in Workers, ReadBlocks(w) PROVE OnePlace'
  <2>1. job[w] \in Fds /\ Peer(w) = conn[job[w]] /\ conn[job[w]] \in Clients
    BY <1>8 DEF TypeOK, PoolOK, KernelOK, ReadBlocks, Peer
  <2>2. /\ UNCHANGED <<conn, backlog, client, shut>>
        /\ held'[w] = conn[job[w]]
        /\ \A v \in Workers \ {w} : held'[v] = held[v]
    BY <1>0, <1>8, <2>1 DEF ReadBlocks, kernel, clients
  <2> QED
    BY <1>0, <2>1, <2>2
<1>9. ASSUME NEW w \in Workers,
             Run(w) \/ Write(w) \/ EpollDel(w) \/ SpuriousWakeup(w)
      PROVE  OnePlace'
  BY <1>1, <1>9
     DEF Run, Write, EpollDel, SpuriousWakeup, kernel, clients
<1>10. CASE UNCHANGED vars
  BY <1>1, <1>10 DEF vars, kernel, clients, pool
<1> QED
  BY <1>2, <1>3, <1>4, <1>5, <1>6, <1>7, <1>8, <1>9, <1>10 DEF Next, Main, Worker

-----------------------------------------------------------------------------
(* Events.                                                                 *)

\* What reaches a watched descriptor sets its edge; what main or a thread
\* holds stays with it until the descriptor is closed or the event refused.
LEMMA EdgeStep ==
  TypeOK /\ Registered /\ OnePlace /\ NoEdgeLost /\ [Next]_vars => NoEdgeLost'
<1> SUFFICES ASSUME TypeOK, Registered, OnePlace, NoEdgeLost, [Next]_vars,
                    NEW f \in Fds, Readable(f)', (conn[f] \notin reused \union refused)'
             PROVE  Pending(f)'
  BY DEF NoEdgeLost
<1>0. /\ conn \in [Fds -> Clients \union {None}] /\ m_tasks \in Seq(Fds)
      /\ client \in [Clients -> {"new", "idle", "reading", "ended", "gone"}]
      /\ inbox \in [Clients -> Seq(Lines)]
      /\ job \in [Workers -> Fds \union {None}]
      /\ pc \in [Workers -> {"take", "read", "blocked", "write", "close", "del"}]
      /\ \A w \in Workers : pc[w] # "take" => job[w] \in Fds
      /\ \A w \in Workers : pc[w] = "take" => job[w] = None
      /\ cfd \in Fds \union {None} /\ (main \in {"accepted", "add"} <=> cfd # None)
      /\ edges \subseteq watched /\ None \notin Fds
      /\ \A d \in Fds : conn[d] # None => Listening # <<conn[d], d>>
  <2>1. conn \in [Fds -> Clients \union {None}]
    BY DEF TypeOK, KernelOK
  <2>2. \A d \in Fds : conn[d] # None => <<conn[d], d>> \in Clients \X Fds
    BY <2>1
  <2>3. \A d \in Fds : conn[d] # None => Listening # <<conn[d], d>>
    BY <2>2, ServerAssumption
  <2> QED
    BY <2>1, <2>3, ServerAssumption DEF TypeOK, KernelOK, ClientsOK, PoolOK, LoopOK
<1>15. Readable(f) /\ conn[f] \notin reused \union refused => Pending(f)
  BY DEF NoEdgeLost
\* Steps that make nothing readable and keep what is pending.
<1>1. ASSUME conn'[f] = conn[f], reused' = reused, refused \subseteq refused',
             Readable(f)' => Readable(f), conn[f] \notin refused' => (Pending(f) => Pending(f)')
      PROVE  Pending(f)'
  BY <1>1, <1>15
<1>2. ASSUME UNCHANGED <<conn, main, cfd, batch, m_tasks, pc, job>>, edges \subseteq edges'
      PROVE  Pending(f) => Pending(f)'
  BY <1>2 DEF Pending
<1>16. ASSUME UNCHANGED <<client, inbox, conn>> PROVE Readable(f)
  BY <1>16 DEF Readable, Ready
<1>3. ASSUME NEW c \in Clients,
             Connect(c) \/ Send(c) \/ EndOfInput(c) \/ Receive(c) \/ Leave(c)
      PROVE  Pending(f)'
  <2>1. /\ UNCHANGED <<main, cfd, batch, m_tasks, pc, job, conn, refused, reused>>
        /\ watched' = watched /\ edges \subseteq edges'
    BY <1>3 DEF Connect, Send, EndOfInput, Receive, Leave, Edge, kernel, loop, pool, history
  <2>2. CASE conn[f] = c /\ (Send(c) \/ Leave(c))
    <3>1. <<conn[f], f>> \in watched \/ cfd = f
      BY <2>1, <2>2, ServerAssumption DEF Registered, OpenIsWatched
    <3>2. <<conn[f], f>> \in watched => <<conn[f], f>> \in edges'
      BY <2>2 DEF Send, Leave, Edge
    <3> QED
      BY <2>1, <3>1, <3>2 DEF Pending
  <2>3. CASE conn[f] = c /\ (Connect(c) \/ EndOfInput(c) \/ Receive(c))
    <3>1. inbox' = inbox /\ (client'[c] = "gone" => client[c] = "gone")
      <4>1. CASE Receive(c)
        <5>1. inbox' = inbox /\ (client'[c] = "gone" => c \in shut)
          BY <1>0, <4>1 DEF Receive
        <5>2. c \notin shut
          BY <2>3 DEF OnePlace
        <5> QED
          BY <5>1, <5>2
      <4>2. CASE Connect(c) \/ EndOfInput(c)
        BY <1>0, <4>2 DEF Connect, EndOfInput, kernel
      <4> QED
        BY <2>3, <4>1, <4>2
    <3> QED
      BY <1>0, <1>1, <1>2, <2>1, <2>3, <3>1 DEF Readable, Ready
  <2>4. CASE conn[f] # c
    <3>1. \A d \in Clients \ {c} : client'[d] = client[d] /\ inbox'[d] = inbox[d]
      BY <1>0, <1>3 DEF Connect, Send, EndOfInput, Receive, Leave, kernel
    <3> QED
      BY <1>0, <1>1, <1>2, <2>1, <2>4, <3>1 DEF Readable, Ready
  <2> QED
    BY <1>3, <2>2, <2>3, <2>4
<1>4. CASE EpollWait
  <2>1. /\ UNCHANGED <<client, inbox, conn, reused, refused, main, cfd, m_tasks, job, pc>>
        /\ batch = {} /\ \A e \in edges : Ready(e[1]) => e \in batch'
    BY <1>4 DEF EpollWait, clients, pool, history
  <2>2. Readable(f) /\ Pending(f)
    BY <1>15, <1>16, <2>1
  <2> QED
    BY <2>1, <2>2 DEF Pending, Readable
<1>5. CASE Accept
  <2>1. /\ UNCHANGED <<client, inbox, edges, m_tasks, pc, job, refused>>
        /\ batch' = batch \ {Listening} /\ main = "loop"
    BY <1>5 DEF Accept, Rest, pool
  <2>2. CASE UNCHANGED <<conn, main, cfd, reused>>
    <3>1. Readable(f) /\ Pending(f)
      BY <1>15, <1>16, <2>1, <2>2
    <3> QED
      BY <1>0, <2>1, <2>2, <3>1 DEF Pending, Readable
  <2>3. ASSUME NEW g \in Fds, conn' = [conn EXCEPT ![g] = Head(backlog)],
               cfd' = g, reused \subseteq reused'
        PROVE  Pending(f)'
    <3>1. CASE f = g
      BY <2>3, <3>1 DEF Pending
    <3>2. CASE f # g
      <4>1. conn'[f] = conn[f]
        BY <1>0, <2>3, <3>2
      <4>2. Pending(f)
        BY <1>15, <2>1, <2>3, <4>1 DEF Readable, Ready
      <4>3. cfd # f
        BY <1>0, <2>1
      <4>4. conn[f] # None
        BY <4>1 DEF Readable
      <4> QED
        BY <1>0, <2>1, <2>3, <4>1, <4>2, <4>3, <4>4 DEF Pending
    <3> QED
      BY <3>1, <3>2
  <2> QED
    BY <1>5, <2>2, <2>3 DEF Accept
<1>17. CASE SetNonblocking
  <2>1. /\ UNCHANGED <<conn, client, inbox, edges, batch, m_tasks, pc, job, refused, reused>>
        /\ main = "accepted" /\ (conn[cfd] # None => cfd' = cfd)
    BY <1>17 DEF SetNonblocking, kernel, clients, pool, history
  <2>2. Readable(f) /\ Pending(f)
    BY <1>15, <1>16, <2>1
  <2>3. cfd = f => cfd' = f
    BY <2>1, <2>2 DEF Readable
  <2> QED
    BY <2>1, <2>2, <2>3 DEF Pending
<1>6. CASE Register
  <2>1. /\ UNCHANGED <<conn, client, inbox, batch, m_tasks, pc, job, refused, reused>>
        /\ edges' = edges \union {e \in watched' : e[2] = cfd /\ e[1] = conn[cfd] /\ Ready(e[1])}
        /\ watched' = Added
    BY <1>6 DEF Register, clients, pool, history
  <2>2. Readable(f) /\ Pending(f)
    BY <1>15, <1>16, <2>1
  <2>3. CASE cfd = f
    <3>1. <<conn[f], f>> \in watched'
      BY <2>1, <2>2, <2>3 DEF Added, Readable
    <3> QED
      BY <2>1, <2>2, <2>3, <3>1 DEF Readable, Pending
  <2>4. CASE cfd # f
    BY <2>1, <2>2, <2>4 DEF Pending
  <2> QED
    BY <2>3, <2>4
<1>7. CASE AddTaskSignal
  <2>1. UNCHANGED <<conn, client, inbox, edges, batch, m_tasks, cfd, pc, job, refused, reused>>
    BY <1>7 DEF AddTaskSignal, kernel, clients, history
  <2> QED
    BY <1>1, <1>16, <2>1 DEF Pending
<1>8. ASSUME NEW e \in Registrations, AddTask(e) PROVE Pending(f)'
  <2>1. /\ UNCHANGED <<conn, client, inbox, edges, pc, job, cfd, reused>>
        /\ batch' = batch \ {e} /\ refused \subseteq refused'
    BY <1>8 DEF AddTask, Rest, kernel, clients
  <2>2. Readable(f) /\ Pending(f)
    BY <1>15, <1>16, <2>1
  <2>3. CASE Len(m_tasks) >= MaxTasks
    <3>1. refused' = refused \union {e[1]} /\ m_tasks' = m_tasks
      BY <1>8, <2>3 DEF AddTask
    <3>2. <<conn[f], f>> # e
      BY <2>1, <2>2, <3>1
    <3> QED
      BY <2>1, <2>2, <3>1, <3>2 DEF Pending
  <2>4. CASE ~(Len(m_tasks) >= MaxTasks)
    <3>1. m_tasks' = Append(m_tasks, e[2]) /\ e[2] \in Fds
      BY <1>8, <2>4 DEF AddTask, Registrations
    <3>2. Range(m_tasks') = Range(m_tasks) \union {e[2]}
      BY <1>0, <3>1, RangeAppend
    <3>3. <<conn[f], f>> = e => f = e[2]
      OBVIOUS
    <3> QED
      BY <2>1, <2>2, <3>2, <3>3 DEF Pending
  <2> QED
    BY <2>3, <2>4
<1>9. ASSUME NEW w \in Workers, Run(w) PROVE Pending(f)'
  <2>1. UNCHANGED <<conn, client, inbox, edges, main, cfd, batch, refused, reused>>
    BY <1>9 DEF Run, kernel, clients, loop, history
  <2>2. Readable(f) /\ Pending(f)
    BY <1>15, <1>16, <2>1
  <2>3. CASE m_tasks = <<>>
    BY <1>9, <2>1, <2>2, <2>3 DEF Run, Pending
  <2>4. CASE m_tasks # <<>>
    <3>1. /\ m_tasks' = Tail(m_tasks) /\ pc[w] = "take"
          /\ pc'[w] = "read" /\ job'[w] = Head(m_tasks)
          /\ \A v \in Workers \ {w} : pc'[v] = pc[v] /\ job'[v] = job[v]
      BY <1>0, <1>9, <2>4 DEF Run
    <3>2. Range(m_tasks) \subseteq Range(Tail(m_tasks)) \union {Head(m_tasks)}
      BY <1>0, <2>4, PopRange
    <3>3. job[w] # f
      BY <1>0, <3>1
    <3> QED
      BY <2>1, <2>2, <3>1, <3>2, <3>3 DEF Pending
  <2> QED
    BY <2>3, <2>4
\* What is still registered keeps its edge.
<1>18. ASSUME NEW S, CloseAll(S), conn'[f] = conn[f], conn[f] \notin S
       PROVE  <<conn[f], f>> \in edges => <<conn'[f], f>> \in edges'
  BY <1>18 DEF CloseAll
<1>10. ASSUME NEW w \in Workers, ReadData(w) \/ ReadEnds(w) \/ Write(w)
       PROVE  Pending(f)'
  <2>1. /\ UNCHANGED <<conn, client, main, cfd, batch, m_tasks, job, refused, reused>>
        /\ pc'[w] \in {"read", "write", "close"}
        /\ \A v \in Workers \ {w} : pc'[v] = pc[v]
    BY <1>0, <1>10
       DEF ReadData, Write, ReadEnds, ToClose, kernel, clients, loop, history
  <2>2. \A c \in Clients : inbox'[c] # <<>> => inbox[c] # <<>>
    <3>1. CASE inbox' = inbox
      BY <3>1
    <3>2. CASE ReadData(w)
      BY <1>0, <3>2 DEF ReadData, Drained
    <3> QED
      BY <1>10, <3>1, <3>2 DEF Write, ReadEnds, kernel
  <2>3. <<conn[f], f>> \in edges => <<conn'[f], f>> \in edges'
    <3>1. CASE ReadReturns(w)
      <4> DEFINE S == {c \in {held[w]} \ {None} : /\ \A g \in Fds : conn[g] # c
                                               /\ \A v \in Workers \ {w} : held[v] # c}
      <4>1. CloseAll(S) /\ conn[f] \notin S
        BY <3>1 DEF ReadReturns
      <4> HIDE DEF S
      <4> QED
        BY <1>18, <2>1, <4>1
    <3> QED
      BY <1>10, <2>1, <3>1 DEF ReadData, ReadEnds, Write
  <2>4. Pending(f) => Pending(f)'
    BY <2>1, <2>3 DEF Pending
  <2> QED
    BY <1>0, <1>1, <2>1, <2>2, <2>4 DEF Readable, Ready
\* A thread blocks on a reused connection only.
<1>19. ASSUME NEW w \in Workers, ReadBlocks(w) PROVE Pending(f)'
  <2>1. /\ UNCHANGED <<conn, client, inbox, edges, main, cfd, batch, m_tasks, job, refused, reused>>
        /\ main = "accepted" /\ cfd = job[w] /\ pc[w] = "read"
        /\ \A v \in Workers \ {w} : pc'[v] = pc[v]
    BY <1>0, <1>19 DEF ReadBlocks, Blocking, kernel, clients, loop, history
  <2>2. Readable(f) /\ Pending(f)
    BY <1>15, <1>16, <2>1
  <2>3. job[w] # f \/ cfd = f
    BY <2>1
  <2> QED
    BY <2>1, <2>2, <2>3 DEF Pending
<1>11. ASSUME NEW w \in Workers, Close(w) PROVE Pending(f)'
  <2> DEFINE S == {Peer(w)} \ ({None} \union Range(held))
  <2>1. /\ UNCHANGED <<client, main, cfd, batch, m_tasks, job, refused, reused>>
        /\ conn'[job[w]] = None /\ job[w] \in Fds
        /\ \A g \in Fds \ {job[w]} : conn'[g] = conn[g]
        /\ \A v \in Workers \ {w} : pc'[v] = pc[v]
        /\ CloseAll(S) /\ inbox' = Drained(S)
    BY <1>0, <1>11 DEF Close, clients, loop, history
  <2>2. f # job[w] /\ conn'[f] = conn[f] /\ conn[f] # None
    BY <2>1 DEF Readable
  <2>3. conn[f] \notin S
    BY <1>0, <2>1, <2>2 DEF OnePlace, Peer
  <2> HIDE DEF S
  <2>4. \A c \in Clients : inbox'[c] # <<>> => inbox[c] # <<>>
    BY <2>1 DEF Drained
  <2>5. Pending(f)
    BY <1>0, <1>15, <2>1, <2>2, <2>4 DEF Readable, Ready
  <2>6. <<conn[f], f>> \in edges => <<conn'[f], f>> \in edges'
    BY <1>18, <2>1, <2>2, <2>3
  <2> QED
    BY <2>1, <2>2, <2>5, <2>6 DEF Pending
<1>12. ASSUME NEW w \in Workers, EpollDel(w) PROVE Pending(f)'
  <2>1. /\ UNCHANGED <<conn, client, inbox, main, cfd, batch, m_tasks, refused, reused>>
        /\ pc[w] = "del" /\ edges' = edges \ {<<conn[job[w]], job[w]>>}
        /\ \A v \in Workers \ {w} : pc'[v] = pc[v] /\ job'[v] = job[v]
    BY <1>0, <1>12 DEF EpollDel, Peer, clients, loop, history
  <2>2. Readable(f) /\ Pending(f)
    BY <1>15, <1>16, <2>1
  <2>3. job[w] # f
    BY <2>1, <2>2 DEF Registered, NoStaleDel, Readable
  <2> QED
    BY <2>1, <2>2, <2>3 DEF Pending
<1>13. ASSUME NEW w \in Workers, SpuriousWakeup(w) PROVE Pending(f)'
  <2>1. UNCHANGED <<conn, client, inbox, edges, main, cfd, batch, m_tasks, pc, job, refused, reused>>
    BY <1>13 DEF SpuriousWakeup, kernel, clients, loop, history
  <2> QED
    BY <1>1, <1>2, <1>16, <2>1
<1>14. CASE UNCHANGED vars
  <2>1. UNCHANGED <<conn, client, inbox, edges, main, cfd, batch, m_tasks, pc, job, refused, reused>>
    BY <1>14 DEF vars, kernel, clients, loop, pool, history
  <2> QED
    BY <1>1, <1>2, <1>16, <2>1
<1> QED
  BY <1>3, <1>4, <1>5, <1>6, <1>7, <1>8, <1>9, <1>10, <1>11, <1>12, <1>13, <1>14, <1>17, <1>19
     DEF Next, Main, Worker

-----------------------------------------------------------------------------
(* The lines on their way.                                                 *)

LEMMA LinesFacts ==
  ASSUME NEW c \in Clients, NEW n \in Nat
  PROVE  /\ FirstLines(c, n) \in Seq(Lines) /\ Len(FirstLines(c, n)) = n
         /\ FirstLines(c, n) \o <<>> = FirstLines(c, n)
         /\ FirstLines(c, n) \o <<<<c, n + 1>>>> = FirstLines(c, n + 1)
         /\ FirstLines(c, 0) = <<>>
<1> DEFINE s == FirstLines(c, n)
           t == FirstLines(c, n + 1)
<1>1. \A m \in Nat : FirstLines(c, m) \in [1 .. m -> Lines]
  BY DEF FirstLines, Lines
<1>2. \A m \in Nat : FirstLines(c, m) \in Seq(Lines) /\ Len(FirstLines(c, m)) = m
  <2> TAKE m \in Nat
  <2> DEFINE u == FirstLines(c, m)
  <2>1. u \in [1 .. m -> Lines]
    BY <1>1
  <2> HIDE DEF u
  <2>2. u \in Seq(Lines) /\ Len(u) = m
    BY <2>1
  <2> QED
    BY <2>2 DEF u
<1>3. /\ \A i \in 1 .. n : s[i] = <<c, i>>
      /\ \A i \in 1 .. n + 1 : t[i] = <<c, i>>
  BY DEF FirstLines
<1>4. s \in Seq(Lines) /\ t \in Seq(Lines) /\ Len(s) = n /\ Len(t) = n + 1
  BY <1>2
<1> HIDE DEF s, t
<1>5. s \o <<>> = s
  BY <1>4
<1>6. s \o <<<<c, n + 1>>>> = t
  <2> DEFINE x == <<c, n + 1>>
  <2>1. x \in Lines /\ t[n + 1] = x
    BY <1>3 DEF Lines
  <2> HIDE DEF x
  <2>2. s \o <<x>> = Append(s, x)
    BY <1>4, <2>1
  <2>3. /\ Append(s, x) \in Seq(Lines) /\ Len(Append(s, x)) = n + 1
        /\ Append(s, x)[n + 1] = x /\ \A i \in 1 .. n : Append(s, x)[i] = s[i]
    BY <1>4, <2>1
  <2>4. ASSUME NEW i \in 1 .. n + 1 PROVE Append(s, x)[i] = t[i]
    <3>1. CASE i \in 1 .. n
      <4>1. i \in 1 .. n + 1
        BY <2>4
      <4> QED
        BY ONLY <1>3, <2>3, <3>1, <4>1
    <3>2. CASE i = n + 1
      BY ONLY <2>1, <2>3, <3>2
    <3>3. i \in 1 .. n \/ i = n + 1
      BY <2>4
    <3> QED
      BY <3>1, <3>2, <3>3
  <2>5. Append(s, x) = t
    BY <1>4, <2>3, <2>4
  <2> QED
    BY <2>2, <2>5 DEF x
<1>7. FirstLines(c, 0) = <<>>
  BY DEF FirstLines
<1> QED
  BY <1>2, <1>5, <1>6, <1>7 DEF s, t

LEMMA ExchangesInit == Init => Exchanges
<1> SUFFICES ASSUME Init PROVE Exchanges
  OBVIOUS
<1>1. ASSUME NEW c \in Clients PROVE Exchange(c)
  <2>1. /\ client[c] = "new" /\ sent[c] = 0 /\ got[c] = <<>>
        /\ inbox[c] = <<>> /\ outbox[c] = <<>>
    BY DEF Init
  <2> QED
    BY <2>1, LinesFacts DEF Exchange
<1>2. ASSUME NEW w \in Workers PROVE Carries(w)
  BY DEF Init, Carries
<1> QED
  BY <1>1, <1>2 DEF Exchanges

\* A step of client c, seen from its connection.
LEMMA ExchangeClient ==
  ASSUME TypeOK, Exchanges, NEW c \in Clients,
         Connect(c) \/ Send(c) \/ EndOfInput(c) \/ Receive(c) \/ Leave(c)
  PROVE  Exchanges'
<1>0. /\ client \in [Clients -> {"new", "idle", "reading", "ended", "gone"}]
      /\ sent \in [Clients -> Nat] /\ got \in [Clients -> Seq(Lines)]
      /\ inbox \in [Clients -> Seq(Lines)] /\ outbox \in [Clients -> Seq(Lines)]
      /\ conn \in [Fds -> Clients \union {None}] /\ None \notin Clients
      /\ \A w \in Workers : pc[w] = "write" => job[w] \in Fds
  BY ServerAssumption DEF TypeOK, KernelOK, ClientsOK, PoolOK
<1>1. /\ UNCHANGED <<conn, pc, job, buf, reused>>
      /\ \A d \in Clients \ {c} : /\ client'[d] = client[d] /\ sent'[d] = sent[d]
                                 /\ got'[d] = got[d] /\ inbox'[d] = inbox[d]
                                 /\ outbox'[d] = outbox[d]
  BY <1>0 DEF Connect, Send, EndOfInput, Receive, Leave, kernel, pool, history
<1>2. ASSUME NEW d \in Clients \ reused, d # c PROVE Exchange(d)'
  BY <1>1, <1>2 DEF Exchanges, Exchange, LastLine
\* What the step does to c's own exchange.
<1>3. ASSUME c \notin reused
      PROVE  /\ Exchange(c)'
             /\ client[c] \in {"reading", "gone"} /\ inbox[c] = <<>> /\ outbox[c] = <<>>
                  => /\ client'[c] \in {"reading", "gone"} /\ sent'[c] = sent[c]
                     /\ inbox'[c] = <<>> /\ outbox'[c] = <<>>
  <2>0. Exchange(c) /\ sent[c] \in Nat
    BY <1>0, <1>3 DEF Exchanges
  <2>1. CASE Connect(c) \/ EndOfInput(c)
    <3>1. /\ client[c] \in {"new", "idle"} /\ client'[c] \in {"idle", "ended"}
          /\ UNCHANGED <<sent, got, inbox, outbox>>
      BY <1>0, <2>1 DEF Connect, EndOfInput, kernel
    <3> QED
      BY <2>0, <3>1 DEF Exchange, LastLine
  <2>2. CASE Send(c)
    <3>1. /\ client[c] = "idle" /\ client'[c] = "reading" /\ sent'[c] = sent[c] + 1
          /\ got' = got /\ outbox' = outbox
          /\ inbox[c] = <<>> /\ inbox'[c] \in {<<>>, Append(<<>>, <<c, sent[c] + 1>>)}
      BY <1>0, <2>0, <2>2 DEF Send, Exchange
    <3>2. Append(<<>>, <<c, sent[c] + 1>>) = <<<<c, sent[c] + 1>>>>
      OBVIOUS
    <3>3. sent'[c] >= 1 /\ sent'[c] - 1 = sent[c]
      BY <2>0, <3>1
    <3> QED
      BY <2>0, <3>1, <3>2, <3>3 DEF Exchange, LastLine
  <2>3. CASE Receive(c) /\ outbox[c] # <<>>
    <3>1. /\ client[c] = "reading" /\ client'[c] = "idle"
          /\ got'[c] = got[c] \o outbox[c] /\ outbox'[c] = <<>>
          /\ sent' = sent /\ inbox' = inbox
      BY <1>0, <2>0, <2>3 DEF Receive, Exchange
    <3>2. /\ sent[c] - 1 \in Nat /\ got[c] = FirstLines(c, sent[c] - 1)
          /\ outbox[c] = <<<<c, sent[c]>>>> /\ inbox[c] = <<>>
          /\ (sent[c] - 1) + 1 = sent[c]
      BY <2>0, <2>3, <3>1 DEF Exchange, LastLine
    <3>3. got'[c] = FirstLines(c, sent[c])
      BY <3>1, <3>2, LinesFacts
    <3> QED
      BY <3>1, <3>2, <3>3, <2>3 DEF Exchange, LastLine
  <2>4. CASE Leave(c) \/ (Receive(c) /\ outbox[c] = <<>>)
    <3>1. /\ client[c] \in {"idle", "reading", "ended"} /\ client'[c] = "gone"
          /\ got' = got /\ outbox'[c] = <<>> /\ sent' = sent /\ inbox' = inbox
      BY <1>0, <2>4 DEF Receive, Leave
    <3>2. \E n \in 0 .. sent[c] : got[c] = FirstLines(c, n)
      BY <2>0, <3>1 DEF Exchange
    <3> QED
      BY <2>0, <3>1, <3>2 DEF Exchange, LastLine
  <2> QED
    BY <2>1, <2>2, <2>3, <2>4
<1>4. ASSUME NEW w \in Workers PROVE Carries(w)'
  <2>1. Carries(w) /\ \A v \in Workers : Peer(v)' = Peer(v)
    BY <1>1 DEF Exchanges, Peer
  <2>2. pc[w] = "write" => Peer(w) \in Clients \union {None}
    BY <1>0 DEF Peer
  <2>3. CASE Peer(w) = c
    BY <1>1, <1>3, <2>1, <2>3 DEF Carries, LastLine
  <2>4. CASE Peer(w) # c
    BY <1>1, <2>1, <2>2, <2>4 DEF Carries, LastLine
  <2> QED
    BY <2>3, <2>4
<1> QED
  BY <1>1, <1>2, <1>3, <1>4 DEF Exchanges

\* main moves no line; the connection it accepts on an unused number has no
\* thread to answer it yet.
LEMMA ExchangeMain == ASSUME TypeOK, Exchanges, Main PROVE Exchanges'
<1>1. /\ UNCHANGED <<client, sent, got, inbox, outbox, pc, job, buf>>
      /\ reused \subseteq reused'
  BY DEF Main, EpollWait, Accept, SetNonblocking, Register, AddTaskSignal, AddTask,
         kernel, clients, pool, history
<1>2. ASSUME NEW c \in Clients \ reused' PROVE Exchange(c)'
  BY <1>1 DEF Exchanges, Exchange, LastLine
<1>3. ASSUME NEW w \in Workers, pc[w] = "write", (Peer(w) \notin reused \union {None})'
      PROVE  conn'[job[w]] = conn[job[w]]
  <2>1. job[w] \in Fds /\ conn \in [Fds -> Clients \union {None}]
    BY <1>3 DEF TypeOK, PoolOK, KernelOK
  <2>2. CASE conn' = conn
    BY <2>2
  <2>3. ASSUME NEW f \in Fds, conn' = [conn EXCEPT ![f] = Head(backlog)],
               reused' = IF InUse(f) THEN reused \union {Head(backlog)} ELSE reused
        PROVE  conn'[job[w]] = conn[job[w]]
    <3>1. CASE job[w] = f
      BY <1>1, <1>3, <2>1, <2>3, <3>1 DEF InUse, Peer
    <3> QED
      BY <2>1, <2>3, <3>1
  <2> QED
    BY <2>2, <2>3 DEF Main, EpollWait, Accept, SetNonblocking, Register, AddTaskSignal, AddTask, kernel
<1>4. ASSUME NEW w \in Workers PROVE Carries(w)'
  <2> SUFFICES ASSUME pc[w] = "write", (Peer(w) \notin reused \union {None})'
               PROVE  Carries(w)'
    BY <1>1 DEF Carries
  <2>1. Peer(w)' = Peer(w) /\ Peer(w) \notin reused \union {None}
    BY <1>1, <1>3 DEF Peer
  <2>2. \A v \in Workers : pc[v] = "write" /\ Peer(v)' = Peer(w)' => Peer(v) = Peer(v)'
    BY <1>1, <1>3, <2>1 DEF Peer
  <2> QED
    BY <1>1, <2>1, <2>2 DEF Exchanges, Carries, LastLine
<1> QED
  BY <1>2, <1>4 DEF Exchanges

\* A thread moves a line from the socket to its buffer and from there back
\* to the client, or closes the connection, which loses what is in either.
LEMMA ExchangeWorker ==
  ASSUME TypeOK, Registered, Exchanges, NEW w \in Workers, Worker(w) \/ SpuriousWakeup(w)
  PROVE  Exchanges'
<1>0. /\ client \in [Clients -> {"new", "idle", "reading", "ended", "gone"}]
      /\ sent \in [Clients -> Nat] /\ buf \in [Workers -> Seq(Lines)]
      /\ inbox \in [Clients -> Seq(Lines)] /\ outbox \in [Clients -> Seq(Lines)]
      /\ conn \in [Fds -> Clients \union {None}] /\ None \notin Clients
      /\ pc \in [Workers -> {"take", "read", "blocked", "write", "close", "del"}]
      /\ job \in [Workers -> Fds \union {None}]
      /\ \A v \in Workers : pc[v] # "take" => job[v] \in Fds
      /\ \A v \in Workers : pc[v] = "blocked" => Peer(v) \in reused \union {None}
  BY ServerAssumption DEF TypeOK, KernelOK, ClientsOK, PoolOK, Registered, NoStaleRead, Peer
<1>1. UNCHANGED <<client, sent, got, reused>>
  BY DEF Worker, Run, ReadBlocks, ReadData, Write, ReadEnds, Close, EpollDel,
         SpuriousWakeup, clients, history
<1>2. CASE Run(w) \/ ReadBlocks(w) \/ ReadEnds(w) \/ EpollDel(w) \/ SpuriousWakeup(w)
  <2>1. /\ UNCHANGED <<conn, inbox, outbox, buf>>
        /\ \A v \in Workers : pc'[v] = "write" => pc[v] = "write" /\ job'[v] = job[v]
    <3>1. UNCHANGED <<conn, inbox, outbox, buf>>
      BY <1>2 DEF Run, ReadBlocks, ReadEnds, EpollDel, SpuriousWakeup, kernel
    <3>2. CASE SpuriousWakeup(w)
      BY <3>1, <3>2 DEF SpuriousWakeup
    <3>3. CASE Run(w)
      <4>1. \A v \in Workers \ {w} : pc'[v] = pc[v] /\ job'[v] = job[v]
        <5>1. \/ pc' = pc /\ job' = job
              \/ /\ pc' = [pc EXCEPT ![w] = "read"]
                 /\ job' = [job EXCEPT ![w] = Head(m_tasks)]
          BY <3>3 DEF Run
        <5> QED
          BY <1>0, <5>1
      <4>2. pc'[w] = "write" => pc[w] = "write" /\ job'[w] = job[w]
        <5>1. pc' = pc \/ pc' = [pc EXCEPT ![w] = "read"]
          BY <3>3 DEF Run
        <5>2. pc[w] = "take"
          BY <3>3 DEF Run
        <5> QED
          BY <1>0, <5>1, <5>2
      <4> QED
        BY <3>1, <4>1, <4>2
    <3>4. CASE ReadEnds(w) \/ ReadBlocks(w)
      <4>1. /\ \A v \in Workers \ {w} : pc'[v] = pc[v]
            /\ job' = job /\ pc'[w] \in {"close", "blocked"}
        BY <1>0, <3>4 DEF ReadEnds, ReadBlocks, ToClose
      <4> QED
        BY <3>1, <4>1
    <3>5. CASE EpollDel(w)
      <4>1. /\ \A v \in Workers \ {w} : pc'[v] = pc[v] /\ job'[v] = job[v]
            /\ pc'[w] = "take"
        BY <1>0, <3>5 DEF EpollDel
      <4> QED
        BY <3>1, <4>1
    <3> QED
      BY <1>2, <3>2, <3>3, <3>4, <3>5
  <2>2. ASSUME NEW c \in Clients \ reused PROVE Exchange(c)'
    BY <1>1, <2>1 DEF Exchanges, Exchange, LastLine
  <2>3. ASSUME NEW v \in Workers PROVE Carries(v)'
    BY <1>1, <2>1 DEF Exchanges, Carries, LastLine, Peer
  <2> QED
    BY <1>1, <2>2, <2>3 DEF Exchanges
\* The answer of a thread whose read was blocked goes to a reused connection.
<1>6. CASE ReadData(w) /\ pc[w] = "blocked"
  <2>1. /\ UNCHANGED <<conn, outbox, job>> /\ pc'[w] = "write"
        /\ \A c \in Clients : inbox'[c] \in {<<>>, inbox[c]}
        /\ \A v \in Workers \ {w} : buf'[v] = buf[v] /\ pc'[v] = pc[v]
    BY <1>0, <1>6 DEF ReadData, Drained
  <2>2. \A v \in Workers : Peer(v)' = Peer(v)
    BY <2>1 DEF Peer
  <2>3. ASSUME NEW c \in Clients \ reused PROVE Exchange(c)'
    BY <1>1, <2>1 DEF Exchanges, Exchange, LastLine
  <2>4. ASSUME NEW v \in Workers PROVE Carries(v)'
    <3> SUFFICES ASSUME pc'[v] = "write", Peer(v)' \notin reused \union {None}
                 PROVE  Carries(v)'
      BY <1>1 DEF Carries
    <3>1. v # w /\ Peer(w) \in reused \union {None}
      BY <1>0, <1>6, <2>2
    <3>2. pc[v] = "write" /\ Peer(v) \in Clients
      BY <1>0, <2>1, <2>2, <3>1 DEF Peer
    <3>3. \A u \in Workers : pc'[u] = "write" /\ Peer(u)' = Peer(v)' =>
            pc[u] = "write" /\ Peer(u) = Peer(v)
      BY <1>1, <2>1, <2>2, <3>1
    <3>4. Carries(v)
      BY DEF Exchanges
    <3> QED
      BY <1>1, <2>1, <2>2, <3>1, <3>2, <3>3, <3>4 DEF Carries, LastLine
  <2> QED
    BY <1>1, <2>3, <2>4 DEF Exchanges
<1>3. CASE ReadData(w) /\ pc[w] # "blocked"
  <2> DEFINE p == Peer(w)
  <2>1. /\ p \in Clients /\ inbox[p] # <<>> /\ inbox'[p] = <<>> /\ buf'[w] = inbox[p]
        /\ pc[w] = "read" /\ pc'[w] = "write"
        /\ \A c \in Clients \ {p} : inbox'[c] = inbox[c]
        /\ \A v \in Workers \ {w} : buf'[v] = buf[v] /\ pc'[v] = pc[v]
        /\ UNCHANGED <<conn, outbox, job>>
    BY <1>0, <1>3 DEF ReadData, Drained, Source, Peer
  <2>2. \A v \in Workers : Peer(v)' = Peer(v)
    BY <2>1 DEF Peer
  <2>3. ASSUME NEW c \in Clients \ reused PROVE Exchange(c)'
    BY <1>1, <2>1, <2>3 DEF Exchanges, Exchange, LastLine
  <2>4. ASSUME p \notin reused
        PROVE  /\ client[p] \in {"reading", "gone"} /\ outbox[p] = <<>>
               /\ inbox[p] = <<LastLine(p)>>
               /\ \A v \in Workers : pc[v] = "write" => Peer(v) # p
    <3>1. Exchange(p)
      BY <2>1, <2>4 DEF Exchanges
    <3>2. client[p] \in {"reading", "gone"} /\ outbox[p] = <<>> /\ inbox[p] = <<LastLine(p)>>
      BY <1>0, <2>1, <3>1 DEF Exchange
    <3>3. \A v \in Workers : pc[v] = "write" => Peer(v) # p
      BY <1>0, <2>1, <2>4 DEF Exchanges, Carries
    <3> QED
      BY <3>2, <3>3
  <2> HIDE DEF p
  <2>5. ASSUME NEW v \in Workers PROVE Carries(v)'
    <3>0. Peer(w) = p
      BY DEF p
    <3>1. CASE v = w
      BY <1>1, <2>1, <2>2, <2>4, <3>0, <3>1 DEF Carries, LastLine
    <3>2. CASE v # w
      <4>1. CASE pc[v] = "write" /\ Peer(v) \notin reused \union {None}
        <5>1. Peer(v) # p /\ Peer(v) \in Clients
          BY <1>0, <2>4, <4>1 DEF Peer
        <5>2. Carries(v)
          BY DEF Exchanges
        <5> QED
          BY <1>1, <2>1, <2>2, <3>0, <3>2, <4>1, <5>1, <5>2 DEF Carries, LastLine
      <4>2. CASE ~(pc[v] = "write" /\ Peer(v) \notin reused \union {None})
        BY <1>1, <2>1, <2>2, <3>2, <4>2 DEF Carries
      <4> QED
        BY <4>1, <4>2
    <3> QED
      BY <3>1, <3>2
  <2> QED
    BY <1>1, <2>3, <2>5 DEF Exchanges
<1>4. CASE Write(w)
  <2> DEFINE p == Peer(w)
  <2>1. /\ pc[w] = "write" /\ pc'[w] = "read" /\ p \in Clients \union {None}
        /\ \A v \in Workers \ {w} : buf'[v] = buf[v] /\ pc'[v] = pc[v]
        /\ \A c \in Clients \ {p} : outbox'[c] = outbox[c]
        /\ p # None => outbox'[p] = IF client[p] = "gone" THEN outbox[p]
                                     ELSE outbox[p] \o buf[w]
        /\ UNCHANGED <<conn, inbox, job>>
    BY <1>0, <1>4 DEF Write, Peer
  <2>2. \A v \in Workers : Peer(v)' = Peer(v)
    BY <2>1 DEF Peer
  <2>3. p \notin reused \union {None} =>
          /\ client[p] \in {"reading", "gone"} /\ buf[w] = <<LastLine(p)>>
          /\ inbox[p] = <<>> /\ outbox[p] = <<>>
          /\ \A v \in Workers \ {w} : pc[v] = "write" => Peer(v) # p
    BY <2>1 DEF Exchanges, Carries
  <2>4. p \notin reused \union {None} => outbox'[p] \in {<<>>, <<LastLine(p)>>}
                                      /\ (client[p] = "gone" => outbox'[p] = <<>>)
    <3>1. \A x : <<>> \o <<x>> = <<x>>
      OBVIOUS
    <3> QED
      BY <2>1, <2>3, <3>1
  <2> HIDE DEF p
  <2>5. ASSUME NEW c \in Clients \ reused PROVE Exchange(c)'
    <3>1. Exchange(c) /\ c # None
      BY <1>0 DEF Exchanges
    <3>2. CASE c = p
      BY <1>1, <2>1, <2>3, <2>4, <3>1, <3>2 DEF Exchange, LastLine
    <3>3. CASE c # p
      BY <1>1, <2>1, <3>1, <3>3 DEF Exchange, LastLine
    <3> QED
      BY <3>2, <3>3
  <2>6. ASSUME NEW v \in Workers PROVE Carries(v)'
    <3>1. CASE v = w
      BY <2>1, <3>1 DEF Carries
    <3>2. CASE v # w /\ pc[v] = "write" /\ Peer(v) \notin reused \union {None}
      <4>1. Peer(v) # p /\ Peer(v) \in Clients
        BY <1>0, <2>3, <3>2 DEF Peer
      <4>2. Carries(v)
        BY DEF Exchanges
      <4> QED
        BY <1>1, <2>1, <2>2, <3>2, <4>1, <4>2 DEF Carries, LastLine
    <3>3. CASE v # w /\ ~(pc[v] = "write" /\ Peer(v) \notin reused \union {None})
      BY <1>1, <2>1, <2>2, <3>3 DEF Carries
    <3> QED
      BY <3>1, <3>2, <3>3
  <2> QED
    BY <1>1, <2>5, <2>6 DEF Exchanges
<1>5. CASE Close(w)
  <2>1. /\ job[w] \in Fds /\ pc'[w] = "del" /\ job' = job /\ buf' = buf /\ outbox' = outbox
        /\ conn'[job[w]] = None
        /\ \A f \in Fds \ {job[w]} : conn'[f] = conn[f]
        /\ \A v \in Workers \ {w} : pc'[v] = pc[v]
        /\ \A c \in Clients : inbox'[c] \in {<<>>, inbox[c]}
    BY <1>0, <1>5 DEF Close, Drained
  <2>2. ASSUME NEW c \in Clients \ reused PROVE Exchange(c)'
    BY <1>1, <2>1 DEF Exchanges, Exchange, LastLine
  <2>3. ASSUME NEW v \in Workers, pc'[v] = "write"
        PROVE  pc[v] = "write" /\ Peer(v)' \in {Peer(v), None}
    BY <1>0, <2>1, <2>3 DEF Peer
  <2>4. ASSUME NEW v \in Workers PROVE Carries(v)'
    <3> SUFFICES ASSUME pc'[v] = "write", Peer(v)' \notin reused \union {None}
                 PROVE  Carries(v)'
      BY <1>1 DEF Carries
    <3>1. pc[v] = "write" /\ Peer(v)' = Peer(v) /\ Peer(v) \in Clients
      BY <1>0, <2>3 DEF Peer
    <3>2. \A u \in Workers : pc'[u] = "write" /\ Peer(u)' = Peer(v)' =>
            pc[u] = "write" /\ Peer(u) = Peer(v)
      BY <2>3, <3>1
    <3>3. Carries(v)
      BY DEF Exchanges
    <3> QED
      BY <1>1, <2>1, <3>1, <3>2, <3>3 DEF Carries, LastLine
  <2> QED
    BY <1>1, <2>2, <2>4 DEF Exchanges
<1> QED
  BY <1>2, <1>3, <1>4, <1>5, <1>6 DEF Worker

LEMMA ExchangesStep == TypeOK /\ Registered /\ Exchanges /\ [Next]_vars => Exchanges'
<1>1. ASSUME Exchanges, UNCHANGED vars PROVE Exchanges'
  <2>1. UNCHANGED <<client, sent, got, inbox, outbox, conn, pc, job, buf, reused>>
    BY <1>1 DEF vars, kernel, clients, pool, history
  <2>2. \A v \in Workers : Carries(v)'
    BY <1>1, <2>1 DEF Exchanges, Carries, LastLine, Peer
  <2>3. \A c \in Clients \ reused : Exchange(c)'
    BY <1>1, <2>1 DEF Exchanges, Exchange, LastLine
  <2> QED
    BY <2>1, <2>2, <2>3 DEF Exchanges
<1> QED
  BY <1>1, ExchangeClient, ExchangeMain, ExchangeWorker DEF Next

-----------------------------------------------------------------------------
(* The theorems.                                                           *)

\* Every variable keeps its type, and a batch holds the listening socket only
\* while there is a connection to accept.
THEOREM Typing == Spec => []TypeOK
  BY TypedInit, TypedStep, PTL DEF Spec

\* The invariant holds in every reachable state.
THEOREM Invariance == Spec => []IInv
<1>1. Init => IInv
  <2> SUFFICES ASSUME Init PROVE IInv
    OBVIOUS
  <2>1. NoStaleDel /\ NoStaleRead /\ FreshNumber /\ OpenIsWatched /\ NoEdgeLost
    BY DEF Init, NoStaleDel, NoStaleRead, FreshNumber, OpenIsWatched, NoEdgeLost, Readable
  <2>2. OnePlace
    <3>1. Range(backlog) = {} /\ IsInjective(backlog)
      BY DEF Init, Range, IsInjective
    <3> QED
      BY <3>1, ServerAssumption DEF Init, OnePlace
  <2> QED
    BY <2>1, <2>2, TypedInit, ExchangesInit DEF IInv, Registered
<1>2. IInv /\ [Next]_vars => IInv'
  BY TypedStep, RegisteredStep, OnePlaceStep, EdgeStep, ExchangesStep DEF IInv
<1> QED
  BY <1>1, <1>2, PTL DEF Spec

\* For any number of clients, descriptors, threads and queue slots: a
\* connection accepted on a number nobody was using stays registered with
\* epoll as long as it is open.
THEOREM OpenStaysWatched == Spec => []OpenIsWatched
<1>1. IInv => OpenIsWatched
  BY DEF IInv, Registered
<1> QED
  BY <1>1, Invariance, PTL

\* None of its edges is lost, unless addTask refuses it.
THEOREM EdgesAreKept == Spec => []NoEdgeLost
<1>1. IInv => NoEdgeLost
  BY DEF IInv
<1> QED
  BY <1>1, Invariance, PTL

\* And its client gets back its own lines, in order, each once, whichever
\* threads work on the descriptor at the same time.
THEOREM OwnLinesEchoed == Spec => []EchoesOwnLines
<1>1. IInv => EchoesOwnLines
  <2> SUFFICES ASSUME IInv, NEW c \in Clients \ reused
               PROVE  \E n \in 0 .. sent[c] : got[c] \o outbox[c] = FirstLines(c, n)
    BY DEF EchoesOwnLines
  <2>0. /\ Exchange(c) /\ sent[c] \in Nat /\ None \notin Clients
        /\ client[c] \in {"new", "idle", "reading", "ended", "gone"}
    BY ServerAssumption DEF IInv, Exchanges, TypeOK, ClientsOK
  <2>1. CASE outbox[c] = <<>>
    <3>1. PICK n \in 0 .. sent[c] : got[c] = FirstLines(c, n)
      <4>1. sent[c] \in 0 .. sent[c] /\ (sent[c] >= 1 => sent[c] - 1 \in 0 .. sent[c])
        BY <2>0
      <4> QED
        BY <2>0, <4>1 DEF Exchange
    <3>2. got[c] \o outbox[c] = FirstLines(c, n)
      BY <2>0, <2>1, <3>1, LinesFacts
    <3> QED
      BY <3>2
  <2>2. CASE outbox[c] # <<>>
    <3>1. /\ sent[c] - 1 \in Nat /\ (sent[c] - 1) + 1 = sent[c]
          /\ got[c] = FirstLines(c, sent[c] - 1) /\ outbox[c] = <<<<c, sent[c]>>>>
      BY <2>0, <2>2 DEF Exchange, LastLine
    <3> DEFINE n == sent[c] - 1
    <3>2. FirstLines(c, n) \o <<<<c, n + 1>>>> = FirstLines(c, n + 1)
      BY <3>1, LinesFacts
    <3> HIDE DEF n
    <3>3. got[c] \o outbox[c] = FirstLines(c, n + 1) /\ n + 1 = sent[c]
      <4>1. got[c] = FirstLines(c, n) /\ n + 1 = sent[c]
        BY <3>1 DEF n
      <4> QED
        BY <3>1, <3>2, <4>1
    <3> QED
      BY <2>0, <3>3
  <2> QED
    BY <2>1, <2>2
<1> QED
  BY <1>1, Invariance, PTL

\* A queued task has a thread awake to run it, or main about to signal one.
\* A thread sleeps only after it has found the queue empty; and the one signal
\* main sends finds somebody awake or wakes a sleeper.
LEMMA AttendedStep == TypeOK /\ Attended /\ [Next]_vars => Attended'
<1> SUFFICES ASSUME TypeOK, Attended, [Next]_vars PROVE Attended'
  OBVIOUS
<1>1. waiting \subseteq Workers /\ m_tasks \in Seq(Fds)
  BY DEF TypeOK, PoolOK
<1>2. ASSUME NEW c \in Clients,
             Connect(c) \/ Send(c) \/ EndOfInput(c) \/ Receive(c) \/ Leave(c)
      PROVE  Attended'
  BY <1>2 DEF Connect, Send, EndOfInput, Receive, Leave, loop, pool, Attended
<1>3. CASE EpollWait
  BY <1>3 DEF EpollWait, pool, Attended
<1>4. CASE Accept
  BY <1>4 DEF Accept, pool, Attended
<1>5. CASE Register
  BY <1>5 DEF Register, pool, Attended
<1>6. CASE AddTaskSignal
  <2>1. waiting' # Workers
    BY <1>1, <1>6, ServerAssumption DEF AddTaskSignal, WakeOne
  <2> QED
    BY <2>1 DEF Attended
<1>12. CASE SetNonblocking
  BY <1>12 DEF SetNonblocking, pool, Attended
<1>7. ASSUME NEW e \in Registrations, AddTask(e) PROVE Attended'
  BY <1>7 DEF AddTask, Attended
<1>8. ASSUME NEW w \in Workers, Run(w) PROVE Attended'
  <2>1. CASE m_tasks = <<>>
    BY <1>8, <2>1 DEF Run, Attended
  <2>2. CASE m_tasks # <<>>
    <3>1. waiting' = waiting /\ w \notin waiting
      BY <1>8, <2>2 DEF Run
    <3> QED
      BY <3>1 DEF Attended
  <2> QED
    BY <2>1, <2>2
<1>9. ASSUME NEW w \in Workers, SpuriousWakeup(w) PROVE Attended'
  <2>1. waiting' # Workers
    BY <1>9 DEF SpuriousWakeup
  <2> QED
    BY <2>1 DEF Attended
<1>10. ASSUME NEW w \in Workers,
              \/ ReadBlocks(w) \/ ReadData(w) \/ ReadEnds(w)
              \/ Write(w) \/ Close(w) \/ EpollDel(w)
       PROVE  Attended'
  BY <1>10 DEF ReadBlocks, ReadData, Write, ReadEnds, Close, EpollDel, loop, Attended
<1>11. CASE UNCHANGED vars
  BY <1>11 DEF vars, loop, pool, Attended
<1> QED
  BY <1>2, <1>3, <1>4, <1>5, <1>6, <1>7, <1>8, <1>9, <1>10, <1>11, <1>12
     DEF Next, Main, Worker

\* The signal that addTask sends after the unlock is never missed for good:
\* no task waits in the queue while all the threads of the pool sleep.
THEOREM TasksAreAttended == Spec => []Attended
<1>1. Init => Attended
  BY DEF Init, Attended
<1> QED
  BY <1>1, AttendedStep, Typing, PTL DEF Spec

=============================================================================
