------------------------------ MODULE EchoServer ------------------------------
(***************************************************************************)
(* The echo server of echo_tcpServer: the epoll loop of main, which        *)
(* accepts connections and hands each readable descriptor to a thread      *)
(* pool, the pool's bounded queue, the function working that its threads   *)
(* run, the client program at the other end, and of the kernel what they   *)
(* rely on: descriptor numbers, the epoll instance, the sockets' buffers.  *)
(*                                                                         *)
(* One step is one system call, or one critical section of the pool.  A    *)
(* descriptor is a NUMBER: queued tasks and threads keep it while another  *)
(* thread closes it and accept gives it to somebody else.  The kernel goes *)
(* by connections: an epoll registration is one of a connection under a    *)
(* number, and a connection lives on while a read is blocked on it.        *)
(*                                                                         *)
(* Left out: the contents and the splitting of messages (client.cpp sends  *)
(* one of at most 1023 bytes and waits for the answer), the failures of    *)
(* socket, bind and listen, which end the program before it serves, and    *)
(* the pool's destructor, which main never reaches.  The two fcntl calls   *)
(* of set_nonblocking are one step.                                        *)
(***************************************************************************)
EXTENDS Naturals, Sequences, FiniteSetsExt, Functions

CONSTANTS
  Clients,   \* the client processes, each of which connects once
  Fds,       \* the descriptor numbers left for connections
  Workers,   \* the threads of the pool
  MaxTasks,  \* m_max_tasks, 65535 in the code
  MaxSends,  \* bound: how many lines the clients send, all together
  Listening, \* lfd
  None       \* no connection, no descriptor

ASSUME ServerAssumption ==
  /\ Fds \subseteq Nat /\ Workers # {}
  /\ MaxTasks \in Nat /\ MaxSends \in Nat
  /\ None \notin Fds \union Clients /\ Listening \notin Clients \X Fds

VARIABLES
  client,   \* where each client is
  sent,     \* how many lines it has sent
  got,      \* the lines it has received, in order
  inbox,    \* what waits to be read on the server's side of its connection
  outbox,   \* what waits to be read on its own side
  backlog,  \* the connections not accepted yet
  conn,     \* the client connected to each descriptor
  shut,     \* the clients whose connection the server closed
  watched,  \* the epoll registrations, each of a connection under a number
  edges,    \* those that have become readable since epoll_wait told main
  main,     \* where the main thread is
  cfd,      \* its local variable, the descriptor just accepted
  batch,    \* the events it still has to handle
  m_tasks,  \* the pool's queue: the descriptors to run working on
  waiting,  \* the threads asleep on m_tasks_cond
  pc, job, buf,  \* per thread: where it is, its descriptor, the line it read
  held,     \* per thread: the connection its read is blocked on
  refused,  \* history: the clients with an event that addTask refused
  reused    \* history: the clients accepted on a number still in use

kernel  == <<inbox, outbox, conn, shut, watched, edges>>
clients == <<client, sent, got, backlog>>
loop    == <<main, cfd, batch>>
pool    == <<m_tasks, waiting, pc, job, buf, held>>
history == <<refused, reused>>
vars    == <<kernel, clients, loop, pool, history>>

Lines == Clients \X Nat
Registrations == Clients \X Fds

ClientsOK ==
  /\ client \in [Clients -> {"new", "idle", "reading", "ended", "gone"}]
  /\ sent \in [Clients -> Nat] /\ got \in [Clients -> Seq(Lines)]
  /\ backlog \in Seq(Clients)

KernelOK ==
  /\ inbox \in [Clients -> Seq(Lines)] /\ outbox \in [Clients -> Seq(Lines)]
  /\ conn \in [Fds -> Clients \union {None}] /\ shut \subseteq Clients
  /\ watched \subseteq Registrations /\ edges \subseteq watched

LoopOK ==
  /\ main \in {"loop", "accepted", "add", "signal"} /\ cfd \in Fds \union {None}
  /\ main \in {"accepted", "add"} <=> cfd # None
  /\ batch \subseteq Registrations \union {Listening}
  /\ Listening \in batch => backlog # <<>>

PoolOK ==
  /\ m_tasks \in Seq(Fds) /\ waiting \subseteq Workers
  /\ pc \in [Workers -> {"take", "read", "blocked", "write", "close", "del"}]
  /\ job \in [Workers -> Fds \union {None}]
  /\ \A w \in Workers : pc[w] = "take" <=> job[w] = None
  /\ buf \in [Workers -> Seq(Lines)]
  /\ held \in [Workers -> Clients \union {None}]
  /\ \A w \in Workers : pc[w] = "blocked" <=> held[w] # None

TypeOK ==
  /\ ClientsOK /\ KernelOK /\ LoopOK /\ PoolOK
  /\ refused \subseteq Clients /\ reused \subseteq Clients

Init ==
  /\ client = [c \in Clients |-> "new"]
  /\ sent = [c \in Clients |-> 0]
  /\ got = [c \in Clients |-> <<>>]
  /\ inbox = got /\ outbox = got
  /\ backlog = <<>> /\ shut = {} /\ watched = {} /\ edges = {}
  /\ conn = [f \in Fds |-> None]
  /\ main = "loop" /\ cfd = None /\ batch = {}
  /\ m_tasks = <<>> /\ waiting = {}
  /\ pc = [w \in Workers |-> "take"]
  /\ job = [w \in Workers |-> None] /\ held = job
  /\ buf = [w \in Workers |-> <<>>]
  /\ refused = {} /\ reused = {}

-----------------------------------------------------------------------------
(* The clients.                                                            *)

\* What reaches the server on c's connection sets its edge, if it is watched.
Edge(c) == edges' = edges \union {e \in watched : e[1] = c}

Connect(c) ==
  /\ client[c] = "new"
  /\ client' = [client EXCEPT ![c] = "idle"]
  /\ backlog' = Append(backlog, c)
  /\ UNCHANGED <<sent, got, kernel, loop, pool, history>>

LinesSent == MapThenSumSet(LAMBDA c : sent[c], Clients)

\* write; what is sent to a closed connection is lost.
Send(c) ==
  /\ client[c] = "idle" /\ LinesSent < MaxSends
  /\ client' = [client EXCEPT ![c] = "reading"]
  /\ sent' = [sent EXCEPT ![c] = @ + 1]
  /\ inbox' = IF c \in shut THEN inbox
              ELSE [inbox EXCEPT ![c] = Append(@, <<c, sent[c] + 1>>)]
  /\ Edge(c)
  /\ UNCHANGED <<got, backlog, outbox, conn, shut, watched, loop, pool, history>>

\* At the end of its input fgets leaves the buffer empty: write sends nothing,
\* and the client waits in read all the same.  That is for ever, unless the
\* answer to somebody else or the end of the connection comes, since it
\* sends nothing in the next round either.
EndOfInput(c) ==
  /\ client[c] = "idle"
  /\ client' = [client EXCEPT ![c] = "ended"]
  /\ UNCHANGED <<sent, got, backlog, kernel, loop, pool, history>>

\* read: an answer; or the end of the connection, upon which the client ends.
Receive(c) ==
  /\ client[c] \in {"reading", "ended"}
  /\ \/ /\ outbox[c] # <<>>
        /\ client' = [client EXCEPT ![c] = IF @ = "reading" THEN "idle" ELSE "ended"]
        /\ got' = [got EXCEPT ![c] = @ \o outbox[c]]
        /\ outbox' = [outbox EXCEPT ![c] = <<>>]
     \/ /\ outbox[c] = <<>> /\ c \in shut
        /\ client' = [client EXCEPT ![c] = "gone"]
        /\ UNCHANGED <<got, outbox>>
  /\ UNCHANGED <<sent, backlog, inbox, conn, shut, watched, edges, loop, pool, history>>

\* The client process may end at any time.
Leave(c) ==
  /\ client[c] \in {"idle", "reading", "ended"}
  /\ client' = [client EXCEPT ![c] = "gone"]
  /\ outbox' = [outbox EXCEPT ![c] = <<>>]
  /\ Edge(c)
  /\ UNCHANGED <<sent, got, backlog, inbox, conn, shut, watched, loop, pool, history>>

-----------------------------------------------------------------------------
(* The main thread.                                                        *)

\* A read of c's connection has something to return.
Ready(c) == inbox[c] # <<>> \/ client[c] = "gone"

Readable(f) == conn[f] # None /\ Ready(conn[f])

\* epoll_wait returns the listening socket as long as it has connections to
\* accept, and each registration once per edge, if it is still readable.
EpollWait ==
  /\ main = "loop" /\ batch = {}
  /\ batch' = {e \in edges : Ready(e[1])}
              \union IF backlog = <<>> THEN {} ELSE {Listening}
  /\ batch' # {}
  /\ edges' = {}
  /\ UNCHANGED <<clients, inbox, outbox, conn, shut, watched, main, cfd, pool, history>>

\* Mutated form: main goes back to epoll_wait after the first event.
FirstEventOnly(e) == {}

Rest(e) == batch \ {e}

\* Somebody still has the number f from a connection that is closed.
InUse(f) ==
  \/ \E e \in batch \intersect Registrations : e[2] = f
  \/ f \in Range(m_tasks)
  \/ \E w \in Workers : job[w] = f

\* accept takes the lowest free number; without one it fails, and the
\* connection stays in the backlog.
Accept ==
  /\ main = "loop" /\ Listening \in batch
  /\ batch' = Rest(Listening)
  /\ LET free == {f \in Fds : conn[f] = None} IN
     \/ /\ free = {}
        /\ UNCHANGED <<backlog, conn, main, cfd, reused>>
     \/ \E f \in free :
          /\ \A g \in free : f <= g
          /\ cfd' = f
          /\ conn' = [conn EXCEPT ![f] = Head(backlog)]
          /\ backlog' = Tail(backlog)
          /\ main' = "accepted"
          /\ reused' = IF InUse(f) THEN reused \union {Head(backlog)} ELSE reused
  /\ UNCHANGED <<client, sent, got, inbox, outbox, shut, watched, edges, pool, refused>>

\* set_nonblocking fails when a thread has closed the number meanwhile; so
\* does then the close of main, which nothing else can have opened again.
SetNonblocking ==
  /\ main = "accepted"
  /\ IF conn[cfd] = None THEN main' = "loop" /\ cfd' = None
                         ELSE main' = "add" /\ cfd' = cfd
  /\ UNCHANGED <<kernel, clients, batch, pool, history>>

\* Mutated form: the descriptor is modified, which was never added.
NotAdded == watched

Added ==
  IF conn[cfd] = None THEN watched ELSE watched \union {<<conn[cfd], cfd>>}

\* EPOLL_CTL_ADD, of a descriptor a thread may have closed meanwhile; if it
\* is readable by now its edge is set.
Register ==
  /\ main = "add"
  /\ watched' = Added
  /\ edges' = edges \union {e \in watched' : e[2] = cfd /\ e[1] = conn[cfd] /\ Ready(e[1])}
  /\ main' = "loop" /\ cfd' = None
  /\ UNCHANGED <<clients, inbox, outbox, conn, shut, batch, pool, history>>

\* addTask: a full queue refuses the task, which main does not notice.
AddTask(e) ==
  /\ main = "loop" /\ e \in batch \ {Listening}
  /\ batch' = Rest(e)
  /\ IF Len(m_tasks) >= MaxTasks
     THEN /\ refused' = refused \union {e[1]}
          /\ UNCHANGED <<m_tasks, main>>
     ELSE /\ m_tasks' = Append(m_tasks, e[2])
          /\ main' = "signal"
          /\ UNCHANGED refused
  /\ UNCHANGED <<kernel, clients, cfd, waiting, pc, job, buf, held, reused>>

\* Mutated form: the signal is left out.
NobodyWoken == waiting' = waiting

WakeOne ==
  IF waiting = {} THEN waiting' = waiting
                  ELSE \E w \in waiting : waiting' = waiting \ {w}

AddTaskSignal ==
  /\ main = "signal"
  /\ WakeOne
  /\ main' = "loop"
  /\ UNCHANGED <<kernel, clients, cfd, batch, m_tasks, pc, job, buf, held, history>>

Main ==
  \/ EpollWait \/ Accept \/ SetNonblocking \/ Register \/ AddTaskSignal
  \/ \E e \in Registrations : AddTask(e)

-----------------------------------------------------------------------------
(* The pool's threads.                                                     *)

\* run: a task is taken, or the thread goes to sleep; m_stop is never set,
\* so that test and sleep are one critical section.
Run(w) ==
  /\ pc[w] = "take" /\ w \notin waiting
  /\ IF m_tasks = <<>>
     THEN /\ waiting' = waiting \union {w}
          /\ UNCHANGED <<m_tasks, pc, job>>
     ELSE /\ m_tasks' = Tail(m_tasks)
          /\ job' = [job EXCEPT ![w] = Head(m_tasks)]
          /\ pc' = [pc EXCEPT ![w] = "read"]
          /\ UNCHANGED waiting
  /\ UNCHANGED <<kernel, clients, loop, buf, held, history>>

SpuriousWakeup(w) ==
  /\ w \in waiting
  /\ waiting' = waiting \ {w}
  /\ UNCHANGED <<kernel, clients, loop, m_tasks, pc, job, buf, held, history>>

\* The connection the thread's descriptor denotes NOW.
Peer(w) == conn[job[w]]

\* The connection its read is about: the one it is blocked on keeps being it,
\* whatever becomes of the number.
Source(w) == IF pc[w] = "blocked" THEN held[w] ELSE Peer(w)

\* Its read waits for data: it was called before set_nonblocking.
Blocking(w) == pc[w] = "blocked" \/ (main = "accepted" /\ cfd = job[w])

\* Mutated form: what is read stays in the socket.
Peeked(S) == inbox

Drained(S) == [c \in Clients |-> IF c \in S THEN <<>> ELSE inbox[c]]

\* The connections in S are closed; the kernel forgets their registrations.
CloseAll(S) ==
  /\ shut' = shut \union S
  /\ watched' = {e \in watched : e[1] \notin S}
  /\ edges' = {e \in edges : e[1] \notin S}

\* A blocked read has returned: a connection whose number was closed in the
\* meantime, and which no other read is blocked on, is closed now.
ReadReturns(w) ==
  /\ held' = [held EXCEPT ![w] = None]
  /\ CloseAll({c \in {held[w]} \ {None} :
                 /\ \A f \in Fds : conn[f] # c
                 /\ \A v \in Workers \ {w} : held[v] # c})

\* working: read waits, on a descriptor that is still blocking.
ReadBlocks(w) ==
  /\ pc[w] = "read" /\ Peer(w) # None
  /\ Blocking(w) /\ ~Ready(Peer(w))
  /\ held' = [held EXCEPT ![w] = Peer(w)]
  /\ pc' = [pc EXCEPT ![w] = "blocked"]
  /\ UNCHANGED <<kernel, clients, loop, m_tasks, waiting, job, buf, history>>

\* read returns what has arrived (len > 0).
ReadData(w) ==
  /\ pc[w] \in {"read", "blocked"} /\ Source(w) # None
  /\ inbox[Source(w)] # <<>>
  /\ buf' = [buf EXCEPT ![w] = inbox[Source(w)]]
  /\ inbox' = Drained({Source(w)})
  /\ ReadReturns(w)
  /\ pc' = [pc EXCEPT ![w] = "write"]
  /\ UNCHANGED <<outbox, conn, clients, loop, m_tasks, waiting, job, history>>

\* write, to the connection the number denotes by now; its result, which
\* tells that there is none or that the client has left, is ignored.
Write(w) ==
  /\ pc[w] = "write"
  /\ outbox' = IF Peer(w) = None \/ client[Peer(w)] = "gone" THEN outbox
               ELSE [outbox EXCEPT ![Peer(w)] = @ \o buf[w]]
  /\ buf' = [buf EXCEPT ![w] = <<>>]
  /\ pc' = [pc EXCEPT ![w] = "read"]
  /\ UNCHANGED <<inbox, conn, shut, watched, edges, clients, loop, m_tasks, waiting, job, held, history>>

\* Mutated forms: nothing more to read ends the task, not the connection;
\* the thread forgets that it has one.
ToUnregister == "del"
ToNextTask == "take"

ToClose == "close"

\* read returns -1 with EAGAIN, 0, or -1 with EBADF: each ends the loop.
ReadEnds(w) ==
  /\ pc[w] \in {"read", "blocked"}
  /\ Source(w) # None => /\ inbox[Source(w)] = <<>>
                         /\ Blocking(w) => client[Source(w)] = "gone"
  /\ ReadReturns(w)
  /\ pc' = [pc EXCEPT ![w] = ToClose]
  /\ UNCHANGED <<inbox, outbox, conn, clients, loop, m_tasks, waiting, job, buf, history>>

\* close: the number is free.  Unless a read is blocked on it, the connection
\* is closed: whatever arrived since the last read is lost, and the kernel
\* forgets the registration.
Close(w) ==
  /\ pc[w] = "close"
  /\ LET last == {Peer(w)} \ ({None} \union Range(held)) IN
     CloseAll(last) /\ inbox' = Drained(last)
  /\ conn' = [conn EXCEPT ![job[w]] = None]
  /\ pc' = [pc EXCEPT ![w] = "del"]
  /\ UNCHANGED <<outbox, clients, loop, m_tasks, waiting, job, buf, held, history>>

\* EPOLL_CTL_DEL of a number that may denote another connection by now.
EpollDel(w) ==
  /\ pc[w] = "del"
  /\ watched' = watched \ {<<Peer(w), job[w]>>}
  /\ edges' = edges \ {<<Peer(w), job[w]>>}
  /\ pc' = [pc EXCEPT ![w] = "take"]
  /\ job' = [job EXCEPT ![w] = None]
  /\ UNCHANGED <<inbox, outbox, conn, shut, clients, loop, m_tasks, waiting, buf, held, history>>

Worker(w) ==
  \/ Run(w) \/ ReadBlocks(w) \/ ReadData(w) \/ ReadEnds(w)
  \/ Write(w) \/ Close(w) \/ EpollDel(w)

-----------------------------------------------------------------------------
\* Nothing happens any more when every client is gone or waits for ever.
Next ==
  \/ \E c \in Clients :
       Connect(c) \/ Send(c) \/ EndOfInput(c) \/ Receive(c) \/ Leave(c)
  \/ Main
  \/ \E w \in Workers : Worker(w) \/ SpuriousWakeup(w)

Spec == Init /\ [][Next]_vars

(***************************************************************************)
(* Fairness.  Every thread that can take a step runs; a client that waits  *)
(* for an answer reads it.  Nothing forces a client to connect, to send or *)
(* to leave.  A thread that finds the queue empty and sleeps is not kept   *)
(* from it: WF is enough, the mutex being held for one step only.          *)
(***************************************************************************)
Fairness ==
  /\ WF_vars(Main)
  /\ \A w \in Workers : WF_vars(Worker(w))
  /\ \A c \in Clients : WF_vars(Receive(c))

FairSpec == Spec /\ Fairness

-----------------------------------------------------------------------------
(* Safety.                                                                 *)

\* The first n lines of c.
FirstLines(c, n) == [i \in 1 .. n |-> <<c, i>>]

\* A client accepted on a number nobody was using any more gets back what it
\* sent: its own lines, in order, each once, however many threads work on
\* its descriptor.
EchoesOwnLines ==
  \A c \in Clients \ reused :
    \E n \in 0 .. sent[c] : got[c] \o outbox[c] = FirstLines(c, n)

\* Such a connection stays registered until it is closed: no EPOLL_CTL_DEL
\* of an earlier holder of the number hits it.
OpenIsWatched ==
  \A f \in Fds :
    conn[f] \notin reused \union {None} => <<conn[f], f>> \in watched \/ cfd = f

\* Somebody will read the descriptor f again.
Pending(f) ==
  \/ <<conn[f], f>> \in edges \union batch
  \/ f \in Range(m_tasks) \union {cfd}
  \/ \E w \in Workers : job[w] = f /\ pc[w] \in {"read", "write", "close"}

\* Edge-triggered events are not lost: what a client sent, or its leaving,
\* is on its way to a thread, unless addTask refused it.  A thread blocked in
\* read does not count.
NoEdgeLost ==
  \A f \in Fds :
    Readable(f) /\ conn[f] \notin reused \union refused => Pending(f)

\* A queued task always has somebody to run it: a thread that is awake, or
\* main, which is about to signal one.  The signal comes after the unlock, and
\* threads take tasks without having slept.
Attended == m_tasks # <<>> => main = "signal" \/ waiting # Workers

-----------------------------------------------------------------------------
(* Liveness.                                                               *)

\* Every thread of the pool waits in read for one client to send or to leave.
Exhausted == \A w \in Workers : pc[w] = "blocked"

\* A connected client that has sent a line gets an answer or sees the
\* connection closed, unless the threads of the pool all end up blocked by
\* connections on reused numbers.  One at the end of its input has sent
\* nothing, and may wait for ever.
EveryLineAnswered ==
  \A c \in Clients :
    (client[c] = "reading" /\ \E f \in Fds : conn[f] = c)
      ~> (client[c] # "reading" \/ c \in reused \union refused \/ Exhausted)

\* The descriptor of a client that left is given back, with the same
\* exceptions.
DescriptorsReturned ==
  \A c \in Clients : \A f \in Fds :
    (conn[f] = c /\ client[c] = "gone")
      ~> (conn[f] # c \/ c \in reused \union refused \/ Exhausted)

=============================================================================
