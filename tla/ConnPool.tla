------------------------------- MODULE ConnPool -------------------------------
(***************************************************************************)
(* The MySQL connection pool of connection_pool/connPool.cpp: a queue of   *)
(* idle connections, client threads that borrow connections through a      *)
(* shared_ptr whose deleter puts them back, a producer thread that keeps   *)
(* MinSize of them idle, and a recycler thread that deletes idle ones of   *)
(* age MaxIdle.  Producer and clients sleep on the same condition          *)
(* variable m_cond.                                                        *)
(*                                                                         *)
(* All shared state is read and written with m_mutexQ held, and every      *)
(* notification is sent before the mutex is released, so that each critical*)
(* section is one step.  A wait ends the step.                             *)
(***************************************************************************)
EXTENDS Naturals, Sequences, FiniteSets, Functions

CONSTANTS
  Clients,   \* the threads that call getConn
  Producer,  \* the thread of produceConn
  Conns,     \* addresses of connections; bound: that many exist at a time
  MinSize, MaxSize, MaxIdle,   \* minSize, maxSize, maxIdleTime of dbconf.json
  None       \* the empty shared_ptr

ASSUME PoolAssumption ==
  /\ IsFiniteSet(Clients) /\ IsFiniteSet(Conns)
  /\ Producer \notin Clients
  /\ None \notin Conns
  /\ MinSize \in Nat /\ MaxSize \in Nat /\ MaxIdle \in Nat

VARIABLES
  parsed,   \* parseJsonFile succeeded
  m_connQ,  \* the idle connections, the first is taken next
  live,     \* the connections that exist: created and not deleted
  age,      \* getAliveTime of each connection, counted up to MaxIdle
  waiting,  \* the threads asleep on m_cond
  pc,       \* where each client is: outside, in getConn, or holding
  conn      \* the connection each client holds

vars == <<parsed, m_connQ, live, age, waiting, pc, conn>>

\* When the configuration cannot be read the constructor returns early, and
\* the sizes of the pool, a static object, are zero.
Min == IF parsed THEN MinSize ELSE 0
Max == IF parsed THEN MaxSize ELSE 0

Held == {conn[c] : c \in Clients} \ {None}

TypeOK ==
  /\ parsed \in BOOLEAN
  /\ m_connQ \in Seq(Conns)
  /\ live \subseteq Conns
  /\ age \in [Conns -> 0 .. MaxIdle]
  /\ waiting \subseteq Clients \union {Producer}
  /\ pc \in [Clients -> {"outside", "get", "using"}]
  /\ conn \in [Clients -> Conns \union {None}]
  /\ \A c \in Clients : /\ pc[c] = "using" <=> conn[c] # None
                        /\ c \in waiting => pc[c] = "get"

-----------------------------------------------------------------------------
(* The constructor: MinSize connections, then the two threads.  When the   *)
(* configuration cannot be read there are neither connections nor threads. *)
Init ==
  /\ parsed \in BOOLEAN
  /\ m_connQ \in {q \in [1 .. Min -> Conns] : IsInjective(q)}
  /\ live = Range(m_connQ)
  /\ age = [x \in Conns |-> 0]
  /\ waiting = {}
  /\ pc = [c \in Clients |-> "outside"]
  /\ conn = [c \in Clients |-> None]

\* Mutated form: the deleter forgets refreshAliveTime.
NotRefreshed(x) == age[x]
\* refreshAliveTime
Refreshed(x) == 0

\* addConn, up to the push: x is the address of a new connection.
NewConn(x) ==
  /\ x \in Conns \ live
  /\ live' = live \union {x}
  /\ age' = [age EXCEPT ![x] = 0]

\* Mutated form: the consumer that empties the queue tells nobody.
NobodyWoken == waiting' = waiting

\* m_cond.notify_one
WakeOne ==
  IF waiting = {} THEN waiting' = waiting
                  ELSE \E t \in waiting : waiting' = waiting \ {t}

-----------------------------------------------------------------------------
(* getConn, and the deleter of the shared_ptr it returns.                  *)

CallGetConn(c) ==
  /\ pc[c] = "outside"
  /\ pc' = [pc EXCEPT ![c] = "get"]
  /\ UNCHANGED <<parsed, m_connQ, live, age, waiting, conn>>

\* Client c is in getConn, awake, and gets m_mutexQ.
InGetConn(c) == pc[c] = "get" /\ c \notin waiting

\* The client leaves with connection x; "本意是唤醒生产者".
LeaveWith(c, x) ==
  /\ conn' = [conn EXCEPT ![c] = x]
  /\ pc' = [pc EXCEPT ![c] = "using"]
  /\ WakeOne

\* Mutated form: the connection handed out stays in the queue.
NotPopped(q) == q
\* m_connQ.pop
Popped(q) == Tail(q)

GetIdle(c) ==
  /\ InGetConn(c)
  /\ m_connQ # <<>>
  /\ LeaveWith(c, Head(m_connQ))
  /\ m_connQ' = Popped(m_connQ)
  /\ UNCHANGED <<parsed, live, age>>

\* Mutated form: an off-by-one in the test.
CanGrowStrictly == Len(m_connQ) + 1 < Max
\* "总数小于最大值": what is compared is the number of IDLE connections.
CanGrow == Len(m_connQ) + 1 <= Max

\* addConn pushes a connection that the same critical section pops again.
GetNew(c) ==
  /\ InGetConn(c)
  /\ m_connQ = <<>>
  /\ CanGrow
  /\ \E x \in Conns : NewConn(x) /\ LeaveWith(c, x)
  /\ UNCHANGED <<parsed, m_connQ>>

\* m_cond.wait_for
GetWait(c) ==
  /\ InGetConn(c)
  /\ m_connQ = <<>>
  /\ ~CanGrow
  /\ waiting' = waiting \union {c}
  /\ UNCHANGED <<parsed, m_connQ, live, age, pc, conn>>

\* Mutated form: "return nullptr" instead of "continue".
ReturnsNull == "using"
\* Where a client is after wait_for has timed out on an empty queue.
AfterTimeout == "get"

\* wait_for ends without a notification: the timeout, or a spurious wakeup.
GetTimeout(c) ==
  /\ c \in waiting
  /\ waiting' = waiting \ {c}
  /\ pc' = [pc EXCEPT ![c] = AfterTimeout]
  /\ UNCHANGED <<parsed, m_connQ, live, age, conn>>

GetConn(c) == GetIdle(c) \/ GetNew(c) \/ GetWait(c)

\* The last shared_ptr to a connection goes: nobody is notified.
Release(c) ==
  /\ pc[c] = "using"
  /\ m_connQ' = Append(m_connQ, conn[c])
  /\ age' = [age EXCEPT ![conn[c]] = Refreshed(conn[c])]
  /\ conn' = [conn EXCEPT ![c] = None]
  /\ pc' = [pc EXCEPT ![c] = "outside"]
  /\ UNCHANGED <<parsed, live, waiting>>

-----------------------------------------------------------------------------
(* The background threads, which exist only when parsed.                   *)

\* Mutated form: the producer makes one more than the minimum.
MoreThanEnough == Len(m_connQ) > Min
\* while (m_connQ.size() >= m_minSize) wait
Enough == Len(m_connQ) >= Min

ProducerWait ==
  /\ parsed
  /\ Producer \notin waiting
  /\ Enough
  /\ waiting' = waiting \union {Producer}
  /\ UNCHANGED <<parsed, m_connQ, live, age, pc, conn>>

\* addConn, then notify_all: the producer itself is awake.
ProducerAdd ==
  /\ parsed
  /\ Producer \notin waiting
  /\ ~Enough
  /\ \E x \in Conns : NewConn(x) /\ m_connQ' = Append(m_connQ, x)
  /\ waiting' = {}
  /\ UNCHANGED <<parsed, pc, conn>>

ProducerSpurious ==
  /\ Producer \in waiting
  /\ waiting' = waiting \ {Producer}
  /\ UNCHANGED <<parsed, m_connQ, live, age, pc, conn>>

ProduceConn == ProducerWait \/ ProducerAdd

\* Mutated form: the comparison with maxIdleTime is strict.
ExpiredStrictly(x) == age[x] > MaxIdle
Expired(x) == age[x] >= MaxIdle

\* Mutated form: the recycler may take one more than the surplus.
SurplusAtMin(n) == n >= Min
Surplus(n) == n > Min

\* One pass of the recycler deletes the first n idle connections: n rounds of
\* its inner loop, which then ends.  A pass that deletes nothing changes
\* nothing.
Recycle ==
  /\ parsed
  /\ \E n \in 1 .. Len(m_connQ) :
       /\ \A i \in 1 .. n : Surplus(Len(m_connQ) - (i - 1)) /\ Expired(m_connQ[i])
       /\ ~Surplus(Len(m_connQ) - n) \/ ~Expired(m_connQ[n + 1])
       /\ m_connQ' = SubSeq(m_connQ, n + 1, Len(m_connQ))
       /\ live' = live \ {m_connQ[i] : i \in 1 .. n}
  /\ UNCHANGED <<parsed, age, waiting, pc, conn>>

\* Time passes for every connection; ages beyond MaxIdle are all the same.
Tick ==
  /\ age' = [x \in Conns |-> IF age[x] < MaxIdle THEN age[x] + 1 ELSE MaxIdle]
  /\ UNCHANGED <<parsed, m_connQ, live, waiting, pc, conn>>

Next ==
  \/ \E c \in Clients :
       CallGetConn(c) \/ GetConn(c) \/ GetTimeout(c) \/ Release(c)
  \/ ProduceConn \/ ProducerSpurious \/ Recycle \/ Tick

Spec == Init /\ [][Next]_vars

(***************************************************************************)
(* Fairness: a thread that finds m_mutexQ free again and again gets it, a  *)
(* wait_for times out, and the recycler comes back every half second.      *)
(* Nobody has to call getConn or to give a connection back.                *)
(***************************************************************************)
Fairness ==
  /\ \A c \in Clients : SF_vars(GetConn(c)) /\ WF_vars(GetTimeout(c))
  /\ SF_vars(ProduceConn)
  /\ WF_vars(Recycle)

FairSpec == Spec /\ Fairness

-----------------------------------------------------------------------------
(* Safety.                                                                 *)

\* Every connection that exists is idle, at one place of the queue, or held
\* by one client: getConn and the deleter hand each connection over exactly
\* once, and recycleConn deletes none that is in use.
SingleOwner ==
  /\ IsInjective(m_connQ)
  /\ \A c, d \in Clients : conn[c] = conn[d] /\ conn[c] # None => c = d
  /\ Range(m_connQ) \intersect Held = {}
  /\ Range(m_connQ) \union Held = live

\* The queue is sorted by age, which is what lets recycleConn stop at the
\* first connection that is too young.
OldestFirst ==
  \A i, j \in 1 .. Len(m_connQ) : i < j => age[m_connQ[i]] >= age[m_connQ[j]]

\* A pass of the recycler leaves at least the minimum, and no expired
\* connection beyond the minimum, wherever in the queue it was.
RecycleExact ==
  [][Recycle => /\ Len(m_connQ') >= Min
                /\ Len(m_connQ') > Min => \A i \in 1 .. Len(m_connQ') :
                                             age[m_connQ'[i]] < MaxIdle]_vars

\* The producer is never asleep with too few idle connections, although the
\* one notification of getConn may be taken by any sleeper: while the pool
\* may grow (MaxSize >= 1) no client ever sleeps on m_cond.
ProducerAwake ==
  MaxSize >= 1 => (Producer \in waiting => Len(m_connQ) >= Min)

\* What keeps ClientServed from resting on the timeout of wait_for: while the
\* pool may grow, getConn makes a connection rather than wait for one.
NoClientSleeps == parsed /\ MaxSize >= 1 => waiting \intersect Clients = {}

\* How many connections there can be: the idle minimum and one for each
\* thread that borrows.  (It is not maxSize that bounds them.)
ConnsBounded == Cardinality(live) <= Min + Cardinality(Clients)

\* "保持连接数量在 minSize 和 maxSize 之间": never more than maxSize.
AtMostMaxSize == MinSize <= MaxSize => Cardinality(live) <= Max

-----------------------------------------------------------------------------
(* What the pool is for.                                                   *)

Pool == INSTANCE Lending WITH idle <- Range(m_connQ)

\* Seen by its clients, with the order of the queue, the ages and the threads
\* hidden, the pool lends each connection to one client at a time and deletes
\* none that is lent.
ImplementsLending == Pool!Spec

-----------------------------------------------------------------------------
(* Liveness.                                                               *)

\* Whoever asks for a connection gets one: with a configuration read and
\* room for one connection, getConn does not depend on anybody's release.
ClientServed ==
  \A c \in Clients :
    parsed /\ MaxSize >= 1 /\ pc[c] = "get" ~> pc[c] = "using"

\* Again and again there is no surplus of expired connections.
ShrinksBack ==
  []<>(Len(m_connQ) <= Min \/ \A i \in 1 .. Len(m_connQ) : age[m_connQ[i]] < MaxIdle)

=============================================================================
