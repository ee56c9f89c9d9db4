---------------------------- MODULE ConnPoolProofs ----------------------------
(***************************************************************************)
(* Proofs about ConnPool, for any number of clients and connections and    *)
(* any sizes in the configuration: typing, ownership of the connections,   *)
(* the order of the queue, the producer's wakeups and the bound on the     *)
(* number of connections.                                                  *)
(***************************************************************************)
EXTENDS ConnPool, QueueTheorems

Unshared == SingleOwner /\ OldestFirst

\* Without a configuration there is no producer; with one, and room for one
\* connection, no client ever sleeps on m_cond.
Sleepers ==
  /\ ~parsed => Producer \notin waiting
  /\ parsed /\ MaxSize >= 1 => waiting \intersect Clients = {}

Wakeups == Sleepers /\ ProducerAwake

-----------------------------------------------------------------------------
(* Typing.                                                                 *)

LEMMA MinMax == TypeOK => Min \in Nat /\ Max \in Nat
  BY PoolAssumption DEF TypeOK, Min, Max

LEMMA TypeInit == Init => TypeOK
<1> SUFFICES ASSUME Init PROVE TypeOK
  OBVIOUS
<1>1. m_connQ \in Seq(Conns)
  <2>1. Min \in Nat
    BY PoolAssumption DEF Init, Min
  <2>2. m_connQ \in [1 .. Min -> Conns]
    BY DEF Init
  <2> QED
    BY <2>1, <2>2, SeqDef
<1>2. live \subseteq Conns
  BY <1>1 DEF Init, Range
<1>3. age \in [Conns -> 0 .. MaxIdle]
  BY PoolAssumption DEF Init
<1> QED
  BY <1>1, <1>2, <1>3, PoolAssumption DEF Init, TypeOK

\* addConn gives back a new connection of age 0.
LEMMA NewConnType ==
  ASSUME TypeOK, NEW x \in Conns, NewConn(x)
  PROVE  /\ live' \subseteq Conns /\ live' = live \union {x} /\ x \notin live
         /\ age' \in [Conns -> 0 .. MaxIdle]
         /\ \A y \in Conns : age'[y] = IF y = x THEN 0 ELSE age[y]
  BY PoolAssumption DEF NewConn, TypeOK

LEMMA WakeOneType ==
  ASSUME TypeOK, WakeOne
  PROVE  waiting' \subseteq waiting
  BY DEF WakeOne

LEMMA TypeStep == TypeOK /\ [Next]_vars => TypeOK'
<1> SUFFICES ASSUME TypeOK, [Next]_vars PROVE TypeOK'
  OBVIOUS
<1> USE PoolAssumption
<1>1. ASSUME NEW c \in Clients, CallGetConn(c) PROVE TypeOK'
  BY <1>1 DEF CallGetConn, TypeOK
<1>2. ASSUME NEW c \in Clients, GetIdle(c) PROVE TypeOK'
  <2>1. Head(m_connQ) \in Conns /\ m_connQ' \in Seq(Conns)
    BY <1>2 DEF GetIdle, Popped, TypeOK
  <2>2. waiting' \subseteq waiting
    BY <1>2, WakeOneType DEF GetIdle, LeaveWith
  <2>3. c \notin waiting'
    BY <1>2, <2>2 DEF GetIdle, InGetConn
  <2>4. /\ pc' = [pc EXCEPT ![c] = "using"]
        /\ conn' = [conn EXCEPT ![c] = Head(m_connQ)]
        /\ UNCHANGED <<parsed, live, age>>
    BY <1>2 DEF GetIdle, LeaveWith
  <2> QED
    BY <2>1, <2>2, <2>3, <2>4 DEF TypeOK
<1>3. ASSUME NEW c \in Clients, GetNew(c) PROVE TypeOK'
  <2>1. PICK x \in Conns : NewConn(x) /\ LeaveWith(c, x)
    BY <1>3 DEF GetNew
  <2>2. waiting' \subseteq waiting
    BY <2>1, WakeOneType DEF LeaveWith
  <2>3. live' \subseteq Conns /\ age' \in [Conns -> 0 .. MaxIdle]
    BY <2>1, NewConnType
  <2>4. c \notin waiting'
    BY <1>3, <2>2 DEF GetNew, InGetConn
  <2>5. /\ pc' = [pc EXCEPT ![c] = "using"]
        /\ conn' = [conn EXCEPT ![c] = x]
        /\ UNCHANGED <<parsed, m_connQ>>
    BY <1>3, <2>1 DEF GetNew, LeaveWith
  <2> QED
    BY <2>2, <2>3, <2>4, <2>5 DEF TypeOK
<1>4. ASSUME NEW c \in Clients, GetWait(c) PROVE TypeOK'
  BY <1>4 DEF GetWait, InGetConn, TypeOK
<1>5. ASSUME NEW c \in Clients, GetTimeout(c) PROVE TypeOK'
  BY <1>5 DEF GetTimeout, AfterTimeout, TypeOK
<1>6. ASSUME NEW c \in Clients, Release(c) PROVE TypeOK'
  <2>1. conn[c] \in Conns
    BY <1>6 DEF Release, TypeOK
  <2>2. age' \in [Conns -> 0 .. MaxIdle] /\ m_connQ' \in Seq(Conns)
    BY <1>6, <2>1 DEF Release, Refreshed, TypeOK
  <2> QED
    BY <1>6, <2>2 DEF Release, TypeOK
<1>7. CASE ProducerWait
  BY <1>7 DEF ProducerWait, TypeOK
<1>8. CASE ProducerAdd
  <2>1. PICK x \in Conns : NewConn(x) /\ m_connQ' = Append(m_connQ, x)
    BY <1>8 DEF ProducerAdd
  <2>2. live' \subseteq Conns /\ age' \in [Conns -> 0 .. MaxIdle]
    BY <2>1, NewConnType
  <2> QED
    BY <1>8, <2>1, <2>2 DEF ProducerAdd, TypeOK
<1>9. CASE ProducerSpurious
  BY <1>9 DEF ProducerSpurious, TypeOK
<1>10. CASE Recycle
  <2>1. PICK n \in 1 .. Len(m_connQ) :
          /\ m_connQ' = SubSeq(m_connQ, n + 1, Len(m_connQ))
          /\ live' = live \ {m_connQ[i] : i \in 1 .. n}
    BY <1>10 DEF Recycle
  <2>2. m_connQ' \in Seq(Conns)
    BY <2>1, Drop DEF TypeOK
  <2> QED
    BY <1>10, <2>1, <2>2 DEF Recycle, TypeOK
<1>11. CASE Tick
  BY <1>11 DEF Tick, TypeOK
<1>12. CASE UNCHANGED vars
  BY <1>12 DEF vars, TypeOK
<1> QED
  BY <1>1, <1>2, <1>3, <1>4, <1>5, <1>6, <1>7, <1>8, <1>9, <1>10, <1>11, <1>12
     DEF Next, GetConn, ProduceConn

\* Every variable always has its type; in particular getConn never returns
\* an empty pointer.
THEOREM Typing == Spec => []TypeOK
  BY TypeInit, TypeStep, PTL DEF Spec

-----------------------------------------------------------------------------
(* Ownership, and the order of the queue.                                  *)

LEMMA UnsharedInit == Init => Unshared
<1> SUFFICES ASSUME Init PROVE Unshared
  OBVIOUS
<1>1. IsInjective(m_connQ) /\ live = Range(m_connQ)
  BY DEF Init
<1>2. Held = {} /\ \A c \in Clients : conn[c] = None
  BY DEF Init, Held
<1>3. OldestFirst
  <2>1. m_connQ \in Seq(Conns)
    BY TypeInit DEF TypeOK
  <2>2. \A x \in Conns : age[x] = 0
    BY DEF Init
  <2>3. \A i \in 1 .. Len(m_connQ) : age[m_connQ[i]] = 0
    BY <2>1, <2>2
  <2> QED
    BY <2>3 DEF OldestFirst
<1> QED
  BY <1>1, <1>2, <1>3 DEF Unshared, SingleOwner

\* The front connection goes from the queue to one client.
LEMMA UnsharedGetIdle ==
  ASSUME TypeOK, TypeOK', Unshared, NEW c \in Clients, GetIdle(c)
  PROVE  Unshared'
<1> DEFINE x == Head(m_connQ)
<1>1. /\ m_connQ \in Seq(Conns) /\ m_connQ # <<>> /\ m_connQ' = Tail(m_connQ)
      /\ live' = live /\ age' = age
  BY DEF GetIdle, Popped, TypeOK
<1>2. /\ Tail(m_connQ) \in Seq(Conns) /\ Len(Tail(m_connQ)) = Len(m_connQ) - 1
      /\ \A i \in 1 .. Len(Tail(m_connQ)) : Tail(m_connQ)[i] = m_connQ[1 + i]
      /\ 1 \in 0 .. Len(m_connQ) /\ x = m_connQ[1] /\ x \in Conns
  BY <1>1
<1>3. IsInjective(m_connQ') /\ Range(m_connQ') = Range(m_connQ) \ {x}
  <2>1. IsInjective(m_connQ)
    BY DEF Unshared, SingleOwner
  <2>2. {m_connQ[i] : i \in 1 .. 1} = {x}
    BY <1>2
  <2>3. m_connQ' = SubSeq(m_connQ, 1 + 1, Len(m_connQ))
    BY <1>1, TailIsSubSeq
  <2> QED
    BY <1>1, <1>2, <2>1, <2>2, <2>3, DropInjective
<1>4. x \in Range(m_connQ)
  BY <1>1, <1>2 DEF Range
<1>5. /\ conn[c] = None /\ x # None
      /\ \A d \in Clients : conn'[d] = IF d = c THEN x ELSE conn[d]
  BY <1>2, PoolAssumption DEF GetIdle, InGetConn, LeaveWith, TypeOK
<1>6. OldestFirst'
  BY <1>1, <1>2 DEF OldestFirst, Unshared
<1> HIDE DEF x
<1>7. Held' = Held \union {x} /\ x \notin Held
  BY <1>4, <1>5 DEF Held, Unshared, SingleOwner
<1>8. \A d \in Clients : conn[d] # x
  BY <1>5, <1>7 DEF Held
<1>9. \A d, e \in Clients : conn'[d] = conn'[e] /\ conn'[d] # None => d = e
  BY <1>5, <1>8 DEF Unshared, SingleOwner
<1>10. /\ Range(m_connQ') \intersect Held' = {}
       /\ Range(m_connQ') \union Held' = live'
  BY <1>1, <1>3, <1>4, <1>7 DEF Unshared, SingleOwner
<1> QED
  BY <1>3, <1>6, <1>9, <1>10 DEF Unshared, SingleOwner

\* A connection made for a client is nobody else's.
LEMMA UnsharedGetNew ==
  ASSUME TypeOK, Unshared, NEW c \in Clients, GetNew(c)
  PROVE  Unshared'
<1>1. PICK x \in Conns : NewConn(x) /\ LeaveWith(c, x)
  BY DEF GetNew
<1>2. live' = live \union {x} /\ x \notin live
  BY <1>1, NewConnType
<1>3. m_connQ = <<>> /\ m_connQ' = <<>> /\ Range(<<>>) = {} /\ IsInjective(<<>>)
  BY DEF GetNew, Range, IsInjective
<1>4. /\ conn[c] = None /\ x # None
      /\ \A d \in Clients : conn'[d] = IF d = c THEN x ELSE conn[d]
  BY <1>1, PoolAssumption DEF GetNew, InGetConn, LeaveWith, TypeOK
<1>5. Held = live /\ Held' = Held \union {x}
  BY <1>3, <1>4 DEF Held, Unshared, SingleOwner
<1>6. \A d \in Clients : conn[d] # x
  BY <1>2, <1>4, <1>5 DEF Held
<1>7. \A d, e \in Clients : conn'[d] = conn'[e] /\ conn'[d] # None => d = e
  BY <1>4, <1>6 DEF Unshared, SingleOwner
<1>8. OldestFirst'
  BY <1>3 DEF OldestFirst
<1> QED
  BY <1>2, <1>3, <1>5, <1>7, <1>8 DEF Unshared, SingleOwner

\* What is pushed is younger than, and different from, what is queued.
LEMMA PushYoungest ==
  ASSUME TypeOK, Unshared, TypeOK', NEW x \in Conns \ Range(m_connQ),
         m_connQ' = Append(m_connQ, x),
         \A y \in Conns : age'[y] = IF y = x THEN 0 ELSE age[y]
  PROVE  /\ IsInjective(m_connQ') /\ OldestFirst'
         /\ Range(m_connQ') = Range(m_connQ) \union {x}
<1>1. m_connQ \in Seq(Conns) /\ IsInjective(m_connQ)
  BY DEF TypeOK, Unshared, SingleOwner
<1>2. IsInjective(m_connQ') /\ Range(m_connQ') = Range(m_connQ) \union {x}
  BY <1>1, InjectiveAppend, RangeAppend
<1>3. /\ Len(m_connQ) \in Nat /\ Len(m_connQ') = Len(m_connQ) + 1
      /\ m_connQ'[Len(m_connQ) + 1] = x
      /\ \A i \in 1 .. Len(m_connQ) : m_connQ'[i] = m_connQ[i]
  BY <1>1
<1>4. \A i \in 1 .. Len(m_connQ) : m_connQ[i] \in Conns /\ m_connQ[i] # x
  BY <1>1 DEF Range
<1>5. ASSUME NEW i \in 1 .. Len(m_connQ'), NEW j \in 1 .. Len(m_connQ'), i < j
      PROVE  age'[m_connQ'[i]] >= age'[m_connQ'[j]]
  <2>1. i \in 1 .. Len(m_connQ) /\ age'[m_connQ'[i]] = age[m_connQ[i]]
    BY <1>3, <1>4, <1>5
  <2>2. CASE j \in 1 .. Len(m_connQ)
    <3>1. age'[m_connQ'[j]] = age[m_connQ[j]]
      BY <1>3, <1>4, <2>2
    <3> QED
      BY <2>1, <2>2, <3>1, <1>5 DEF Unshared, OldestFirst
  <2>3. CASE j = Len(m_connQ) + 1
    <3>1. age'[m_connQ'[j]] = 0
      BY <1>3, <2>3
    <3>2. age[m_connQ[i]] \in 0 .. MaxIdle
      BY <1>4, <2>1 DEF TypeOK
    <3> QED
      BY <2>1, <3>1, <3>2, PoolAssumption
  <2> QED
    BY <1>3, <2>2, <2>3
<1> QED
  BY <1>2, <1>5 DEF OldestFirst

LEMMA UnsharedRelease ==
  ASSUME TypeOK, TypeOK', Unshared, NEW c \in Clients, Release(c)
  PROVE  Unshared'
<1> DEFINE x == conn[c]
<1>1. x \in Conns /\ x # None /\ x \in Held
  BY PoolAssumption DEF Release, TypeOK, Held
<1>2. x \notin Range(m_connQ)
  BY <1>1 DEF Unshared, SingleOwner
<1>3. /\ m_connQ' = Append(m_connQ, x)
      /\ \A y \in Conns : age'[y] = IF y = x THEN 0 ELSE age[y]
  BY DEF Release, Refreshed, TypeOK
<1>4. /\ live' = live
      /\ \A d \in Clients : conn'[d] = IF d = c THEN None ELSE conn[d]
  BY DEF Release, TypeOK
<1>5. \A d \in Clients : d # c => conn[d] # x
  BY <1>1 DEF Unshared, SingleOwner
<1> HIDE DEF x
<1>6. /\ IsInjective(m_connQ') /\ OldestFirst'
      /\ Range(m_connQ') = Range(m_connQ) \union {x}
  BY <1>1, <1>2, <1>3, PushYoungest
<1>7. Held' = Held \ {x}
  BY <1>1, <1>4, <1>5 DEF Held, x
<1>8. \A d, e \in Clients : conn'[d] = conn'[e] /\ conn'[d] # None => d = e
  BY <1>4 DEF Unshared, SingleOwner
<1> QED
  BY <1>1, <1>4, <1>6, <1>7, <1>8 DEF Unshared, SingleOwner

LEMMA UnsharedProducerAdd ==
  ASSUME TypeOK, TypeOK', Unshared, ProducerAdd
  PROVE  Unshared'
<1>1. PICK x \in Conns : NewConn(x) /\ m_connQ' = Append(m_connQ, x)
  BY DEF ProducerAdd
<1>2. /\ live' = live \union {x} /\ x \notin live
      /\ \A y \in Conns : age'[y] = IF y = x THEN 0 ELSE age[y]
  BY <1>1, NewConnType
<1>3. x \notin Range(m_connQ) /\ x \notin Held
  BY <1>2 DEF Unshared, SingleOwner
<1>4. /\ IsInjective(m_connQ') /\ OldestFirst'
      /\ Range(m_connQ') = Range(m_connQ) \union {x}
  BY <1>1, <1>2, <1>3, PushYoungest
<1>5. conn' = conn /\ Held' = Held
  BY DEF ProducerAdd, Held
<1> QED
  BY <1>2, <1>3, <1>4, <1>5 DEF Unshared, SingleOwner

\* The recycler deletes what it takes out of the queue, and nothing else.
LEMMA UnsharedRecycle ==
  ASSUME TypeOK, Unshared, Recycle
  PROVE  Unshared'
<1>1. PICK n \in 1 .. Len(m_connQ) :
        /\ m_connQ' = SubSeq(m_connQ, n + 1, Len(m_connQ))
        /\ live' = live \ {m_connQ[i] : i \in 1 .. n}
  BY DEF Recycle
<1>2. m_connQ \in Seq(Conns) /\ n \in 0 .. Len(m_connQ) /\ IsInjective(m_connQ)
  BY DEF TypeOK, Unshared, SingleOwner
<1>3. /\ m_connQ' \in Seq(Conns) /\ Len(m_connQ') = Len(m_connQ) - n
      /\ \A i \in 1 .. Len(m_connQ') : m_connQ'[i] = m_connQ[n + i]
  BY <1>1, <1>2, Drop
<1>4. /\ IsInjective(m_connQ')
      /\ Range(m_connQ') = Range(m_connQ) \ {m_connQ[i] : i \in 1 .. n}
  BY <1>1, <1>2, DropInjective
<1>5. {m_connQ[i] : i \in 1 .. n} \subseteq Range(m_connQ)
  BY <1>2 DEF Range
<1>6. conn' = conn /\ Held' = Held /\ age' = age
  BY DEF Recycle, Held
<1>7. ASSUME NEW i \in 1 .. Len(m_connQ'), NEW j \in 1 .. Len(m_connQ'), i < j
      PROVE  age'[m_connQ'[i]] >= age'[m_connQ'[j]]
  <2>1. n + i \in 1 .. Len(m_connQ) /\ n + j \in 1 .. Len(m_connQ) /\ n + i < n + j
    BY <1>2, <1>3, <1>7
  <2>2. age[m_connQ[n + i]] >= age[m_connQ[n + j]]
    BY <2>1 DEF OldestFirst, Unshared
  <2> QED
    BY <1>3, <1>6, <2>2
<1>8. OldestFirst'
  BY <1>7 DEF OldestFirst
<1> QED
  BY <1>1, <1>4, <1>5, <1>6, <1>8 DEF Unshared, SingleOwner

LEMMA UnsharedTick ==
  ASSUME TypeOK, Unshared, Tick
  PROVE  Unshared'
<1>1. UNCHANGED <<m_connQ, live, conn>> /\ Held' = Held
  BY DEF Tick, Held
<1>2. \A i \in 1 .. Len(m_connQ) : m_connQ[i] \in Conns
  BY DEF TypeOK
<1>3. \A x, y \in Conns : age[x] >= age[y] => age'[x] >= age'[y]
  BY PoolAssumption DEF Tick, TypeOK
<1>4. OldestFirst'
  BY <1>1, <1>2, <1>3 DEF OldestFirst, Unshared
<1> QED
  BY <1>1, <1>4 DEF Unshared, SingleOwner

LEMMA UnsharedStep == TypeOK /\ TypeOK' /\ Unshared /\ [Next]_vars => Unshared'
<1> SUFFICES ASSUME TypeOK, TypeOK', Unshared, [Next]_vars PROVE Unshared'
  OBVIOUS
<1>1. ASSUME UNCHANGED <<m_connQ, live, age, conn>> PROVE Unshared'
  BY <1>1 DEF Unshared, SingleOwner, OldestFirst, Held
<1>2. ASSUME NEW c \in Clients, CallGetConn(c) \/ GetWait(c) \/ GetTimeout(c)
      PROVE  Unshared'
  BY <1>1, <1>2 DEF CallGetConn, GetWait, GetTimeout
<1>3. ASSUME ProducerWait \/ ProducerSpurious \/ UNCHANGED vars PROVE Unshared'
  BY <1>1, <1>3 DEF ProducerWait, ProducerSpurious, vars
<1> QED
  BY <1>2, <1>3, UnsharedGetIdle, UnsharedGetNew, UnsharedRelease,
     UnsharedProducerAdd, UnsharedRecycle, UnsharedTick
     DEF Next, GetConn, ProduceConn

\* No connection is ever shared, lost, or deleted while in use.
THEOREM ConnectionsHaveOneOwner == Spec => []SingleOwner
<1>1. Init => TypeOK /\ Unshared
  BY TypeInit, UnsharedInit
<1>2. TypeOK /\ Unshared /\ [Next]_vars => (TypeOK /\ Unshared)'
  BY TypeStep, UnsharedStep
<1>3. Unshared => SingleOwner
  BY DEF Unshared
<1> QED
  BY <1>1, <1>2, <1>3, PTL DEF Spec

\* The idle connections are always sorted by age.
THEOREM QueueIsSorted == Spec => []OldestFirst
<1>1. Init => TypeOK /\ Unshared
  BY TypeInit, UnsharedInit
<1>2. TypeOK /\ Unshared /\ [Next]_vars => (TypeOK /\ Unshared)'
  BY TypeStep, UnsharedStep
<1>3. Unshared => OldestFirst
  BY DEF Unshared
<1> QED
  BY <1>1, <1>2, <1>3, PTL DEF Spec

\* Whenever the recycler has made a pass, the minimum is left, and beyond the
\* minimum nothing expired: as the queue is sorted, all the connections
\* behind the first one that is too young are too young as well.
THEOREM RecyclerIsExact == Spec => RecycleExact
<1> DEFINE Exact == /\ Len(m_connQ') >= Min
                    /\ Len(m_connQ') > Min =>
                         \A i \in 1 .. Len(m_connQ') : age[m_connQ'[i]] < MaxIdle
<1>1. ASSUME TypeOK, Unshared, Recycle PROVE Exact
  <2>1. PICK n \in 1 .. Len(m_connQ) :
          /\ \A i \in 1 .. n : Surplus(Len(m_connQ) - (i - 1))
          /\ ~Surplus(Len(m_connQ) - n) \/ ~Expired(m_connQ[n + 1])
          /\ m_connQ' = SubSeq(m_connQ, n + 1, Len(m_connQ))
    BY <1>1 DEF Recycle
  <2>2. m_connQ \in Seq(Conns) /\ n \in 0 .. Len(m_connQ) /\ Min \in Nat
    BY <1>1, MinMax DEF TypeOK
  <2>3. /\ Len(m_connQ') = Len(m_connQ) - n
        /\ \A i \in 1 .. Len(m_connQ') : m_connQ'[i] = m_connQ[n + i]
    BY <2>1, <2>2, Drop
  <2>4. Len(m_connQ') >= Min
    <3>1. Len(m_connQ) - (n - 1) > Min
      BY <2>1 DEF Surplus
    <3> QED
      BY <3>1, <2>2, <2>3
  <2>5. ASSUME Len(m_connQ') > Min, NEW i \in 1 .. Len(m_connQ')
        PROVE  age[m_connQ'[i]] < MaxIdle
    <3>1. ~(age[m_connQ[n + 1]] >= MaxIdle)
      BY <2>1, <2>3, <2>5 DEF Surplus, Expired
    <3>2. n + 1 \in 1 .. Len(m_connQ) /\ n + i \in 1 .. Len(m_connQ) /\ i >= 1
      BY <2>2, <2>3, <2>5
    <3>3. n + i = n + 1 \/ age[m_connQ[n + 1]] >= age[m_connQ[n + i]]
      BY <1>1, <3>2, <2>2 DEF Unshared, OldestFirst
    <3>4. m_connQ[n + 1] \in Conns /\ m_connQ[n + i] \in Conns
      BY <2>2, <3>2
    <3>5. age[m_connQ[n + 1]] \in 0 .. MaxIdle /\ age[m_connQ[n + i]] \in 0 .. MaxIdle
      BY <1>1, <3>4 DEF TypeOK
    <3> QED
      BY <2>3, <2>5, <3>1, <3>3, <3>5, PoolAssumption
  <2> QED
    BY <2>4, <2>5
<1>2. TypeOK /\ Unshared /\ [Next]_vars => [Recycle => Exact]_vars
  BY <1>1
<1>3. Init => TypeOK /\ Unshared
  BY TypeInit, UnsharedInit
<1>4. TypeOK /\ Unshared /\ [Next]_vars => (TypeOK /\ Unshared)'
  BY TypeStep, UnsharedStep
<1> QED
  BY <1>2, <1>3, <1>4, PTL DEF Spec, RecycleExact

-----------------------------------------------------------------------------
(* Wakeups.                                                                *)

LEMMA WakeupsInit == Init => Wakeups
  BY DEF Init, Wakeups, Sleepers, ProducerAwake

\* While no client sleeps, the notification of getConn reaches the producer.
LEMMA LeaveWakesProducer ==
  ASSUME TypeOK, Wakeups, WakeOne, parsed' = parsed
  PROVE  Wakeups'
<1>1. waiting' \subseteq waiting
  BY WakeOneType
<1>2. ASSUME parsed, MaxSize >= 1 PROVE waiting' = {}
  <2>1. waiting \subseteq {Producer}
    BY <1>2 DEF Wakeups, Sleepers, TypeOK
  <2> QED
    BY <2>1 DEF WakeOne
<1> QED
  BY <1>1, <1>2, PoolAssumption
     DEF Wakeups, Sleepers, ProducerAwake

LEMMA WakeupsStep == TypeOK /\ Wakeups /\ [Next]_vars => Wakeups'
<1> SUFFICES ASSUME TypeOK, Wakeups, [Next]_vars PROVE Wakeups'
  OBVIOUS
<1> USE PoolAssumption
<1>1. ASSUME UNCHANGED <<parsed, m_connQ>>, waiting' \subseteq waiting PROVE Wakeups'
  BY <1>1 DEF Wakeups, Sleepers, ProducerAwake, Min
<1>2. ASSUME NEW c \in Clients, GetIdle(c) \/ GetNew(c) PROVE Wakeups'
  BY <1>2, LeaveWakesProducer DEF GetIdle, GetNew, LeaveWith
<1>3. ASSUME NEW c \in Clients, GetWait(c) PROVE Wakeups'
  <2>1. ~(parsed /\ MaxSize >= 1)
    BY <1>3 DEF GetWait, CanGrow, Max
  <2>2. parsed' = parsed /\ (~parsed => Producer \notin waiting')
    BY <1>3 DEF GetWait, Wakeups, Sleepers
  <2> QED
    BY <2>1, <2>2 DEF Wakeups, Sleepers, ProducerAwake
<1>4. ASSUME NEW c \in Clients, CallGetConn(c) \/ GetTimeout(c) PROVE Wakeups'
  BY <1>1, <1>4 DEF CallGetConn, GetTimeout
<1>5. ASSUME NEW c \in Clients, Release(c) PROVE Wakeups'
  <2>1. Len(m_connQ') = Len(m_connQ) + 1 /\ Len(m_connQ) \in Nat
    BY <1>5 DEF Release, TypeOK
  <2>2. Min' = Min /\ Min \in Nat
    BY <1>5, MinMax DEF Release, Min
  <2> QED
    BY <1>5, <2>1, <2>2 DEF Release, Wakeups, Sleepers, ProducerAwake
<1>6. CASE ProducerWait
  BY <1>6 DEF ProducerWait, Enough, Wakeups, Sleepers, ProducerAwake, Min
<1>7. CASE ProducerAdd
  BY <1>7 DEF ProducerAdd, Wakeups, Sleepers, ProducerAwake
<1>8. CASE Recycle
  <2>1. PICK n \in 1 .. Len(m_connQ) :
          /\ \A i \in 1 .. n : Surplus(Len(m_connQ) - (i - 1))
          /\ m_connQ' = SubSeq(m_connQ, n + 1, Len(m_connQ))
    BY <1>8 DEF Recycle
  <2>2. m_connQ \in Seq(Conns) /\ n \in 0 .. Len(m_connQ) /\ Min \in Nat
    BY MinMax DEF TypeOK
  <2>3. Len(m_connQ') = Len(m_connQ) - n
    BY <2>1, <2>2, Drop
  <2>4. Len(m_connQ) - (n - 1) > Min
    BY <2>1 DEF Surplus
  <2>5. Len(m_connQ') >= Min /\ Min' = Min
    BY <1>8, <2>2, <2>3, <2>4 DEF Recycle, Min
  <2> QED
    BY <1>8, <2>5 DEF Recycle, Wakeups, Sleepers, ProducerAwake
<1>9. ASSUME ProducerSpurious \/ Tick \/ UNCHANGED vars PROVE Wakeups'
  BY <1>1, <1>9 DEF ProducerSpurious, Tick, vars
<1> QED
  BY <1>2, <1>3, <1>4, <1>5, <1>6, <1>7, <1>8, <1>9 DEF Next, GetConn, ProduceConn

\* The producer never sleeps through a shortage, for any sizes with room for
\* a connection and any number of clients.
THEOREM ProducerNeverSleepsShort == Spec => []ProducerAwake
<1>1. Init => TypeOK /\ Wakeups
  BY TypeInit, WakeupsInit
<1>2. TypeOK /\ Wakeups /\ [Next]_vars => (TypeOK /\ Wakeups)'
  BY TypeStep, WakeupsStep
<1>3. Wakeups => ProducerAwake
  BY DEF Wakeups
<1> QED
  BY <1>1, <1>2, <1>3, PTL DEF Spec

\* With room for a connection in the configuration, no client ever reaches
\* the wait_for of getConn, and so none depends on its timeout.
THEOREM ClientsNeverSleep == Spec => []NoClientSleeps
<1>1. Init => TypeOK /\ Wakeups
  BY TypeInit, WakeupsInit
<1>2. TypeOK /\ Wakeups /\ [Next]_vars => (TypeOK /\ Wakeups)'
  BY TypeStep, WakeupsStep
<1>3. Wakeups => NoClientSleeps
  BY DEF Wakeups, Sleepers, NoClientSleeps
<1> QED
  BY <1>1, <1>2, <1>3, PTL DEF Spec

-----------------------------------------------------------------------------
(* How many connections there are.                                         *)

\* There are no more held connections than holders.
LEMMA HeldCardinality ==
  ASSUME TypeOK
  PROVE  LET Users == {c \in Clients : conn[c] # None}
         IN  /\ IsFiniteSet(Users) /\ Cardinality(Users) <= Cardinality(Clients)
             /\ IsFiniteSet(Held)  /\ Cardinality(Held) <= Cardinality(Users)
             /\ Cardinality(Held) \in Nat
<1> DEFINE Users == {c \in Clients : conn[c] # None}
           f == [c \in Users |-> conn[c]]
<1>1. IsFiniteSet(Users) /\ Cardinality(Users) <= Cardinality(Clients)
  BY PoolAssumption, FS_Subset
<1>2. f \in Surjection(Users, Held)
  BY DEF Surjection, Held
<1>3. IsFiniteSet(Held) /\ Cardinality(Held) <= Cardinality(Users)
  BY <1>1, <1>2, FS_Surjection
<1> QED
  BY <1>1, <1>3, FS_CardinalityType

LEMMA BoundInit == Init => ConnsBounded
<1> SUFFICES ASSUME Init PROVE ConnsBounded
  OBVIOUS
<1>1. m_connQ \in Seq(Conns) /\ live = Range(m_connQ) /\ Min \in Nat
  BY TypeInit, MinMax DEF TypeOK, Init
<1>2. Len(m_connQ) = Min
  BY <1>1 DEF Init
<1>3. IsFiniteSet(live) /\ Cardinality(live) <= Min
  BY <1>1, <1>2, RangeCardinality
<1>4. Cardinality(live) \in Nat /\ Cardinality(Clients) \in Nat
  BY <1>3, PoolAssumption, FS_CardinalityType
<1> QED
  BY <1>1, <1>3, <1>4 DEF ConnsBounded

\* A connection is made either for a client that holds none yet while the
\* queue is empty, or while fewer than the minimum are idle.
LEMMA BoundStep ==
  TypeOK /\ Unshared /\ ConnsBounded /\ [Next]_vars => ConnsBounded'
<1> SUFFICES ASSUME TypeOK, Unshared, ConnsBounded, [Next]_vars PROVE ConnsBounded'
  OBVIOUS
<1>1. /\ IsFiniteSet(live) /\ Cardinality(live) \in Nat
      /\ Cardinality(Clients) \in Nat /\ Min \in Nat
  BY PoolAssumption, FS_Subset, FS_CardinalityType, MinMax DEF TypeOK
<1>2. ASSUME parsed' = parsed, live' \subseteq live PROVE ConnsBounded'
  <2>1. IsFiniteSet(live') /\ Cardinality(live') <= Cardinality(live)
    BY <1>1, <1>2, FS_Subset
  <2>2. Cardinality(live') \in Nat /\ Min' = Min
    BY <1>2, <2>1, FS_CardinalityType DEF Min
  <2> QED
    BY <1>1, <2>1, <2>2 DEF ConnsBounded
<1>3. ASSUME NEW c \in Clients, GetNew(c) PROVE ConnsBounded'
  <2> DEFINE Users == {d \in Clients : conn[d] # None}
  <2>1. PICK x \in Conns : live' = live \union {x} /\ x \notin live
    BY <1>3, NewConnType DEF GetNew
  <2>2. live = Held
    <3>1. m_connQ = <<>> /\ Range(<<>>) = {}
      BY <1>3 DEF GetNew, Range
    <3>2. Range(m_connQ) \union Held = live
      BY DEF Unshared, SingleOwner
    <3> QED
      BY <3>1, <3>2
  <2>3. c \notin Users /\ Users \union {c} \subseteq Clients
    BY <1>3 DEF GetNew, InGetConn, TypeOK
  <2>4. IsFiniteSet(Users) /\ Cardinality(live) <= Cardinality(Users)
    BY <2>2, HeldCardinality
  <2>5. Cardinality(Users \union {c}) = Cardinality(Users) + 1
    BY <2>3, <2>4, FS_AddElement
  <2>6. Cardinality(Users \union {c}) <= Cardinality(Clients)
    BY <2>3, PoolAssumption, FS_Subset
  <2>7. Cardinality(live') = Cardinality(live) + 1
    BY <1>1, <2>1, FS_AddElement
  <2>8. Min' = Min /\ Cardinality(Users) \in Nat
    BY <1>3, <2>4, FS_CardinalityType DEF GetNew, Min
  <2> QED
    BY <1>1, <2>4, <2>5, <2>6, <2>7, <2>8 DEF ConnsBounded
<1>4. CASE ProducerAdd
  <2>1. PICK x \in Conns : live' = live \union {x} /\ x \notin live
    BY <1>4, NewConnType DEF ProducerAdd
  <2>2. m_connQ \in Seq(Conns) /\ live = Range(m_connQ) \union Held
    BY DEF TypeOK, Unshared, SingleOwner
  <2>3. /\ IsFiniteSet(Range(m_connQ)) /\ Cardinality(Range(m_connQ)) <= Len(m_connQ)
        /\ Cardinality(Range(m_connQ)) \in Nat
    BY <2>2, RangeCardinality, FS_CardinalityType
  <2>4. IsFiniteSet(Held) /\ Cardinality(Held) \in Nat
    BY HeldCardinality
  <2>5. Cardinality(Held) <= Cardinality(Clients)
    <3> DEFINE Users == {d \in Clients : conn[d] # None}
    <3>1. /\ Cardinality(Held) <= Cardinality(Users)
          /\ Cardinality(Users) <= Cardinality(Clients) /\ IsFiniteSet(Users)
      BY HeldCardinality
    <3>2. Cardinality(Users) \in Nat
      BY <3>1, FS_CardinalityType
    <3> QED
      BY <3>1, <3>2, <2>4, <1>1
  <2>6. Cardinality(live) <= Cardinality(Range(m_connQ)) + Cardinality(Held)
    <3>1. /\ IsFiniteSet(Range(m_connQ) \intersect Held)
          /\ Cardinality(live) = Cardinality(Range(m_connQ)) + Cardinality(Held)
                                 - Cardinality(Range(m_connQ) \intersect Held)
      BY <2>2, <2>3, <2>4, FS_Union, FS_Intersection
    <3>2. Cardinality(Range(m_connQ) \intersect Held) \in Nat
      BY <3>1, FS_CardinalityType
    <3> QED
      BY <3>1, <3>2, <2>3, <2>4
  <2>7. Len(m_connQ) < Min /\ Min' = Min /\ Len(m_connQ) \in Nat
    BY <1>1, <1>4, <2>2 DEF ProducerAdd, Enough, Min
  <2>8. Cardinality(live') = Cardinality(live) + 1
    BY <1>1, <2>1, FS_AddElement
  <2> QED
    BY <1>1, <2>3, <2>4, <2>5, <2>6, <2>7, <2>8 DEF ConnsBounded
<1>5. ASSUME NEW c \in Clients,
             CallGetConn(c) \/ GetIdle(c) \/ GetWait(c) \/ GetTimeout(c) \/ Release(c)
      PROVE  ConnsBounded'
  BY <1>2, <1>5 DEF CallGetConn, GetIdle, GetWait, GetTimeout, Release
<1>6. ASSUME ProducerWait \/ ProducerSpurious \/ Recycle \/ Tick \/ UNCHANGED vars
      PROVE  ConnsBounded'
  <2>1. CASE Recycle
    <3>1. parsed' = parsed
      BY <2>1 DEF Recycle
    <3>2. PICK n \in 1 .. Len(m_connQ) : live' = live \ {m_connQ[i] : i \in 1 .. n}
      BY <2>1 DEF Recycle
    <3>3. live' \subseteq live
      BY <3>2
    <3> QED
      BY <3>1, <3>3, <1>2
  <2>2. CASE ProducerWait \/ ProducerSpurious \/ Tick \/ UNCHANGED vars
    BY <2>2, <1>2 DEF ProducerWait, ProducerSpurious, Tick, vars
  <2> QED
    BY <1>6, <2>1, <2>2
<1> QED
  BY <1>3, <1>4, <1>5, <1>6 DEF Next, GetConn, ProduceConn

\* There are never more connections than the idle minimum and one for each
\* thread that borrows.
THEOREM ConnectionsAreBounded == Spec => []ConnsBounded
<1>1. Init => TypeOK /\ Unshared /\ ConnsBounded
  BY TypeInit, UnsharedInit, BoundInit
<1>2. TypeOK /\ Unshared /\ ConnsBounded /\ [Next]_vars
        => (TypeOK /\ Unshared /\ ConnsBounded)'
  BY TypeStep, UnsharedStep, BoundStep
<1> QED
  BY <1>1, <1>2, PTL DEF Spec

-----------------------------------------------------------------------------
(* The pool implements the lending service.                                *)

\* The idle connections are those that exist and are not held.
LEMMA IdleConns ==
  ASSUME TypeOK, Unshared
  PROVE  /\ Range(m_connQ) = live \ Held /\ Held \subseteq live
         /\ Pool!Lent = Held /\ Pool!Fresh = Conns \ live
<1>1. Range(m_connQ) = live \ Held /\ Held \subseteq live
  BY DEF Unshared, SingleOwner
<1>2. Pool!Lent = Held
  BY DEF Pool!Lent, Held
<1>3. Range(m_connQ) \union Held = live
  BY DEF Unshared, SingleOwner
<1> QED
  BY <1>1, <1>2, <1>3 DEF Pool!Fresh

\* A client that gets a connection holds it from then on.
LEMMA HeldAfter ==
  ASSUME TypeOK, NEW c \in Clients, NEW x \in Conns, conn[c] = None,
         conn' = [conn EXCEPT ![c] = x]
  PROVE  Held' = Held \union {x}
<1>1. x # None /\ conn'[c] = x /\ \A d \in Clients \ {c} : conn'[d] = conn[d]
  BY PoolAssumption DEF TypeOK
<1>2. \A y : y \in Held' <=> \E d \in Clients : conn'[d] = y /\ y # None
  BY DEF Held
<1>3. \A y : y \in Held <=> \E d \in Clients : conn[d] = y /\ y # None
  BY DEF Held
<1> QED
  BY <1>1, <1>2, <1>3

LEMMA StepIsLending ==
  ASSUME TypeOK, TypeOK', Unshared, Unshared', [Next]_vars
  PROVE  [Pool!Next]_Pool!lending
<1>0. /\ Range(m_connQ) = live \ Held /\ Held \subseteq live
      /\ Pool!Fresh = Conns \ live
  BY IdleConns
<1>1. Range(m_connQ') = live' \ Held'
  BY DEF Unshared, SingleOwner
<1>2. ASSUME NEW c \in Clients, GetIdle(c) PROVE Pool!Next
  <2> DEFINE x == Head(m_connQ)
  <2>1. /\ conn[c] = None /\ live' = live /\ x \in Conns /\ x \in Range(m_connQ)
        /\ conn' = [conn EXCEPT ![c] = x]
    <3>1. conn[c] = None /\ conn' = [conn EXCEPT ![c] = x] /\ live' = live
      BY <1>2 DEF GetIdle, InGetConn, LeaveWith, TypeOK
    <3>2. m_connQ \in Seq(Conns) /\ m_connQ # <<>>
      BY <1>2 DEF GetIdle, TypeOK
    <3>3. x = m_connQ[1] /\ 1 \in DOMAIN m_connQ /\ x \in Conns
      BY <3>2
    <3> QED
      BY <3>1, <3>3 DEF Range
  <2> HIDE DEF x
  <2>2. Range(m_connQ') = Range(m_connQ) \ {x}
    BY <1>0, <1>1, <2>1, HeldAfter
  <2>3. Pool!Lend(c, x)
    BY <2>1, <2>2 DEF Pool!Lend
  <2> QED
    BY <2>1, <2>3 DEF Pool!Next
<1>3. ASSUME NEW c \in Clients, GetNew(c) PROVE Pool!Next
  <2>1. PICK x \in Conns : NewConn(x) /\ LeaveWith(c, x)
    BY <1>3 DEF GetNew
  <2>2. /\ conn[c] = None /\ conn' = [conn EXCEPT ![c] = x]
        /\ live' = live \union {x} /\ x \notin live
    BY <1>3, <2>1 DEF GetNew, InGetConn, LeaveWith, NewConn, TypeOK
  <2>3. Range(m_connQ') = Range(m_connQ) \ {x}
    BY <1>0, <1>1, <2>2, HeldAfter
  <2>4. Pool!Lend(c, x)
    BY <1>0, <2>2, <2>3 DEF Pool!Lend
  <2> QED
    BY <2>4 DEF Pool!Next
<1>4. ASSUME NEW c \in Clients, Release(c) PROVE Pool!Next
  <2>1. /\ conn[c] # None /\ conn[c] \in Conns /\ m_connQ \in Seq(Conns)
        /\ m_connQ' = Append(m_connQ, conn[c])
        /\ conn' = [conn EXCEPT ![c] = None]
    BY <1>4 DEF Release, TypeOK
  <2>2. Range(m_connQ') = Range(m_connQ) \union {conn[c]}
    BY <2>1, RangeAppend
  <2>3. Pool!GiveBack(c)
    BY <2>1, <2>2 DEF Pool!GiveBack
  <2> QED
    BY <2>3 DEF Pool!Next
<1>5. CASE ProducerAdd
  <2>1. PICK x \in Conns : NewConn(x) /\ m_connQ' = Append(m_connQ, x)
    BY <1>5 DEF ProducerAdd
  <2>2. x \notin live /\ conn' = conn /\ m_connQ \in Seq(Conns)
    BY <1>5, <2>1 DEF ProducerAdd, NewConn, TypeOK
  <2>3. Range(m_connQ') = Range(m_connQ) \union {x}
    BY <2>1, <2>2, RangeAppend
  <2>4. Pool!Make(x)
    BY <1>0, <2>2, <2>3 DEF Pool!Make
  <2> QED
    BY <2>4 DEF Pool!Next
<1>6. CASE Recycle
  <2>1. conn' = conn /\ Held' = Held /\ live' \subseteq live
    BY <1>6 DEF Recycle, Held
  <2> DEFINE S == Range(m_connQ) \ Range(m_connQ')
  <2>2. S \subseteq Range(m_connQ) /\ Range(m_connQ') = Range(m_connQ) \ S
    BY <1>0, <1>1, <2>1
  <2>3. Pool!Drop(S)
    BY <2>1, <2>2 DEF Pool!Drop
  <2> HIDE DEF S
  <2>4. S \in SUBSET Range(m_connQ)
    BY <2>2
  <2> QED
    BY <2>3, <2>4 DEF Pool!Next
<1>7. ASSUME UNCHANGED <<m_connQ, conn>> PROVE UNCHANGED Pool!lending
  BY <1>7 DEF Pool!lending
<1>8. ASSUME NEW c \in Clients, CallGetConn(c) \/ GetWait(c) \/ GetTimeout(c)
      PROVE  UNCHANGED <<m_connQ, conn>>
  BY <1>8 DEF CallGetConn, GetWait, GetTimeout
<1>9. CASE ProducerWait \/ ProducerSpurious \/ Tick \/ UNCHANGED vars
  BY <1>7, <1>9 DEF ProducerWait, ProducerSpurious, Tick, vars
<1> QED
  BY <1>2, <1>3, <1>4, <1>5, <1>6, <1>7, <1>8, <1>9 DEF Next, GetConn, ProduceConn

\* Whatever the queue, the sizes and the background threads do, what clients
\* see is the lending of connections, each to one client at a time.
THEOREM PoolImplementsLending == Spec => ImplementsLending
<1>1. Init => TypeOK /\ Unshared
  BY TypeInit, UnsharedInit
<1>2. TypeOK /\ Unshared /\ [Next]_vars => (TypeOK /\ Unshared)'
  BY TypeStep, UnsharedStep
<1>3. Init => Pool!Init
  <2> SUFFICES ASSUME Init PROVE Pool!Init
    OBVIOUS
  <2>1. Range(m_connQ) \subseteq Conns
    BY <1>1 DEF TypeOK, Range
  <2> QED
    BY <2>1 DEF Init, Pool!Init
<1>4. TypeOK /\ Unshared /\ (TypeOK /\ Unshared)' /\ [Next]_vars
        => [Pool!Next]_Pool!lending
  BY StepIsLending
<1> QED
  BY <1>1, <1>2, <1>3, <1>4, PTL DEF Spec, ImplementsLending, Pool!Spec

=============================================================================
