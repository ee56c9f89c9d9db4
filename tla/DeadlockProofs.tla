---------------------------- MODULE DeadlockProofs ----------------------------
(***************************************************************************)
(* Proofs about DeadlockCheck, for any finite set of threads and any set of*)
(* locks: the tables the hooks keep are sound, and the search never enters *)
(* a vertex twice at a time, whatever the hooks do meanwhile; and a search *)
(* of a graph that stays as it is finds every cycle, and reports nothing   *)
(* else unless two paths meet.                                             *)
(***************************************************************************)
EXTENDS DeadlockCheck, QueueTheorems, FiniteSetTheorems, TLAPS

\* The program's side: a thread inside a hooked call has a lock to deal with.
Hooks ==
  /\ pc \in [Threads -> {"run", "lock", "locked", "unlocked"}]
  /\ arg \in [Threads -> Locks \cup {None}]
  /\ owner \in [Locks -> Threads \cup {None}]
  /\ plan \in Seq(SUBSET (Threads \X Locks))
  /\ junk \in {0, 1}
  /\ \A t \in Threads : pc[t] # "run" => arg[t] \in Locks

\* The tables: an entry in use names a thread.
Tables ==
  /\ vertex_list \in Seq(Threads)
  /\ next \in [Threads -> Seq(Threads)]
  /\ lock_list \in Seq(Entry)
  /\ \A i \in DOMAIN lock_list :
       lock_list[i].lock_id # None => lock_list[i].th_id \in Threads
  /\ TablesAreSound

FrameType == [vertex : Threads, ver : Threads]

SearchType ==
  /\ step \in {"sleep", "root", "test", "take", "advance", "wild"}
  /\ root \in Nat
  /\ frames \in Seq(FrameType)
  /\ visited \subseteq Nat
  /\ deadlock \in BOOLEAN
  /\ quiet \in BOOLEAN

\* Where a search is: it begins with a vertex of the list.
Searching ==
  /\ step = "root" => root # 0
  /\ step \in {"sleep", "root"} => frames = <<>>
  /\ step \in {"test", "take", "advance"} =>
       /\ frames # <<>>
       /\ root \in DOMAIN vertex_list
       /\ frames[1].vertex = vertex_list[root]

\* The vertices of all active calls are marked.
Marked ==
  \A i \in DOMAIN frames : \E j \in DOMAIN vertex_list :
    j \in visited /\ vertex_list[j] = frames[i].vertex

\* Until the detector goes wild, its pointers are to nodes that exist.
Pointers ==
  step # "wild" => \A i \in DOMAIN frames :
    frames[i].ver = frames[i].vertex \/ frames[i].ver \in Range(next[frames[i].vertex])

Search == SearchType /\ Searching /\ Marked /\ Pointers /\ PathFits

IInv == Hooks /\ Tables /\ Search

-----------------------------------------------------------------------------
(* The operations on the tables.                                           *)

\* search_lock finds the entry of a lock, if there is one.
LEMMA SearchLock ==
  ASSUME lock_list \in Seq(Entry), NEW l
  PROVE  /\ search_lock(l) \in 0 .. Len(lock_list)
         /\ search_lock(l) # 0 => lock_list[search_lock(l)].lock_id = l
         /\ search_lock(l) = 0 => \A i \in DOMAIN lock_list : lock_list[i].lock_id # l
<1>1. CASE \E i \in DOMAIN lock_list : lock_list[i].lock_id = l
  <2> DEFINE at == CHOOSE i \in DOMAIN lock_list : lock_list[i].lock_id = l
  <2>1. at \in DOMAIN lock_list /\ lock_list[at].lock_id = l
    BY <1>1
  <2>2. search_lock(l) = at
    BY <1>1 DEF search_lock
  <2>3. DOMAIN lock_list = 1 .. Len(lock_list) /\ Len(lock_list) \in Nat
    OBVIOUS
  <2> HIDE DEF at
  <2> QED
    BY <2>1, <2>2, <2>3
<1>2. CASE ~\E i \in DOMAIN lock_list : lock_list[i].lock_id = l
  <2>1. search_lock(l) = 0
    BY <1>2 DEF search_lock
  <2> QED
    BY <1>2, <2>1
<1> QED
  BY <1>1, <1>2

\* search_vertex finds a thread of the graph.
LEMMA SearchVertex ==
  ASSUME vertex_list \in Seq(Threads), NEW t \in Range(vertex_list)
  PROVE  /\ search_vertex(t) \in DOMAIN vertex_list
         /\ vertex_list[search_vertex(t)] = t
<1> DEFINE at == CHOOSE i \in DOMAIN vertex_list : vertex_list[i] = t
<1>1. \E i \in DOMAIN vertex_list : vertex_list[i] = t
  BY DEF Range
<1>2. at \in DOMAIN vertex_list /\ vertex_list[at] = t
  BY <1>1
<1>3. search_vertex(t) = at
  BY DEF search_vertex
<1> QED
  BY <1>2, <1>3

\* add_vertex adds a thread once, and moves none.
LEMMA AddVertex ==
  ASSUME NEW s \in Seq(Threads), IsInjective(s), NEW t \in Threads
  PROVE  /\ add_vertex(s, t) \in Seq(Threads)
         /\ IsInjective(add_vertex(s, t))
         /\ Range(add_vertex(s, t)) = Range(s) \cup {t}
         /\ \A i \in DOMAIN s : i \in DOMAIN add_vertex(s, t) /\ add_vertex(s, t)[i] = s[i]
<1>1. CASE t \in Range(s)
  BY <1>1 DEF add_vertex
<1>2. CASE t \notin Range(s)
  <2>1. add_vertex(s, t) = Append(s, t)
    BY <1>2 DEF add_vertex
  <2>2. IsInjective(Append(s, t)) /\ Range(Append(s, t)) = Range(s) \cup {t}
    BY <1>2, RangeAppend, InjectiveAppend
  <2>3. \A i \in DOMAIN s : i \in DOMAIN Append(s, t) /\ Append(s, t)[i] = s[i]
    OBVIOUS
  <2> QED
    BY <2>1, <2>2, <2>3
<1> QED
  BY <1>1, <1>2

\* A sequence without one of its places: what stays, and in which order.
LEMMA UnlinkedList ==
  ASSUME NEW S, NEW list \in Seq(S), IsInjective(list), NEW at \in DOMAIN list
  PROVE  /\ Unlinked(list, at) \in Seq(S)
         /\ IsInjective(Unlinked(list, at))
         /\ Range(Unlinked(list, at)) = Range(list) \ {list[at]}
<1> DEFINE short == Unlinked(list, at)
           n == Len(list)
           from(i) == IF i < at THEN i ELSE i + 1
<1>1. n \in Nat /\ DOMAIN list = 1 .. n /\ at \in 1 .. n
  OBVIOUS
<1>2. \A i \in 1 .. n - 1 : from(i) \in 1 .. n /\ from(i) # at
  BY <1>1
<1>3. \A i, j \in 1 .. n - 1 : from(i) = from(j) => i = j
  BY <1>1
<1>4. \A k \in 1 .. n : k # at => \E i \in 1 .. n - 1 : from(i) = k
  <2> TAKE k \in 1 .. n
  <2>1. CASE k < at
    BY <2>1, <1>1
  <2>2. CASE k > at
    <3>1. k - 1 \in 1 .. n - 1 /\ from(k - 1) = k
      BY <2>2, <1>1
    <3> QED
      BY <3>1
  <2> QED
    BY <2>1, <2>2, <1>1
<1>5. \A i \in 1 .. n - 1 : short[i] = list[from(i)]
  BY DEF Unlinked
<1>6. short = [i \in 1 .. n - 1 |-> short[i]] /\ DOMAIN short = 1 .. n - 1
  BY DEF Unlinked
<1>7. short \in Seq(S)
  <2>1. \A i \in 1 .. n - 1 : short[i] \in S
    BY <1>1, <1>2, <1>5
  <2>2. n - 1 \in Nat
    BY <1>1
  <2> HIDE DEF short
  <2> QED
    BY <2>1, <2>2, <1>6
<1> HIDE DEF n, from, short
<1>8. \A k, m \in 1 .. n : list[k] = list[m] => k = m
  BY <1>1 DEF IsInjective
<1>9. IsInjective(short)
  <2>1. \A i, j \in 1 .. n - 1 : short[i] = short[j] => i = j
    <3> SUFFICES ASSUME NEW i \in 1 .. n - 1, NEW j \in 1 .. n - 1, short[i] = short[j]
                 PROVE  i = j
      OBVIOUS
    <3>1. list[from(i)] = list[from(j)]
      BY <1>5
    <3>2. from(i) = from(j)
      BY <3>1, <1>2, <1>8
    <3> QED
      BY <3>2, <1>3
  <2> QED
    BY <2>1, <1>6 DEF IsInjective
<1>10. \A i \in 1 .. n - 1 : short[i] \in Range(list) /\ short[i] # list[at]
  <2> TAKE i \in 1 .. n - 1
  <2>1. from(i) \in 1 .. n /\ from(i) # at /\ short[i] = list[from(i)]
    BY <1>2, <1>5
  <2>2. list[from(i)] # list[at]
    BY <2>1, <1>1, <1>8
  <2>3. list[from(i)] \in Range(list)
    BY <2>1, <1>1 DEF Range
  <2> QED
    BY <2>1, <2>2, <2>3
<1>11. \A k \in 1 .. n : list[k] # list[at] => \E i \in 1 .. n - 1 : short[i] = list[k]
  BY <1>4, <1>5
<1>12. Range(short) \subseteq Range(list) \ {list[at]}
  BY <1>6, <1>10 DEF Range
<1>13. Range(list) \ {list[at]} \subseteq Range(short)
  <2> SUFFICES ASSUME NEW x \in Range(list), x # list[at]
               PROVE  x \in Range(short)
    OBVIOUS
  <2>1. PICK k \in 1 .. n : x = list[k]
    BY <1>1 DEF Range
  <2>2. PICK i \in 1 .. n - 1 : short[i] = x
    BY <2>1, <1>11
  <2> QED
    BY <2>2, <1>6 DEF Range
<1>14. Range(short) = Range(list) \ {list[at]}
  BY <1>12, <1>13
<1> QED
  BY <1>7, <1>9, <1>14 DEF short

\* remove_edge takes one target out of one list.
LEMMA RemoveEdge ==
  ASSUME next \in [Threads -> Seq(Threads)], NEW u \in Threads, NEW v,
         IsInjective(next[u])
  PROVE  LET n == remove_edge(u, v)
         IN  /\ n \in [Threads -> Seq(Threads)]
             /\ \A t \in Threads \ {u} : n[t] = next[t]
             /\ IsInjective(n[u])
             /\ Range(n[u]) = Range(next[u]) \ {v}
<1> DEFINE list == next[u]
           at == CHOOSE i \in DOMAIN list : list[i] = v
<1>1. CASE v \notin Range(list)
  <2>1. remove_edge(u, v) = next
    BY <1>1 DEF remove_edge
  <2> QED
    BY <1>1, <2>1
<1>2. CASE v \in Range(list)
  <2>1. remove_edge(u, v) = [next EXCEPT ![u] = Unlinked(list, at)]
    BY <1>2 DEF remove_edge
  <2>2. \E i \in DOMAIN list : list[i] = v
    BY <1>2 DEF Range
  <2>3. at \in DOMAIN list /\ list[at] = v
    BY <2>2
  <2>4. list \in Seq(Threads) /\ IsInjective(list)
    OBVIOUS
  <2>5. /\ Unlinked(list, at) \in Seq(Threads)
        /\ IsInjective(Unlinked(list, at))
        /\ Range(Unlinked(list, at)) = Range(list) \ {v}
    <3> HIDE DEF at, list
    <3> QED
      BY <2>3, <2>4, UnlinkedList
  <2>6. /\ remove_edge(u, v) \in [Threads -> Seq(Threads)]
        /\ remove_edge(u, v)[u] = Unlinked(list, at)
        /\ \A t \in Threads \ {u} : remove_edge(u, v)[t] = next[t]
    <3> HIDE DEF at
    <3> QED
      BY <2>1, <2>5
  <2> QED
    BY <2>5, <2>6
<1> QED
  BY <1>1, <1>2

\* ver->next is the target of an edge of the vertex, or the end of its list.
LEMMA NextOfEdge ==
  ASSUME next \in [Threads -> Seq(Threads)],
         NEW f \in [vertex : Threads, ver : Threads],
         f.ver = f.vertex \/ f.ver \in Range(next[f.vertex])
  PROVE  NextOf(f) # None => NextOf(f) \in Range(next[f.vertex])
<1> DEFINE list == next[f.vertex]
           pos == CHOOSE i \in DOMAIN list : list[i] = f.ver
           at == IF f.ver = f.vertex THEN 0 ELSE pos
<1>1. list \in Seq(Threads) /\ Len(list) \in Nat /\ DOMAIN list = 1 .. Len(list)
  OBVIOUS
<1>2. f.ver # f.vertex => \E i \in DOMAIN list : list[i] = f.ver
  BY DEF Range
<1>3. f.ver # f.vertex => pos \in DOMAIN list
  BY <1>2
<1>4. at \in 0 .. Len(list)
  <2> HIDE DEF pos, list
  <2> QED
    BY <1>1, <1>3
<1>5. NextOf(f) = IF at < Len(list) THEN list[at + 1] ELSE None
  BY DEF NextOf
<1> HIDE DEF at
<1>6. at < Len(list) => at + 1 \in DOMAIN list
  BY <1>1, <1>4
<1> QED
  BY <1>5, <1>6 DEF Range

-----------------------------------------------------------------------------
(* The invariant, part by part.                                            *)

LEMMA InitIInv == Init => IInv
<1> SUFFICES ASSUME Init PROVE IInv
  OBVIOUS
<1> USE DetectorAssumption
<1>1. Hooks
  BY DEF Init, Hooks
<1>2. Tables
  BY DEF Init, Tables, TablesAreSound, IsInjective, Range
<1>3. visited \subseteq Nat
  BY FS_CardinalityType DEF Init
<1>4. frames = <<>> /\ step = "sleep" /\ root = 0 /\ deadlock = FALSE /\ quiet = FALSE
  BY DEF Init
<1>5. SearchType
  <2>1. frames \in Seq(FrameType)
    BY <1>4
  <2> QED
    BY <1>3, <1>4, <2>1 DEF SearchType
<1>6. Search
  BY <1>4, <1>5 DEF Search, Searching, Marked, Pointers, PathFits
<1> QED
  BY <1>1, <1>2, <1>6 DEF IInv

LEMMA HooksStep == Hooks /\ [Next]_vars => Hooks'
<1> SUFFICES ASSUME Hooks, [Next]_vars PROVE Hooks'
  OBVIOUS
<1> USE DetectorAssumption
<1>1. ASSUME NEW t \in Threads, NEW l \in Locks, lock_before(t, l)
      PROVE  Hooks'
  BY <1>1 DEF Hooks, lock_before, Running
<1>2. ASSUME NEW t \in Threads, NEW l \in Locks, Release(t, l)
      PROVE  Hooks'
  BY <1>2 DEF Hooks, Release, Running
<1>3. ASSUME NEW t \in Threads, Acquire(t)
      PROVE  Hooks'
  BY <1>3 DEF Hooks, Acquire
<1>4. ASSUME NEW t \in Threads, lock_after(t)
      PROVE  Hooks'
  BY <1>4 DEF Hooks, lock_after
<1>5. ASSUME NEW t \in Threads, unlock_after(t)
      PROVE  Hooks'
  BY <1>5 DEF Hooks, unlock_after
<1>6. CASE Detector
  BY <1>6 DEF Hooks, Detector, Wake, Root, Test, Take, Advance, program
<1>7. CASE UNCHANGED vars
  BY <1>7 DEF Hooks, vars, program
<1> QED
  BY <1>1, <1>2, <1>3, <1>4, <1>5, <1>6, <1>7 DEF Next, Wild

\* A list with no targets is empty.
LEMMA EmptyRange ==
  ASSUME NEW S, NEW s \in Seq(S)
  PROVE  Range(s) = {} <=> s = <<>>
<1>1. DOMAIN s = 1 .. Len(s) /\ Len(s) \in Nat
  OBVIOUS
<1>2. CASE s = <<>>
  BY <1>2 DEF Range
<1>3. CASE s # <<>>
  <2>1. Len(s) > 0
    BY <1>3
  <2>2. s[1] \in Range(s)
    BY <1>1, <2>1 DEF Range
  <2> QED
    BY <1>3, <2>2
<1> QED
  BY <1>2, <1>3

\* One entry of a table replaced by another.
LEMMA Replace ==
  ASSUME NEW s \in Seq(Entry), NEW idx \in DOMAIN s, NEW e \in Entry
  PROVE  /\ [s EXCEPT ![idx] = e] \in Seq(Entry)
         /\ DOMAIN [s EXCEPT ![idx] = e] = DOMAIN s
         /\ [s EXCEPT ![idx] = e][idx] = e
         /\ \A i \in DOMAIN s : i # idx => [s EXCEPT ![idx] = e][i] = s[i]
  OBVIOUS

\* What the table says of a lock that is in it.
LEMMA Holder ==
  ASSUME Tables, NEW l \in Locks, search_lock(l) # 0
  PROVE  /\ search_lock(l) \in DOMAIN lock_list
         /\ lock_list[search_lock(l)].th_id \in Threads
<1>1. lock_list \in Seq(Entry)
  BY DEF Tables
<1>2. search_lock(l) \in DOMAIN lock_list
  BY <1>1, SearchLock
<1>3. lock_list[search_lock(l)].lock_id = l /\ l # None
  BY <1>1, SearchLock, DetectorAssumption
<1> QED
  BY <1>2, <1>3 DEF Tables

\* A table in which an entry keeps its lock and names a thread is still sound.
LEMMA SameLocks ==
  ASSUME Tables, UNCHANGED graph, lock_list' \in Seq(Entry),
         DOMAIN lock_list' = DOMAIN lock_list,
         \A i \in DOMAIN lock_list :
           \/ lock_list'[i].lock_id = None
           \/ /\ lock_list'[i].lock_id = lock_list[i].lock_id
              /\ lock_list'[i].th_id \in Threads \/ lock_list[i] = lock_list'[i]
  PROVE  Tables'
<1>1. \A i \in DOMAIN lock_list' :
        lock_list'[i].lock_id # None => lock_list'[i].th_id \in Threads
  BY DEF Tables
<1>2. \A i, j \in DOMAIN lock_list' :
        lock_list'[i].lock_id = lock_list'[j].lock_id =>
          i = j \/ lock_list'[i].lock_id = None
  BY DEF Tables, TablesAreSound
<1> QED
  BY <1>1, <1>2 DEF Tables, TablesAreSound, graph

\* The graph lock_before makes is sound.
LEMMA GrownGraph ==
  ASSUME Tables, NEW t \in Threads, NEW holder \in Threads,
         vertex_list' = add_vertex(add_vertex(vertex_list, t), holder),
         next' = IF verify_edge(t, holder) THEN next
                 ELSE [next EXCEPT ![t] = Append(@, holder)]
  PROVE  /\ vertex_list' \in Seq(Threads)
         /\ IsInjective(vertex_list')
         /\ \A i \in DOMAIN vertex_list :
              i \in DOMAIN vertex_list' /\ vertex_list'[i] = vertex_list[i]
         /\ next' \in [Threads -> Seq(Threads)]
         /\ \A x \in Threads :
              /\ IsInjective(next'[x])
              /\ Range(next[x]) \subseteq Range(next'[x])
              /\ Range(next'[x]) \subseteq Range(vertex_list') \ {x}
              /\ next'[x] # <<>> => x \in Range(vertex_list')
<1> DEFINE list == add_vertex(vertex_list, t)
<1>1. /\ vertex_list \in Seq(Threads) /\ IsInjective(vertex_list)
      /\ next \in [Threads -> Seq(Threads)]
      /\ \A x \in Threads : /\ IsInjective(next[x])
                            /\ Range(next[x]) \subseteq Range(vertex_list) \ {x}
                            /\ next[x] # <<>> => x \in Range(vertex_list)
  BY DEF Tables, TablesAreSound
<1>2. /\ list \in Seq(Threads) /\ IsInjective(list)
      /\ Range(list) = Range(vertex_list) \cup {t}
      /\ \A i \in DOMAIN vertex_list : i \in DOMAIN list /\ list[i] = vertex_list[i]
  BY <1>1, AddVertex
<1> HIDE DEF list
<1>3. vertex_list' = add_vertex(list, holder)
  BY DEF list
<1> DEFINE longer == add_vertex(list, holder)
<1>3a. list \in Seq(Threads) /\ IsInjective(list) /\ holder \in Threads
  BY <1>2
<1>3b. /\ longer \in Seq(Threads) /\ IsInjective(longer)
      /\ Range(longer) = Range(list) \cup {holder}
      /\ \A i \in DOMAIN list : i \in DOMAIN longer /\ longer[i] = list[i]
  BY ONLY <1>3a, AddVertex
<1> HIDE DEF longer
<1>3c. vertex_list' = longer
  BY <1>3 DEF longer
<1>4. /\ vertex_list' \in Seq(Threads) /\ IsInjective(vertex_list')
      /\ Range(vertex_list') = Range(list) \cup {holder}
      /\ \A i \in DOMAIN list : i \in DOMAIN vertex_list' /\ vertex_list'[i] = list[i]
  BY ONLY <1>3b, <1>3c
<1>5. Range(vertex_list') = Range(vertex_list) \cup {t, holder}
  BY <1>2, <1>4
<1>6. \A i \in DOMAIN vertex_list :
        i \in DOMAIN vertex_list' /\ vertex_list'[i] = vertex_list[i]
  BY <1>2, <1>4
<1>7. CASE verify_edge(t, holder)
  BY <1>1, <1>4, <1>5, <1>6, <1>7
<1>8. CASE ~ verify_edge(t, holder)
  <2>1. t # holder /\ holder \notin Range(next[t])
    BY <1>8 DEF verify_edge
  <2>2. /\ next' \in [Threads -> Seq(Threads)]
        /\ next'[t] = Append(next[t], holder)
        /\ \A x \in Threads \ {t} : next'[x] = next[x]
    BY <1>1, <1>8
  <2>3. IsInjective(next'[t]) /\ Range(next'[t]) = Range(next[t]) \cup {holder}
    BY <1>1, <2>1, <2>2, RangeAppend, InjectiveAppend
  <2>4. ASSUME NEW x \in Threads
        PROVE  /\ IsInjective(next'[x])
               /\ Range(next[x]) \subseteq Range(next'[x])
               /\ Range(next'[x]) \subseteq Range(vertex_list') \ {x}
               /\ next'[x] # <<>> => x \in Range(vertex_list')
    BY <1>1, <1>5, <2>1, <2>2, <2>3
  <2> QED
    BY <1>4, <1>6, <2>2, <2>4
<1> QED
  BY <1>7, <1>8

LEMMA TablesLockBefore ==
  ASSUME Tables, Hooks, NEW t \in Threads, NEW l \in Locks, lock_before(t, l)
  PROVE  Tables'
<1> DEFINE idx == search_lock(l)
           holder == lock_list[idx].th_id
<1>1. CASE idx = 0
  BY <1>1 DEF lock_before, graph, Tables, TablesAreSound
<1>2. CASE idx # 0
  <2>1. idx \in DOMAIN lock_list /\ holder \in Threads
    BY <1>2, Holder
  <2>2. /\ vertex_list' = add_vertex(add_vertex(vertex_list, t), holder)
        /\ lock_list' = [lock_list EXCEPT ![idx].degress = @ + 1]
        /\ next' = IF verify_edge(t, holder) THEN next
                   ELSE [next EXCEPT ![t] = Append(@, holder)]
    BY <1>2 DEF lock_before
  <2> HIDE DEF idx, holder
  <2>3. /\ vertex_list' \in Seq(Threads)
        /\ IsInjective(vertex_list')
        /\ next' \in [Threads -> Seq(Threads)]
        /\ \A x \in Threads :
             /\ IsInjective(next'[x])
             /\ Range(next'[x]) \subseteq Range(vertex_list') \ {x}
             /\ next'[x] # <<>> => x \in Range(vertex_list')
    BY <2>1, <2>2, GrownGraph
  <2>4. lock_list \in Seq(Entry)
    BY DEF Tables
  <2>5. /\ lock_list' \in Seq(Entry)
        /\ DOMAIN lock_list' = DOMAIN lock_list
        /\ \A i \in DOMAIN lock_list :
             lock_list'[i].lock_id = lock_list[i].lock_id
             /\ lock_list'[i].th_id = lock_list[i].th_id
    <3> DEFINE e == [lock_list[idx] EXCEPT !.degress = @ + 1]
    <3>1. lock_list[idx] \in Entry
      BY <2>1, <2>4
    <3>2. /\ e \in Entry
          /\ e.lock_id = lock_list[idx].lock_id
          /\ e.th_id = lock_list[idx].th_id
      BY <3>1 DEF Entry
    <3>3. lock_list' = [lock_list EXCEPT ![idx] = e]
      BY <2>1, <2>2
    <3> HIDE DEF e
    <3> QED
      BY <2>1, <2>4, <3>2, <3>3, Replace
  <2>6. \A i \in DOMAIN lock_list' :
          lock_list'[i].lock_id # None => lock_list'[i].th_id \in Threads
    BY <2>5 DEF Tables
  <2>7. \A i, j \in DOMAIN lock_list' :
          lock_list'[i].lock_id = lock_list'[j].lock_id =>
            i = j \/ lock_list'[i].lock_id = None
    BY <2>5 DEF Tables, TablesAreSound
  <2> QED
    BY <2>3, <2>5, <2>6, <2>7 DEF Tables, TablesAreSound
<1> QED
  BY <1>1, <1>2

\* The graph lock_after leaves is sound, and only the edge to the thread the
\* table named is gone.
LEMMA ShrunkGraph ==
  ASSUME Tables, NEW t \in Threads, NEW holder,
         vertex_list' = vertex_list,
         next' = IF holder # t THEN remove_edge(t, holder) ELSE next
  PROVE  /\ next' \in [Threads -> Seq(Threads)]
         /\ \A x \in Threads :
              /\ IsInjective(next'[x])
              /\ Range(next'[x]) \subseteq Range(vertex_list') \ {x}
              /\ next'[x] # <<>> => x \in Range(vertex_list')
         /\ \A x \in Threads : x # t => next'[x] = next[x]
         /\ Range(next[t]) \subseteq Range(next'[t]) \cup {holder}
         /\ holder = t => next' = next
<1>1. /\ vertex_list \in Seq(Threads)
      /\ next \in [Threads -> Seq(Threads)]
      /\ \A x \in Threads : /\ IsInjective(next[x])
                            /\ Range(next[x]) \subseteq Range(vertex_list) \ {x}
                            /\ next[x] # <<>> => x \in Range(vertex_list)
  BY DEF Tables, TablesAreSound
<1>2. CASE holder = t
  BY <1>1, <1>2
<1>3. CASE holder # t
  <2>1. /\ next' \in [Threads -> Seq(Threads)]
        /\ \A x \in Threads \ {t} : next'[x] = next[x]
        /\ IsInjective(next'[t])
        /\ Range(next'[t]) = Range(next[t]) \ {holder}
    BY <1>1, <1>3, RemoveEdge
  <2>2. next'[t] # <<>> => t \in Range(vertex_list)
    <3>1. next[t] \in Seq(Threads) /\ next'[t] \in Seq(Threads)
      BY <1>1, <2>1
    <3>2. next[t] = <<>> => Range(next'[t]) = {}
      BY <2>1, <3>1, EmptyRange
    <3> QED
      BY <1>1, <3>1, <3>2, EmptyRange
  <2> QED
    BY <1>1, <1>3, <2>1, <2>2
<1> QED
  BY <1>2, <1>3

\* A lock that has no entry gets exactly one.
LEMMA NewEntryTable ==
  ASSUME Tables, junk \in {0, 1}, NEW t \in Threads, NEW l \in Locks,
         search_lock(l) = 0
  PROVE  LET new == NewEntry(t, l)
         IN  /\ new \in Seq(Entry)
             /\ \A i \in DOMAIN new :
                  new[i].lock_id # None => new[i].th_id \in Threads
             /\ \A i, j \in DOMAIN new :
                  new[i].lock_id = new[j].lock_id =>
                    i = j \/ new[i].lock_id = None
<1> DEFINE new == NewEntry(t, l)
           idx == search_lock(None)
<1>1. /\ lock_list \in Seq(Entry)
      /\ \A i \in DOMAIN lock_list :
           lock_list[i].lock_id # None => lock_list[i].th_id \in Threads
      /\ \A i, j \in DOMAIN lock_list :
           lock_list[i].lock_id = lock_list[j].lock_id =>
             i = j \/ lock_list[i].lock_id = None
  BY DEF Tables, TablesAreSound
<1>2. \A i \in DOMAIN lock_list : lock_list[i].lock_id # l
  BY <1>1, SearchLock
<1>3. CASE idx # 0
  <2> DEFINE e == [lock_list[idx] EXCEPT !.th_id = t, !.lock_id = l]
  <2>1. idx \in DOMAIN lock_list
    BY <1>1, <1>3, SearchLock
  <2>2. e \in Entry /\ e.th_id = t /\ e.lock_id = l
    <3>1. lock_list[idx] \in Entry
      BY <1>1, <2>1
    <3> QED
      BY <3>1 DEF Entry
  <2>3. new = [lock_list EXCEPT ![idx] = e]
    BY <1>1, <1>3, <2>1 DEF NewEntry
  <2> HIDE DEF e, idx, new
  <2>4. /\ new \in Seq(Entry) /\ DOMAIN new = DOMAIN lock_list
        /\ new[idx] = e
        /\ \A i \in DOMAIN lock_list : i # idx => new[i] = lock_list[i]
    BY <1>1, <2>1, <2>2, <2>3, Replace
  <2>5. /\ \A i \in DOMAIN new :
             new[i].lock_id # None => new[i].th_id \in Threads
        /\ \A i, j \in DOMAIN new :
             new[i].lock_id = new[j].lock_id => i = j \/ new[i].lock_id = None
    BY <1>1, <1>2, <2>1, <2>2, <2>4
  <2> QED
    BY <2>4, <2>5 DEF new
<1>4. CASE idx = 0
  <2> DEFINE e == [th_id |-> t, lock_id |-> l, degress |-> junk]
  <2>1. e \in Entry /\ e.th_id = t /\ e.lock_id = l
    BY DEF Entry
  <2>2. new = Append(lock_list, e)
    BY <1>4 DEF NewEntry
  <2> HIDE DEF e, idx, new
  <2>3. /\ new \in Seq(Entry)
        /\ DOMAIN new = 1 .. Len(lock_list) + 1
        /\ DOMAIN lock_list = 1 .. Len(lock_list)
        /\ new[Len(lock_list) + 1] = e
        /\ \A i \in DOMAIN lock_list : new[i] = lock_list[i]
    BY <1>1, <2>1, <2>2
  <2>4. \A i \in DOMAIN new : i = Len(lock_list) + 1 \/ i \in DOMAIN lock_list
    BY <1>1, <2>3
  <2>5. /\ \A i \in DOMAIN new :
             new[i].lock_id # None => new[i].th_id \in Threads
        /\ \A i, j \in DOMAIN new :
             new[i].lock_id = new[j].lock_id => i = j \/ new[i].lock_id = None
    BY <1>1, <1>2, <2>1, <2>3, <2>4
  <2> QED
    BY <2>3, <2>5 DEF new
<1> QED
  BY <1>3, <1>4

LEMMA TablesLockAfter ==
  ASSUME Tables, Hooks, NEW t \in Threads, lock_after(t)
  PROVE  Tables'
<1> DEFINE idx == search_lock(arg[t])
           holder == lock_list[idx].th_id
<1>1. arg[t] \in Locks
  BY DEF lock_after, Hooks
<1>2. CASE idx = 0
  <2>1. UNCHANGED graph /\ lock_list' = NewEntry(t, arg[t])
    BY <1>2 DEF lock_after
  <2>2. junk \in {0, 1}
    BY DEF Hooks
  <2>3. /\ lock_list' \in Seq(Entry)
        /\ \A i \in DOMAIN lock_list' :
             lock_list'[i].lock_id # None => lock_list'[i].th_id \in Threads
        /\ \A i, j \in DOMAIN lock_list' :
             lock_list'[i].lock_id = lock_list'[j].lock_id =>
               i = j \/ lock_list'[i].lock_id = None
    BY <1>1, <1>2, <2>1, <2>2, NewEntryTable
  <2> QED
    BY <2>1, <2>3 DEF Tables, TablesAreSound, graph
<1>3. CASE idx # 0
  <2> DEFINE e == [lock_list[idx] EXCEPT !.degress = @ - 1, !.th_id = t]
  <2>1. lock_list \in Seq(Entry) /\ idx \in DOMAIN lock_list
    BY <1>1, <1>3, Holder DEF Tables
  <2>2. e \in Entry /\ e.lock_id = lock_list[idx].lock_id /\ e.th_id = t
    <3> DEFINE old == lock_list[idx]
    <3>1. old \in Entry
      BY <2>1
    <3> HIDE DEF old
    <3> DEFINE d == old.degress - 1
    <3>2. d \in Int
      BY <3>1 DEF Entry
    <3>3. e = [old EXCEPT !.degress = d, !.th_id = t]
      BY DEF old
    <3> HIDE DEF d, e
    <3>4. e \in Entry /\ e.lock_id = old.lock_id /\ e.th_id = t
      BY <3>1, <3>2, <3>3 DEF Entry
    <3> QED
      BY <3>4 DEF old
  <2>3. /\ vertex_list' = vertex_list
        /\ next' = IF holder # t THEN remove_edge(t, holder) ELSE next
        /\ lock_list' = [lock_list EXCEPT ![idx] = e]
    BY <1>3, <2>1 DEF lock_after
  <2> HIDE DEF e, idx, holder
  <2>4. /\ lock_list' \in Seq(Entry) /\ DOMAIN lock_list' = DOMAIN lock_list
        /\ lock_list'[idx] = e
        /\ \A i \in DOMAIN lock_list : i # idx => lock_list'[i] = lock_list[i]
    BY <2>1, <2>2, <2>3, Replace
  <2>5. \A i \in DOMAIN lock_list : lock_list'[i].lock_id = lock_list[i].lock_id
    BY <2>2, <2>4
  <2>6. \A i \in DOMAIN lock_list' :
          lock_list'[i].lock_id # None => lock_list'[i].th_id \in Threads
    BY <2>2, <2>4 DEF Tables
  <2>7. \A i, j \in DOMAIN lock_list' :
          lock_list'[i].lock_id = lock_list'[j].lock_id =>
            i = j \/ lock_list'[i].lock_id = None
    BY <2>4, <2>5 DEF Tables, TablesAreSound
  <2>8. /\ next' \in [Threads -> Seq(Threads)]
        /\ \A x \in Threads :
              /\ IsInjective(next'[x])
              /\ Range(next'[x]) \subseteq Range(vertex_list') \ {x}
              /\ next'[x] # <<>> => x \in Range(vertex_list')
    BY <2>3, ShrunkGraph
  <2>9. vertex_list' \in Seq(Threads) /\ IsInjective(vertex_list')
    BY <2>3 DEF Tables, TablesAreSound
  <2> QED
    BY <2>4, <2>6, <2>7, <2>8, <2>9 DEF Tables, TablesAreSound
<1> QED
  BY <1>2, <1>3

LEMMA TablesUnlockAfter ==
  ASSUME Tables, Hooks, NEW t \in Threads, unlock_after(t)
  PROVE  Tables'
<1> DEFINE idx == search_lock(arg[t])
<1>1. arg[t] \in Locks /\ UNCHANGED graph
  BY DEF unlock_after, Hooks
<1>2. CASE idx # 0 /\ lock_list[idx].degress = 0
  <2> DEFINE e == [lock_list[idx] EXCEPT !.th_id = None, !.lock_id = None]
  <2>1. lock_list \in Seq(Entry) /\ idx \in DOMAIN lock_list
    BY <1>1, <1>2, Holder DEF Tables
  <2>2. e \in Entry /\ e.lock_id = None
    <3>1. lock_list[idx] \in Entry
      BY <2>1
    <3> QED
      BY <3>1 DEF Entry
  <2>3. lock_list' = [lock_list EXCEPT ![idx] = e]
    BY <1>2, <2>1 DEF unlock_after
  <2> HIDE DEF e, idx
  <2>4. /\ lock_list' \in Seq(Entry) /\ DOMAIN lock_list' = DOMAIN lock_list
        /\ lock_list'[idx] = e
        /\ \A i \in DOMAIN lock_list : i # idx => lock_list'[i] = lock_list[i]
    BY <2>1, <2>2, <2>3, Replace
  <2> QED
    BY <1>1, <2>2, <2>4, SameLocks
<1>3. CASE ~ (idx # 0 /\ lock_list[idx].degress = 0)
  <2>1. lock_list' = lock_list
    BY <1>3 DEF unlock_after
  <2> QED
    BY <1>1, <2>1 DEF Tables, TablesAreSound, graph
<1> QED
  BY <1>2, <1>3

LEMMA TablesStep == Tables /\ Hooks /\ [Next]_vars => Tables'
<1> SUFFICES ASSUME Tables, Hooks, [Next]_vars PROVE Tables'
  OBVIOUS
<1>1. ASSUME UNCHANGED <<graph, lock_list>>
      PROVE  Tables'
  BY <1>1 DEF Tables, TablesAreSound, graph
<1>2. CASE \E t \in Threads, l \in Locks : Release(t, l)
  BY <1>1, <1>2 DEF Release
<1>3. CASE \E t \in Threads : Acquire(t)
  BY <1>1, <1>3 DEF Acquire
<1>4. CASE Detector
  BY <1>1, <1>4 DEF Detector, Wake, Root, Test, Take, Advance
<1>5. CASE UNCHANGED vars
  BY <1>1, <1>5 DEF vars
<1> QED
  BY <1>2, <1>3, <1>4, <1>5, TablesLockBefore, TablesLockAfter, TablesUnlockAfter
     DEF Next, Wild

-----------------------------------------------------------------------------
(* The search.                                                             *)

LEMMA Frames ==
  ASSUME Search
  PROVE  /\ frames \in Seq(FrameType)
         /\ \A i \in DOMAIN frames : /\ frames[i] \in FrameType
                                    /\ frames[i].vertex \in Threads
                                    /\ frames[i].ver \in Threads
<1>1. frames \in Seq(FrameType)
  BY DEF Search, SearchType
<1>2. \A i \in DOMAIN frames : frames[i] \in FrameType
  BY <1>1
<1> QED
  BY <1>1, <1>2 DEF FrameType

\* A graph that has only grown does not disturb the search.
LEMMA SearchGrowth ==
  ASSUME Search, UNCHANGED search, quiet' \in BOOLEAN,
         \A i \in DOMAIN vertex_list :
           i \in DOMAIN vertex_list' /\ vertex_list'[i] = vertex_list[i],
         \A x \in Threads : Range(next[x]) \subseteq Range(next'[x])
  PROVE  Search'
<1>1. /\ step' = step /\ root' = root /\ frames' = frames
      /\ visited' = visited /\ deadlock' = deadlock
  BY DEF search
<1>2. SearchType'
  BY <1>1 DEF Search, SearchType
<1>3. Searching'
  BY <1>1 DEF Search, Searching
<1>4. Marked'
  BY <1>1 DEF Search, Marked
<1>5. \A i \in DOMAIN frames : frames[i].vertex \in Threads
  BY Frames
<1>6. Pointers'
  BY <1>1, <1>5 DEF Search, Pointers
<1>7. PathFits'
  BY <1>1 DEF Search, PathFits
<1> QED
  BY <1>2, <1>3, <1>4, <1>6, <1>7 DEF Search

LEMMA SearchLockBefore ==
  ASSUME Tables, Search, NEW t \in Threads, NEW l \in Locks, lock_before(t, l)
  PROVE  Search'
<1> DEFINE idx == search_lock(l)
           holder == lock_list[idx].th_id
<1>1. UNCHANGED search
  BY DEF lock_before
<1>2. quiet' \in BOOLEAN
  <2>1. quiet' = (quiet /\ UNCHANGED graph)
    BY DEF lock_before, Watch
  <2> QED
    BY <2>1
<1>3. CASE idx = 0
  <2>1. UNCHANGED <<vertex_list, next>>
    BY <1>3 DEF lock_before, graph
  <2> QED
    BY <1>1, <1>2, <2>1, SearchGrowth
<1>4. CASE idx # 0
  <2>1. holder \in Threads
    BY <1>4, Holder
  <2>2. /\ vertex_list' = add_vertex(add_vertex(vertex_list, t), holder)
        /\ next' = IF verify_edge(t, holder) THEN next
                   ELSE [next EXCEPT ![t] = Append(@, holder)]
    BY <1>4 DEF lock_before
  <2> HIDE DEF holder
  <2>3. /\ \A i \in DOMAIN vertex_list :
             i \in DOMAIN vertex_list' /\ vertex_list'[i] = vertex_list[i]
        /\ \A x \in Threads : Range(next[x]) \subseteq Range(next'[x])
    BY <2>1, <2>2, GrownGraph
  <2> QED
    BY <1>1, <1>2, <2>3, SearchGrowth
<1> QED
  BY <1>3, <1>4

\* Where lock_after frees a node the detector points at, the detector is wild.
LEMMA SearchLockAfter ==
  ASSUME Tables, Search, NEW t \in Threads, lock_after(t)
  PROVE  Search'
<1> DEFINE idx == search_lock(arg[t])
           holder == lock_list[idx].th_id
<1>1. UNCHANGED <<root, frames, visited, deadlock>>
  BY DEF lock_after
<1>2. quiet' \in BOOLEAN
  <2>1. quiet' = (quiet /\ UNCHANGED graph)
    BY DEF lock_after, Watch
  <2> QED
    BY <2>1
<1>3. CASE idx = 0
  <2>1. UNCHANGED <<vertex_list, next>> /\ UNCHANGED step
    BY <1>3 DEF lock_after, graph
  <2>2. UNCHANGED search
    BY <1>1, <2>1 DEF search
  <2> QED
    BY <1>2, <2>1, <2>2, SearchGrowth
<1>4. CASE idx # 0
  <2>1. /\ vertex_list' = vertex_list
        /\ next' = IF holder # t THEN remove_edge(t, holder) ELSE next
        /\ step' = IF PointedAt(t, holder) /\ holder # t THEN "wild" ELSE step
    BY <1>4 DEF lock_after
  <2> HIDE DEF holder
  <2>2. /\ \A x \in Threads : x # t => next'[x] = next[x]
        /\ Range(next[t]) \subseteq Range(next'[t]) \cup {holder}
        /\ holder = t => next' = next
    BY <2>1, ShrunkGraph
  <2>3. SearchType'
    BY <1>1, <1>2, <2>1 DEF Search, SearchType
  <2>4. Searching'
    BY <1>1, <2>1 DEF Search, Searching
  <2>5. Marked' /\ PathFits'
    BY <1>1, <2>1 DEF Search, Marked, PathFits
  <2>6. Pointers'
    <3> SUFFICES ASSUME step' # "wild", NEW i \in DOMAIN frames,
                        frames[i].ver # frames[i].vertex
                 PROVE  frames[i].ver \in Range(next'[frames[i].vertex])
      BY <1>1 DEF Pointers
    <3>1. step # "wild" /\ ~ (PointedAt(t, holder) /\ holder # t)
      BY <2>1
    <3>2. frames[i] \in FrameType /\ frames[i].ver \in Range(next[frames[i].vertex])
      BY <3>1, Frames DEF Search, Pointers
    <3>3. CASE frames[i].vertex # t \/ holder = t
      BY <3>2, <3>3, <2>2 DEF FrameType
    <3>4. CASE frames[i].vertex = t /\ holder # t
      <4>1. frames[i].ver # holder
        BY <3>1, <3>2, <3>4 DEF PointedAt, FrameType
      <4> QED
        BY <4>1, <3>2, <3>4, <2>2
    <3> QED
      BY <3>3, <3>4
  <2> QED
    BY <2>3, <2>4, <2>5, <2>6 DEF Search
<1> QED
  BY <1>3, <1>4

LEMMA SearchWake ==
  ASSUME Search, Wake
  PROVE  Search'
<1>1. /\ step' = "root" /\ root' = 1 /\ deadlock' = FALSE /\ quiet' = TRUE
      /\ frames' = frames /\ visited' = visited /\ frames = <<>>
  BY DEF Wake, Search, Searching
<1>2. SearchType'
  BY <1>1 DEF Search, SearchType
<1>3. Searching' /\ Marked' /\ Pointers' /\ PathFits'
  BY <1>1 DEF Searching, Marked, Pointers, PathFits
<1> QED
  BY <1>2, <1>3 DEF Search

LEMMA SearchRoot ==
  ASSUME Tables, Search, Root
  PROVE  Search'
<1>1. /\ vertex_list' = vertex_list /\ next' = next
      /\ deadlock' = deadlock /\ quiet' = quiet
      /\ step = "root" /\ frames = <<>> /\ root \in Nat /\ root # 0
      /\ visited \subseteq Nat
  BY DEF Root, graph, Search, Searching, SearchType
<1>2. CASE root > Len(vertex_list) \/ deadlock
  <2>1. /\ step' = "sleep" /\ root' = 0 /\ frames' = <<>>
        /\ visited' \subseteq Nat
    BY <1>1, <1>2 DEF Root
  <2>2. SearchType'
    BY <1>1, <2>1 DEF Search, SearchType
  <2>3. Searching' /\ Marked' /\ Pointers' /\ PathFits'
    BY <2>1 DEF Searching, Marked, Pointers, PathFits
  <2> QED
    BY <2>2, <2>3 DEF Search
<1>3. CASE ~ (root > Len(vertex_list) \/ deadlock)
  <2> DEFINE v == vertex_list[root]
             f == [vertex |-> v, ver |-> v]
  <2>1. /\ frames' = <<f>> /\ visited' = visited \cup {root}
        /\ step' = "test" /\ root' = root
    BY <1>3 DEF Root
  <2>2. vertex_list \in Seq(Threads)
    BY DEF Tables
  <2>3. root \in DOMAIN vertex_list /\ v \in Threads
    BY <1>1, <1>3, <2>2
  <2>4. f \in FrameType /\ f.vertex = v /\ f.ver = v
    BY <2>3 DEF FrameType
  <2> HIDE DEF f
  <2>5. /\ frames' \in Seq(FrameType) /\ frames' # <<>>
        /\ DOMAIN frames' = {1} /\ frames'[1] = f
    BY <2>1, <2>4
  <2>6. SearchType'
    BY <1>1, <2>1, <2>5 DEF Search, SearchType
  <2>7. Searching'
    BY <1>1, <2>1, <2>3, <2>4, <2>5 DEF Searching
  <2>8. Marked'
    BY <1>1, <2>1, <2>3, <2>4, <2>5 DEF Marked
  <2>9. Pointers'
    BY <2>4, <2>5 DEF Pointers
  <2>10. PathFits'
    BY <2>5 DEF PathFits
  <2> QED
    BY <2>6, <2>7, <2>8, <2>9, <2>10 DEF Search
<1> QED
  BY <1>2, <1>3

\* The top frame of a search that goes on, and what is left without it.
LEMMA TopFrame ==
  ASSUME Search, step \in {"test", "take", "advance"}
  PROVE  /\ Len(frames) \in Nat /\ Len(frames) >= 1
         /\ DOMAIN frames = 1 .. Len(frames)
         /\ Top \in FrameType /\ Top = frames[Len(frames)]
         /\ Top.ver = Top.vertex \/ Top.ver \in Range(next[Top.vertex])
         /\ PopFrame \in Seq(FrameType)
         /\ Len(PopFrame) = Len(frames) - 1
         /\ \A i \in 1 .. Len(frames) - 1 : PopFrame[i] = frames[i]
<1>1. frames \in Seq(FrameType) /\ frames # <<>>
  BY Frames DEF Search, Searching
<1>2. Len(frames) \in Nat /\ Len(frames) >= 1 /\ DOMAIN frames = 1 .. Len(frames)
  BY <1>1
<1>3. Top \in FrameType /\ Top = frames[Len(frames)]
  BY <1>1, <1>2 DEF Top
<1>4. Top.ver = Top.vertex \/ Top.ver \in Range(next[Top.vertex])
  BY <1>2, <1>3 DEF Search, Pointers
<1>5. /\ PopFrame \in Seq(FrameType)
      /\ Len(PopFrame) = Len(frames) - 1
      /\ \A i \in 1 .. Len(frames) - 1 : PopFrame[i] = frames[i]
  BY <1>1, <1>2 DEF PopFrame
<1> QED
  BY <1>2, <1>3, <1>4, <1>5

LEMMA SearchTest ==
  ASSUME Tables, Search, Test
  PROVE  Search'
<1>1. /\ vertex_list' = vertex_list /\ next' = next
      /\ deadlock' = deadlock /\ quiet' = quiet /\ step = "test"
  BY DEF Test, graph
<1>2. /\ root \in DOMAIN vertex_list /\ root \in Nat
      /\ frames[1].vertex = vertex_list[root] /\ frames \in Seq(FrameType)
      /\ visited \subseteq Nat
      /\ Len(frames) \in Nat /\ Len(frames) >= 1 /\ DOMAIN frames = 1 .. Len(frames)
  BY <1>1, TopFrame DEF Search, Searching, SearchType
<1>3. CASE NextOf(Top) # None
  <2>1. /\ step' = "take" /\ root' = root /\ frames' = frames
        /\ visited' = IF Len(frames) = 1 THEN ClearedMarks ELSE visited
    BY <1>3 DEF Test
  <2>2. visited' \subseteq Nat
    BY <1>2, <2>1 DEF ClearedMarks
  <2>3. SearchType'
    BY <1>1, <2>1, <2>2 DEF Search, SearchType
  <2>4. Searching' /\ Pointers' /\ PathFits'
    BY <1>1, <2>1 DEF Search, Searching, Pointers, PathFits
  <2>5. Marked'
    <3>1. CASE Len(frames) = 1
      <4>1. root \in visited'
        BY <2>1, <3>1 DEF ClearedMarks
      <4>2. \A i \in DOMAIN frames : i = 1
        BY <1>2, <3>1
      <4> QED
        BY <1>1, <1>2, <2>1, <4>1, <4>2 DEF Marked
    <3>2. CASE Len(frames) # 1
      BY <1>1, <2>1, <3>2 DEF Search, Marked
    <3> QED
      BY <3>1, <3>2
  <2> QED
    BY <2>3, <2>4, <2>5 DEF Search
<1>4. CASE NextOf(Top) = None
  <2>1. /\ frames' = PopFrame /\ visited' = visited
        /\ IF Len(frames) = 1
             THEN step' = "root" /\ root' = root + 1
             ELSE step' = "advance" /\ root' = root
    BY <1>4 DEF Test
  <2>2. /\ frames' \in Seq(FrameType) /\ Len(frames') = Len(frames) - 1
        /\ \A i \in 1 .. Len(frames) - 1 : frames'[i] = frames[i]
    BY <1>1, <2>1, TopFrame
  <2>3. DOMAIN frames' = 1 .. Len(frames) - 1
    BY <1>2, <2>2
  <2>4. SearchType'
    BY <1>1, <1>2, <2>1, <2>2 DEF Search, SearchType
  <2>5. \A i \in DOMAIN frames' : i \in DOMAIN frames /\ frames'[i] = frames[i]
    BY <1>2, <2>2, <2>3
  <2>6. Marked' /\ Pointers' /\ PathFits'
    BY <1>1, <2>1, <2>5 DEF Search, Marked, Pointers, PathFits
  <2>7. Searching'
    <3>1. CASE Len(frames) = 1
      <4>1. frames' = <<>> /\ step' = "root" /\ root' # 0
        BY <1>2, <2>1, <2>2, <3>1
      <4> QED
        BY <4>1 DEF Searching
    <3>2. CASE Len(frames) # 1
      <4>1. frames' # <<>> /\ frames'[1] = frames[1]
        BY <1>2, <2>2, <3>2
      <4> QED
        BY <1>1, <1>2, <2>1, <3>2, <4>1 DEF Searching
    <3> QED
      BY <3>1, <3>2
  <2> QED
    BY <2>4, <2>6, <2>7 DEF Search
<1> QED
  BY <1>3, <1>4

\* The edge a search follows leads to a known thread.
LEMMA NextVertex ==
  ASSUME Tables, Search, step \in {"test", "take", "advance"}, NextOf(Top) # None
  PROVE  /\ NextOf(Top) \in Threads
         /\ NextOf(Top) \in Range(next[Top.vertex])
         /\ NextOf(Top) \in Range(vertex_list)
<1>1. /\ Top \in [vertex : Threads, ver : Threads] /\ Top.vertex \in Threads
      /\ Top.ver = Top.vertex \/ Top.ver \in Range(next[Top.vertex])
  BY TopFrame DEF FrameType
<1>2. next \in [Threads -> Seq(Threads)] /\ vertex_list \in Seq(Threads)
  BY DEF Tables
<1> HIDE DEF Top
<1>3. NextOf(Top) \in Range(next[Top.vertex])
  BY <1>1, <1>2, NextOfEdge
<1>4. NextOf(Top) \in Range(vertex_list)
  BY <1>1, <1>3 DEF Tables, TablesAreSound
<1>5. NextOf(Top) \in Threads
  BY <1>2, <1>4 DEF Range
<1> QED
  BY <1>3, <1>4, <1>5

LEMMA SearchTake ==
  ASSUME Tables, Search, Take
  PROVE  Search'
<1> DEFINE v == NextOf(Top)
           idx == search_vertex(v)
<1>1. /\ vertex_list' = vertex_list /\ next' = next
      /\ root' = root /\ quiet' = quiet /\ step = "take"
  BY DEF Take, graph
<1>2. CASE v = None
  <2>1. /\ step' = "wild" /\ frames' = frames /\ visited' = visited
        /\ deadlock' = deadlock
    BY <1>2 DEF Take
  <2>2. SearchType'
    BY <1>1, <2>1 DEF Search, SearchType
  <2>3. Searching' /\ Marked' /\ Pointers' /\ PathFits'
    BY <1>1, <2>1 DEF Search, Searching, Marked, Pointers, PathFits
  <2> QED
    BY <2>2, <2>3 DEF Search
<1>3. CASE v # None
  <2>1. DFS(v)
    BY <1>3 DEF Take
  <2>2. v \in Threads /\ v \in Range(vertex_list)
    BY <1>1, <1>3, NextVertex
  <2>3. vertex_list \in Seq(Threads) /\ IsInjective(vertex_list)
    BY DEF Tables, TablesAreSound
  <2> HIDE DEF v
  <2>4. idx \in DOMAIN vertex_list /\ vertex_list[idx] = v /\ idx \in Nat
    BY <2>2, <2>3, SearchVertex
  <2>5. CASE idx \in visited
    <3>1. /\ deadlock' = TRUE /\ step' = "advance"
          /\ frames' = frames /\ visited' = visited
      BY <2>1, <2>5 DEF DFS
    <3>2. SearchType'
      BY <1>1, <3>1 DEF Search, SearchType
    <3>3. Searching' /\ Marked' /\ Pointers' /\ PathFits'
      BY <1>1, <3>1 DEF Search, Searching, Marked, Pointers, PathFits
    <3> QED
      BY <3>2, <3>3 DEF Search
  <2>6. CASE idx \notin visited
    <3> DEFINE f == [vertex |-> v, ver |-> v]
    <3>1. /\ visited' = visited \cup {idx} /\ frames' = Append(frames, f)
          /\ step' = "test" /\ deadlock' = deadlock
      BY <2>1, <2>6 DEF DFS
    <3>2. f \in FrameType /\ f.vertex = v /\ f.ver = v
      BY <2>2 DEF FrameType
    <3> HIDE DEF f, idx
    <3>3. /\ frames \in Seq(FrameType) /\ frames # <<>>
          /\ Len(frames) \in Nat /\ DOMAIN frames = 1 .. Len(frames)
          /\ visited \subseteq Nat
      BY <1>1, Frames, TopFrame DEF Search, SearchType, Searching
    <3>4. /\ frames' \in Seq(FrameType) /\ frames' # <<>>
          /\ DOMAIN frames' = 1 .. Len(frames) + 1
          /\ frames'[Len(frames) + 1] = f
          /\ \A i \in DOMAIN frames : frames'[i] = frames[i]
      BY <3>1, <3>2, <3>3
    <3>5. \A i \in DOMAIN frames' : i \in DOMAIN frames \/ i = Len(frames) + 1
      BY <3>3, <3>4
    <3>6. SearchType'
      BY <1>1, <2>4, <3>1, <3>3, <3>4 DEF Search, SearchType
    <3>7. Searching'
      <4>1. 1 \in DOMAIN frames
        BY <3>3
      <4>2. frames'[1] = frames[1]
        BY <3>4, <4>1
      <4> QED
        BY <1>1, <3>1, <3>4, <4>2 DEF Search, Searching
    <3>8. Marked'
      <4> SUFFICES ASSUME NEW i \in DOMAIN frames'
                   PROVE  \E j \in DOMAIN vertex_list :
                            j \in visited' /\ vertex_list[j] = frames'[i].vertex
        BY <1>1 DEF Marked
      <4>1. CASE i \in DOMAIN frames
        BY <3>1, <3>4, <4>1 DEF Search, Marked
      <4>2. CASE i = Len(frames) + 1
        BY <2>4, <3>1, <3>2, <3>4, <4>2
      <4> QED
        BY <4>1, <4>2, <3>5
    <3>9. Pointers'
      BY <1>1, <3>1, <3>2, <3>4, <3>5 DEF Search, Pointers
    <3>10. \A i \in DOMAIN frames : frames[i].vertex # v
      <4> TAKE i \in DOMAIN frames
      <4>1. PICK j \in DOMAIN vertex_list :
              j \in visited /\ vertex_list[j] = frames[i].vertex
        BY DEF Search, Marked
      <4> QED
        BY <4>1, <2>3, <2>4, <2>6 DEF IsInjective
    <3>11. PathFits'
      BY <3>2, <3>4, <3>5, <3>10 DEF Search, PathFits
    <3> QED
      BY <3>6, <3>7, <3>8, <3>9, <3>11 DEF Search
  <2> QED
    BY <2>5, <2>6
<1> QED
  BY <1>2, <1>3

LEMMA SearchAdvance ==
  ASSUME Tables, Search, Advance
  PROVE  Search'
<1> DEFINE v == NextOf(Top)
           n == Len(frames)
<1>1. /\ vertex_list' = vertex_list /\ next' = next /\ deadlock' = deadlock
      /\ root' = root /\ quiet' = quiet /\ visited' = visited
      /\ step = "advance"
  BY DEF Advance, graph
<1>2. CASE v = None
  <2>1. step' = "wild" /\ frames' = frames
    BY <1>2 DEF Advance
  <2>2. SearchType'
    BY <1>1, <2>1 DEF Search, SearchType
  <2>3. Searching' /\ Marked' /\ Pointers' /\ PathFits'
    BY <1>1, <2>1 DEF Search, Searching, Marked, Pointers, PathFits
  <2> QED
    BY <2>2, <2>3 DEF Search
<1>3. CASE v # None
  <2>1. step' = "test" /\ frames' = [frames EXCEPT ![n].ver = v]
    BY <1>3 DEF Advance
  <2>2. v \in Threads /\ v \in Range(next[Top.vertex])
    BY <1>1, <1>3, NextVertex
  <2>3. /\ frames \in Seq(FrameType) /\ n \in DOMAIN frames
        /\ Top = frames[n] /\ frames[n] \in FrameType /\ frames # <<>>
    BY <1>1, Frames, TopFrame DEF Search, Searching
  <2> DEFINE f == [frames[n] EXCEPT !.ver = v]
  <2> HIDE DEF v, n
  <2>4. f \in FrameType /\ f.ver = v /\ f.vertex = Top.vertex
    BY <2>2, <2>3 DEF FrameType
  <2>5. frames' = [frames EXCEPT ![n] = f]
    BY <2>1, <2>3
  <2> HIDE DEF f
  <2>6. /\ frames' \in Seq(FrameType) /\ DOMAIN frames' = DOMAIN frames
        /\ frames'[n] = f
        /\ \A i \in DOMAIN frames : i # n => frames'[i] = frames[i]
    BY <2>3, <2>4, <2>5
  <2>7. \A i \in DOMAIN frames : frames'[i].vertex = frames[i].vertex
    BY <2>3, <2>4, <2>6
  <2>8. SearchType'
    BY <1>1, <2>1, <2>6 DEF Search, SearchType
  <2>9. Searching'
    <3>1. frames' # <<>> /\ 1 \in DOMAIN frames
      BY <2>3, <2>6
    <3> QED
      BY <1>1, <2>1, <2>7, <3>1 DEF Search, Searching
  <2>10. Marked' /\ PathFits'
    BY <1>1, <2>6, <2>7 DEF Search, Marked, PathFits
  <2>11. Pointers'
    BY <1>1, <2>1, <2>2, <2>4, <2>6, <2>7 DEF Search, Pointers
  <2> QED
    BY <2>8, <2>9, <2>10, <2>11 DEF Search
<1> QED
  BY <1>2, <1>3

LEMMA SearchStep == Tables /\ Search /\ [Next]_vars => Search'
<1> SUFFICES ASSUME Tables, Search, [Next]_vars PROVE Search'
  OBVIOUS
<1>1. ASSUME UNCHANGED <<graph, search, quiet>>
      PROVE  Search'
  BY <1>1 DEF graph, search, Search, SearchType, Searching, Marked, Pointers, PathFits
<1>2. CASE \E t \in Threads, l \in Locks : Release(t, l)
  BY <1>1, <1>2 DEF Release
<1>3. CASE \E t \in Threads : Acquire(t) \/ unlock_after(t)
  BY <1>1, <1>3 DEF Acquire, unlock_after
<1>4. CASE UNCHANGED vars
  BY <1>1, <1>4 DEF vars
<1> QED
  BY <1>2, <1>3, <1>4, SearchLockBefore, SearchLockAfter, SearchWake, SearchRoot,
     SearchTest, SearchTake, SearchAdvance DEF Next, Detector, Wild

-----------------------------------------------------------------------------
(* What the search knows, as long as the graph does not change.            *)

\* No cycle can be reached from t: t is in no set each of whose threads has
\* an edge into it.
Clean(t) == \A S \in SUBSET Threads : Cycle(S) => t \notin S

\* The frame f is at place k of the list of its vertex.
At(f, k) ==
  IF f.ver = f.vertex
    THEN k = 0
    ELSE k \in DOMAIN next[f.vertex] /\ next[f.vertex][k] = f.ver

Active == step \in {"test", "take", "advance"}

\* Each active call but the last was made for the edge its caller is at.
Chain ==
  Active /\ quiet => \A i \in DOMAIN frames : i + 1 \in DOMAIN frames =>
    \E k \in Nat : /\ At(frames[i], k)
                   /\ k + 1 \in DOMAIN next[frames[i].vertex]
                   /\ next[frames[i].vertex][k + 1] = frames[i + 1].vertex

\* Without a report, no cycle can be reached from the vertices whose turn is
\* over, nor along the edges that the active calls are done with.
RootsClean ==
  (step = "root" \/ Active) =>
    \A i \in DOMAIN vertex_list : i < root => Clean(vertex_list[i])
EdgesClean ==
  Active => \A i \in DOMAIN frames : \A k \in Nat : At(frames[i], k) =>
    \A j \in DOMAIN next[frames[i].vertex] :
      j <= k => Clean(next[frames[i].vertex][j])
ReturnClean ==
  step = "advance" => \A k \in Nat : At(Top, k) =>
    \A j \in DOMAIN next[Top.vertex] : j = k + 1 => Clean(next[Top.vertex][j])
AllClean == step = "sleep" => \A t \in Threads : Clean(t)

Explored ==
  quiet /\ ~ deadlock => RootsClean /\ EdgesClean /\ ReturnClean /\ AllClean

Seen == Chain /\ Explored

-----------------------------------------------------------------------------

\* A thread all of whose edges lead to clean threads is clean.
LEMMA CleanTargets ==
  ASSUME NEW t, \A u \in Range(next[t]) : Clean(u)
  PROVE  Clean(t)
<1> SUFFICES ASSUME NEW S \in SUBSET Threads, Cycle(S), t \in S
             PROVE  FALSE
  BY DEF Clean
<1>1. PICK u \in Range(next[t]) : u \in S
  BY DEF Cycle
<1> QED
  BY <1>1 DEF Clean

LEMMA SameClean ==
  ASSUME next' = next, NEW t
  PROVE  Clean(t)' <=> Clean(t)
BY DEF Clean, Cycle

LEMMA CleanMeansNone ==
  ASSUME \A t \in Threads : Clean(t)
  PROVE  ~ \E S \in SUBSET Threads : Cycle(S)
BY DEF Clean, Cycle

\* A frame is at one place of its list, from which NextOf goes on.
LEMMA Place ==
  ASSUME Tables, NEW f \in FrameType,
         f.ver = f.vertex \/ f.ver \in Range(next[f.vertex])
  PROVE  \E k \in 0 .. Len(next[f.vertex]) :
           /\ At(f, k)
           /\ \A m \in Nat : At(f, m) => m = k
           /\ NextOf(f) = IF k < Len(next[f.vertex]) THEN next[f.vertex][k + 1] ELSE None
<1> DEFINE list == next[f.vertex]
           pos == CHOOSE i \in DOMAIN list : list[i] = f.ver
           at == IF f.ver = f.vertex THEN 0 ELSE pos
<1>1. /\ f.vertex \in Threads /\ f.ver \in Threads
      /\ list \in Seq(Threads) /\ Len(list) \in Nat /\ DOMAIN list = 1 .. Len(list)
      /\ IsInjective(list) /\ f.vertex \notin Range(list)
  BY DEF Tables, TablesAreSound, FrameType
<1>2. f.ver # f.vertex => \E i \in DOMAIN list : list[i] = f.ver
  BY DEF Range
<1>3. f.ver # f.vertex => pos \in DOMAIN list /\ list[pos] = f.ver
  BY <1>2
<1>4. NextOf(f) = IF at < Len(list) THEN list[at + 1] ELSE None
  BY DEF NextOf
<1> HIDE DEF pos, list
<1>5. at \in 0 .. Len(list)
  BY <1>1, <1>3
<1>6. At(f, at)
  BY <1>1, <1>3 DEF At, list
<1>7. ASSUME NEW m \in Nat, At(f, m) PROVE m = at
  <2>1. CASE f.ver = f.vertex
    BY <1>7, <2>1 DEF At
  <2>2. CASE f.ver # f.vertex
    <3>1. m \in DOMAIN list /\ list[m] = f.ver
      BY <1>7, <2>2 DEF At, list
    <3>2. m = pos
      BY <1>1, <1>3, <2>2, <3>1 DEF IsInjective
    <3> QED
      BY <2>2, <3>2
  <2> QED
    BY <2>1, <2>2
<1> QED
  BY <1>4, <1>5, <1>6, <1>7 DEF list

\* What the top frame goes on with.
LEMMA TopPlace ==
  ASSUME Tables, Search, Active
  PROVE  \E k \in 0 .. Len(next[Top.vertex]) :
           /\ At(Top, k)
           /\ \A m \in Nat : At(Top, m) => m = k
           /\ k < Len(next[Top.vertex]) => NextOf(Top) = next[Top.vertex][k + 1]
           /\ NextOf(Top) # None <=> k < Len(next[Top.vertex])
<1>1. /\ Top \in FrameType /\ Top.vertex \in Threads
      /\ Top.ver = Top.vertex \/ Top.ver \in Range(next[Top.vertex])
  BY TopFrame DEF Active, FrameType
<1>2. PICK k \in 0 .. Len(next[Top.vertex]) :
        /\ At(Top, k)
        /\ \A m \in Nat : At(Top, m) => m = k
        /\ NextOf(Top) = IF k < Len(next[Top.vertex]) THEN next[Top.vertex][k + 1] ELSE None
  BY <1>1, Place
<1>3. next[Top.vertex] \in Seq(Threads) /\ Len(next[Top.vertex]) \in Nat
  BY <1>1 DEF Tables
<1>4. k < Len(next[Top.vertex]) => next[Top.vertex][k + 1] \in Threads
  BY <1>3
<1>5. None \notin Threads
  BY DetectorAssumption
<1> QED
  BY <1>2, <1>4, <1>5

\* A step of the program that leaves the graph alone tells the search nothing
\* new, and one that changes it ends the quiet.
LEMMA SeenBesideProgram ==
  ASSUME Seen, quiet' => quiet /\ UNCHANGED graph,
         UNCHANGED <<root, frames, deadlock>>, step' = step \/ step' = "wild"
  PROVE  Seen'
<1>1. CASE ~ quiet'
  BY <1>1 DEF Seen, Chain, Explored
<1>2. CASE quiet' /\ step' = "wild"
  BY <1>2 DEF Seen, Chain, Explored, Active, RootsClean, EdgesClean, ReturnClean, AllClean
<1>3. CASE quiet' /\ step' = step
  <2>1. /\ quiet /\ next' = next /\ vertex_list' = vertex_list
        /\ root' = root /\ frames' = frames /\ deadlock' = deadlock /\ step' = step
    BY <1>3 DEF graph
  <2>2. Chain'
    BY <2>1 DEF Seen, Chain, Active, At
  <2>3. \A t : Clean(t)' <=> Clean(t)
    BY <2>1, SameClean
  <2>4. Explored'
    <3> SUFFICES ASSUME ~ deadlock
                 PROVE  RootsClean' /\ EdgesClean' /\ ReturnClean' /\ AllClean'
      BY <2>1 DEF Explored
    <3>1. RootsClean /\ EdgesClean /\ ReturnClean /\ AllClean
      BY <2>1 DEF Seen, Explored
    <3>2. RootsClean' /\ AllClean'
      BY <2>1, <2>3, <3>1 DEF RootsClean, AllClean, Active
    <3>3. EdgesClean'
      BY <2>1, <2>3, <3>1 DEF EdgesClean, Active, At
    <3>4. ReturnClean'
      BY <2>1, <2>3, <3>1 DEF ReturnClean, Top, At
    <3> QED
      BY <3>2, <3>3, <3>4
  <2> QED
    BY <2>2, <2>4 DEF Seen
<1> QED
  BY <1>1, <1>2, <1>3

LEMMA SeenWake ==
  ASSUME Tables, Wake
  PROVE  Seen'
<1>1. step' = "root" /\ root' = 1 /\ vertex_list' = vertex_list
  BY DEF Wake, graph
<1>2. Chain' /\ EdgesClean' /\ ReturnClean' /\ AllClean'
  BY <1>1 DEF Chain, EdgesClean, ReturnClean, AllClean, Active
<1>3. \A i \in DOMAIN vertex_list : ~ i < 1
  BY DEF Tables
<1>4. RootsClean'
  BY <1>1, <1>3 DEF RootsClean
<1> QED
  BY <1>2, <1>4 DEF Seen, Explored

\* Once every vertex has had its turn, there is no cycle at all: a thread that
\* is not in the graph has no edge.
LEMMA SeenRoot ==
  ASSUME Tables, Search, Seen, Root
  PROVE  Seen'
<1>1. /\ vertex_list' = vertex_list /\ next' = next
      /\ deadlock' = deadlock /\ quiet' = quiet
      /\ step = "root" /\ root \in Nat /\ root # 0
      /\ vertex_list \in Seq(Threads)
  BY DEF Root, graph, Search, Searching, SearchType, Tables
<1>2. \A t : Clean(t)' <=> Clean(t)
  BY <1>1, SameClean
<1>3. CASE root > Len(vertex_list) \/ deadlock
  <2>1. step' = "sleep"
    BY <1>3 DEF Root
  <2>2. Chain' /\ RootsClean' /\ EdgesClean' /\ ReturnClean'
    BY <2>1 DEF Chain, RootsClean, EdgesClean, ReturnClean, Active
  <2>3. ASSUME quiet, ~ deadlock, NEW t \in Threads
        PROVE  Clean(t)
    <3>1. RootsClean /\ root > Len(vertex_list)
      BY <1>3, <2>3 DEF Seen, Explored
    <3>2. CASE t \in Range(vertex_list)
      <4>1. PICK i \in DOMAIN vertex_list : vertex_list[i] = t
        BY <3>2 DEF Range
      <4>2. i < root
        BY <1>1, <3>1, <4>1
      <4> QED
        BY <1>1, <3>1, <4>1, <4>2 DEF RootsClean
    <3>3. CASE t \notin Range(vertex_list)
      <4>1. next[t] = <<>>
        BY <3>3 DEF Tables, TablesAreSound
      <4>2. Range(next[t]) = {}
        BY <4>1 DEF Range
      <4> QED
        BY <4>2, CleanTargets
    <3> QED
      BY <3>2, <3>3
  <2>4. quiet' /\ ~ deadlock' => AllClean'
    BY <1>1, <1>2, <2>3 DEF AllClean
  <2> QED
    BY <2>2, <2>4 DEF Seen, Explored
<1>4. CASE ~ (root > Len(vertex_list) \/ deadlock)
  <2> DEFINE v == vertex_list[root]
             f == [vertex |-> v, ver |-> v]
  <2>1. frames' = <<f>> /\ step' = "test" /\ root' = root
    BY <1>4 DEF Root
  <2>2. f.vertex = f.ver
    OBVIOUS
  <2> HIDE DEF f
  <2>3. DOMAIN frames' = {1} /\ frames'[1] = f
    BY <2>1
  <2>4. Chain'
    BY <2>3 DEF Chain
  <2>5. RootsClean => RootsClean'
    BY <1>1, <1>2, <2>1 DEF RootsClean
  <2>6. EdgesClean'
    <3>1. ASSUME NEW k \in Nat, At(frames[1], k)' PROVE k = 0
      BY <2>2, <2>3, <3>1 DEF At
    <3>2. v \in Threads /\ f.vertex = v
      BY <1>1, <1>4 DEF f
    <3>3. next'[f.vertex] \in Seq(Threads)
      BY <1>1, <3>2 DEF Tables
    <3>4. \A j \in DOMAIN next'[f.vertex] : ~ j <= 0
      BY <3>3
    <3> QED
      BY <2>3, <3>1, <3>4 DEF EdgesClean
  <2>7. ReturnClean' /\ AllClean'
    BY <2>1 DEF ReturnClean, AllClean
  <2> QED
    BY <1>1, <2>4, <2>5, <2>6, <2>7 DEF Seen, Explored
<1> QED
  BY <1>3, <1>4

\* A frame is at no two places.
LEMMA OnePlace ==
  ASSUME Tables, Search, step # "wild", NEW i \in DOMAIN frames,
         NEW k \in Nat, NEW m \in Nat, At(frames[i], k), At(frames[i], m)
  PROVE  k = m
<1>1. frames[i] \in FrameType
      /\ (frames[i].ver = frames[i].vertex
            \/ frames[i].ver \in Range(next[frames[i].vertex]))
  BY Frames DEF Search, Pointers
<1> QED
  BY <1>1, Place

\* A vertex all of whose edges have been followed without a report is clean.
LEMMA VertexDone ==
  ASSUME Tables, Search, Seen, quiet, ~ deadlock, Active, NextOf(Top) = None
  PROVE  Clean(Top.vertex)
<1>1. /\ Len(frames) \in DOMAIN frames /\ Top = frames[Len(frames)]
      /\ Top.vertex \in Threads
  BY TopFrame DEF Active, FrameType
<1>2. PICK k \in 0 .. Len(next[Top.vertex]) :
        At(Top, k) /\ (NextOf(Top) # None <=> k < Len(next[Top.vertex]))
  BY TopPlace
<1>3. next[Top.vertex] \in Seq(Threads)
  BY <1>1 DEF Tables
<1>4. k \in Nat /\ \A j \in DOMAIN next[Top.vertex] : j <= k
  BY <1>2, <1>3
<1>5. EdgesClean
  BY DEF Seen, Explored
<1>6. \A j \in DOMAIN next[Top.vertex] : Clean(next[Top.vertex][j])
  BY <1>1, <1>2, <1>4, <1>5 DEF EdgesClean
<1>7. \A u \in Range(next[Top.vertex]) : Clean(u)
  BY <1>6 DEF Range
<1> QED
  BY <1>7, CleanTargets

LEMMA SeenTest ==
  ASSUME Tables, Search, Seen, Test
  PROVE  Seen'
<1>1. /\ vertex_list' = vertex_list /\ next' = next
      /\ deadlock' = deadlock /\ quiet' = quiet /\ step = "test" /\ Active
  BY DEF Test, graph, Active
<1>2. \A t : Clean(t)' <=> Clean(t)
  BY <1>1, SameClean
<1>3. /\ root \in DOMAIN vertex_list /\ root \in Nat
      /\ frames[1].vertex = vertex_list[root] /\ frames \in Seq(FrameType)
      /\ Len(frames) \in Nat /\ Len(frames) >= 1 /\ DOMAIN frames = 1 .. Len(frames)
      /\ Top = frames[Len(frames)]
  BY <1>1, TopFrame DEF Search, Searching, SearchType
<1>4. vertex_list \in Seq(Threads)
  BY DEF Tables
<1>5. CASE NextOf(Top) # None
  <2>1. step' = "take" /\ root' = root /\ frames' = frames
    BY <1>5 DEF Test
  <2>2. Chain'
    BY <1>1, <2>1 DEF Seen, Chain, Active, At
  <2>3. ASSUME quiet, ~ deadlock PROVE Explored'
    <3>1. RootsClean /\ EdgesClean
      BY <2>3 DEF Seen, Explored
    <3>2. RootsClean'
      BY <1>1, <1>2, <2>1, <3>1 DEF RootsClean
    <3>3. EdgesClean'
      BY <1>1, <1>2, <2>1, <3>1 DEF EdgesClean, At
    <3>4. ReturnClean' /\ AllClean'
      BY <2>1 DEF ReturnClean, AllClean
    <3> QED
      BY <3>2, <3>3, <3>4 DEF Explored
  <2> QED
    BY <1>1, <2>2, <2>3 DEF Seen, Explored
<1>6. CASE NextOf(Top) = None /\ Len(frames) = 1
  <2>1. step' = "root" /\ root' = root + 1
    BY <1>6 DEF Test
  <2>2. Chain' /\ EdgesClean' /\ ReturnClean' /\ AllClean'
    BY <2>1 DEF Chain, EdgesClean, ReturnClean, AllClean, Active
  <2>3. ASSUME quiet, ~ deadlock PROVE RootsClean'
    <3>1. RootsClean
      BY <2>3 DEF Seen, Explored
    <3>2. Clean(vertex_list[root])
      BY <1>1, <1>3, <1>6, <2>3, VertexDone
    <3>3. \A i \in DOMAIN vertex_list : i < root + 1 => i < root \/ i = root
      BY <1>3, <1>4
    <3> QED
      BY <1>1, <1>2, <2>1, <3>1, <3>2, <3>3 DEF RootsClean
  <2> QED
    BY <1>1, <2>2, <2>3 DEF Seen, Explored
<1>7. CASE NextOf(Top) = None /\ Len(frames) # 1
  <2> DEFINE n == Len(frames) - 1
  <2>1. step' = "advance" /\ root' = root /\ frames' = PopFrame
    BY <1>7 DEF Test
  <2>2. /\ Len(frames') = n /\ n \in DOMAIN frames /\ n + 1 \in DOMAIN frames
        /\ frames' \in Seq(FrameType)
        /\ \A i \in 1 .. n : frames'[i] = frames[i]
        /\ frames[n + 1] = Top /\ n \in Nat
    <3>1. n \in Nat /\ n \in DOMAIN frames /\ n + 1 \in DOMAIN frames /\ frames[n + 1] = Top
      BY <1>3, <1>7
    <3>2. /\ PopFrame \in Seq(FrameType) /\ Len(PopFrame) = n
          /\ \A i \in 1 .. n : PopFrame[i] = frames[i]
      BY <1>1, TopFrame
    <3> QED
      BY <2>1, <3>1, <3>2
  <2>3. /\ DOMAIN frames' = 1 .. n
        /\ \A i \in DOMAIN frames' : i \in DOMAIN frames /\ frames'[i] = frames[i]
    BY <1>3, <2>2
  <2>4. Top' = frames[n]
    <3>1. Top' = frames'[Len(frames')]
      BY DEF Top
    <3>2. n \in 1 .. n
      BY <1>3, <2>2
    <3> QED
      BY <2>2, <3>1, <3>2
  <2> HIDE DEF n
  <2>5. Chain'
    BY <1>1, <2>1, <2>3 DEF Seen, Chain, Active, At
  <2>6. ASSUME quiet, ~ deadlock PROVE Explored'
    <3>1. RootsClean /\ EdgesClean
      BY <2>6 DEF Seen, Explored
    <3>2. RootsClean'
      BY <1>1, <1>2, <2>1, <3>1 DEF RootsClean
    <3>3. EdgesClean'
      BY <1>1, <1>2, <2>1, <2>3, <3>1 DEF EdgesClean, At
    <3>4. PICK k \in Nat : /\ At(frames[n], k)
                           /\ k + 1 \in DOMAIN next[frames[n].vertex]
                           /\ next[frames[n].vertex][k + 1] = Top.vertex
      BY <1>1, <2>2, <2>6 DEF Seen, Chain
    <3>5. Clean(Top.vertex)
      BY <1>1, <1>7, <2>6, VertexDone
    <3>6. ASSUME NEW m \in Nat, At(frames[n], m) PROVE m = k
      BY <1>1, <2>2, <3>4, <3>6, OnePlace
    <3>7. \A m \in Nat : At(Top, m)' <=> At(frames[n], m)
      BY <1>1, <2>4 DEF At
    <3>8. ReturnClean'
      BY <1>1, <1>2, <2>4, <3>4, <3>5, <3>6, <3>7 DEF ReturnClean
    <3>9. AllClean'
      BY <2>1 DEF AllClean
    <3> QED
      BY <3>2, <3>3, <3>8, <3>9 DEF Explored
  <2> QED
    BY <1>1, <2>5, <2>6 DEF Seen, Explored
<1> QED
  BY <1>5, <1>6, <1>7

LEMMA SeenTake ==
  ASSUME Tables, Search, Seen, Take
  PROVE  Seen'
<1> DEFINE v == NextOf(Top)
           n == Len(frames)
<1>1. /\ vertex_list' = vertex_list /\ next' = next
      /\ root' = root /\ quiet' = quiet /\ step = "take" /\ Active
  BY DEF Take, graph, Active
<1>2. \A t : Clean(t)' <=> Clean(t)
  BY <1>1, SameClean
<1>3. CASE v = None
  <2>1. step' = "wild"
    BY <1>3 DEF Take
  <2> QED
    BY <2>1 DEF Seen, Chain, Explored, Active, RootsClean, EdgesClean, ReturnClean, AllClean
<1>4. CASE v # None /\ search_vertex(v) \in visited
  <2>1. deadlock' = TRUE /\ step' = "advance" /\ frames' = frames
    BY <1>4 DEF Take, DFS
  <2>2. Chain'
    BY <1>1, <2>1 DEF Seen, Chain, At
  <2> QED
    BY <2>1, <2>2 DEF Seen, Explored
<1>5. CASE v # None /\ search_vertex(v) \notin visited
  <2> DEFINE f == [vertex |-> v, ver |-> v]
  <2>1. frames' = Append(frames, f) /\ step' = "test" /\ deadlock' = deadlock
    BY <1>5 DEF Take, DFS
  <2>2. v \in Threads /\ f \in FrameType /\ f.vertex = v /\ f.ver = v
    BY <1>1, <1>5, NextVertex DEF FrameType
  <2>3. /\ n \in Nat /\ n >= 1 /\ DOMAIN frames = 1 .. n /\ Top = frames[n]
        /\ frames \in Seq(FrameType) /\ n \in DOMAIN frames
    BY <1>1, TopFrame, Frames
  <2>4. PICK k \in 0 .. Len(next[Top.vertex]) :
          /\ At(Top, k)
          /\ k < Len(next[Top.vertex]) => v = next[Top.vertex][k + 1]
          /\ v # None <=> k < Len(next[Top.vertex])
    BY <1>1, TopPlace
  <2>5. Top.vertex \in Threads /\ next[Top.vertex] \in Seq(Threads)
    BY <1>1, TopFrame DEF FrameType, Tables
  <2>6. k \in Nat /\ k + 1 \in DOMAIN next[Top.vertex] /\ v = next[Top.vertex][k + 1]
    BY <1>5, <2>4, <2>5
  <2> HIDE DEF f, v, n
  <2>7. /\ DOMAIN frames' = 1 .. n + 1 /\ frames'[n + 1] = f
        /\ \A i \in 1 .. n : frames'[i] = frames[i]
    BY <2>1, <2>2, <2>3 DEF n
  <2>8. \A i \in 1 .. n + 1 : i \in 1 .. n \/ i = n + 1
    BY <2>3
  <2>9. Chain'
    <3> SUFFICES ASSUME quiet, NEW i \in 1 .. n + 1, i + 1 \in 1 .. n + 1
                 PROVE  \E m \in Nat : /\ At(frames[i], m)'
                                       /\ m + 1 \in DOMAIN next[frames'[i].vertex]
                                       /\ next[frames'[i].vertex][m + 1] = frames'[i + 1].vertex
      BY <1>1, <2>7 DEF Chain
    <3>1. i \in 1 .. n /\ (i + 1 \in 1 .. n \/ i = n)
      BY <2>3
    <3>2. frames'[i] = frames[i] /\ \A m : At(frames[i], m)' <=> At(frames[i], m)
      BY <1>1, <2>7, <3>1 DEF At
    <3>3. CASE i + 1 \in 1 .. n
      BY <1>1, <2>3, <2>7, <3>1, <3>2, <3>3 DEF Seen, Chain
    <3>4. CASE i = n
      <4>1. frames'[i + 1].vertex = v /\ frames[i] = Top
        BY <2>2, <2>3, <2>7, <3>4
      <4> QED
        BY <2>4, <2>6, <3>2, <4>1
    <3> QED
      BY <3>1, <3>3, <3>4
  <2>10. ASSUME quiet, ~ deadlock PROVE Explored'
    <3>1. RootsClean /\ EdgesClean
      BY <2>10 DEF Seen, Explored
    <3>2. RootsClean'
      BY <1>1, <1>2, <2>1, <3>1 DEF RootsClean
    <3>3. EdgesClean'
      <4> SUFFICES ASSUME NEW i \in 1 .. n + 1, NEW m \in Nat, At(frames[i], m)',
                          NEW j \in DOMAIN next[frames'[i].vertex], j <= m
                   PROVE  Clean(next[frames'[i].vertex][j])
        BY <1>1, <1>2, <2>7 DEF EdgesClean
      <4>1. CASE i \in 1 .. n
        <5>1. frames'[i] = frames[i] /\ At(frames[i], m)
          BY <1>1, <2>7, <4>1 DEF At
        <5> QED
          BY <1>1, <2>3, <3>1, <4>1, <5>1 DEF EdgesClean
      <4>2. CASE i = n + 1
        <5>1. m = 0 /\ frames'[i].vertex = v
          BY <2>2, <2>7, <4>2 DEF At
        <5>2. next[v] \in Seq(Threads)
          BY <2>2 DEF Tables
        <5>3. FALSE
          BY <5>1, <5>2
        <5> QED
          BY <5>3
      <4> QED
        BY <2>8, <4>1, <4>2
    <3>4. ReturnClean' /\ AllClean'
      BY <2>1 DEF ReturnClean, AllClean
    <3> QED
      BY <3>2, <3>3, <3>4 DEF Explored
  <2> QED
    BY <1>1, <2>1, <2>9, <2>10 DEF Seen, Explored
<1> QED
  BY <1>3, <1>4, <1>5

LEMMA SeenAdvance ==
  ASSUME Tables, Search, Seen, Advance
  PROVE  Seen'
<1> DEFINE v == NextOf(Top)
           n == Len(frames)
           list == next[Top.vertex]
<1>1. /\ vertex_list' = vertex_list /\ next' = next /\ deadlock' = deadlock
      /\ root' = root /\ quiet' = quiet /\ step = "advance" /\ Active
  BY DEF Advance, graph, Active
<1>2. \A t : Clean(t)' <=> Clean(t)
  BY <1>1, SameClean
<1>3. CASE v = None
  <2>1. step' = "wild"
    BY <1>3 DEF Advance
  <2> QED
    BY <2>1 DEF Seen, Chain, Explored, Active, RootsClean, EdgesClean, ReturnClean, AllClean
<1>4. CASE v # None
  <2>1. step' = "test" /\ frames' = [frames EXCEPT ![n].ver = v]
    BY <1>4 DEF Advance
  <2>2. /\ n \in Nat /\ n \in DOMAIN frames /\ DOMAIN frames = 1 .. n /\ Top = frames[n]
        /\ frames \in Seq(FrameType) /\ Top.vertex \in Threads
    BY <1>1, TopFrame, Frames DEF FrameType
  <2>3. PICK k \in 0 .. Len(list) :
          /\ At(Top, k)
          /\ k < Len(list) => v = list[k + 1]
          /\ v # None <=> k < Len(list)
    BY <1>1, TopPlace
  <2>4. list \in Seq(Threads) /\ IsInjective(list) /\ Top.vertex \notin Range(list)
    BY <2>2 DEF Tables, TablesAreSound
  <2>5. k \in Nat /\ k + 1 \in DOMAIN list /\ v = list[k + 1]
    BY <1>4, <2>3, <2>4
  <2>6. v # Top.vertex
    BY <2>4, <2>5 DEF Range
  <2> HIDE DEF v, n, list
  <2>7. /\ DOMAIN frames' = 1 .. n
        /\ frames'[n].vertex = Top.vertex /\ frames'[n].ver = v
        /\ \A i \in 1 .. n : i # n => frames'[i] = frames[i]
        /\ \A i \in 1 .. n : frames'[i].vertex = frames[i].vertex
    <3>1. frames[n] \in FrameType
      BY <2>2
    <3> QED
      BY <2>1, <2>2, <3>1 DEF FrameType
  <2>8. Chain'
    <3> SUFFICES ASSUME quiet, NEW i \in 1 .. n, i + 1 \in 1 .. n
                 PROVE  \E m \in Nat : /\ At(frames[i], m)'
                                       /\ m + 1 \in DOMAIN next[frames'[i].vertex]
                                       /\ next[frames'[i].vertex][m + 1] = frames'[i + 1].vertex
      BY <1>1, <2>7 DEF Chain
    <3>1. i # n
      BY <2>2
    <3>2. frames'[i] = frames[i] /\ \A m : At(frames[i], m)' <=> At(frames[i], m)
      BY <1>1, <2>7, <3>1 DEF At
    <3>3. frames'[i + 1].vertex = frames[i + 1].vertex
      BY <2>7
    <3> QED
      BY <1>1, <2>2, <3>2, <3>3 DEF Seen, Chain
  <2>9. ASSUME quiet, ~ deadlock PROVE Explored'
    <3>1. RootsClean /\ EdgesClean /\ ReturnClean
      BY <2>9 DEF Seen, Explored
    <3>2. RootsClean'
      BY <1>1, <1>2, <2>1, <3>1 DEF RootsClean
    <3>3. EdgesClean'
      <4> SUFFICES ASSUME NEW i \in 1 .. n, NEW m \in Nat, At(frames[i], m)',
                          NEW j \in DOMAIN next[frames'[i].vertex], j <= m
                   PROVE  Clean(next[frames'[i].vertex][j])
        BY <1>1, <1>2, <2>7 DEF EdgesClean
      <4>1. CASE i # n
        <5>1. frames'[i] = frames[i] /\ At(frames[i], m)
          BY <1>1, <2>7, <4>1 DEF At
        <5> QED
          BY <1>1, <2>2, <3>1, <5>1 DEF EdgesClean
      <4>2. CASE i = n
        <5>1. m \in DOMAIN list /\ list[m] = list[k + 1] /\ frames'[i].vertex = Top.vertex
          BY <1>1, <2>5, <2>6, <2>7, <4>2 DEF At, list
        <5>2. m = k + 1
          BY <2>4, <2>5, <5>1 DEF IsInjective
        <5>3. j \in DOMAIN list /\ (j <= k \/ j = k + 1)
          BY <2>4, <2>5, <5>1, <5>2 DEF list
        <5>4. j <= k => Clean(list[j])
          BY <1>1, <2>2, <2>3, <2>5, <3>1, <5>3 DEF EdgesClean, list
        <5>5. j = k + 1 => Clean(list[j])
          BY <1>1, <2>3, <2>5, <3>1, <5>3 DEF ReturnClean, list
        <5> QED
          BY <5>1, <5>3, <5>4, <5>5 DEF list
      <4> QED
        BY <4>1, <4>2
    <3>4. ReturnClean' /\ AllClean'
      BY <2>1 DEF ReturnClean, AllClean
    <3> QED
      BY <3>2, <3>3, <3>4 DEF Explored
  <2> QED
    BY <1>1, <2>8, <2>9 DEF Seen, Explored
<1> QED
  BY <1>3, <1>4

LEMMA InitSeen == Init => Seen
BY DEF Init, Seen, Chain, Explored, Active

\* lock_before and lock_after are the steps that may change the graph.
LEMMA Quiet ==
  ASSUME [Next]_vars, ~ Detector
  PROVE  /\ quiet' => quiet /\ UNCHANGED graph
         /\ UNCHANGED <<root, frames, deadlock, visited>>
         /\ step' = step \/ step' = "wild"
<1>1. ASSUME NEW t \in Threads, NEW l \in Locks, lock_before(t, l)
      PROVE  /\ quiet' => quiet /\ UNCHANGED graph
             /\ UNCHANGED search
  <2>1. quiet' = (quiet /\ UNCHANGED graph)
    BY <1>1 DEF lock_before, Watch
  <2>2. UNCHANGED search
    BY <1>1 DEF lock_before
  <2> QED
    BY <2>1, <2>2
<1>5. ASSUME NEW t \in Threads, NEW l \in Locks, Release(t, l)
       PROVE  quiet' = quiet /\ UNCHANGED graph /\ UNCHANGED search
  BY <1>5 DEF Release
<1>2. ASSUME NEW t \in Threads, Acquire(t) \/ unlock_after(t)
      PROVE  quiet' = quiet /\ UNCHANGED graph /\ UNCHANGED search
  BY <1>2 DEF Acquire, unlock_after
<1>3. ASSUME NEW t \in Threads, lock_after(t)
      PROVE  /\ quiet' => quiet /\ UNCHANGED graph
             /\ UNCHANGED <<root, frames, deadlock, visited>>
             /\ step' = step \/ step' = "wild"
  <2>1. quiet' = (quiet /\ UNCHANGED graph)
    BY <1>3 DEF lock_after, Watch
  <2>2. UNCHANGED <<root, frames, deadlock, visited>>
    BY <1>3 DEF lock_after
  <2>3. step' = step \/ step' = "wild"
    BY <1>3 DEF lock_after
  <2> QED
    BY <2>1, <2>2, <2>3
<1>4. CASE UNCHANGED vars
  BY <1>4 DEF vars, search
<1> QED
  BY <1>1, <1>5, <1>2, <1>3, <1>4 DEF Next, Wild, search

LEMMA SeenStep == Tables /\ Search /\ Seen /\ [Next]_vars => Seen'
<1> SUFFICES ASSUME Tables, Search, Seen, [Next]_vars PROVE Seen'
  OBVIOUS
<1>1. CASE ~ Detector
  BY <1>1, Quiet, SeenBesideProgram
<1>2. CASE Detector
  BY <1>2, SeenWake, SeenRoot, SeenTest, SeenTake, SeenAdvance DEF Detector
<1> QED
  BY <1>1, <1>2

-----------------------------------------------------------------------------
(* What a report means.                                                    *)

OnPath(t) == \E i \in DOMAIN frames : frames[i].vertex = t
HasMark(t) == \E m \in DOMAIN vertex_list : m \in visited /\ vertex_list[m] = t

\* The search of one edge of the root has begun and its marks are cleared.
Marking == Active /\ (step = "take" \/ Len(frames) > 1)

\* On its way down, a search that knows one edge for each vertex has marked
\* only the vertices of its active calls.
OnlyPathMarked ==
  quiet /\ ~ deadlock /\ OneEdgeEach /\ Marking /\ step # "advance" /\ Top.ver = Top.vertex
    => \A t : HasMark(t) => OnPath(t)

\* The edge at place j of the list of p has been followed to its end.
Followed(p, j) ==
  \/ HasMark(p) /\ ~ OnPath(p)
  \/ \E i \in DOMAIN frames, k \in Nat :
       /\ frames[i].vertex = p /\ At(frames[i], k)
       /\ j <= k \/ (step = "advance" /\ i = Len(frames) /\ j = k + 1)

\* A mark outside the active calls was left by a call for a followed edge.
MarksFollowed ==
  quiet /\ ~ deadlock /\ Marking =>
    \A t : HasMark(t) =>
      OnPath(t) \/ \E p \in Threads : \E j \in DOMAIN next[p] :
                     next[p][j] = t /\ Followed(p, j)

Marks == OnlyPathMarked /\ MarksFollowed /\ ReportsAreCycles

LEMMA InitMarks == Init => Marks
BY DEF Init, Marks, OnlyPathMarked, MarksFollowed, ReportsAreCycles

LEMMA SameReports ==
  ASSUME next' = next, ReportsAreCycles, deadlock' = deadlock, quiet' = quiet
  PROVE  ReportsAreCycles'
BY DEF ReportsAreCycles, Cycle, OneEdgeEach, OneWaiterEach

LEMMA MarksBesideProgram ==
  ASSUME Marks, quiet' => quiet /\ UNCHANGED graph,
         UNCHANGED <<root, frames, deadlock, visited>>, step' = step \/ step' = "wild"
  PROVE  Marks'
<1>1. CASE ~ quiet'
  BY <1>1 DEF Marks, OnlyPathMarked, MarksFollowed, ReportsAreCycles
<1>2. CASE quiet'
  <2>1. /\ quiet /\ next' = next /\ vertex_list' = vertex_list
        /\ root' = root /\ frames' = frames /\ deadlock' = deadlock /\ visited' = visited
    BY <1>2 DEF graph
  <2>2. ReportsAreCycles'
    BY <1>2, <2>1, SameReports DEF Marks
  <2>3. CASE step' = "wild"
    BY <2>2, <2>3 DEF Marks, OnlyPathMarked, MarksFollowed, Marking, Active
  <2>4. CASE step' = step
    <3>1. Marking' <=> Marking
      BY <2>1, <2>4 DEF Marking, Active
    <3>2. \A t : (HasMark(t)' <=> HasMark(t)) /\ (OnPath(t)' <=> OnPath(t))
      BY <2>1 DEF HasMark, OnPath
    <3>3. \A p, j : Followed(p, j)' <=> Followed(p, j)
      BY <2>1, <2>4, <3>2 DEF Followed, At
    <3>4. OnlyPathMarked'
      BY <2>1, <2>4, <3>1, <3>2 DEF Marks, OnlyPathMarked, OneEdgeEach, Top
    <3>5. MarksFollowed'
      BY <2>1, <3>1, <3>2, <3>3 DEF Marks, MarksFollowed
    <3> QED
      BY <2>2, <3>4, <3>5 DEF Marks
  <2> QED
    BY <2>3, <2>4
<1> QED
  BY <1>1, <1>2

LEMMA MarksWake ==
  ASSUME Wake
  PROVE  Marks'
<1>1. step' = "root" /\ deadlock' = FALSE
  BY DEF Wake
<1> QED
  BY <1>1 DEF Marks, OnlyPathMarked, MarksFollowed, ReportsAreCycles, Marking, Active

LEMMA MarksRoot ==
  ASSUME Marks, Root
  PROVE  Marks'
<1>1. ReportsAreCycles'
  <2>1. next' = next /\ deadlock' = deadlock /\ quiet' = quiet
    BY DEF Root, graph
  <2> QED
    BY <2>1, SameReports DEF Marks
<1>2. ~ Marking'
  <2>1. CASE step' = "sleep"
    BY <2>1 DEF Marking, Active
  <2>2. CASE step' # "sleep"
    <3>1. step' = "test" /\ frames' = <<[vertex |-> vertex_list[root], ver |-> vertex_list[root]]>>
      BY <2>2 DEF Root
    <3>2. Len(frames') = 1
      BY <3>1
    <3> QED
      BY <3>1, <3>2 DEF Marking
  <2> QED
    BY <2>1, <2>2
<1> QED
  BY <1>1, <1>2 DEF Marks, OnlyPathMarked, MarksFollowed

LEMMA MarksTest ==
  ASSUME Tables, Search, Chain, Marks, Test
  PROVE  Marks'
<1>1. /\ vertex_list' = vertex_list /\ next' = next
      /\ deadlock' = deadlock /\ quiet' = quiet /\ step = "test" /\ Active
  BY DEF Test, graph, Active
<1>2. ReportsAreCycles'
  BY <1>1, SameReports DEF Marks
<1>3. /\ root \in DOMAIN vertex_list /\ frames[1].vertex = vertex_list[root]
      /\ frames \in Seq(FrameType)
      /\ Len(frames) \in Nat /\ Len(frames) >= 1 /\ DOMAIN frames = 1 .. Len(frames)
      /\ Top = frames[Len(frames)]
  BY <1>1, TopFrame DEF Search, Searching, SearchType
<1>4. CASE NextOf(Top) # None
  <2>1. /\ step' = "take" /\ root' = root /\ frames' = frames
        /\ visited' = IF Len(frames) = 1 THEN ClearedMarks ELSE visited
    BY <1>4 DEF Test
  <2>2. \A t : OnPath(t)' <=> OnPath(t)
    BY <2>1 DEF OnPath
  <2>3. CASE Len(frames) = 1
    <3>1. \A t : HasMark(t)' => OnPath(t)
      <4>1. \A m \in DOMAIN vertex_list : m \in visited' => m = root
        BY <2>1, <2>3 DEF ClearedMarks
      <4>2. 1 \in DOMAIN frames
        BY <1>3
      <4> QED
        BY <1>1, <1>3, <4>1, <4>2 DEF HasMark, OnPath
    <3> QED
      BY <1>2, <2>2, <3>1 DEF Marks, OnlyPathMarked, MarksFollowed
  <2>4. CASE Len(frames) # 1
    <3>1. Marking /\ visited' = visited
      BY <1>1, <1>3, <2>1, <2>4 DEF Marking
    <3>2. \A t : HasMark(t)' <=> HasMark(t)
      BY <1>1, <3>1 DEF HasMark
    <3>3. OnlyPathMarked'
      BY <1>1, <2>1, <2>2, <3>1, <3>2 DEF Marks, OnlyPathMarked, OneEdgeEach, Top
    <3>4. \A p, j : Followed(p, j) => Followed(p, j)'
      BY <1>1, <2>1, <2>2, <3>2 DEF Followed, At
    <3>5. MarksFollowed'
      BY <1>1, <2>2, <3>1, <3>2, <3>4 DEF Marks, MarksFollowed
    <3> QED
      BY <1>2, <3>3, <3>5 DEF Marks
  <2> QED
    BY <2>3, <2>4
<1>5. CASE NextOf(Top) = None /\ Len(frames) = 1
  <2>1. step' = "root"
    BY <1>5 DEF Test
  <2> QED
    BY <1>2, <2>1 DEF Marks, OnlyPathMarked, MarksFollowed, Marking, Active
<1>6. CASE NextOf(Top) = None /\ Len(frames) # 1
  <2>0. PICK n \in Nat, top \in FrameType : n = Len(frames) - 1 /\ top = Top
    <3>1. Top \in FrameType
      BY <1>1, TopFrame
    <3>2. Len(frames) - 1 \in Nat
      BY <1>3
    <3> QED
      BY <3>1, <3>2
  <2>1. step' = "advance" /\ frames' = PopFrame /\ visited' = visited
    BY <1>6 DEF Test
  <2>2. /\ n \in Nat /\ n \in DOMAIN frames /\ n + 1 \in DOMAIN frames
        /\ frames[n + 1] = top
    BY <1>3, <1>6, <2>0
  <2>3. /\ frames' \in Seq(FrameType) /\ Len(frames') = n
        /\ \A i \in 1 .. n : frames'[i] = frames[i]
    BY <1>1, <2>0, <2>1, TopFrame
  <2>4. /\ DOMAIN frames' = 1 .. n
        /\ \A i \in DOMAIN frames' : i \in DOMAIN frames /\ i # n + 1 /\ frames'[i] = frames[i]
        /\ \A i \in DOMAIN frames : i \in DOMAIN frames' \/ i = n + 1
    <3>1. DOMAIN frames = 1 .. n + 1
      BY <1>3, <2>0
    <3>2. DOMAIN frames' = 1 .. n
      BY <2>3
    <3> QED
      BY <2>2, <2>3, <3>1, <3>2
  <2>5. \A t : HasMark(t)' <=> HasMark(t)
    BY <1>1, <2>1 DEF HasMark
  <2>6. \A t : OnPath(t)' => OnPath(t)
    BY <2>4 DEF OnPath
  <2>7. ~ OnPath(top.vertex)' /\ HasMark(top.vertex)
    <3>1. \A i \in DOMAIN frames : frames[i].vertex = top.vertex => i = n + 1
      BY <2>2 DEF Search, PathFits
    <3>2. HasMark(top.vertex)
      BY <2>2 DEF Search, Marked, HasMark
    <3> QED
      BY <2>4, <3>1, <3>2 DEF OnPath
  <2>8. ASSUME quiet, ~ deadlock, NEW t, HasMark(t)
        PROVE  OnPath(t)' \/ \E p \in Threads : \E j \in DOMAIN next[p] :
                               next[p][j] = t /\ Followed(p, j)'
    <3>1. OnPath(t) \/ \E p \in Threads : \E j \in DOMAIN next[p] :
                         next[p][j] = t /\ Followed(p, j)
      BY <1>1, <1>3, <1>6, <2>8 DEF Marks, MarksFollowed, Marking
    <3>2. CASE OnPath(t)'
      BY <3>2
    <3>3. CASE OnPath(t) /\ ~ OnPath(t)'
      <4>1. t = top.vertex
        BY <2>2, <2>4, <3>3 DEF OnPath
      <4>2. PICK k \in Nat : /\ At(frames[n], k)
                             /\ k + 1 \in DOMAIN next[frames[n].vertex]
                             /\ next[frames[n].vertex][k + 1] = top.vertex
        BY <1>1, <2>2, <2>8 DEF Chain
      <4>7. PICK f \in FrameType : f = frames[n]
        BY <2>2, Frames
      <4>3. n \in DOMAIN frames' /\ frames'[n] = f /\ n = Len(frames')
        BY <1>3, <2>2, <2>3, <2>4, <4>7
      <4>4. At(frames[n], k)'
        BY <1>1, <4>2, <4>7, <4>3 DEF At
      <4>5. Followed(f.vertex, k + 1)'
        BY <1>1, <2>1, <4>2, <4>3, <4>4 DEF Followed
      <4>6. f.vertex \in Threads
        BY DEF FrameType
      <4> QED
        BY <4>1, <4>2, <4>7, <4>5, <4>6
    <3>4. ASSUME NEW p \in Threads, NEW j \in DOMAIN next[p], Followed(p, j)
          PROVE  Followed(p, j)'
      <4>1. CASE HasMark(p) /\ ~ OnPath(p)
        BY <2>5, <2>6, <4>1 DEF Followed
      <4>2. CASE p = top.vertex
        BY <2>5, <2>7, <4>2 DEF Followed
      <4>3. ASSUME NEW i \in DOMAIN frames, NEW k \in Nat,
                   frames[i].vertex = p, At(frames[i], k), j <= k, p # top.vertex
            PROVE  Followed(p, j)'
        <5>1. i \in DOMAIN frames' /\ frames'[i] = frames[i]
          BY <2>2, <2>4, <4>3
        <5>2. At(frames[i], k)'
          BY <1>1, <4>3, <5>1 DEF At
        <5> QED
          BY <4>3, <5>1, <5>2 DEF Followed
      <4> QED
        BY <1>1, <3>4, <4>1, <4>2, <4>3 DEF Followed
    <3> QED
      BY <3>1, <3>2, <3>3, <3>4
  <2>9. MarksFollowed'
    BY <1>1, <2>5, <2>8 DEF MarksFollowed
  <2>10. OnlyPathMarked'
    BY <2>1 DEF OnlyPathMarked
  <2> QED
    BY <1>2, <2>9, <2>10 DEF Marks
<1> QED
  BY <1>4, <1>5, <1>6

\* An active call met again closes a cycle, which its callees make.
LEMMA PathIsCycle ==
  ASSUME Tables, Search, Chain, quiet, step = "take", NextOf(Top) # None,
         OnPath(NextOf(Top))
  PROVE  \E S \in SUBSET Threads : Cycle(S)
<1> DEFINE n == Len(frames)
           v == NextOf(Top)
<1>1. /\ n \in Nat /\ n \in DOMAIN frames /\ DOMAIN frames = 1 .. n /\ Top = frames[n]
      /\ \A i \in DOMAIN frames : frames[i].vertex \in Threads
  BY TopFrame, Frames
<1>2. v \in Range(next[Top.vertex])
  BY NextVertex
<1>3. PICK i \in 1 .. n : frames[i].vertex = v
  BY <1>1 DEF OnPath
<1> HIDE DEF n, v
<1> DEFINE S == {frames[m].vertex : m \in i .. n}
<1>4. S \in SUBSET Threads /\ v \in S
  <2>1. i \in i .. n /\ \A m \in i .. n : m \in 1 .. n
    BY <1>1
  <2> QED
    BY <1>1, <1>3, <2>1
<1>5. ASSUME NEW u \in S PROVE Range(next[u]) \cap S # {}
  <2>1. PICK m \in i .. n : u = frames[m].vertex
    OBVIOUS
  <2>2. CASE m = n
    BY <1>1, <1>2, <1>4, <2>1, <2>2
  <2>3. CASE m # n
    <3>1. m \in 1 .. n /\ m + 1 \in 1 .. n /\ m + 1 \in i .. n
      BY <1>1, <2>3
    <3>2. frames[m + 1].vertex \in Range(next[u])
      BY <1>1, <2>1, <3>1 DEF Chain, Active, Range
    <3> QED
      BY <3>1, <3>2
  <2> QED
    BY <2>2, <2>3
<1> HIDE DEF S
<1> QED
  BY <1>4, <1>5 DEF Cycle

\* A vertex met again that is no active call: two paths meet there.
LEMMA PathsMeet ==
  ASSUME Tables, Search, Marks, quiet, ~ deadlock, step = "take", NextOf(Top) # None,
         HasMark(NextOf(Top)), ~ OnPath(NextOf(Top))
  PROVE  ~ OneEdgeEach /\ ~ OneWaiterEach
<1>1. Active /\ Marking
  BY DEF Active, Marking
<1>2. /\ Len(frames) \in Nat /\ Len(frames) \in DOMAIN frames
      /\ Top = frames[Len(frames)] /\ Top.vertex \in Threads
  BY TopFrame DEF FrameType
<1>3. next[Top.vertex] \in Seq(Threads) /\ IsInjective(next[Top.vertex])
  BY <1>2 DEF Tables, TablesAreSound
<1>4. PICK k \in 0 .. Len(next[Top.vertex]) :
        /\ At(Top, k)
        /\ k < Len(next[Top.vertex]) => NextOf(Top) = next[Top.vertex][k + 1]
        /\ NextOf(Top) # None <=> k < Len(next[Top.vertex])
  BY <1>1, TopPlace
<1>5. /\ k \in Nat /\ k < Len(next[Top.vertex]) /\ Len(next[Top.vertex]) \in Nat
      /\ k + 1 \in DOMAIN next[Top.vertex] /\ NextOf(Top) = next[Top.vertex][k + 1]
  BY <1>3, <1>4
<1>6. ~ OneEdgeEach
  <2> SUFFICES ASSUME OneEdgeEach PROVE FALSE
    OBVIOUS
  <2>1. k = 0
    BY <1>2, <1>5 DEF OneEdgeEach
  <2>2. Top.ver = Top.vertex
    BY <1>3, <1>4, <2>1 DEF At
  <2> QED
    BY <1>1, <2>2 DEF Marks, OnlyPathMarked
<1>7. ~ OneWaiterEach
  <2> SUFFICES ASSUME OneWaiterEach PROVE FALSE
    OBVIOUS
  <2>0. PICK p \in Threads : \E j \in DOMAIN next[p] :
          next[p][j] = NextOf(Top) /\ Followed(p, j)
    BY <1>1 DEF Marks, MarksFollowed
  <2>1. PICK j \in DOMAIN next[p] : next[p][j] = NextOf(Top) /\ Followed(p, j)
    BY <2>0
  <2>2. NextOf(Top) \in Range(next[p]) /\ NextOf(Top) \in Range(next[Top.vertex])
    BY <1>5, <2>1 DEF Range
  <2>3. p = Top.vertex
    BY <1>2, <2>2 DEF OneWaiterEach
  <2>4. j = k + 1
    BY <1>3, <1>5, <2>1, <2>3 DEF IsInjective
  <2>5. OnPath(p)
    BY <1>2, <2>3 DEF OnPath
  <2>6. PICK i \in DOMAIN frames, m \in Nat :
          frames[i].vertex = p /\ At(frames[i], m) /\ j <= m
    BY <2>1, <2>5 DEF Followed
  <2>7. i = Len(frames)
    BY <1>2, <2>3, <2>6 DEF Search, PathFits
  <2>8. m = k
    BY <1>2, <1>4, <1>5, <2>6, <2>7, OnePlace
  <2> QED
    BY <1>5, <2>4, <2>6, <2>8
<1> QED
  BY <1>6, <1>7

LEMMA MarksTake ==
  ASSUME Tables, Search, Chain, Marks, Take
  PROVE  Marks'
<1>1. /\ vertex_list' = vertex_list /\ next' = next
      /\ root' = root /\ quiet' = quiet /\ step = "take" /\ Active /\ Marking
  BY DEF Take, graph, Active, Marking
<1>2. CASE NextOf(Top) = None
  <2>1. step' = "wild" /\ deadlock' = deadlock
    BY <1>2 DEF Take
  <2>2. ReportsAreCycles'
    BY <1>1, <2>1, SameReports DEF Marks
  <2> QED
    BY <2>1, <2>2 DEF Marks, OnlyPathMarked, MarksFollowed, Marking, Active
<1>3. CASE NextOf(Top) # None
  <2>1. PICK v \in Threads : v = NextOf(Top) /\ v \in Range(vertex_list)
    BY <1>1, <1>3, NextVertex
  <2>2. PICK idx \in DOMAIN vertex_list :
          idx = search_vertex(v) /\ vertex_list[idx] = v
    BY <2>1, SearchVertex DEF Tables
  <2>3. DFS(v)
    BY <1>3, <2>1 DEF Take
  <2>4. CASE idx \in visited
    <3>1. deadlock' = TRUE
      BY <2>2, <2>3, <2>4 DEF DFS
    <3>2. HasMark(v)
      BY <2>2, <2>4 DEF HasMark
    <3>3. quiet => \/ \E S \in SUBSET Threads : Cycle(S)
                   \/ ~ OneEdgeEach /\ ~ OneWaiterEach
      BY <1>1, <1>3, <2>1, <3>2, PathIsCycle, PathsMeet DEF Marks, ReportsAreCycles
    <3>4. ReportsAreCycles'
      BY <1>1, <3>3 DEF ReportsAreCycles, Cycle, OneEdgeEach, OneWaiterEach
    <3> QED
      BY <3>1, <3>4 DEF Marks, OnlyPathMarked, MarksFollowed
  <2>5. CASE idx \notin visited
    <3> DEFINE f == [vertex |-> v, ver |-> v]
    <3>1. /\ visited' = visited \cup {idx} /\ frames' = Append(frames, f)
          /\ step' = "test" /\ deadlock' = deadlock
      BY <2>2, <2>3, <2>5 DEF DFS
    <3>2. PICK n \in Nat : n = Len(frames) /\ DOMAIN frames = 1 .. n /\ n >= 1
      BY <1>1, TopFrame
    <3>3. f \in FrameType /\ f.vertex = v /\ f.ver = v /\ frames \in Seq(FrameType)
      BY Frames DEF FrameType
    <3> HIDE DEF f
    <3>4. /\ DOMAIN frames' = 1 .. n + 1 /\ frames'[n + 1] = f
          /\ \A i \in DOMAIN frames : i \in DOMAIN frames' /\ frames'[i] = frames[i]
      BY <3>1, <3>2, <3>3
    <3>5. \A i \in DOMAIN frames' : i \in DOMAIN frames \/ i = n + 1
      BY <3>2, <3>4
    <3>6. \A t : OnPath(t)' <=> OnPath(t) \/ t = v
      BY <3>2, <3>3, <3>4, <3>5 DEF OnPath
    <3>7. \A t : HasMark(t)' <=> HasMark(t) \/ t = v
      BY <1>1, <2>2, <3>1 DEF HasMark
    <3>8. ~ HasMark(v)
      BY <2>2, <2>5 DEF HasMark, Tables, TablesAreSound, IsInjective
    <3>9. ReportsAreCycles'
      BY <1>1, <3>1, SameReports DEF Marks
    <3>10. ASSUME quiet, ~ deadlock, OneEdgeEach, NEW t, HasMark(t)' PROVE OnPath(t)'
      <4>1. ~ HasMark(v) /\ HasMark(t) /\ t # v => OnPath(t)
        <5>1. Top.ver = Top.vertex
          <6>1. Top.vertex \in Threads /\ next[Top.vertex] \in Seq(Threads)
            BY <1>1, TopFrame DEF FrameType, Tables
          <6>2. PICK k \in 0 .. Len(next[Top.vertex]) :
                  At(Top, k) /\ (NextOf(Top) # None <=> k < Len(next[Top.vertex]))
            BY <1>1, TopPlace
          <6>3. k = 0
            BY <1>3, <3>10, <6>1, <6>2 DEF OneEdgeEach
          <6> QED
            BY <6>1, <6>2, <6>3 DEF At
        <5> QED
          BY <1>1, <3>10, <5>1 DEF Marks, OnlyPathMarked
      <4> QED
        BY <3>6, <3>7, <3>8, <3>10, <4>1
    <3>11. OnlyPathMarked'
      BY <1>1, <3>1, <3>10 DEF OnlyPathMarked, OneEdgeEach
    <3>12. ASSUME NEW p \in Threads, NEW j \in DOMAIN next[p], Followed(p, j)
           PROVE  Followed(p, j)'
      <4>1. CASE HasMark(p) /\ ~ OnPath(p)
        BY <3>6, <3>7, <3>8, <4>1 DEF Followed
      <4>2. ASSUME NEW i \in DOMAIN frames, NEW k \in Nat,
                   frames[i].vertex = p, At(frames[i], k), j <= k
            PROVE  Followed(p, j)'
        <5>1. i \in DOMAIN frames' /\ frames'[i] = frames[i]
          BY <3>4
        <5>2. At(frames[i], k)'
          BY <1>1, <4>2, <5>1 DEF At
        <5> QED
          BY <4>2, <5>1, <5>2 DEF Followed
      <4> QED
        BY <1>1, <3>12, <4>1, <4>2 DEF Followed
    <3>13. MarksFollowed'
      BY <1>1, <3>1, <3>6, <3>7, <3>12 DEF Marks, MarksFollowed
    <3> QED
      BY <3>9, <3>11, <3>13 DEF Marks
  <2> QED
    BY <2>4, <2>5
<1> QED
  BY <1>2, <1>3

LEMMA MarksAdvance ==
  ASSUME Tables, Search, Marks, Advance
  PROVE  Marks'
<1>1. /\ vertex_list' = vertex_list /\ next' = next /\ deadlock' = deadlock
      /\ root' = root /\ quiet' = quiet /\ visited' = visited
      /\ step = "advance" /\ Active
  BY DEF Advance, graph, Active
<1>2. ReportsAreCycles'
  BY <1>1, SameReports DEF Marks
<1>3. CASE NextOf(Top) = None
  <2>1. step' = "wild"
    BY <1>3 DEF Advance
  <2> QED
    BY <1>2, <2>1 DEF Marks, OnlyPathMarked, MarksFollowed, Marking, Active
<1>4. CASE NextOf(Top) # None
  <2>1. PICK n \in Nat, top \in FrameType, v \in Threads :
          n = Len(frames) /\ top = Top /\ v = NextOf(Top)
    <3>1. Len(frames) \in Nat /\ Top \in FrameType
      BY <1>1, TopFrame
    <3>2. NextOf(Top) \in Threads
      BY <1>1, <1>4, NextVertex
    <3> QED
      BY <3>1, <3>2
  <2>2. step' = "test" /\ frames' = [frames EXCEPT ![n].ver = v]
    BY <1>4, <2>1 DEF Advance
  <2>3. /\ n \in DOMAIN frames /\ DOMAIN frames = 1 .. n /\ top = frames[n]
        /\ frames \in Seq(FrameType) /\ top.vertex \in Threads
    <3>1. n \in DOMAIN frames /\ DOMAIN frames = 1 .. n /\ top = frames[n]
      BY <1>1, <2>1, TopFrame
    <3> QED
      BY <3>1, Frames DEF FrameType
  <2>4. next[top.vertex] \in Seq(Threads) /\ top.vertex \notin Range(next[top.vertex])
        /\ IsInjective(next[top.vertex])
    BY <2>3 DEF Tables, TablesAreSound
  <2>5. PICK k \in Nat : /\ At(top, k)
                         /\ k + 1 \in DOMAIN next[top.vertex]
                         /\ v = next[top.vertex][k + 1]
    <3>1. PICK k \in 0 .. Len(next[top.vertex]) :
            /\ At(top, k)
            /\ k < Len(next[top.vertex]) => v = next[top.vertex][k + 1]
            /\ NextOf(Top) # None <=> k < Len(next[top.vertex])
      BY <1>1, <2>1, TopPlace
    <3>2. k \in Nat /\ k + 1 \in DOMAIN next[top.vertex] /\ v = next[top.vertex][k + 1]
      BY <1>4, <2>4, <3>1
    <3> QED
      BY <3>1, <3>2
  <2>6. v # top.vertex
    BY <2>4, <2>5 DEF Range
  <2>7. /\ DOMAIN frames' = 1 .. n
        /\ frames'[n].vertex = top.vertex /\ frames'[n].ver = v
        /\ \A i \in 1 .. n : i # n => frames'[i] = frames[i]
        /\ \A i \in 1 .. n : frames'[i].vertex = frames[i].vertex
        /\ frames' \in Seq(FrameType)
    <3>1. frames[n] \in FrameType
      BY <2>3
    <3> QED
      BY <2>2, <2>3, <3>1 DEF FrameType
  <2>8. Len(frames') = n
    BY <2>7
  <2>9. \A t : (OnPath(t)' <=> OnPath(t)) /\ (HasMark(t)' <=> HasMark(t))
    BY <1>1, <2>3, <2>7 DEF OnPath, HasMark
  <2>10. OnlyPathMarked'
    <3>1. Top' = frames'[n]
      BY <2>8 DEF Top
    <3> QED
      BY <2>6, <2>7, <3>1 DEF OnlyPathMarked
  <2>11. At(frames[n], k + 1)'
    BY <1>1, <2>5, <2>6, <2>7 DEF At
  <2>12. ASSUME NEW p \in Threads, NEW j \in DOMAIN next[p], Followed(p, j)
         PROVE  Followed(p, j)'
    <3>1. CASE HasMark(p) /\ ~ OnPath(p)
      BY <2>9, <3>1 DEF Followed
    <3>2. ASSUME NEW i \in DOMAIN frames, NEW m \in Nat,
                 frames[i].vertex = p, At(frames[i], m),
                 j <= m \/ (i = Len(frames) /\ j = m + 1)
          PROVE  Followed(p, j)'
      <4>1. CASE i = n
        <5>1. m = k
          BY <1>1, <2>3, <2>5, <3>2, <4>1, OnePlace
        <5>2. j <= k + 1 /\ k + 1 \in Nat
          <6>1. j \in Nat
            BY <2>3, <2>4, <3>2, <4>1
          <6> QED
            BY <3>2, <5>1, <6>1
        <5> QED
          BY <2>3, <2>7, <2>11, <3>2, <4>1, <5>2 DEF Followed
      <4>2. CASE i # n
        <5>1. i \in DOMAIN frames' /\ frames'[i] = frames[i] /\ j <= m
          BY <2>1, <2>3, <2>7, <3>2, <4>2
        <5>2. At(frames[i], m)'
          BY <1>1, <3>2, <5>1 DEF At
        <5> QED
          BY <3>2, <5>1, <5>2 DEF Followed
      <4> QED
        BY <4>1, <4>2
    <3> QED
      BY <2>12, <3>1, <3>2 DEF Followed
  <2>13. MarksFollowed'
    <3>1. Marking' => Marking
      BY <1>1, <2>1, <2>2, <2>8 DEF Marking
    <3> QED
      BY <1>1, <2>9, <2>12, <3>1 DEF Marks, MarksFollowed
  <2> QED
    BY <1>2, <2>10, <2>13 DEF Marks
<1> QED
  BY <1>3, <1>4

LEMMA MarksStep == Tables /\ Search /\ Chain /\ Marks /\ [Next]_vars => Marks'
<1> SUFFICES ASSUME Tables, Search, Chain, Marks, [Next]_vars PROVE Marks'
  OBVIOUS
<1>1. CASE ~ Detector
  BY <1>1, Quiet, MarksBesideProgram
<1>2. CASE Detector
  BY <1>2, MarksWake, MarksRoot, MarksTest, MarksTake, MarksAdvance DEF Detector
<1> QED
  BY <1>1, <1>2

-----------------------------------------------------------------------------
(* The footing of the search, and what becomes of a deadlock.              *)

\* Between the test of a loop and the steps that read the node again, the
\* node is still there.
NodeThere == quiet /\ step \in {"take", "advance"} => NextOf(Top) # None

Footing == NodeThere /\ TripsOnlyOverChange

LEMMA FootingBesideProgram ==
  ASSUME Tables, Search, Footing, [Next]_vars, ~ Detector
  PROVE  Footing'
<1>1. /\ quiet' => quiet /\ UNCHANGED graph
      /\ frames' = frames
  BY Quiet
<1>2. quiet' => step' = step
  <2> SUFFICES ASSUME quiet', step' # step PROVE FALSE
    OBVIOUS
  <2>1. PICK t \in Threads : lock_after(t)
    BY Quiet DEF Next, Wild, lock_before, Release, Acquire, unlock_after, vars, search
  <2> DEFINE holder == lock_list[search_lock(arg[t])].th_id
  <2>2. /\ step # "wild" /\ holder # t /\ PointedAt(t, holder)
        /\ next' = remove_edge(t, holder)
    BY <2>1 DEF lock_after, search
  <2> HIDE DEF holder
  <2>3. holder \in Range(next[t])
    BY <2>2 DEF PointedAt, Search, Pointers
  <2>4. Range(next'[t]) = Range(next[t]) \ {holder}
    BY <2>2, RemoveEdge DEF Tables, TablesAreSound
  <2> QED
    BY <1>1, <2>3, <2>4 DEF graph
<1>3. quiet' => (NextOf(Top)' = NextOf(Top))
  BY <1>1 DEF graph, NextOf, Top
<1> QED
  BY <1>1, <1>2, <1>3 DEF Footing, NodeThere, TripsOnlyOverChange

LEMMA FootingStep ==
  ASSUME Tables, Search, Chain, Footing, Detector
  PROVE  Footing'
<1>1. next' = next
  BY DEF Detector, Wake, Root, Test, Take, Advance, graph
<1>2. CASE Wake \/ Root
  <2>1. step' \in {"sleep", "root", "test"}
    BY <1>2 DEF Wake, Root
  <2> QED
    BY <2>1 DEF Footing, NodeThere, TripsOnlyOverChange
<1>3. CASE Test
  <2>1. quiet' = quiet /\ step = "test" /\ Active
    BY <1>3 DEF Test, Active
  <2>2. CASE NextOf(Top) # None
    <3>1. step' = "take" /\ frames' = frames
      BY <1>3, <2>2 DEF Test
    <3>2. NextOf(Top)' = NextOf(Top)
      BY <1>1, <3>1 DEF NextOf, Top
    <3> QED
      BY <2>2, <3>1, <3>2 DEF Footing, NodeThere, TripsOnlyOverChange
  <2>3. CASE NextOf(Top) = None /\ Len(frames) = 1
    <3>1. step' = "root"
      BY <1>3, <2>3 DEF Test
    <3> QED
      BY <3>1 DEF Footing, NodeThere, TripsOnlyOverChange
  <2>4. CASE NextOf(Top) = None /\ Len(frames) # 1
    <3>1. PICK n \in Nat : n + 1 = Len(frames)
      <4>1. Len(frames) - 1 \in Nat /\ Len(frames) = (Len(frames) - 1) + 1
        BY <2>1, TopFrame DEF Active
      <4> QED
        BY <4>1
    <3>2. step' = "advance" /\ frames' = PopFrame
      BY <1>3, <2>4 DEF Test
    <3>3. n \in DOMAIN frames /\ n + 1 \in DOMAIN frames /\ n \in 1 .. Len(frames) - 1
      <4>1. DOMAIN frames = 1 .. Len(frames)
        BY <2>1, TopFrame
      <4> QED
        BY <2>4, <3>1, <4>1
    <3>4. frames'[n] = frames[n] /\ Len(frames') = n
      <4>1. PopFrame[n] = frames[n] /\ Len(PopFrame) = Len(frames) - 1
        BY <2>1, <3>3, TopFrame
      <4> QED
        BY <3>1, <3>2, <4>1
    <3>5. PICK f \in FrameType : f = frames[n]
      BY <3>3, Frames DEF Search, SearchType
    <3>6. NextOf(Top)' = NextOf(f)
      <4>1. Top' = f
        BY <3>4, <3>5 DEF Top
      <4> HIDE DEF Top
      <4> QED
        BY <1>1, <4>1 DEF NextOf
    <3>7. ASSUME quiet PROVE NextOf(f) # None
      <4>1. PICK k \in Nat : /\ At(f, k)
                             /\ k + 1 \in DOMAIN next[f.vertex]
                             /\ next[f.vertex][k + 1] = frames[n + 1].vertex
        BY <2>1, <3>3, <3>5, <3>7 DEF Chain
      <4>2. f.ver = f.vertex \/ f.ver \in Range(next[f.vertex])
        BY <2>1, <3>3, <3>5 DEF Search, Pointers
      <4>3. PICK m \in 0 .. Len(next[f.vertex]) :
              /\ \A i \in Nat : At(f, i) => i = m
              /\ NextOf(f) = IF m < Len(next[f.vertex]) THEN next[f.vertex][m + 1] ELSE None
        BY <4>2, Place
      <4>4. next[f.vertex] \in Seq(Threads)
        BY DEF Tables, FrameType
      <4>5. k = m /\ k < Len(next[f.vertex])
        BY <4>1, <4>3, <4>4
      <4> QED
        BY <4>1, <4>3, <4>4, <4>5, DetectorAssumption
    <3> QED
      BY <2>1, <3>2, <3>6, <3>7 DEF Footing, NodeThere, TripsOnlyOverChange
  <2> QED
    BY <2>2, <2>3, <2>4
<1>4. CASE Take
  <2>1. quiet' = quiet /\ step = "take"
    BY <1>4 DEF Take
  <2>2. CASE NextOf(Top) = None
    BY <2>1, <2>2 DEF Footing, NodeThere, TripsOnlyOverChange
  <2>3. CASE NextOf(Top) # None
    <3>1. DFS(NextOf(Top))
      BY <1>4, <2>3 DEF Take
    <3>2. step' = "test" \/ (step' = "advance" /\ frames' = frames)
      BY <3>1 DEF DFS
    <3>3. frames' = frames => NextOf(Top)' = NextOf(Top)
      BY <1>1 DEF NextOf, Top
    <3> QED
      BY <2>3, <3>2, <3>3 DEF Footing, NodeThere, TripsOnlyOverChange
  <2> QED
    BY <2>2, <2>3
<1>5. CASE Advance
  <2>1. quiet' = quiet /\ step = "advance" /\ (NextOf(Top) # None => step' = "test")
    BY <1>5 DEF Advance
  <2> QED
    BY <2>1 DEF Footing, NodeThere, TripsOnlyOverChange
<1> QED
  BY <1>2, <1>3, <1>4, <1>5 DEF Detector

\* What the hooks leave of the edges of a thread that waits.
LEMMA EdgesOfWaiters ==
  ASSUME Hooks, Tables, [Next]_vars, NEW t \in Threads, pc[t] = "lock"
  PROVE  Range(next[t]) \subseteq Range(next'[t])
<1>1. ASSUME NEW u \in Threads, NEW l \in Locks, lock_before(u, l)
      PROVE  Range(next[t]) \subseteq Range(next'[t])
  <2> DEFINE holder == lock_list[search_lock(l)].th_id
  <2>1. u # t
    BY <1>1 DEF lock_before, Running
  <2>2. \/ next' = next
        \/ next' = [next EXCEPT ![u] = Append(@, holder)]
    BY <1>1 DEF lock_before, graph
  <2> QED
    BY <2>1, <2>2 DEF Tables
<1>2. ASSUME NEW u \in Threads, lock_after(u)
      PROVE  Range(next[t]) \subseteq Range(next'[t])
  <2> DEFINE holder == lock_list[search_lock(arg[u])].th_id
  <2>1. u # t
    BY <1>2 DEF lock_after
  <2>2. next' = next \/ next' = remove_edge(u, holder)
    BY <1>2 DEF lock_after, graph
  <2>3. remove_edge(u, holder)[t] = next[t]
    BY <2>1, RemoveEdge DEF Tables, TablesAreSound
  <2> QED
    BY <2>2, <2>3
<1>3. CASE UNCHANGED next
  BY <1>3
<1>4. ASSUME NEW u \in Threads, NEW l \in Locks, Release(u, l)
      PROVE  UNCHANGED next
  BY <1>4 DEF Release, graph
<1>5. ASSUME NEW u \in Threads, Acquire(u) \/ unlock_after(u)
      PROVE  UNCHANGED next
  BY <1>5 DEF Acquire, unlock_after, graph
<1>6. CASE Detector \/ UNCHANGED vars
  BY <1>6 DEF Detector, Wake, Root, Test, Take, Advance, graph, vars
<1> QED
  BY <1>1, <1>2, <1>3, <1>4, <1>5, <1>6 DEF Next, Wild

\* Threads that wait for each other neither get what they wait for nor give
\* back what they have.
LEMMA DeadlockLasts ==
  ASSUME Hooks, [Next]_vars, NEW S \in SUBSET Threads, Deadlocked(S)
  PROVE  /\ Deadlocked(S)'
         /\ \A t \in S : owner'[arg'[t]] = owner[arg[t]]
<1> USE DetectorAssumption
<1> DEFINE Stays(t) == pc'[t] = "lock" /\ arg'[t] = arg[t] /\ owner'[arg[t]] = owner[arg[t]]
<1>1. S # {} /\ \A t \in S : /\ t \in Threads /\ pc[t] = "lock" /\ arg[t] \in Locks
                             /\ owner[arg[t]] \in S
  BY DEF Deadlocked, Hooks
<1>2. /\ pc \in [Threads -> {"run", "lock", "locked", "unlocked"}]
      /\ arg \in [Threads -> Locks \cup {None}]
      /\ owner \in [Locks -> Threads \cup {None}]
  BY DEF Hooks
<1>3. ASSUME NEW t \in S PROVE Stays(t)
  <2>1. ASSUME NEW u \in Threads, NEW l \in Locks, lock_before(u, l)
        PROVE  Stays(t)
    BY <1>1, <1>2, <2>1 DEF lock_before, Running
  <2>2. ASSUME NEW u \in Threads, NEW l \in Locks, Release(u, l)
        PROVE  Stays(t)
    <3>1. /\ pc[u] = "run" /\ owner[l] = u /\ owner' = [owner EXCEPT ![l] = None]
          /\ pc' = [pc EXCEPT ![u] = "unlocked"] /\ arg' = [arg EXCEPT ![u] = l]
      BY <2>2 DEF Release, Running
    <3>2. u \notin S /\ l # arg[t]
      BY <1>1, <3>1
    <3> QED
      BY <1>1, <1>2, <3>1, <3>2
  <2>3. ASSUME NEW u \in Threads, Acquire(u)
        PROVE  Stays(t)
    <3>1. /\ owner[arg[u]] = None /\ owner' = [owner EXCEPT ![arg[u]] = u]
          /\ pc' = [pc EXCEPT ![u] = "locked"] /\ arg' = arg
      BY <2>3 DEF Acquire
    <3>2. u \notin S /\ arg[u] # arg[t]
      BY <1>1, <3>1
    <3> QED
      BY <1>1, <1>2, <3>1, <3>2
  <2>4. ASSUME NEW u \in Threads, lock_after(u) \/ unlock_after(u)
        PROVE  Stays(t)
    BY <1>1, <1>2, <2>4 DEF lock_after, unlock_after
  <2>5. CASE Detector \/ UNCHANGED vars
    BY <1>1, <2>5 DEF Detector, Wake, Root, Test, Take, Advance, program, vars
  <2> QED
    BY <2>1, <2>2, <2>3, <2>4, <2>5 DEF Next, Wild
<1> QED
  BY <1>1, <1>3 DEF Deadlocked

-----------------------------------------------------------------------------
(* The theorems.                                                           *)

\* The invariant holds of the hooks, the tables and the search together: what
\* the search may follow depends on the tables, whose entries depend on where
\* the threads are in the hooks.
THEOREM Invariance == Spec => []IInv
<1>1. IInv /\ [Next]_vars => IInv'
  BY HooksStep, TablesStep, SearchStep DEF IInv
<1> QED
  BY InitIInv, <1>1, PTL DEF Spec

\* Every variable of the detector keeps its type, for any finite set of
\* threads: no list or table ever holds anything but threads and locks.
THEOREM Typing == Spec => []TypeOK
<1>1. IInv => TypeOK
  BY DEF IInv, Hooks, Tables, Search, SearchType, FrameType, TypeOK
<1> QED
  BY Invariance, <1>1, PTL

\* The lists of vertices, edges and locks stay free of duplicates, and edges
\* lead from known threads to others, in any order of the hooks' steps.
THEOREM ListsStaySound == Spec => []TablesAreSound
<1>1. IInv => TablesAreSound
  BY DEF IInv, Tables
<1> QED
  BY Invariance, <1>1, PTL

\* DFS is never active twice for one vertex, although hooks add and remove
\* edges during the search, so that path[] is never overrun.
THEOREM RecursionIsBounded == Spec => []PathFits
<1>1. IInv => PathFits
  BY DEF IInv, Search
<1> QED
  BY Invariance, <1>1, PTL

\* What a search knows of a graph that stays as it is.
Knowledge == Seen /\ Marks

LEMMA Known == Spec => []Knowledge
<1>1. Init => Knowledge
  BY InitSeen, InitMarks DEF Knowledge
<1>2. IInv /\ Knowledge /\ [Next]_vars => Knowledge'
  BY SeenStep, MarksStep DEF IInv, Knowledge, Seen
<1> QED
  BY <1>1, <1>2, Invariance, PTL DEF Spec

\* A search during which the graph did not change has found every cycle there
\* is, from whichever vertex it can be reached.
THEOREM NoCycleIsMissed == Spec => []CyclesAreFound
<1>1. Knowledge => CyclesAreFound
  BY CleanMeansNone DEF Knowledge, Seen, Explored, AllClean, CyclesAreFound
<1> QED
  BY Known, <1>1, PTL

\* A report, while the graph does not change, is a cycle, or there are a
\* thread with edges to two others and one that two others have edges to.
THEOREM FalseReportsMeet == Spec => []ReportsAreCycles
<1>1. Knowledge => ReportsAreCycles
  BY DEF Knowledge, Marks
<1> QED
  BY Known, <1>1, PTL

\* The detector dereferences a freed or null pointer only if a hook has changed
\* the graph since check_dead_lock began.
THEOREM DetectorKeepsFooting == Spec => []TripsOnlyOverChange
<1>1. Init => Footing
  BY DEF Init, Footing, NodeThere, TripsOnlyOverChange
<1>2. IInv /\ Knowledge /\ Footing /\ [Next]_vars => Footing'
  BY FootingBesideProgram, FootingStep DEF IInv, Knowledge, Seen
<1>3. Footing => TripsOnlyOverChange
  BY DEF Footing
<1> QED
  BY <1>1, <1>2, <1>3, Invariance, Known, PTL DEF Spec

\* Threads that wait for each other, with their edges in the graph, stay in it
\* whatever the others do in lock_before, lock_after and unlock_after.
THEOREM RecordedDeadlocksLast == Spec => RecordsLast
<1> DEFINE Last == \A S \in SUBSET Threads : Recorded(S) => Recorded(S)'
<1>1. IInv /\ [Next]_vars => Last
  <2> SUFFICES ASSUME IInv, [Next]_vars, NEW S \in SUBSET Threads, Recorded(S)
               PROVE  Recorded(S)'
    OBVIOUS
  <2>1. Deadlocked(S)' /\ \A t \in S : owner'[arg'[t]] = owner[arg[t]]
    BY DeadlockLasts DEF Recorded, IInv
  <2>2. \A t \in S : Range(next[t]) \subseteq Range(next'[t])
    BY EdgesOfWaiters DEF Recorded, Deadlocked, IInv
  <2>3. \A t \in S : owner'[arg'[t]] \in Range(next'[t])
    BY <2>1, <2>2 DEF Recorded
  <2>4. Recorded(S)' <=> Deadlocked(S)' /\ \A t \in S : owner'[arg'[t]] \in Range(next'[t])
    BY DEF Recorded, Range
  <2> QED
    BY <2>1, <2>3, <2>4
<1> HIDE DEF Last
<1>2. IInv /\ [Next]_vars => [Last]_vars
  BY <1>1
<1>3. Spec => [][Last]_vars
  BY <1>2, Invariance, PTL DEF Spec
<1> QED
  BY <1>3 DEF RecordsLast, Last

\* Every search that the hooks do not disturb reports a deadlock that is in the
\* graph when it ends.
THEOREM UndisturbedSearchReports == Spec => []RecordedIsFound
<1>1. ASSUME NEW S \in SUBSET Threads, Recorded(S) PROVE Cycle(S)
  BY <1>1 DEF Recorded, Deadlocked, Cycle
<1>2. CyclesAreFound => RecordedIsFound
  BY <1>1 DEF CyclesAreFound, RecordedIsFound
<1> QED
  BY <1>2, NoCycleIsMissed, PTL

=============================================================================
