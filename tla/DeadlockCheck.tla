----------------------------- MODULE DeadlockCheck -----------------------------
(***************************************************************************)
(* The deadlock detector of deadlock_check/deadlock_check.c.  Threads of a *)
(* monitored program call the hooked pthread_mutex_lock and                *)
(* pthread_mutex_unlock, which keep a table of the locks that are held and *)
(* a graph of which thread waits for which; tg->mutex makes each of        *)
(* lock_before, lock_after and unlock_after one step.  The detector thread *)
(* searches the graph for cycles without that mutex, one list node at a    *)
(* time, while the hooks change the lists.                                 *)
(*                                                                         *)
(* The monitored program never locks a mutex it holds already, and unlocks *)
(* only what it holds.  owner and plan are its own state, the rest is tg   *)
(* and the locals of the detector.                                         *)
(***************************************************************************)
EXTENDS Integers, Sequences, FiniteSets, Functions

CONSTANTS
  Threads,   \* the threads of the monitored program
  Locks,     \* its mutexes
  None,      \* 0: no thread, no lock, the end of a list
  Plans,     \* bound: the lock calls of an execution, for each of them which
             \* threads may make it, and for which mutexes
  Dirty      \* whether malloc may hand start_check memory that is not zeroed

ASSUME DetectorAssumption ==
  /\ IsFiniteSet(Threads)
  /\ None \notin Threads \cup Locks
  /\ Plans \subseteq Seq(SUBSET (Threads \X Locks))
  /\ Dirty \in BOOLEAN

VARIABLES
  pc,           \* where each thread is in a hooked call
  arg,          \* the lock of that call
  owner,        \* the thread that really holds each mutex
  plan,         \* the lock calls still to come
  vertex_list,  \* the threads the graph knows
  next,         \* for each of them the list of its edges
  lock_list,    \* the table of locks
  junk,         \* the content of memory not yet written: 0 or not
  step,         \* where the detector is
  root,         \* the vertex whose turn it is in check_dead_lock
  frames,       \* the active calls of search_for_cycle and DFS
  visited,      \* vertices with a set mark
  deadlock,     \* tg->deadlock
  quiet         \* history: the graph has not changed during this search

program == <<pc, arg, owner, plan>>
graph == <<vertex_list, next>>
search == <<step, root, frames, visited, deadlock>>
vars == <<program, graph, lock_list, junk, search, quiet>>

Entry == [th_id : Threads \cup {None}, lock_id : Locks \cup {None}, degress : Int]

\* search_vertex and search_lock: where x is, or 0.  The code answers -1.
search_vertex(t) ==
  IF t \in Range(vertex_list)
    THEN CHOOSE i \in DOMAIN vertex_list : vertex_list[i] = t ELSE 0
search_lock(l) ==
  IF \E i \in DOMAIN lock_list : lock_list[i].lock_id = l
    THEN CHOOSE i \in DOMAIN lock_list : lock_list[i].lock_id = l ELSE 0

\* add_vertex
add_vertex(list, t) == IF t \in Range(list) THEN list ELSE Append(list, t)

\* Mutant of verify_edge: an edge is added whether or not it is there.
NeverThere(u, v) == FALSE

\* verify_edge starts at the vertex itself, so that every vertex seems to
\* have an edge to itself.
verify_edge(u, v) == u = v \/ v \in Range(next[u])

\* Mutant of remove_edge: the node is freed and stays in the list.
StaysLinked(u, v) ==
  [next EXCEPT ![u] = [i \in DOMAIN @ |-> IF @[i] = v THEN None ELSE @[i]]]

\* A list without its node at.
Unlinked(list, at) ==
  [i \in 1 .. Len(list) - 1 |-> IF i < at THEN list[i] ELSE list[i + 1]]

\* remove_edge takes v out of the list of u, which holds it once at most.
remove_edge(u, v) ==
  IF v \in Range(next[u])
    THEN [next EXCEPT ![u] = Unlinked(@, CHOOSE i \in DOMAIN @ : @[i] = v)]
    ELSE next

Init ==
  /\ pc = [t \in Threads |-> "run"]
  /\ arg = [t \in Threads |-> None]
  /\ owner = [l \in Locks |-> None]
  /\ plan \in Plans
  /\ vertex_list = <<>>
  /\ next = [t \in Threads |-> <<>>]
  /\ lock_list = <<>>
  /\ junk \in IF Dirty THEN {0, 1} ELSE {0}
  /\ step = "sleep" /\ root = 0 /\ frames = <<>>
  /\ visited = IF junk = 0 THEN {} ELSE 1 .. Cardinality(Threads)
  /\ deadlock = FALSE
  /\ quiet = FALSE

Running(t) == pc[t] = "run" /\ step # "wild"

\* Whether the graph is still the one the detector began with.
Watch == quiet' = (quiet /\ UNCHANGED graph)

(***************************************************************************)
(* The hooks.                                                              *)
(***************************************************************************)

\* A thread asks for l: lock_before records that it waits for the thread
\* the table names, if the table has the lock.
lock_before(t, l) ==
  LET idx == search_lock(l)
      holder == lock_list[idx].th_id
  IN /\ Running(t) /\ owner[l] # t
     /\ plan # <<>> /\ <<t, l>> \in Head(plan)
     /\ pc' = [pc EXCEPT ![t] = "lock"]
     /\ arg' = [arg EXCEPT ![t] = l]
     /\ plan' = Tail(plan)
     /\ IF idx = 0
          THEN UNCHANGED <<graph, lock_list>>
          ELSE /\ vertex_list' = add_vertex(add_vertex(vertex_list, t), holder)
               /\ lock_list' = [lock_list EXCEPT ![idx].degress = @ + 1]
               /\ next' = IF verify_edge(t, holder) THEN next
                          ELSE [next EXCEPT ![t] = Append(@, holder)]
     /\ Watch
     /\ UNCHANGED <<owner, junk, search>>

\* pthread_mutex_lock_f
Acquire(t) ==
  /\ pc[t] = "lock" /\ owner[arg[t]] = None /\ step # "wild"
  /\ owner' = [owner EXCEPT ![arg[t]] = t]
  /\ pc' = [pc EXCEPT ![t] = "locked"]
  /\ UNCHANGED <<arg, plan, graph, lock_list, junk, search, quiet>>

\* search_empty_lock: a cleared entry, whose degress is 0, or the first one
\* never written, whose degress is whatever the memory held.
NewEntry(t, l) ==
  IF search_lock(None) # 0
    THEN [lock_list EXCEPT ![search_lock(None)].th_id = t,
                           ![search_lock(None)].lock_id = l]
    ELSE Append(lock_list, [th_id |-> t, lock_id |-> l, degress |-> junk])

\* The detector has a pointer to the node of edge (u, v).
PointedAt(u, v) == \E i \in DOMAIN frames : frames[i] = [vertex |-> u, ver |-> v]

\* The thread has the mutex.  If the table names another thread for it, the
\* edge to that one is removed and freed: a detector that points at it reads
\* freed memory from now on.
lock_after(t) ==
  LET idx == search_lock(arg[t])
      holder == lock_list[idx].th_id
  IN /\ pc[t] = "locked" /\ step # "wild"
     /\ pc' = [pc EXCEPT ![t] = "run"]
     /\ arg' = [arg EXCEPT ![t] = None]
     /\ IF idx = 0
          THEN /\ lock_list' = NewEntry(t, arg[t])
               /\ UNCHANGED <<graph, step>>
          ELSE /\ lock_list' = [lock_list EXCEPT ![idx].degress = @ - 1,
                                                 ![idx].th_id = t]
               /\ next' = IF holder # t THEN remove_edge(t, holder) ELSE next
               /\ step' = IF PointedAt(t, holder) /\ holder # t
                            THEN "wild" ELSE step
               /\ UNCHANGED vertex_list
     /\ Watch
     /\ UNCHANGED <<owner, plan, junk, root, frames, visited, deadlock>>

\* pthread_mutex_unlock_f
Release(t, l) ==
  /\ Running(t) /\ owner[l] = t
  /\ owner' = [owner EXCEPT ![l] = None]
  /\ pc' = [pc EXCEPT ![t] = "unlocked"]
  /\ arg' = [arg EXCEPT ![t] = l]
  /\ UNCHANGED <<plan, graph, lock_list, junk, search, quiet>>

\* The entry goes if no thread is recorded as waiting.  If the lock is not in
\* the table any more, the code reads and perhaps clears lock_list[-1], which
\* is the unused end of vertex_list: nothing changes.
unlock_after(t) ==
  LET idx == search_lock(arg[t])
  IN /\ pc[t] = "unlocked" /\ step # "wild"
     /\ pc' = [pc EXCEPT ![t] = "run"]
     /\ arg' = [arg EXCEPT ![t] = None]
     /\ lock_list' =
          IF idx # 0 /\ lock_list[idx].degress = 0
            THEN [lock_list EXCEPT ![idx].th_id = None, ![idx].lock_id = None]
            ELSE lock_list
     /\ UNCHANGED <<owner, plan, graph, junk, search, quiet>>

(***************************************************************************)
(* The detector.  A frame holds the vertex of the call and its local ver:  *)
(* the vertex itself for the head of the list, or the target of a node.    *)
(***************************************************************************)

Top == frames[Len(frames)]
PopFrame == SubSeq(frames, 1, Len(frames) - 1)

\* Mutant of NextOf: the loops stop at the last node instead of behind it.
AllButLast(f) ==
  LET list == next[f.vertex]
      at == IF f.ver = f.vertex THEN 0
            ELSE CHOOSE i \in DOMAIN list : list[i] = f.ver
  IN IF at + 1 < Len(list) THEN list[at + 1] ELSE None

\* ver->next
NextOf(f) ==
  LET list == next[f.vertex]
      at == IF f.ver = f.vertex THEN 0
            ELSE CHOOSE i \in DOMAIN list : list[i] = f.ver
  IN IF at < Len(list) THEN list[at + 1] ELSE None

\* check_dead_lock, after the five seconds of sleep
Wake ==
  /\ step = "sleep"
  /\ step' = "root" /\ root' = 1
  /\ deadlock' = FALSE /\ quiet' = TRUE
  /\ UNCHANGED <<program, graph, lock_list, junk, frames, visited>>

\* The loop of check_dead_lock, and the head of search_for_cycle.  The marks
\* left over by a search are never read: the next one clears them first, so
\* the model drops them here.
Root ==
  /\ step = "root"
  /\ IF root > Len(vertex_list) \/ deadlock
       THEN /\ step' = "sleep" /\ root' = 0
            /\ visited' = visited \ DOMAIN vertex_list
            /\ UNCHANGED frames
       ELSE LET v == vertex_list[root]
            IN /\ frames' = <<[vertex |-> v, ver |-> v]>>
               /\ visited' = visited \cup {root}
               /\ step' = "test" /\ UNCHANGED root
  /\ UNCHANGED <<program, graph, lock_list, junk, deadlock, quiet>>

\* Mutant of ClearedMarks: the marks of the previous edge stay.
AllMarks == visited \cup {root}

\* search_for_cycle forgets all marks but its own before each edge.
ClearedMarks == (visited \ DOMAIN vertex_list) \cup {root}

\* while (ver->next != NULL): go on with the edge, or return.
Test ==
  /\ step = "test"
  /\ IF NextOf(Top) # None
       THEN /\ step' = "take"
            /\ visited' = IF Len(frames) = 1 THEN ClearedMarks ELSE visited
            /\ UNCHANGED <<root, frames>>
       ELSE /\ frames' = PopFrame
            /\ IF Len(frames) = 1
                 THEN step' = "root" /\ root' = root + 1
                 ELSE step' = "advance" /\ UNCHANGED root
            /\ UNCHANGED visited
  /\ UNCHANGED <<program, graph, lock_list, junk, deadlock, quiet>>

\* Mutants of DFS: the vertex is not marked; a marked vertex ends the search
\* without a report.
DFSUnmarked(v) ==
  LET idx == search_vertex(v)
  IN IF idx \in visited
       THEN deadlock' = TRUE /\ step' = "advance" /\ UNCHANGED <<frames, visited>>
       ELSE /\ frames' = Append(frames, [vertex |-> v, ver |-> v])
            /\ step' = "test" /\ UNCHANGED <<deadlock, visited>>

DFSSilent(v) ==
  LET idx == search_vertex(v)
  IN IF idx \in visited
       THEN step' = "advance" /\ UNCHANGED <<frames, visited, deadlock>>
       ELSE /\ visited' = visited \cup {idx}
            /\ frames' = Append(frames, [vertex |-> v, ver |-> v])
            /\ step' = "test" /\ UNCHANGED deadlock

\* A call of DFS: a marked vertex is reported, another one is entered.
DFS(v) ==
  LET idx == search_vertex(v)
  IN IF idx \in visited
       THEN deadlock' = TRUE /\ step' = "advance" /\ UNCHANGED <<frames, visited>>
       ELSE /\ visited' = visited \cup {idx}
            /\ frames' = Append(frames, [vertex |-> v, ver |-> v])
            /\ step' = "test" /\ UNCHANGED deadlock

\* DFS(search_vertex(ver->next->pair)): the edge may be gone by now.
Take ==
  /\ step = "take"
  /\ IF NextOf(Top) = None
       THEN step' = "wild" /\ UNCHANGED <<frames, visited, deadlock>>
       ELSE DFS(NextOf(Top))
  /\ UNCHANGED <<program, graph, lock_list, junk, root, quiet>>

\* ver = ver->next, read once more, and read again by the loop's test.
Advance ==
  /\ step = "advance"
  /\ IF NextOf(Top) = None
       THEN step' = "wild" /\ UNCHANGED frames
       ELSE /\ frames' = [frames EXCEPT ![Len(frames)].ver = NextOf(Top)]
            /\ step' = "test"
  /\ UNCHANGED <<program, graph, lock_list, junk, root, visited, deadlock, quiet>>

Detector == Wake \/ Root \/ Test \/ Take \/ Advance

\* Nothing is said of the program after the detector has followed a freed or
\* null pointer.
Wild == step = "wild" /\ UNCHANGED vars

Next ==
  \/ \E t \in Threads, l \in Locks : lock_before(t, l) \/ Release(t, l)
  \/ \E t \in Threads : Acquire(t) \/ lock_after(t) \/ unlock_after(t)
  \/ Detector
  \/ Wild

Spec == Init /\ [][Next]_vars

\* sleep(5) ends, and the detector is a thread that is never blocked.
FairSpec == Spec /\ WF_vars(Detector)
--------------------------------------------------------------------------------

TypeOK ==
  /\ pc \in [Threads -> {"run", "lock", "locked", "unlocked"}]
  /\ arg \in [Threads -> Locks \cup {None}]
  /\ owner \in [Locks -> Threads \cup {None}]
  /\ plan \in Seq(SUBSET (Threads \X Locks))
  /\ vertex_list \in Seq(Threads)
  /\ next \in [Threads -> Seq(Threads)]
  /\ lock_list \in Seq(Entry)
  /\ junk \in {0, 1}
  /\ step \in {"sleep", "root", "test", "take", "advance", "wild"}
  /\ root \in Nat
  /\ frames \in Seq([vertex : Threads, ver : Threads])
  /\ visited \subseteq Nat
  /\ deadlock \in BOOLEAN
  /\ quiet \in BOOLEAN

\* The lists stay as the searches in them assume, whatever the order in which
\* the threads pass the hooks: no thread and no lock is entered twice, an edge
\* leads from a known thread to another known one, and is in its list once.
TablesAreSound ==
  /\ IsInjective(vertex_list)
  /\ \A i, j \in DOMAIN lock_list :
       lock_list[i].lock_id = lock_list[j].lock_id =>
         i = j \/ lock_list[i].lock_id = None
  /\ \A t \in Threads :
       /\ IsInjective(next[t])
       /\ Range(next[t]) \subseteq Range(vertex_list) \ {t}
       /\ next[t] # <<>> => t \in Range(vertex_list)

\* The recursion of DFS is never deeper than there are vertices, although the
\* graph changes under it, so that path[], which takes one more, is never
\* overrun: every active call has a vertex of its own.
PathFits ==
  \A i, j \in DOMAIN frames : frames[i].vertex = frames[j].vertex => i = j

\* The detector follows a freed or null pointer only if a hook changed the
\* graph during the search: by itself, what the test of a loop has seen is
\* still there when the loop reads it again.
TripsOnlyOverChange == quiet => step # "wild"

\* A set of threads each of which has an edge to another one of the set.
Cycle(S) == S # {} /\ \A u \in S : Range(next[u]) \cap S # {}

\* A search during which the graph did not change has set tg->deadlock if
\* there is a cycle anywhere.
CyclesAreFound ==
  step = "sleep" /\ quiet /\ (\E S \in SUBSET Threads : Cycle(S)) => deadlock

\* No thread waits for two others; no two threads wait for the same one.
OneEdgeEach == \A t \in Threads : Len(next[t]) <= 1
OneWaiterEach ==
  \A t, u \in Threads : t # u => Range(next[t]) \cap Range(next[u]) = {}

\* As long as the graph does not change, a report means that there is a cycle,
\* unless some thread waits for two others and some thread has two others wait
\* for it.  (Then there need not be one: DFS keeps its marks when it returns,
\* and reports the second of two paths that meet.)
ReportsAreCycles ==
  quiet /\ deadlock =>
    \/ \E S \in SUBSET Threads : Cycle(S)
    \/ ~ OneEdgeEach /\ ~ OneWaiterEach

\* Threads that wait for mutexes held by each other.
Deadlocked(S) ==
  S # {} /\ \A t \in S : pc[t] = "lock" /\ owner[arg[t]] \in S

\* Such threads, with an edge in the graph for each of their waits.
Recorded(S) ==
  Deadlocked(S) /\ \A t \in S : owner[arg[t]] \in Range(next[t])

\* A deadlock that is in the graph stays there: no hook that another thread is
\* in removes an edge of the threads that wait, and none of them gets on.
RecordsLast == [][\A S \in SUBSET Threads : Recorded(S) => Recorded(S)']_vars

\* So the next search finds it, unless the graph changes meanwhile.
RecordedIsFound ==
  step = "sleep" /\ quiet /\ (\E S \in SUBSET Threads : Recorded(S)) => deadlock

\* A deadlock whose edges are all in the graph is reported in the end, or the
\* detector trips over a list that other threads change.
RecordedDeadlockReported ==
  (\E S \in SUBSET Threads : Recorded(S)) ~> (deadlock \/ step = "wild")

\* What readme.md says at line 35, that a deadlock is a cycle in the graph:
\* threads that wait for each other are a cycle there.  Not so: a thread that
\* passes lock_before while the first holder has not reached lock_after finds
\* no entry, and waits without an edge.
DeadlockIsCycle ==
  (\E S \in SUBSET Threads : Deadlocked(S)) => \E S \in SUBSET Threads : Cycle(S)
================================================================================
