# Linux_cpp_learn: formal models

TLA+ models of the concurrent programs of this repository, model-checked with
TLC and, for the parts that matter most, proved with TLAPS for every number of
threads, tasks and connections.

## 1. The system

The repository is a collection of small, independent Linux programs and
libraries. Nothing is shared between them at run time, except that the echo
server contains its own copy of the thread pool. What carries logic worth
verifying:

| part | state | operations | what is hard |
|---|---|---|---|
| `thread_pool/cpp11` | task queue, mutex, condition variable, atomic stop flag, worker threads | constructor, `addTask`, `worker`, destructor | `m_stop` is raised and broadcast without the mutex; tasks submit tasks; shutdown with work left |
| `thread_pool/raw_version` | the same on pthreads, with a plain `bool` | the same | the same, and a data race on the flag |
| `connection_pool` | queue of idle connections, their idle times, condition variable; a producer and a recycler thread; borrowers holding `shared_ptr`s with a deleter | constructor (configuration), `getConn`, deleter, `produceConn`, `recycleConn`, `addConn` | one condition variable for two kinds of waiters; limits; who owns a connection |
| `connection_pool/MysqlConn` | result set, current row, transaction | `update`, `query`, `next`, `value`, `transaction`, `commit`, `rollback` | stale row pointers; state inherited by the next borrower |
| `mem_pool` | chain of blocks with `last`/`end`/`failed`, list of large allocations | create, destroy, reset, alloc, calloc, memalign, free | pointer arithmetic at block ends; reuse of headers; what a reset gives back |
| `deadlock_check` | table lock -> thread, wait-for graph, DFS state | hooks before/after lock, after unlock, periodic cycle search | the table and the graph lag behind the real locks |
| `echo_tcpServer` | epoll set, file descriptors, bounded pool | accept loop, `working`, `addTask` | edge-triggered events lost when the queue is full; descriptors reused |
| `memoryleak_check` | one file per live block, hook switches | hooked `malloc`, `free` | hooks that disable each other |
| `msgqueue` | a System V queue | three sends, three receives, removal | removal racing the sender |
| `bagu` | reference counts, a condition variable | demonstrations | |

The rest (`json`, `zero_copy`, `gdb`, `valgrind_learn`, `stackFrame`,
`mysql_test`, most of `bagu`) is straight-line input/output or one-feature
demonstrations, and is not modelled.

### What makes each part correct

- **Thread pool**: accepted tasks start in order, once each, and run; none is
  left in the queue with all workers asleep; a destroyed pool has run all it
  accepted, and the destruction ends.
- **Connection pool**: a connection has one owner, is not deleted in use and is
  not lost; the producer does not sleep through a shortage; whoever asks is
  served; idle connections go away when they are too old and too many, and
  only then; there is a bound on how many exist.
- **Memory pool**: what is handed out lies inside a block and overlaps nothing
  else in use; each large block is freed once; blocks are given up only when
  they keep failing; a reset makes the memory available again.
- **Deadlock detector**: the tables match the program's real locks; the search
  ends, stays inside its arrays, finds every cycle, and reports nothing else as
  long as no two paths meet; a deadlock in the graph stays there and is reported.
- **Echo server**: every byte received is echoed once, no connection is
  abandoned, and no descriptor is touched after it belongs to somebody else.
- **Leak detectors**: the files in `mem/` are exactly the live blocks; a hook
  that switches itself off switches itself on again.
- **MySQL connections**: a client reads the rows of its own query; what others
  left in its connection does not undo its updates; result sets do not leak.

Findings so far are in section 6.

## 2. The modules

| module | models | builds on |
|---|---|---|
| `TaskService` | what a thread pool promises: tasks accepted, started in order, finished, closed | |
| `ThreadPool` | `thread_pool/cpp11/thread_pool.cpp`; implements `TaskService` | `TaskService` (INSTANCE) |
| `ThreadPoolProofs` | theorems about it | `ThreadPool`, `QueueTheorems` |
| `Lending` | what a connection pool promises: a connection is idle or has one borrower | |
| `ConnPool` | `connection_pool/connPool.cpp`, and the idle time of `MysqlConn`; implements `Lending` | `Lending` (INSTANCE) |
| `ConnPoolProofs` | theorems about it | `ConnPool`, `QueueTheorems` |
| `Sessions` | `connection_pool/MysqlConn.cpp` in the hands of the clients of a pool | `Lending` (EXTENDS) |
| `MCSessions` | its symmetry, for TLC | `Sessions` |
| `SessionsProofs` | theorems about it | `Sessions` |
| `MemPool` | `mem_pool/mempool.c` | |
| `MCMemPool` | where the blocks lie, and the symmetry of the addresses of large blocks, for TLC | `MemPool` |
| `MemPoolProofs` | theorems about it | `MemPool` |
| `DeadlockCheck` | `deadlock_check/deadlock_check.c` | |
| `MCDeadlockCheck` | what the monitored program locks in the runs, for TLC | `DeadlockCheck` |
| `DeadlockProofs` | theorems about it | `DeadlockCheck`, `QueueTheorems` |
| `EchoServer` | `echo_tcpServer`: `server.cpp`, `threadPool.cpp`, `client.cpp` | |
| `EchoProofs` | theorems about it | `EchoServer`, `QueueTheorems` |
| `LeakCheck` | `memoryleak_check`: `dlsym_hook.c`, `macro_hook.c` | |
| `LeakProofs` | theorems about it | `LeakCheck` |
| `QueueTheorems` | lemmas on sequences used as queues: appending, taking the head, dropping a prefix, what stays injective | |

The connection pool and the connections are composed through `Lending`:
`ConnPool` is shown to implement it, and `Sessions` is built on it instead of on
the locks and queues of `ConnPool`, so that what `Sessions` shows holds with the
pool of the code.

Definitions carry the names of the functions they model. Definitions commented
as a *mutated form* or *mutant* are not part of the models: each is a plausible
bug, put in place of the definition next to it to see that a property notices.

### ThreadPool

A step is a stretch of code between two points where another thread can
interfere. `m_mutex` makes most critical sections one step; two are split,
because `m_stop` is written without the mutex and may change inside them:

- `addTask`: the test of `m_stop` (`AddTaskEnter`, or `AddTaskThrows`), the push under
  the same lock (`AddTaskPush`), the notification after the unlock
  (`AddTaskNotify`).
- `worker`: take the lock and test the predicate (`WorkerLocks`, which ends in
  taking a task, in leaving, or on the way to sleep), go to sleep
  (`WorkerSleeps`), run the task (`WorkerRuns`, during which the task may call
  `addTask`).
- `~threadPool`: `DestroyStop`, `DestroyNotifyAll`, `DestroyJoin`.

The condition variable is the set `waiting`; `notify_one` removes any one
thread of it and does nothing if it is empty, so that a notification is lost
when nobody sleeps yet. Spurious wakeups may happen at any time. The owner is
the only thread that destroys the pool and does not call `addTask` afterwards;
tasks do. `accepted`, `started` and `done` are history variables. With them and
"the destructor has returned" for `closed`, `ThreadPool` implements `TaskService`
(`ImplementsService`).

### ConnPool

Everything shared is accessed under `m_mutexQ` and all notifications are sent
before it is released, so each critical section is a step. `GetConn` is one
round of the loop in `getConn` (take an idle connection, create one, or sleep);
`GetTimeout` the end of `wait_for`; `Release` the deleter; `ProducerWait` and
`ProducerAdd` the two ways through `produceConn`; `Recycle` one pass of
`recycleConn`; `Tick` the clock, on which only the order of the connections
and reaching `MaxIdle` matter. The destruction of the last `shared_ptr` of a
client is the call of the deleter. That connecting fails makes no difference to
the pool, which does not look at the result; it does in `Sessions`. The queue
as a set and the connection each client has are the variables of `Lending`
(`ImplementsLending`).
Both a readable and an unreadable `dbconf.json` are initial states; in the
second the constructor returns early and the pool has no threads.

### MemPool

Addresses are offsets from the start of the (aligned) block, with the real
sizes of the three structures, so that the arithmetic of `mp_alloc` is the
arithmetic of the code, the wrapping unsigned comparison included (`Fits`).
`Base` says where `posix_memalign` has put each block: aligned, and apart from
the others (`PlacementAssumption`); with it `Disjoint` compares any two chunks.
`chunks` is a history of what has been carved since the last reset: the users'
chunks and the slots of the list of large blocks. Any allocation from the
system may fail. `mp_calloc` is `mp_alloc` followed by a `memset` of the
result, and is covered by `AllocSmall` and `AllocLarge`.
`head->next` is left uninitialised by `mp_create_pool`; the model starts with
either content and stops (`status = "wild"`) when the bad one is followed.

### DeadlockCheck

Each hooked lock is three steps, `lock_before`, `Acquire` (the real mutex) and
`lock_after`; each hooked unlock two, `Release` and `unlock_after`. Between
them the tables and the real mutexes disagree. The three hooks are single
steps because they hold `tg->mutex`. `Plans` bounds an execution: a list of lock
calls, each with the threads that may make it and the mutexes they may ask for;
`plan` is what is left of it. Unlocks are free.

The detector holds no mutex. Its steps are the reads of the lists: `Root` (the
loop of `check_dead_lock` and the head of `search_for_cycle`), `Test`
(`ver->next != NULL`), `Take` (the call of `DFS` with `ver->next->pair`) and
`Advance` (`ver = ver->next` after the call). `frames` holds the active calls,
each with its vertex and its local `ver`. The indices in `path[0 .. k-1]` are
those of the vertices of `frames`, so `path` is not a variable of its own. A
list node that a hook frees while a frame points at it, or an edge that
disappears between the test and the use, puts the detector in step `"wild"`:
the code would read freed memory or a null pointer, and nothing is said of what
follows.

`search_lock` may answer -1 in `unlock_after`, which then reads and perhaps
clears `lock_list[-1]`. By the layout of `struct task_graph` the `degress` read
is `vertex_num` and the fields cleared are in the unused 100th vertex, so the
model's tables do not change.

### Sessions

Each method of `MysqlConn` is an action of the client that has the connection.
`m_result` and `m_row` are those of the code, `m_row` being the result set the
row lies in, so that a row of a freed result set can be told from one of the
present one. `asker` says which result sets are allocated and whose query made
them; libmysqlclient may reuse an address at once. The server keeps the
sessions that are open (`up`), their autocommit mode, and the updates that are
acknowledged and not committed; it may drop a session at any time
(`ServerCloses`), which rolls these back. A connection whose `connect` failed is
one that is not `up`. `begun` and `risked` are histories: where `transaction` was
called, and the updates made there. `value` changes nothing; `RowsAreOwn`
says what it reads.

### EchoServer

A step is a system call or a critical section of the pool. Descriptors are
numbers: a queued task or a thread keeps one while another
thread closes it and `accept` hands it out again. The kernel goes by connections:
a registration is a pair of a connection and the number it was added under. Edge-triggered
readiness is the set `edges` of registrations: data, or the end of a client, puts
those of its connection there, `epoll_wait` empties it into the batch of `main`, and
registering a descriptor that is already readable puts it there at once.

`Accept` and `SetNonblocking` are two steps. Between them a thread with a stale
task for the number may call `read` and block (`ReadBlocks`); `held` is then the
connection it waits for, and a `close` of the number by another thread leaves
that connection, its registration included, alive until the read returns (`ReadReturns`). If a
thread has closed the number in between, `set_nonblocking` fails and `main` goes on.

A client sends a line and waits for the answer (`Send`, `Receive`), and may leave at
any time. It does not test the result of `fgets`: at the end of its input
(`EndOfInput`) it sends nothing, and waits in `read` until the connection ends. `refused` and
`reused` are histories: the clients whose event `addTask` refused, and those
accepted on a number that a task or a thread still had. For the first the code
does nothing until they send again; to the second another thread's `read`,
`write` or `close` may happen, so that the properties exclude both, and say that
nothing else goes wrong.

### LeakCheck

Both detectors in one module, chosen by the initial value of `dlsym`. A step is
one access to a switch, to the directory or to the real allocator, so that two
threads may both have found a hook on, or one find it off because another is
inside. `free` may be given a pointer that was freed before. `bypassed` says
that a call has found its hook off; `missed` are the blocks allocated that way.
Blocks that `fopen` and `printf` allocate for themselves are left out.

## 3. The runs

| run | configuration | what it shows |
|---|---|---|
| `thread_pool` | 3 workers, 3 tasks | `Attended`; the refinement `ImplementsService`; under fairness `EveryTaskRuns`, `ShutdownOutsideWindow` |
| `pool_shutdown` | 2 workers, 1 task | a violation of `ShutdownCompletes`: the lost wakeup of the destructor |
| `conn_pool` | 2 clients, minSize = maxSize = 1, ages up to 2 | `SingleOwner`, `OldestFirst`, `ProducerAwake`, `ConnsBounded`, `RecycleExact`; under fairness `ClientServed`, `ShrinksBack`; the refinement `ImplementsLending` |
| `conn_max_size` | the same, ages up to 1 | a violation of `AtMostMaxSize` |
| `mem_pool` | 72 bytes, requests of 16, 64 and 100, 8 adjacent blocks, 2 large blocks | `InBounds`, `Disjoint`, `LargeAccounted`, `SkippedHaveFailed` |
| `mem_wrap` | 64 bytes, requests of 24 | a violation of `InBounds` |
| `mem_reset` | 72 bytes, requests of 64, 9 blocks | a violation of `ResetRecycles` |
| `deadlock_check` | 3 threads; any 4 lock calls of 2 mutexes, or a deadlock of two threads and the calls of the third | `TablesAreSound`, `PathFits`, `CyclesAreFound`, `ReportsAreCycles`; under fairness `RecordedDeadlockReported` |
| `deadlock_missed` | 2 threads, 2 mutexes, 4 lock calls | a violation of `DeadlockIsCycle` |
| `echo_server` | 2 clients, 2 descriptors, 2 threads, a queue of 1, 2 lines | `EchoesOwnLines`, `OpenIsWatched`, `NoEdgeLost`; under fairness `EveryLineAnswered`, `DescriptorsReturned` |
| `leak_check` | 2 threads, 2 blocks, 3 open files | `FilesAreLeaks`, `LeaksAreListed`, `FreedOnce`, `SwitchesRestored` |
| `sessions` | 2 clients, 2 connections, 2 result sets of at most 1 row, 2 updates | `RowsAreOwn`, `ResultsFreed`, `OnlyRiskedLost` |

Every run also checks the `TypeOK` of its module. Some properties are theorems
only, since a theorem covers the instances of the runs as well: `StartedInOrder` and
`NothingLost` (which `ImplementsService` promises the users of the pool),
`NoClientSleeps`, `SkippedForGood`, `TripsOnlyOverChange`, `RecordsLast`, `RecordedIsFound`,
the `Attended` of `EchoServer`, and `MacroNeverCrashes`.
Deadlock is not checked in `echo_server`, `leak_check` and `sessions`, where the
system may stop: clients have all left, the process has died of a NULL stream,
or the bounds are used up.

### Bounds, and why they are enough

- *ThreadPool*: with three workers one can be asleep, one running and one
  between test and sleep; with three tasks the queue holds two while one runs
  and submits. The theorems cover any number of both.
- *ConnPool*: four addresses, one more than `ConnsBounded` allows to exist, so
  that a leak would show. With two clients one sleeps or waits while the other
  holds the last connection. Ages saturate at `MaxIdle`, which distinguishes
  all that the code compares. The theorems cover all sizes.
- *MemPool*: eight blocks are the first number at which `current` moves (a
  block is given up on its sixth failure); a block of 72 bytes holds one chunk of
  64, or several of 16 and slots. 100 bytes is a large request. The blocks lie as close
  to each other as they can, so that a chunk that left its block would show.
  The theorems cover all sizes and placements.
- *DeadlockCheck*: four lock calls are the fewest for two threads to deadlock,
  and the plan `Free` leaves them to any threads. Since they are then used up, two more plans
  prescribe the calls of the two and give the third thread calls of its own:
  in `EdgeRemoved` its `lock_after` removes an edge, in `EdgeAdded` its
  `lock_before` adds a vertex and an edge, both possibly after the deadlock and under the search
  that looks for it. `Dirty` says whether the memory from `malloc` may be
  non-zero. The run has zeroes, which is what a first allocation of that size
  gets from the system; the theorems cover both.

- *EchoServer*: two clients and two threads are the fewest with which a stale
  task of one client meets the other on its number; one queued task and two
  threads reach the limit of the queue. Two lines let a client send after an
  answer, or both send. A thread can be blocked on a reused number with the
  other one left, and both can be. The theorems cover any number of each.
- *LeakCheck*: two threads can be inside the same hook, or one inside and one
  outside; two blocks let an address be reused while another is leaked; three
  files let `dlsym_hook.c` run out. The theorems cover all of them.
- *Sessions*: two connections let a client use one that the other has left
  behind, while the other uses its own; two result sets are the fewest for a
  freed address to be reused by the other client. The theorems cover all
  bounds.

### Fairness, and why the code justifies it

- Threads are scheduled: a step that stays possible is taken (weak fairness).
- Taking a mutex that is free again and again is strongly fair. The C++ standard does
  not promise it, but Linux futexes do not starve a waiter for ever in
  practice, and without it no liveness property of lock-based code holds.
- `wait_for` in `getConn` times out (weak fairness on `GetTimeout`), and the
  recycler wakes every half second (weak fairness on `Recycle`).
- The detector's `sleep(5)` ends and its thread is never blocked (weak fairness
  on `Detector`).
- In `EchoServer` the main thread and the threads of the pool are scheduled, and a
  client that waits for an answer reads it, as `client.cpp` does in a blocking
  `read`. No mutex is held across steps there, so that weak fairness is enough.
  That clients connect, send, end their input or leave is not assumed.
- `LeakCheck` and `Sessions` state no liveness and assume no fairness.
- Not assumed: that anybody calls `addTask`, `getConn` or a lock, returns a
  connection, destroys a pool, or that a wakeup is spurious. Tasks are assumed
  to return.

## 4. What is proved

TLAPS checks the theorems for every value of the constants that satisfies the
named assumption of the module (such as `ThreadAssumption` and
`PoolAssumption`). `PROJECT.json` lists each theorem with the property it proves.

**ThreadPool** (`ThreadPoolProofs`). `IInv` is inductive. A conjunct of `TypeOK` says that the mutex names the
thread that is inside a split critical section; `StopInv` says
that `m_stop` is raised exactly from the destructor's broadcast on; `SleepInv`
and `ExitInv` what a worker on its way to sleep or gone has seen: an
empty queue, and a raised flag. `AccountedFor` says that whatever was started is finished or in some
worker's hands, `JoinInv` that a destroyed pool has no worker left. `StartedInOrder` rests on `QueueTheorems`;
`Attended` is inductive only together with `SleepInv` and `ExitInv`: a worker
decides to sleep or leave only when it saw an empty queue under the lock.
`NothingLost` follows from `ExitInv`, `JoinInv` and `AccountedFor`.
Theorems: `Typing`, `Invariance`, `TasksStartInOrder`, `TasksAreAttended`,
`NoTaskIsLost`. `PoolImplementsService` maps each step to one of `TaskService` or
to none: taking a task needs `StartedInOrder`, finishing one `AccountedFor`, and
the return of the destructor `NothingLost`.

**ConnPool** (`ConnPoolProofs`). `Unshared` (`SingleOwner` and `OldestFirst`) is
inductive; `RecyclerIsExact` needs the order of the queue. `Wakeups` adds to
`ProducerAwake` that no client sleeps while the pool may grow, which is why the
one notification of `getConn` cannot be taken by the wrong thread.
`ConnsBounded` is proved with cardinalities: every step that adds a connection
has fewer than `Min` idle ones or a client without one. Theorems: `Typing`,
`ConnectionsHaveOneOwner`, `QueueIsSorted`, `RecyclerIsExact`,
`ProducerNeverSleepsShort`, `ClientsNeverSleep`, `ConnectionsAreBounded`.
`ClientsNeverSleep` says that with `maxSize` at least 1 no client reaches the
`wait_for` of `getConn`: the timeout and the loop around it are never needed.
`PoolImplementsLending` maps
the queue to the set of its elements; it needs `Unshared`, by which the head
leaves that set when it leaves the queue.

**MemPool** (`MemPoolProofs`). `Below` says that every chunk of a block ends at or
before its `last`; with it `Apart`, that two chunks of one block do not overlap, is inductive in every configuration,
because the start of a chunk is aligned upwards from `last`, even where the
comparison has wrapped (`BlockNeverServesTwice`). `InBounds` holds where the comparison cannot
wrap: `WrapFree` describes those configurations by residues modulo 32, and
`Room` (aligning `last` stays inside the block) is inductive there. `Disjoint`,
which compares any two chunks, holds there as well: in one block by `Apart`, and in two by
`InBounds`, because the blocks are apart (`PlacementAssumption`). Elsewhere a chunk that has left its block may
lie in the next one.
`LargeAccounted` is inductive since it also says that the list names a block
only once: a slot is filled with a block that does not exist yet, and emptied
with the block it named. `SkippedHaveFailed` is inductive since it orders the counters
from `current` on: when a worn-out block is skipped, those before it have failed at least
as often. `SkippedBlocksStaySkipped` is about steps: `current` never moves back, and every new
chunk is carved from a block at or behind it, so that a block once skipped stays
unused, reset or not. It is what finding 4 comes to, for every size.
Theorems: `Typing`, `BlockNeverServesTwice`, `WrapFreeInBounds`, `ChunksNeverOverlap`,
`LargeBlocksAccounted`, `SkippedBlocksFailed`, `SkippedBlocksStaySkipped`.

**DeadlockCheck** (`DeadlockProofs`). `IInv` has three parts that lean on each
other. `Hooks`: a thread inside a hooked call has a lock to deal with.
`Tables`: `TablesAreSound`, and an entry in use names a thread, so that only
threads become vertices. `Search`: a search starts with the vertex of its root
(`Searching`), the vertices of all active calls are marked (`Marked`), and
until the detector goes wild its pointers are to nodes that exist (`Pointers`).
`PathFits` is inductive with `Marked`: `DFS` enters only unmarked vertices, and
the marks are cleared only when the root's call is the only one.

On top of it, `Knowledge` says what a search has learnt while the graph is as it was
when `check_dead_lock` began (`quiet`). It is inductive beside `IInv`, because any
hook that changes a list ends `quiet`.

- `Seen`. A thread is `Clean` if no cycle can be reached from it, and a thread all
  of whose edges lead to clean ones is clean (`CleanTargets`). `Chain`: each active call was made
  for the edge its caller is at. `Explored`: until there is a report, the
  vertices whose turn is over, the edges that the active calls are done with and
  the edge a call returns from lead only to clean threads. When the search ends all threads
  are clean, which is `CyclesAreFound`. That the marks are not cleared inside a turn
  does no harm here: meeting a mark is a report.
- `Marks`. A mark is of an active call or was left by a call for an edge that
  has been followed (`MarksFollowed`), and where each thread has at most one edge only the
  path is marked on the way down (`OnlyPathMarked`). So a report is a cycle along the path, or
  the second of two edges to one thread, found by a search that has branched:
  `ReportsAreCycles`.

`Footing` adds that the node a loop has tested is still there when the loop
reads it again, and so that only a hook can make the detector go wild. A deadlock
in the graph stays: only `lock_after` removes an edge, one of the thread that calls it,
and a thread that waits is not there (`EdgesOfWaiters`, `DeadlockLasts`). With `CyclesAreFound` this is
the safety half of `RecordedDeadlockReported`: a search that is not disturbed
reports it (`RecordedIsFound`).
Theorems: `Typing`, `Invariance`, `ListsStaySound`, `RecursionIsBounded`,
`NoCycleIsMissed`, `FalseReportsMeet`, `DetectorKeepsFooting`, `RecordedDeadlocksLast`,
`UndisturbedSearchReports`.

**Sessions** (`SessionsProofs`). `IInv` says that a connection has one holder
(`Exclusive`), that each result set belongs to one connection that exists
(`Placed`), that after a query the result set in a client's connection is of its
own asking and its current row lies in it (`Asked`), and that autocommit is off
and updates pending only after `transaction` (`Tainted`). `Asked` is inductive
because of `Placed`: a query of another client frees only its own connection's
result set. Theorems: `Invariance`, `Typing`, `ClientsReadOwnRows`,
`NoResultLeaks`, `UpdatesAreSafe`.

**EchoServer** (`EchoProofs`). `Registered` says that no thread is about to
unregister a number that belongs to a connection accepted on an unused one, nor
blocked in a read of it (`NoStaleDel`, `NoStaleRead`, and `FreshNumber` for the time
between `accept` and `set_nonblocking`);
`OnePlace` that a connection is in the backlog, open on one descriptor, or
closed, and that one a read is blocked on is not closed; `Exchanges` where the one line under way of each client is: sent, read
by a thread, on its way back, or lost with the connection. `Attended`, that the threads
do not all sleep while a task waits, is inductive with `TypeOK`: here the whole
test and sleep of a thread is one critical section. Theorems: `Typing`,
`OpenStaysWatched`, `EdgesAreKept`, `TasksAreAttended`, `OwnLinesEchoed`.

**LeakCheck** (`LeakProofs`). `Books` says who answers for a block without a file
while no call was bypassed: one hook that has it in hand. `Switches` says who
will set a switch that is off, `Streams` which thread will close each open file
of `macro_hook.c`. Theorems: `Invariance`, `Typing`, `NoLeakEscapes`,
`DirectoryIsTheLeaks`, `FreedAtMostOnce`, `SwitchesAreRestored`,
`MacroHookKeepsRunning`.

## 5. What is only model-checked, and what is not modelled

Only checked by TLC is all liveness (`EveryTaskRuns`, `ShutdownOutsideWindow`,
`ClientServed`, `ShrinksBack`, `RecordedDeadlockReported`, `EveryLineAnswered`,
`DescriptorsReturned`), since TLAPS does not reason about fairness and `ENABLED`. Every
invariant, action property and refinement of the passing runs is proved, `InBounds`
and `Disjoint` for the configurations `WrapFree` describes, since chunks leave
their blocks in others (`mem_wrap`).

Not modelled:

- *The pthread pool* (`thread_pool/raw_version`). Its critical sections are those
  of the C++11 pool, with the loop of `wait` written out; it differs by the plain
  `bool m_stop`, whose concurrent read and write is a data race. A model would
  repeat `ThreadPool`.
- *The destruction of the static connection pool* in `exit()`, against detached
  threads that are about to be killed.
- *In the modelled parts*: a client of a thread pool that outlives it; a task that
  throws, among them one that calls `addTask` on a pool that is being destroyed;
  `MAX` in the detector, locking before `start_check`, and a thread locking a
  mutex it already holds; a memory pool of less than 16 bytes, whose slots would
  be large requests; `SIGPIPE`, and messages that TCP splits; the results of
  `transaction`, `commit` and `rollback`, 0 for success, which the code hands on as
  a `bool`.
- *`msgqueue`*: three sends and three receives in a row, each one call of the
  kernel. *`bagu`*: demonstrations of one feature of the language each. *`json`,
  `zero_copy`, and the exercises for gdb, valgrind and the compiler*:
  straight-line input and output.

## 6. Findings

1. `~threadPool` (`thread_pool.cpp:12`) stores `m_stop` and broadcasts without
   the mutex. A worker between its predicate test and its sleep misses both,
   and the join never returns (`pool_shutdown`). It is the only cause:
   `ShutdownOutsideWindow` holds.
2. `maxSize` is compared with the number of idle connections, so more than
   `maxSize` connections exist (`conn_max_size`); the real bound is
   `ConnsBounded`.
3. `mp_alloc` (`mempool.c:234`) subtracts an aligned pointer from the end of the
   block and compares unsigned: past the end the result wraps (`mem_wrap`). It
   happens with the 4096 bytes of the test program, not with the sizes
   described by `WrapFree`.
4. `mp_reset_pool` leaves `current` and the failure counts, so blocks skipped
   before the reset stay unused (`mem_reset`).
5. In the deadlock detector a waiter may have no edge, because the table learns
   of a holder only in `lock_after`; the deadlock is then never seen
   (`deadlock_missed`).

Met while reading, without a run: `lock_after` removes the edge to the thread
the table names at that time, so that edges to earlier holders stay and make
false reports (`readme.md:25` of the detector says they are released); `DFS`
reports two paths that meet as a cycle, and by `FalseReportsMeet` reports nothing else
that is false of the graph; the comment at `mempool.c:186` says
four slots are looked at, the code looks at five; `getConn` never returns
`nullptr`, it retries for ever.

`Sessions`, `EchoServer` and `LeakCheck` show further behaviour that their
properties name as exceptions. A connection on which `transaction` was once
called never has autocommit on again, for any later client (`OnlyRiskedLost`).
An event that `addTask` refuses is gone, and a number that is closed while a task
still names it lets one client's thread serve another (`refused`, `reused`). On such
a number a thread may also block in `read`, before `set_nonblocking`, until that
client does something; when all threads do, the server serves nobody (`Exhausted`,
an exception of the two liveness properties). A client at the end of its input waits
for ever for the answer to nothing (`EndOfInput`), and keeps its descriptor. After
one failed `unlink`, `dlsym_hook.c` no longer tracks `free`; two threads let blocks
escape it; and it never closes a file (`bypassed`, `failed`, `MacroNeverCrashes`).

## 7. What could follow

1. `RawThreadPool`, at the granularity of single lock operations, implementing
   `TaskService` as well.
2. The destruction of the connection pool as a module of its own, should the
   program come to stop its two threads first.
