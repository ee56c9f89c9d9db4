------------------------------ MODULE ThreadPool ------------------------------
(***************************************************************************)
(* The C++11 thread pool of thread_pool/cpp11: a queue of tasks guarded by *)
(* m_mutex, one condition variable m_cond, and an atomic flag m_stop that  *)
(* the destructor raises WITHOUT taking m_mutex.                           *)
(*                                                                         *)
(* One step is one stretch of code between two points where another thread *)
(* can interfere.  A critical section is a single step unless m_stop may   *)
(* change in the middle of it and be noticed: addTask tests m_stop and     *)
(* pushes in two steps, and worker() tests the wait predicate and goes to  *)
(* sleep in two steps, m_mutex being held in between.                      *)
(*                                                                         *)
(* Threads that call addTask: the owner of the pool, and the workers,      *)
(* whose tasks may submit further tasks while they run.                    *)
(***************************************************************************)
EXTENDS Naturals, Sequences, Functions

CONSTANTS
  Workers,  \* the threads of m_threads
  Owner,    \* the thread that creates, feeds and destroys the pool
  Tasks,    \* the submissions of one execution, each a task of its own
  None      \* "no thread holds m_mutex", "no task taken"

ASSUME ThreadAssumption ==
  /\ Workers # {}
  /\ Owner \notin Workers
  /\ None \notin Workers \union {Owner} \union Tasks

VARIABLES
  m_tasks,   \* the queue of tasks
  m_stop,    \* the atomic stop flag
  m_mutex,   \* the thread inside a critical section spanning several steps
  waiting,   \* the threads asleep on m_cond
  pc,        \* where each thread is
  task,      \* worker's local variable task
  accepted,  \* history: every task pushed, in order
  started,   \* history: every task popped, in order
  done       \* history: the tasks whose call returned

vars == <<m_tasks, m_stop, m_mutex, waiting, pc, task, accepted, started, done>>

Threads == Workers \union {Owner}

OwnerPoints  == {"idle", "push", "notify", "broadcast", "join", "destroyed"}
WorkerPoints == {"loop", "sleep", "run", "push", "notify", "exited"}

\* Every variable has its type, and m_mutex names the thread that is inside a
\* critical section: between the test of m_stop and the push, or between the
\* wait predicate and the sleep.
TypeOK ==
  /\ m_tasks \in Seq(Tasks)
  /\ m_stop \in BOOLEAN
  /\ m_mutex \in Threads \union {None}
  /\ \A t \in Threads : m_mutex = t <=> pc[t] \in {"push", "sleep"}
  /\ waiting \subseteq Workers
  /\ pc \in [Threads -> OwnerPoints \union WorkerPoints]
  /\ pc[Owner] \in OwnerPoints
  /\ \A w \in Workers : pc[w] \in WorkerPoints
  /\ task \in [Workers -> Tasks \union {None}]
  /\ accepted \in Seq(Tasks)
  /\ started \in Seq(Tasks)
  /\ done \subseteq Tasks

-----------------------------------------------------------------------------
(* The constructor: every worker thread is at the top of worker()'s loop.  *)
Init ==
  /\ m_tasks = <<>>
  /\ m_stop = FALSE
  /\ m_mutex = None
  /\ waiting = {}
  /\ pc = [t \in Threads |-> IF t = Owner THEN "idle" ELSE "loop"]
  /\ task = [w \in Workers |-> None]
  /\ accepted = <<>>
  /\ started = <<>>
  /\ done = {}

-----------------------------------------------------------------------------
(* addTask, called by the owner or by a task that worker c is running.     *)

AtCall(c) == pc[c] = IF c = Owner THEN "idle" ELSE "run"

\* Where the caller goes on when addTask returns or throws.
CallSite(c) == IF c = Owner THEN "idle" ELSE "run"

\* The lock is taken and m_stop is read.  When it is set the call throws
\* runtime_error, which leaves the pool as it was (AddTaskThrows).
AddTaskEnter(c) ==
  /\ AtCall(c)
  /\ m_mutex = None
  /\ Tasks \ Range(accepted) # {}     \* bound: one execution submits Tasks
  /\ ~m_stop
  /\ m_mutex' = c
  /\ pc' = [pc EXCEPT ![c] = "push"]
  /\ UNCHANGED <<m_tasks, m_stop, waiting, task, accepted, started, done>>

AddTaskThrows(c) ==
  /\ AtCall(c)
  /\ m_mutex = None
  /\ m_stop
  /\ UNCHANGED vars

\* Mutated form: lock and unlock are calls, and the second one is forgotten.
KeptLocked == m_mutex

\* The end of the block destroys the unique_lock.
Unlocked == None

\* m_tasks.emplace(task), and the end of the block.
AddTaskPush(c) ==
  /\ pc[c] = "push"
  /\ \E x \in Tasks \ Range(accepted) :
       /\ m_tasks' = Append(m_tasks, x)
       /\ accepted' = Append(accepted, x)
  /\ m_mutex' = Unlocked
  /\ pc' = [pc EXCEPT ![c] = "notify"]
  /\ UNCHANGED <<m_stop, waiting, task, started, done>>

\* Mutated form: the notification is left out.
NobodyWoken == waiting' = waiting

\* notify_one: one sleeping thread, if there is one, is woken.
WakeOne ==
  IF waiting = {} THEN waiting' = waiting
                  ELSE \E w \in waiting : waiting' = waiting \ {w}

AddTaskNotify(c) ==
  /\ pc[c] = "notify"
  /\ WakeOne
  /\ pc' = [pc EXCEPT ![c] = CallSite(c)]
  /\ UNCHANGED <<m_tasks, m_stop, m_mutex, task, accepted, started, done>>

AddTask(c) ==
  AddTaskEnter(c) \/ AddTaskThrows(c) \/ AddTaskPush(c) \/ AddTaskNotify(c)

-----------------------------------------------------------------------------
(* worker: the loop of one pool thread.                                    *)

\* The worker holds m_mutex and evaluates the predicate of m_cond.wait, at
\* its first call or after a wakeup.
HasLock(w) == pc[w] = "loop" /\ w \notin waiting /\ m_mutex = None

\* Mutated form: the front task is copied out and never popped.
Unpopped(q) == q
Popped(q) == Tail(q)

\* A task is there: it is moved out of the queue and the lock is released.
WorkerTake(w) ==
  /\ HasLock(w)
  /\ m_tasks # <<>>
  /\ task' = [task EXCEPT ![w] = Head(m_tasks)]
  /\ m_tasks' = Popped(m_tasks)
  /\ started' = Append(started, Head(m_tasks))
  /\ pc' = [pc EXCEPT ![w] = "run"]
  /\ UNCHANGED <<m_stop, m_mutex, waiting, accepted, done>>

\* Mutated form: the emptiness test is inverted.
LeavesWhenNonempty == m_stop /\ m_tasks # <<>>

\* if (m_stop && m_tasks.empty()) return;
MayLeave == m_stop /\ m_tasks = <<>>

WorkerExit(w) ==
  /\ HasLock(w)
  /\ MayLeave
  /\ pc' = [pc EXCEPT ![w] = "exited"]
  /\ UNCHANGED <<m_tasks, m_stop, m_mutex, waiting, task, accepted, started, done>>

\* The predicate is false; m_mutex stays held until the thread is asleep.
WorkerTestsFalse(w) ==
  /\ HasLock(w)
  /\ m_tasks = <<>>
  /\ ~m_stop
  /\ m_mutex' = w
  /\ pc' = [pc EXCEPT ![w] = "sleep"]
  /\ UNCHANGED <<m_tasks, m_stop, waiting, task, accepted, started, done>>

\* Releasing m_mutex and falling asleep are one atomic step of wait.
WorkerSleeps(w) ==
  /\ pc[w] = "sleep"
  /\ waiting' = waiting \union {w}
  /\ m_mutex' = None
  /\ pc' = [pc EXCEPT ![w] = "loop"]
  /\ UNCHANGED <<m_tasks, m_stop, task, accepted, started, done>>

\* A condition variable may wake a thread that nobody notified.
SpuriousWakeup(w) ==
  /\ w \in waiting
  /\ waiting' = waiting \ {w}
  /\ UNCHANGED <<m_tasks, m_stop, m_mutex, pc, task, accepted, started, done>>

\* task() returns; the next iteration starts with an empty local task.
WorkerRuns(w) ==
  /\ pc[w] = "run"
  /\ done' = done \union {task[w]}
  /\ task' = [task EXCEPT ![w] = None]
  /\ pc' = [pc EXCEPT ![w] = "loop"]
  /\ UNCHANGED <<m_tasks, m_stop, m_mutex, waiting, accepted, started>>

WorkerLocks(w) == WorkerTake(w) \/ WorkerExit(w) \/ WorkerTestsFalse(w)

Worker(w) == WorkerLocks(w) \/ WorkerSleeps(w) \/ WorkerRuns(w)

-----------------------------------------------------------------------------
(* ~threadPool: none of its three steps takes m_mutex.                     *)

DestroyStop ==
  /\ pc[Owner] = "idle"
  /\ m_stop' = TRUE
  /\ pc' = [pc EXCEPT ![Owner] = "broadcast"]
  /\ UNCHANGED <<m_tasks, m_mutex, waiting, task, accepted, started, done>>

DestroyNotifyAll ==
  /\ pc[Owner] = "broadcast"
  /\ waiting' = {}
  /\ pc' = [pc EXCEPT ![Owner] = "join"]
  /\ UNCHANGED <<m_tasks, m_stop, m_mutex, task, accepted, started, done>>

\* The loop of join() calls ends when every worker has returned.
DestroyJoin ==
  /\ pc[Owner] = "join"
  /\ \A w \in Workers : pc[w] = "exited"
  /\ pc' = [pc EXCEPT ![Owner] = "destroyed"]
  /\ UNCHANGED <<m_tasks, m_stop, m_mutex, waiting, task, accepted, started, done>>

Destroy == DestroyStop \/ DestroyNotifyAll \/ DestroyJoin

\* The pool is gone and its threads are joined: nothing is left to do.
Terminated == pc[Owner] = "destroyed" /\ UNCHANGED vars

Next ==
  \/ \E c \in Threads : AddTask(c)
  \/ \E w \in Workers : Worker(w) \/ SpuriousWakeup(w)
  \/ Destroy
  \/ Terminated

Spec == Init /\ [][Next]_vars

(***************************************************************************)
(* Fairness.  The scheduler runs every thread: a step a thread can take    *)
(* without the lock is taken (WF), and a worker that finds m_mutex free    *)
(* again and again gets it (SF).  Nothing forces the owner or a task to    *)
(* call addTask, the owner to destroy the pool, or a spurious wakeup.  A   *)
(* task always returns.                                                    *)
(***************************************************************************)
Fairness ==
  /\ \A c \in Threads : WF_vars(AddTaskPush(c)) /\ WF_vars(AddTaskNotify(c))
  /\ \A w \in Workers : SF_vars(WorkerLocks(w)) /\ WF_vars(WorkerSleeps(w))
                                                /\ WF_vars(WorkerRuns(w))
  /\ WF_vars(DestroyNotifyAll)
  /\ WF_vars(DestroyJoin)

FairSpec == Spec /\ Fairness

-----------------------------------------------------------------------------
(* Safety.                                                                 *)

\* Tasks start in the order in which they were accepted, each of them once:
\* what has been started, followed by what is queued, is what was accepted
\* (the queue m_tasks of worker and addTask), and a started task is either
\* finished or in the hands of one worker.
StartedInOrder ==
  /\ accepted = started \o m_tasks
  /\ IsInjective(accepted)
  /\ \A w \in Workers : task[w] # None => task[w] \in Range(started) \ done
  /\ \A v, w \in Workers : task[v] = task[w] /\ task[v] # None => v = w

\* A queued task always has somebody to run it: a worker that is neither
\* asleep nor gone, or a caller of addTask that is about to notify one.  It
\* is what notify_one after the unlock in addTask must guarantee.
Attended ==
  m_tasks # <<>> =>
    \/ pc[Owner] = "notify"
    \/ \E w \in Workers : w \notin waiting /\ pc[w] # "exited"

\* Once the destructor has returned, every accepted task has been run: no
\* task accepted while m_stop was being raised is left in the queue.
NothingLost ==
  pc[Owner] = "destroyed" => m_tasks = <<>> /\ Range(accepted) \subseteq done

\* The pool is the task service its users see (TaskService): accepted,
\* started and done are the service's own, and the service is over when the
\* destructor has joined the last worker and returned.
Service == INSTANCE TaskService WITH closed <- pc[Owner] = "destroyed"

\* Every step of the pool is a step of the service or leaves it as it is:
\* tasks start in the order addTask accepted them and run once, and neither
\* a push nor a run comes after ~threadPool has returned.
ImplementsService == Service!Spec

-----------------------------------------------------------------------------
(* Liveness.                                                               *)

\* Every accepted task is eventually run, also when the pool is being
\* destroyed meanwhile.
EveryTaskRuns ==
  \A x \in Tasks : x \in Range(accepted) ~> x \in done

\* The lost wakeup has no other cause than a worker caught between its test
\* of the wait predicate and its sleep: when the broadcast of ~threadPool
\* finds no worker there, all of them leave and the destructor returns.
ShutdownOutsideWindow ==
  (pc[Owner] = "join" /\ \A w \in Workers : pc[w] # "sleep" /\ w \notin waiting)
    ~> pc[Owner] = "destroyed"

\* A pool that is being destroyed lets its workers leave ("若要求停止，且已无任务，
\* 安全退出" in worker): the destructor returns.
ShutdownCompletes ==
  pc[Owner] = "broadcast" ~> pc[Owner] = "destroyed"

=============================================================================
