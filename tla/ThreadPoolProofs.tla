--------------------------- MODULE ThreadPoolProofs ---------------------------
(***************************************************************************)
(* Proofs about ThreadPool, for any set of workers and of tasks: typing,   *)
(* the inductive invariant IInv, and from it the safety properties that    *)
(* the run thread_pool checks.                                             *)
(***************************************************************************)
EXTENDS ThreadPool, QueueTheorems, TLAPS

\* m_stop is raised by the first step of ~threadPool and never lowered.
StopInv == m_stop <=> pc[Owner] \in {"broadcast", "join", "destroyed"}

\* A worker on its way to sleep has seen an empty queue, and holds m_mutex,
\* so that the queue is still empty.  A sleeping one is in its loop.
SleepInv ==
  \A w \in Workers : /\ pc[w] = "sleep" => m_tasks = <<>>
                     /\ w \in waiting => pc[w] = "loop"

\* After the first worker has left, nothing enters the queue any more.
ExitInv ==
  \A w \in Workers :
    pc[w] = "exited" =>
      m_stop /\ m_tasks = <<>> /\ \A t \in Threads : pc[t] # "push"

\* A worker has a task exactly while it is running it.
TaskInv ==
  \A w \in Workers : task[w] # None <=> pc[w] \in {"run", "push", "notify"}

\* Every started task is finished or in the hands of a worker.
AccountedFor ==
  /\ done \subseteq Range(started)
  /\ \A x \in Range(started) : x \in done \/ \E w \in Workers : task[w] = x

JoinInv == pc[Owner] = "destroyed" => \A w \in Workers : pc[w] = "exited"

\* Who may be where; what becomes of the tasks; all of it.
Control == StopInv /\ SleepInv /\ ExitInv /\ JoinInv

Queueing == AccountedFor /\ StartedInOrder /\ Attended

IInv == TypeOK /\ TaskInv /\ Control /\ Queueing

-----------------------------------------------------------------------------
(* Typing: TaskInv is what makes the result of WorkerRuns a task.          *)

\* The type invariant holds initially and every step preserves it.
LEMMA TypeInit == Init => TypeOK /\ TaskInv
<1> SUFFICES ASSUME Init PROVE TypeOK /\ TaskInv
  OBVIOUS
<1> USE ThreadAssumption DEF Threads
<1>1. pc \in [Threads -> OwnerPoints \union WorkerPoints]
  BY DEF Init, OwnerPoints, WorkerPoints
<1>2. pc[Owner] = "idle" /\ \A w \in Workers : pc[w] = "loop"
  BY DEF Init
<1>3. \A w \in Workers : task[w] = None
  BY DEF Init
<1>4. task \in [Workers -> Tasks \union {None}]
  BY DEF Init
<1>5. m_tasks \in Seq(Tasks) /\ accepted \in Seq(Tasks) /\ started \in Seq(Tasks)
  BY DEF Init
<1>6. m_stop \in BOOLEAN /\ m_mutex = None /\ waiting = {} /\ done = {}
  BY DEF Init
<1> QED
  BY <1>1, <1>2, <1>3, <1>4, <1>5, <1>6
     DEF TypeOK, TaskInv, OwnerPoints, WorkerPoints

LEMMA TypeStep == TypeOK /\ TaskInv /\ [Next]_vars => TypeOK' /\ TaskInv'
<1> SUFFICES ASSUME TypeOK, TaskInv, [Next]_vars PROVE TypeOK' /\ TaskInv'
  OBVIOUS
<1> USE ThreadAssumption
        DEF TypeOK, TaskInv, Threads, OwnerPoints, WorkerPoints
<1>1. ASSUME NEW c \in Threads, AddTask(c) PROVE TypeOK' /\ TaskInv'
  <2>1. CASE AddTaskEnter(c)
    BY <2>1 DEF AddTaskEnter, AtCall
  <2>2. CASE AddTaskThrows(c)
    BY <2>2 DEF AddTaskThrows, vars
  <2>3. CASE AddTaskPush(c)
    BY <2>3 DEF AddTaskPush, Unlocked
  <2>4. CASE AddTaskNotify(c)
    <3>1. waiting' \subseteq Workers
      BY <2>4 DEF AddTaskNotify, WakeOne
    <3> QED
      BY <2>4, <3>1 DEF AddTaskNotify, CallSite
  <2> QED
    BY <1>1, <2>1, <2>2, <2>3, <2>4 DEF AddTask
<1>2. ASSUME NEW w \in Workers, Worker(w) PROVE TypeOK' /\ TaskInv'
  <2>1. CASE WorkerTake(w)
    <3>1. Head(m_tasks) \in Tasks /\ Popped(m_tasks) \in Seq(Tasks)
      BY <2>1 DEF WorkerTake, Popped
    <3> QED
      BY <2>1, <3>1 DEF WorkerTake, HasLock
  <2>2. CASE WorkerExit(w)
    BY <2>2 DEF WorkerExit, HasLock
  <2>3. CASE WorkerTestsFalse(w)
    BY <2>3 DEF WorkerTestsFalse, HasLock
  <2>4. CASE WorkerSleeps(w)
    BY <2>4 DEF WorkerSleeps
  <2>5. CASE WorkerRuns(w)
    <3>1. task[w] \in Tasks
      BY <2>5 DEF WorkerRuns
    <3> QED
      BY <2>5, <3>1 DEF WorkerRuns
  <2> QED
    BY <1>2, <2>1, <2>2, <2>3, <2>4, <2>5 DEF Worker, WorkerLocks
<1>3. ASSUME NEW w \in Workers, SpuriousWakeup(w) PROVE TypeOK' /\ TaskInv'
  BY <1>3 DEF SpuriousWakeup
<1>4. CASE Destroy
  <2>1. CASE DestroyStop
    BY <2>1 DEF DestroyStop
  <2>2. CASE DestroyNotifyAll
    BY <2>2 DEF DestroyNotifyAll
  <2>3. CASE DestroyJoin
    BY <2>3 DEF DestroyJoin
  <2> QED
    BY <1>4, <2>1, <2>2, <2>3 DEF Destroy
<1>5. CASE UNCHANGED vars
  BY <1>5 DEF vars
<1> QED
  BY <1>1, <1>2, <1>3, <1>4, <1>5 DEF Next, Terminated

\* Every variable always has its type, whatever the threads and tasks are.
THEOREM Typing == Spec => []TypeOK
<1>1. Init => TypeOK /\ TaskInv
  BY TypeInit
<1>2. TypeOK /\ TaskInv /\ [Next]_vars => (TypeOK /\ TaskInv)'
  BY TypeStep
<1> QED
  BY <1>1, <1>2, PTL DEF Spec

-----------------------------------------------------------------------------
(* Control.                                                                *)

LEMMA ControlInit == Init => Control
  BY ThreadAssumption
     DEF Init, Control, StopInv, SleepInv, ExitInv, JoinInv, Threads

\* No step breaks Control: what matters is that WorkerExit finds m_mutex
\* free, hence nobody about to push, and that AddTaskEnter finds m_stop
\* down, hence nobody gone.
LEMMA ControlStep == TypeOK /\ Control /\ [Next]_vars => Control'
<1> SUFFICES ASSUME TypeOK, Control, [Next]_vars PROVE Control'
  OBVIOUS
<1> USE ThreadAssumption
        DEF TypeOK, Control, StopInv, SleepInv, ExitInv, JoinInv, Threads
<1>1. ASSUME NEW c \in Threads, AddTask(c) PROVE Control'
  <2>1. CASE AddTaskEnter(c)
    BY <2>1 DEF AddTaskEnter, AtCall
  <2>2. CASE AddTaskThrows(c)
    BY <2>2 DEF AddTaskThrows, vars
  <2>3. CASE AddTaskPush(c)
    BY <2>3 DEF AddTaskPush, Unlocked
  <2>4. CASE AddTaskNotify(c)
    <3>1. waiting' \subseteq waiting
      BY <2>4 DEF AddTaskNotify, WakeOne
    <3> QED
      BY <2>4, <3>1 DEF AddTaskNotify, CallSite
  <2> QED
    BY <1>1, <2>1, <2>2, <2>3, <2>4 DEF AddTask
<1>2. ASSUME NEW w \in Workers, Worker(w) PROVE Control'
  <2>1. CASE WorkerTake(w)
    BY <2>1 DEF WorkerTake, HasLock
  <2>2. CASE WorkerExit(w)
    BY <2>2 DEF WorkerExit, HasLock, MayLeave
  <2>3. CASE WorkerTestsFalse(w)
    BY <2>3 DEF WorkerTestsFalse, HasLock
  <2>4. CASE WorkerSleeps(w)
    BY <2>4 DEF WorkerSleeps
  <2>5. CASE WorkerRuns(w)
    BY <2>5 DEF WorkerRuns
  <2> QED
    BY <1>2, <2>1, <2>2, <2>3, <2>4, <2>5 DEF Worker, WorkerLocks
<1>3. ASSUME NEW w \in Workers, SpuriousWakeup(w) PROVE Control'
  BY <1>3 DEF SpuriousWakeup
<1>4. CASE Destroy
  BY <1>4 DEF Destroy, DestroyStop, DestroyNotifyAll, DestroyJoin
<1>5. CASE UNCHANGED vars
  BY <1>5 DEF vars
<1> QED
  BY <1>1, <1>2, <1>3, <1>4, <1>5 DEF Next, Terminated

-----------------------------------------------------------------------------
(* Queueing.                                                               *)

LEMMA QueueingInit == Init => Queueing
<1> SUFFICES ASSUME Init PROVE Queueing
  OBVIOUS
<1>1. Range(<<>>) = {} /\ <<>> \o <<>> = <<>> /\ IsInjective(<<>>)
  BY DEF Range, IsInjective
<1> QED
  BY <1>1 DEF Init, Queueing, AccountedFor, StartedInOrder, Attended

\* A push keeps the order and leaves the pusher about to notify.
LEMMA QueueingPush ==
  ASSUME TypeOK, TaskInv, Control, Queueing,
         NEW c \in Threads, AddTaskPush(c)
  PROVE  Queueing'
<1>1. PICK x \in Tasks \ Range(accepted) :
        m_tasks' = Append(m_tasks, x) /\ accepted' = Append(accepted, x)
  BY DEF AddTaskPush
<1>2. accepted' = started' \o m_tasks'
  <2>1. started \in Seq(Tasks) /\ m_tasks \in Seq(Tasks) /\ x \in Tasks
    BY DEF TypeOK
  <2>2. started \o Append(m_tasks, x) = Append(started \o m_tasks, x)
    BY <2>1, AppendToSuffix
  <2>3. accepted = started \o m_tasks /\ started' = started
    BY DEF AddTaskPush, Queueing, StartedInOrder
  <2> QED
    BY <1>1, <2>2, <2>3
<1>3. IsInjective(accepted')
  BY <1>1, InjectiveAppend DEF TypeOK, Queueing, StartedInOrder
<1>4. StartedInOrder' /\ AccountedFor'
  BY <1>2, <1>3 DEF AddTaskPush, Queueing, StartedInOrder, AccountedFor
<1>5. Attended'
  BY ThreadAssumption
     DEF AddTaskPush, Attended, Control, SleepInv, Threads, TypeOK
<1> QED
  BY <1>4, <1>5 DEF Queueing

\* A notification of the owner with nobody asleep finds somebody awake: no
\* worker has left while a task is queued.
LEMMA QueueingNotify ==
  ASSUME TypeOK, TaskInv, Control, Queueing,
         NEW c \in Threads, AddTaskNotify(c)
  PROVE  Queueing'
<1>1. StartedInOrder' /\ AccountedFor'
  BY DEF AddTaskNotify, Queueing, StartedInOrder, AccountedFor
<1>2. ASSUME m_tasks' # <<>>
      PROVE  \E w \in Workers : w \notin waiting' /\ pc'[w] # "exited"
  <2>1. \A w \in Workers : pc[w] # "exited"
    BY <1>2 DEF AddTaskNotify, Control, ExitInv
  <2>2. \E w \in Workers : w \notin waiting'
    BY ThreadAssumption DEF AddTaskNotify, WakeOne, TypeOK
  <2>3. \A w \in Workers : pc'[w] # "exited"
    BY <2>1, ThreadAssumption DEF AddTaskNotify, CallSite, TypeOK, Threads
  <2> QED
    BY <2>2, <2>3
<1> QED
  BY <1>1, <1>2 DEF Queueing, Attended

\* The front task is new to the started ones, so that exactly one worker
\* has it.
LEMMA QueueingTake ==
  ASSUME TypeOK, TaskInv, Control, Queueing,
         NEW w \in Workers, WorkerTake(w)
  PROVE  Queueing'
<1> DEFINE x == Head(m_tasks)
<1>1. m_tasks # <<>> /\ x \in Tasks /\ started' = Append(started, x)
  BY DEF WorkerTake, TypeOK
<1>2. x \notin Range(started)
  BY <1>1, FrontIsFresh DEF TypeOK, Queueing, StartedInOrder
<1>3. Range(started') = Range(started) \union {x}
  BY <1>1, RangeAppend DEF TypeOK
<1>4. accepted' = started' \o m_tasks'
  BY <1>1, MoveHead DEF WorkerTake, Popped, TypeOK, Queueing, StartedInOrder
<1>5. task' = [task EXCEPT ![w] = x] /\ x # None /\ task[w] = None
  BY <1>1, ThreadAssumption DEF WorkerTake, HasLock, TaskInv
<1> HIDE DEF x
<1>6. StartedInOrder'
  <2>1. IsInjective(accepted') /\ done' = done /\ done \subseteq Range(started)
    BY DEF WorkerTake, Queueing, StartedInOrder, AccountedFor
  <2>2. \A v \in Workers : task[v] # None => task[v] \in Range(started) \ done
    BY DEF Queueing, StartedInOrder
  <2>3. \A v \in Workers : task'[v] = IF v = w THEN x ELSE task[v]
    BY <1>5 DEF TypeOK
  <2>4. \A v \in Workers : task'[v] # None => task'[v] \in Range(started') \ done'
    BY <2>1, <2>2, <2>3, <1>2, <1>3
  <2>5. \A v, u \in Workers : task'[v] = task'[u] /\ task'[v] # None => v = u
    <3>1. \A v \in Workers \ {w} : task[v] # None => task'[v] # x
      BY <2>2, <2>3, <1>2
    <3>2. \A v, u \in Workers : task[v] = task[u] /\ task[v] # None => v = u
      BY DEF Queueing, StartedInOrder
    <3> QED
      BY <3>1, <3>2, <2>3
  <2> QED
    BY <2>1, <2>4, <2>5, <1>4 DEF StartedInOrder
<1>7. AccountedFor'
  <2>1. done' = done /\ done \subseteq Range(started)
    BY DEF WorkerTake, Queueing, AccountedFor
  <2>2. \A v \in Workers : task'[v] = IF v = w THEN x ELSE task[v]
    BY <1>5 DEF TypeOK
  <2>3. ASSUME NEW y \in Range(started), y \notin done
        PROVE  \E v \in Workers : task'[v] = y
    <3>1. y # None
      BY ThreadAssumption DEF TypeOK, Range
    <3>2. PICK v \in Workers : task[v] = y
      BY <2>3 DEF Queueing, AccountedFor
    <3> QED
      BY <3>1, <3>2, <2>2, <1>5
  <2> QED
    BY <2>1, <2>2, <2>3, <1>3 DEF AccountedFor
<1>8. Attended'
  BY ThreadAssumption DEF WorkerTake, HasLock, Attended, TypeOK, Threads
<1> QED
  BY <1>6, <1>7, <1>8 DEF Queueing

\* A finished task was in the hands of one worker only.
LEMMA QueueingRuns ==
  ASSUME TypeOK, TaskInv, Control, Queueing,
         NEW w \in Workers, WorkerRuns(w)
  PROVE  Queueing'
<1>1. task[w] # None /\ task[w] \in Range(started) \ done
  BY DEF WorkerRuns, TaskInv, Queueing, StartedInOrder
<1>2. StartedInOrder'
  BY <1>1 DEF WorkerRuns, TypeOK, Queueing, StartedInOrder
<1>3. AccountedFor'
  BY <1>1 DEF WorkerRuns, TypeOK, Queueing, AccountedFor
<1>4. Attended'
  BY ThreadAssumption
     DEF WorkerRuns, Attended, Control, SleepInv, TypeOK, Threads
<1> QED
  BY <1>2, <1>3, <1>4 DEF Queueing

\* The other steps touch neither the queue nor the tasks: only who attends
\* to the queue is at stake.
LEMMA QueueingStep ==
  TypeOK /\ TaskInv /\ Control /\ Queueing /\ [Next]_vars => Queueing'
<1> SUFFICES ASSUME TypeOK, TaskInv, Control, Queueing, [Next]_vars
             PROVE  Queueing'
  OBVIOUS
<1> USE ThreadAssumption
<1> USE DEF Queueing, StartedInOrder, AccountedFor, Attended
<1>1. ASSUME NEW c \in Threads, AddTask(c) PROVE Queueing'
  <2>1. CASE AddTaskEnter(c)
    BY <2>1 DEF AddTaskEnter, AtCall, TypeOK, Threads
  <2>2. CASE AddTaskThrows(c)
    BY <2>2 DEF AddTaskThrows, vars
  <2> QED
    BY <1>1, <2>1, <2>2, QueueingPush, QueueingNotify DEF AddTask
<1>2. ASSUME NEW w \in Workers, Worker(w) PROVE Queueing'
  <2>1. CASE WorkerExit(w)
    BY <2>1 DEF WorkerExit, MayLeave
  <2>2. CASE WorkerTestsFalse(w)
    BY <2>2 DEF WorkerTestsFalse
  <2>3. CASE WorkerSleeps(w)
    BY <2>3 DEF WorkerSleeps, Control, SleepInv
  <2> QED
    BY <1>2, <2>1, <2>2, <2>3, QueueingTake, QueueingRuns DEF Worker, WorkerLocks
<1>3. ASSUME NEW w \in Workers, SpuriousWakeup(w) PROVE Queueing'
  BY <1>3 DEF SpuriousWakeup
<1>4. CASE Destroy
  <2>1. pc[Owner] # "notify" /\ m_tasks' = m_tasks
        /\ accepted' = accepted /\ started' = started /\ task' = task
        /\ done' = done /\ \A w \in Workers : pc'[w] = pc[w]
    BY <1>4 DEF Destroy, DestroyStop, DestroyNotifyAll, DestroyJoin, TypeOK, Threads
  <2>2. waiting' = waiting \/ waiting' = {}
    BY <1>4 DEF Destroy, DestroyStop, DestroyNotifyAll, DestroyJoin
  <2>3. Attended'
    BY <2>1, <2>2
  <2>4. StartedInOrder' /\ AccountedFor'
    BY <2>1
  <2> QED
    BY <2>3, <2>4
<1>5. CASE UNCHANGED vars
  BY <1>5 DEF vars
<1> QED
  BY <1>1, <1>2, <1>3, <1>4, <1>5 DEF Next, Terminated

-----------------------------------------------------------------------------
(* The theorems.                                                           *)

\* The invariant holds in every reachable state.
THEOREM Invariance == Spec => []IInv
<1>1. Init => IInv
  BY TypeInit, ControlInit, QueueingInit DEF IInv
<1>2. IInv /\ [Next]_vars => IInv'
  BY TypeStep, ControlStep, QueueingStep DEF IInv
<1> QED
  BY <1>1, <1>2, PTL DEF Spec

\* For any number of workers and of tasks, the tasks are started in the
\* order in which addTask accepted them, each once, by one worker.
THEOREM TasksStartInOrder == Spec => []StartedInOrder
<1>1. IInv => StartedInOrder
  BY DEF IInv, Queueing
<1> QED
  BY <1>1, Invariance, PTL

\* A queued task is never left to workers that are all asleep or gone.
THEOREM TasksAreAttended == Spec => []Attended
<1>1. IInv => Attended
  BY DEF IInv, Queueing
<1> QED
  BY <1>1, Invariance, PTL

\* When the last worker has left, the queue is empty, nobody could fill it
\* again, and no worker still holds a task.
LEMMA AllLeft ==
  ASSUME IInv, \A w \in Workers : pc[w] = "exited"
  PROVE  m_tasks = <<>> /\ Range(accepted) \subseteq done
<1>1. m_tasks = <<>>
  BY ThreadAssumption DEF IInv, Control, ExitInv
<1>2. accepted = started
  BY <1>1 DEF IInv, TypeOK, Queueing, StartedInOrder
<1>3. \A w \in Workers : task[w] = None
  BY DEF IInv, TaskInv
<1>4. Range(started) \subseteq Tasks
  BY DEF IInv, TypeOK, Range
<1>5. Range(started) \subseteq done
  BY <1>3, <1>4, ThreadAssumption DEF IInv, Queueing, AccountedFor
<1> QED
  BY <1>1, <1>2, <1>5

\* When ~threadPool has returned every accepted task has been run.
THEOREM NoTaskIsLost == Spec => []NothingLost
<1>1. IInv => NothingLost
  BY AllLeft DEF IInv, Control, JoinInv, NothingLost
<1> QED
  BY <1>1, Invariance, PTL

-----------------------------------------------------------------------------
(* The pool implements the task service.                                   *)

LEMMA SameRange == \A f : Service!Range(f) = Range(f)
  BY DEF Range, Service!Range

\* A push after the pool is gone would need a worker that has not left.
LEMMA PushIsAccept ==
  ASSUME IInv, NEW c \in Threads, AddTaskPush(c)
  PROVE  \E x \in Tasks : Service!Accept(x)
<1>1. pc[Owner] # "destroyed" /\ pc'[Owner] # "destroyed"
  BY DEF IInv, TypeOK, Control, JoinInv, AddTaskPush, Threads
<1>2. PICK x \in Tasks \ Range(accepted) : accepted' = Append(accepted, x)
  BY DEF AddTaskPush
<1>3. started' = started /\ done' = done
  BY DEF AddTaskPush
<1> QED
  BY <1>1, <1>2, <1>3, SameRange DEF Service!Accept

\* The task a worker pops is the oldest one not started.
LEMMA TakeIsStart ==
  ASSUME IInv, NEW w \in Workers, WorkerTake(w)
  PROVE  Service!Start
<1>1. m_tasks \in Seq(Tasks) /\ m_tasks # <<>> /\ started \in Seq(Tasks)
  BY DEF IInv, TypeOK, WorkerTake
<1>2. accepted = started \o m_tasks
  BY DEF IInv, Queueing, StartedInOrder
<1>3. Len(started) < Len(accepted) /\ accepted[Len(started) + 1] = Head(m_tasks)
  BY <1>1, <1>2
<1>4. pc'[Owner] = pc[Owner]
  BY ThreadAssumption DEF IInv, TypeOK, WorkerTake
<1>5. started' = Append(started, Head(m_tasks)) /\ accepted' = accepted /\ done' = done
  BY DEF WorkerTake
<1> QED
  BY <1>3, <1>4, <1>5 DEF Service!Start

\* The steps nobody outside the pool sees leave the service as it is.
LEMMA InnerSteps ==
  ASSUME IInv,
         \/ \E c \in Threads : AddTaskEnter(c) \/ AddTaskThrows(c) \/ AddTaskNotify(c)
         \/ \E w \in Workers : \/ WorkerExit(w) \/ WorkerTestsFalse(w)
                               \/ WorkerSleeps(w) \/ SpuriousWakeup(w)
         \/ DestroyStop \/ DestroyNotifyAll \/ UNCHANGED vars
  PROVE  UNCHANGED Service!service
<1> USE ThreadAssumption DEF Service!service, IInv, TypeOK, Threads
<1>1. ASSUME NEW c \in Threads, AddTaskEnter(c) \/ AddTaskThrows(c)
      PROVE  UNCHANGED Service!service
  BY <1>1 DEF AddTaskEnter, AddTaskThrows, AtCall, vars
<1>2. ASSUME NEW c \in Threads, AddTaskNotify(c) PROVE UNCHANGED Service!service
  BY <1>2 DEF AddTaskNotify, CallSite
<1>3. ASSUME NEW w \in Workers,
             WorkerExit(w) \/ WorkerTestsFalse(w) \/ WorkerSleeps(w) \/ SpuriousWakeup(w)
      PROVE  UNCHANGED Service!service
  BY <1>3 DEF WorkerExit, WorkerTestsFalse, WorkerSleeps, SpuriousWakeup
<1>4. CASE DestroyStop \/ DestroyNotifyAll \/ UNCHANGED vars
  BY <1>4 DEF DestroyStop, DestroyNotifyAll, vars
<1> QED
  BY <1>1, <1>2, <1>3, <1>4

\* For any sets of workers and of tasks, the pool behaves as the service its
\* users are promised: a push accepts a task, a pop starts the oldest one, a
\* return finishes it, the last join closes the service, and no other step
\* can be told from outside.
THEOREM PoolImplementsService == Spec => ImplementsService
<1>1. Init => Service!Init
  BY ThreadAssumption DEF Init, Service!Init, Threads
<1>2. ASSUME IInv, [Next]_vars PROVE [Service!Next]_Service!service
  <2>1. ASSUME NEW c \in Threads, AddTaskPush(c) PROVE Service!Next
    BY <1>2, <2>1, PushIsAccept DEF Service!Next
  <2>2. ASSUME NEW w \in Workers, WorkerTake(w) PROVE Service!Next
    BY <1>2, <2>2, TakeIsStart DEF Service!Next
  <2>3. ASSUME NEW w \in Workers, WorkerRuns(w) PROVE Service!Next
    <3>1. task[w] \in Tasks /\ task[w] \in Range(started) \ done
      BY <1>2, <2>3 DEF IInv, TypeOK, TaskInv, Queueing, StartedInOrder, WorkerRuns
    <3>2. pc'[Owner] = pc[Owner]
      BY <1>2, <2>3, ThreadAssumption DEF IInv, TypeOK, WorkerRuns
    <3>3. Service!Finish(task[w])
      BY <2>3, <3>1, <3>2, SameRange DEF WorkerRuns, Service!Finish
    <3> QED
      BY <3>1, <3>3 DEF Service!Next
  <2>4. CASE DestroyJoin
    <3>1. Range(accepted) \subseteq done
      BY <1>2, <2>4, AllLeft DEF DestroyJoin
    <3>2. Service!Close
      BY <1>2, <2>4, <3>1, SameRange DEF IInv, TypeOK, DestroyJoin, Service!Close, Threads
    <3> QED
      BY <3>2 DEF Service!Next
  <2> QED
    BY <1>2, <2>1, <2>2, <2>3, <2>4, InnerSteps
       DEF Next, AddTask, Worker, WorkerLocks, Destroy, Terminated
<1> QED
  BY <1>1, <1>2, Invariance, PTL DEF Spec, ImplementsService, Service!Spec

=============================================================================
