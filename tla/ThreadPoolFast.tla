--------------------------- MODULE ThreadPoolFast ---------------------------
(***************************************************************************)
(* thread_pool_fast.cpp: a pool that hands a task straight to a free       *)
(* worker (last in, first out) and queues it only when all are busy.       *)
(*                                                                         *)
(* Every critical section of m_dispatch_ is one step.  assignTask() runs   *)
(* inside one, under the worker's own m_; the worker's wait for has_task_  *)
(* is a guard, because the flag is set and signalled under that same m_.   *)
(* Everything a worker does outside the two locks is a step of its own.    *)
(* The task NULL asks a worker to stop.                                    *)
(*                                                                         *)
(* stop() is issued at most once: IOManager::stop(), the only caller in    *)
(* the server, is guarded by stopped_ (io_manager.cpp:36-38).              *)
(***************************************************************************)
EXTENDS ThreadPoolThreads, Sequences, FiniteSets

VARIABLES
  workers_,         \* list of free workers, front first
  dispatch_queue_,  \* tasks that found no free worker
  has_task_, task_, \* per worker: the hand-over slot
  pc,               \* per worker: its place in workerLoop()
  last_worker_,     \* per worker: the thread-local flag
  phase,            \* progress of stop() and of the destructor
  stopper,          \* the thread that issued stop()
  index,            \* the loop counter of stop()
  fresh, done,      \* tasks not yet added, tasks that have been run
  dropped,          \* tasks the destructor disposed of
  prior             \* tasks that had been added when stop() was issued

poolVars == <<workers_, dispatch_queue_, has_task_, task_>>
stopVars == <<phase, stopper, index, last_worker_, prior>>
taskVars == <<fresh, done, dropped>>
vars == <<poolVars, pc, stopVars, taskVars>>

Phases == {"open", "adding", "joining", "stopped", "destroyed"}
(* "wait": for has_task_; "got": has_task_ reset, task_ not yet looked at; *)
(* "run": inside the task; "back": the task returned; "ended": deleted.    *)
Places == {"wait", "got", "run", "back", "ended"}

TypeOK ==
  /\ workers_ \in Seq(Workers)
  /\ dispatch_queue_ \in Seq(Tasks \union {NULL})
  /\ has_task_ \in [Workers -> BOOLEAN]
  /\ task_ \in [Workers -> Tasks \union {NULL}]
  /\ pc \in [Workers -> Places]
  /\ last_worker_ \in [Workers -> BOOLEAN]
  /\ phase \in Phases
  /\ stopper \in Workers \union {External, NoThread}
  /\ index \in 1..(NumWorkers + 1)
  /\ fresh \subseteq Tasks
  /\ done \subseteq Tasks
  /\ dropped \subseteq Tasks
  /\ prior \subseteq Tasks

-----------------------------------------------------------------------------
(* The constructor starts each thread and pushes its worker to the front   *)
(* of the free list; no other thread knows the pool until it returns.      *)
Init ==
  /\ workers_ = [i \in 1..NumWorkers |-> NumWorkers + 1 - i]
  /\ dispatch_queue_ = <<>>
  /\ has_task_ = [w \in Workers |-> FALSE]
  /\ task_ = [w \in Workers |-> NULL]
  /\ pc = [w \in Workers |-> "wait"]
  /\ last_worker_ = [w \in Workers |-> FALSE]
  /\ phase = "open" /\ stopper = NoThread /\ index = 1
  /\ fresh = Tasks /\ done = {} /\ dropped = {} /\ prior = {}

assignTask(w, t) ==
  /\ task_' = [task_ EXCEPT ![w] = t]
  /\ has_task_' = [has_task_ EXCEPT ![w] = TRUE]

(* The free list after pop_front(); mutant: not popped. *)
OtherWorkersNotPopped == workers_
OtherWorkers == Tail(workers_)

(* The dispatch queue after push() *)
Enqueued(t) == Append(dispatch_queue_, t)

(* Body of addTask(), which stop() also calls, with NULL. *)
addTask(t) ==
  \/ /\ workers_ # <<>>
     /\ assignTask(Head(workers_), t)
     /\ workers_' = OtherWorkers
     /\ UNCHANGED dispatch_queue_
  \/ /\ workers_ = <<>>
     /\ dispatch_queue_' = Enqueued(t)
     /\ UNCHANGED <<workers_, has_task_, task_>>

(* Are there tasks waiting?  Mutant: nobody looks. *)
TasksWaitingUnseen == FALSE
TasksWaiting == dispatch_queue_ # <<>>

queueWorker(w) ==
  \/ /\ TasksWaiting
     /\ assignTask(w, Head(dispatch_queue_))
     /\ dispatch_queue_' = Tail(dispatch_queue_)
     /\ UNCHANGED workers_
  \/ /\ ~TasksWaiting
     /\ workers_' = <<w>> \o workers_
     /\ UNCHANGED <<dispatch_queue_, has_task_, task_>>

(* addTask() from any thread, a running task included, at any time before  *)
(* the destructor.                                                         *)
AddTask(t) ==
  /\ phase # "destroyed"
  /\ t \in fresh
  /\ addTask(t)
  /\ fresh' = fresh \ {t}
  /\ UNCHANGED <<pc, stopVars, done, dropped>>

-----------------------------------------------------------------------------
(* workerLoop() *)

TakeTask(w) ==
  /\ pc[w] = "wait"
  /\ has_task_[w]
  /\ has_task_' = [has_task_ EXCEPT ![w] = FALSE]
  /\ pc' = [pc EXCEPT ![w] = "got"]
  /\ UNCHANGED <<workers_, dispatch_queue_, task_, stopVars, taskVars>>

(* task_ is read after m_ was released. *)
BeginTask(w) ==
  /\ pc[w] = "got"
  /\ pc' = [pc EXCEPT ![w] = IF task_[w] = NULL THEN "ended" ELSE "run"]
  /\ UNCHANGED <<poolVars, stopVars, taskVars>>

InStop(w) == stopper = w /\ phase \in {"adding", "joining"}

FinishTask(w) ==
  /\ pc[w] = "run"
  /\ ~InStop(w)
  /\ pc' = [pc EXCEPT ![w] = "back"]
  /\ done' = done \union {task_[w]}
  /\ UNCHANGED <<poolVars, stopVars, fresh, dropped>>

(* Back in the loop: a worker that ran stop() leaves without touching the  *)
(* pool again, any other asks for its next task.                           *)
LoopWorker(w) ==
  /\ pc[w] = "back"
  /\ \/ /\ last_worker_[w]
        /\ pc' = [pc EXCEPT ![w] = "ended"]
        /\ UNCHANGED poolVars
     \/ /\ ~last_worker_[w]
        /\ pc' = [pc EXCEPT ![w] = "wait"]
        /\ queueWorker(w)
  /\ UNCHANGED <<stopVars, taskVars>>

-----------------------------------------------------------------------------
(* stop(), by a thread outside the pool or by a running task, and the      *)
(* destructor.                                                             *)

StopCall(c) ==
  /\ phase = "open"
  /\ c # External => pc[c] = "run"
  /\ phase' = "adding" /\ stopper' = c /\ index' = 1
  /\ prior' = Tasks \ fresh
  /\ UNCHANGED <<poolVars, pc, last_worker_, taskVars>>

(* How many requests to stop are sent, and how many threads are joined.    *)
(* Mutants: one too many, one too few.                                     *)
RequestsOneMore == NumWorkers + 1
RequestsOneLess == NumWorkers - 1
Requests == NumWorkers

JoinsOneLess == NumWorkers - 1
Joins == NumWorkers

(* One addTask(NULL) per worker, each under m_dispatch_ on its own. *)
StopAdd ==
  /\ phase = "adding"
  /\ \/ /\ index <= Requests
        /\ addTask(NULL)
        /\ index' = index + 1
        /\ UNCHANGED phase
     \/ /\ index > Requests
        /\ phase' = "joining" /\ index' = 1
        /\ UNCHANGED poolVars
  /\ UNCHANGED <<pc, stopper, last_worker_, prior, taskVars>>

(* pthread_join() of every worker but oneself, in order. *)
StopJoin ==
  /\ phase = "joining"
  /\ index <= Joins
  /\ index = stopper \/ pc[index] = "ended"
  /\ index' = index + 1
  /\ UNCHANGED <<poolVars, pc, phase, stopper, last_worker_, prior, taskVars>>

(* Which thread exits after its task.  Mutant: none. *)
ExitsLastNever(w) == FALSE
ExitsLast(w) == w = stopper

StopReturn ==
  /\ phase = "joining"
  /\ index > Joins
  /\ phase' = "stopped"
  /\ last_worker_' = [w \in Workers |-> last_worker_[w] \/ ExitsLast(w)]
  /\ UNCHANGED <<poolVars, pc, stopper, index, prior, taskVars>>

(* "REQUIRES: stop() have completed executing." *)
Destroy ==
  /\ phase = "stopped"
  /\ phase' = "destroyed"
  /\ dropped' = {t \in Tasks : \E i \in 1..Len(dispatch_queue_) :
                                  dispatch_queue_[i] = t}
  /\ dispatch_queue_' = <<>>
  /\ UNCHANGED <<workers_, has_task_, task_, pc, stopper, index,
                 last_worker_, prior, fresh, done>>

(* Nothing is left to run: not a deadlock. *)
Terminated ==
  /\ phase = "destroyed"
  /\ \A w \in Workers : pc[w] = "ended"
  /\ UNCHANGED vars

Worker(w) == TakeTask(w) \/ BeginTask(w) \/ FinishTask(w) \/ LoopWorker(w)
Stopping  == StopAdd \/ StopJoin \/ StopReturn

Next ==
  \/ \E t \in Tasks : AddTask(t)
  \/ \E w \in Workers : Worker(w)
  \/ \E c \in Workers \union {External} : StopCall(c)
  \/ Stopping
  \/ Destroy
  \/ Terminated

Spec == Init /\ [][Next]_vars

(* Threads are scheduled and tasks return; nobody has to call the pool. *)
Fairness ==
  /\ \A w \in Workers : WF_vars(Worker(w))
  /\ WF_vars(Stopping)

FairSpec == Spec /\ Fairness
-----------------------------------------------------------------------------
(* The pool implements ThreadPool: a task that is queued, or was assigned  *)
(* to a worker that did not start it yet, is pending.                      *)

Queued(t)   == \E i \in 1..Len(dispatch_queue_) : dispatch_queue_[i] = t
Assigned(w) == has_task_[w] \/ pc[w] = "got"

StatusOf(t) ==
  IF t \in fresh THEN "new"
  ELSE IF t \in done THEN "done"
  ELSE IF t \in dropped THEN "dropped"
  ELSE IF \E w \in Workers : pc[w] = "run" /\ task_[w] = t THEN "running"
  ELSE IF Queued(t) \/ \E w \in Workers : Assigned(w) /\ task_[w] = t
       THEN "pending"
  ELSE "lost"

Abstract == INSTANCE ThreadPool WITH
  Capacity <- NumWorkers,
  NoTask   <- NULL,
  status   <- [t \in Tasks |-> StatusOf(t)],
  phase    <- IF phase \in {"adding", "joining"} THEN "stopping" ELSE phase,
  caller   <- IF stopper \in Workers THEN task_[stopper] ELSE NULL

(* What ThreadPool promises of addTask(), stop() and the destructor: each  *)
(* task runs at most once, none is lost, none starts after stop() returned *)
(* and stop() returns only when no task but its caller is running.         *)
ImplementsThreadPool == Abstract!Spec

-----------------------------------------------------------------------------
(* Safety *)

(* The free list holds exactly the workers that wait without a task, each  *)
(* once.  "Because a task is assigned to this worker, we assume it left    *)
(* the free worker's pool": otherwise a second assignTask() would          *)
(* overwrite task_, which the worker reads without holding m_.             *)
FreeListExact ==
  /\ \A i \in 1..Len(workers_) :
       pc[workers_[i]] = "wait" /\ ~has_task_[workers_[i]]
  /\ \A w \in Workers : pc[w] = "wait" /\ ~has_task_[w] =>
       \E i \in 1..Len(workers_) : workers_[i] = w
  /\ \A i, j \in 1..Len(workers_) : workers_[i] = workers_[j] => i = j

(* A task never waits in the dispatch queue while a worker is free:        *)
(* addTask() and queueWorker() decide under the same lock.                 *)
NoIdleWhilePending == workers_ = <<>> \/ dispatch_queue_ = <<>>

(* When stop() returns, every task added before it was called has run, but *)
(* for the task that called stop(): the requests to stop queue up behind.  *)
(* This takes a worker other than the caller to serve the queue.           *)
AllPriorServed ==
  phase \in {"stopped", "destroyed"} =>
    \A t \in prior :
      \/ t \in done
      \/ stopper \in Workers /\ task_[stopper] = t /\ pc[stopper] = "run"

PriorTasksServed == (\E w \in Workers : w # stopper) => AllPriorServed

(* After stop() returned the destructor may run at once: each worker has   *)
(* ended, or it is the caller of stop(), which will leave its loop without *)
(* touching the pool (queueWorker() would use a deleted object).           *)
NoUseAfterDestroy ==
  phase \in {"stopped", "destroyed"} =>
    \A w \in Workers :
      \/ pc[w] = "ended"
      \/ w = stopper /\ last_worker_[w] /\ pc[w] \in {"run", "back"}

-----------------------------------------------------------------------------
(* Liveness *)

(* stop() returns, whoever calls it and whatever is added meanwhile: the   *)
(* workers never all wait for each other or for a request that was not     *)
(* sent.                                                                   *)
StopTerminates == phase = "adding" ~> phase \in {"stopped", "destroyed"}

(* A task added before stop() was called is run, even if stop() is called  *)
(* while it waits in the queue.                                            *)
AcceptedTasksRun ==
  \A t \in Tasks : (phase = "open" /\ t \notin fresh) ~> t \in done
=============================================================================
