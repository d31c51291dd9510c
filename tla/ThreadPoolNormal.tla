-------------------------- MODULE ThreadPoolNormal --------------------------
(***************************************************************************)
(* thread_pool_normal.cpp: one queue, one lock and one condition variable  *)
(* shared by all workers.  Each critical section of queue_lock_ is one     *)
(* step.  A worker inside queue_empty_.wait() is in "waiting" and runs     *)
(* again only when a signal, or a spurious wakeup, moves it to "loop",     *)
(* where it takes the lock and tests its condition anew.                   *)
(***************************************************************************)
EXTENDS ThreadPoolThreads, Sequences, FiniteSets

VARIABLES
  tasks_, flagstop_,  \* under queue_lock_
  pc, task,           \* per worker: place in ExecuteTask(), current task
  phase,              \* progress of the first stop() and of the destructor
  stopper, index,     \* the thread in that stop(), its loop counter
  again,              \* threads whose stop() found flagstop_ set
  fresh, done,        \* tasks not yet added, tasks that have been run
  dropped             \* tasks refused by addTask() or left to the destructor

stopVars == <<phase, stopper, index, again>>
taskVars == <<fresh, done, dropped>>
vars == <<tasks_, flagstop_, pc, task, stopVars, taskVars>>

(* "loop": about to lock queue_lock_; "invalid": locked it after the       *)
(* destructor, which is undefined.                                         *)
Places == {"loop", "waiting", "run", "ended", "invalid"}
Phases == {"open", "stopping", "stopped", "destroyed"}

TypeOK ==
  /\ tasks_ \in Seq(Tasks)
  /\ flagstop_ \in BOOLEAN
  /\ pc \in [Workers -> Places]
  /\ task \in [Workers -> Tasks \union {NULL}]
  /\ phase \in Phases
  /\ stopper \in Workers \union {External, NoThread}
  /\ index \in 1..(NumWorkers + 1)
  /\ again \subseteq Workers \union {External}
  /\ fresh \subseteq Tasks /\ done \subseteq Tasks /\ dropped \subseteq Tasks

At(place) == {w \in Workers : pc[w] = place}

Init ==
  /\ tasks_ = <<>> /\ flagstop_ = FALSE
  /\ pc = [w \in Workers |-> "loop"]
  /\ task = [w \in Workers |-> NULL]
  /\ phase = "open" /\ stopper = NoThread /\ index = 1 /\ again = {}
  /\ fresh = Tasks /\ done = {} /\ dropped = {}

-----------------------------------------------------------------------------
(* queue_empty_: which waiting workers a signal() and a signalAll() may    *)
(* wake up.  Mutants: the signal is lost, or is sent only for the first    *)
(* task of the queue.                                                      *)
Wake(S) == pc' = [w \in Workers |-> IF w \in S THEN "loop" ELSE pc[w]]

SignalLost == {{}}
SignalIfEmpty ==
  IF At("waiting") = {} \/ tasks_ # <<>> THEN {{}}
  ELSE {{w} : w \in At("waiting")}
Signal ==
  IF At("waiting") = {} THEN {{}} ELSE {{w} : w \in At("waiting")}

SignalAll == {At("waiting")}

(* addTask(): dropped, and leaked, once flagstop_ is set; otherwise queued *)
(* and one waiting worker, if any, is signalled.                           *)

AddTask(t) ==
  /\ phase # "destroyed" /\ t \in fresh
  /\ fresh' = fresh \ {t}
  /\ \/ /\ flagstop_
        /\ dropped' = dropped \union {t}
        /\ UNCHANGED <<tasks_, pc>>
     \/ /\ ~flagstop_
        /\ tasks_' = Append(tasks_, t)
        /\ \E S \in Signal : Wake(S)
        /\ UNCHANGED dropped
  /\ UNCHANGED <<flagstop_, task, stopVars, done>>

-----------------------------------------------------------------------------
(* ExecuteTask() *)

Wait(w) ==
  /\ tasks_ = <<>> /\ ~flagstop_
  /\ pc' = [pc EXCEPT ![w] = "waiting"]
  /\ UNCHANGED <<tasks_, task>>

Leave(w) ==
  /\ flagstop_
  /\ pc' = [pc EXCEPT ![w] = "ended"]
  /\ UNCHANGED <<tasks_, task>>

PopTask(w) ==
  /\ tasks_ # <<>> /\ ~flagstop_
  /\ pc' = [pc EXCEPT ![w] = "run"]
  /\ task' = [task EXCEPT ![w] = Head(tasks_)]
  /\ tasks_' = Tail(tasks_)

(* From taking the lock to releasing it.  After the destructor there is no *)
(* lock to take.                                                           *)
Dispatch(w) ==
  /\ pc[w] = "loop"
  /\ \/ phase # "destroyed" /\ (Wait(w) \/ Leave(w) \/ PopTask(w))
     \/ /\ phase = "destroyed"
        /\ pc' = [pc EXCEPT ![w] = "invalid"]
        /\ UNCHANGED <<tasks_, task>>
  /\ UNCHANGED <<flagstop_, stopVars, taskVars>>

SpuriousWakeup(w) ==
  /\ pc[w] = "waiting"
  /\ pc' = [pc EXCEPT ![w] = "loop"]
  /\ UNCHANGED <<tasks_, flagstop_, task, stopVars, taskVars>>

FinishTask(w) ==
  /\ pc[w] = "run"
  /\ ~(stopper = w /\ phase = "stopping")
  /\ pc' = [pc EXCEPT ![w] = "loop"]
  /\ done' = done \union {task[w]}
  /\ UNCHANGED <<tasks_, flagstop_, task, stopVars, fresh, dropped>>

-----------------------------------------------------------------------------
(* stop() and the destructor *)

(* The threads that are joined, by index.  Mutant: one less than all. *)
FirstJoin == 1
LastJoinTooLow == NumWorkers - 1
LastJoin == NumWorkers

(* stop() by a thread outside the pool or by a running task.  A caller     *)
(* that finds flagstop_ set returns at once, whether or not the first call *)
(* has finished.                                                           *)
Stop(c) ==
  /\ phase # "destroyed"
  /\ c # External => pc[c] = "run"
  /\ \/ /\ flagstop_ /\ c \notin again \union {stopper}
        /\ again' = again \union {c}
        /\ UNCHANGED <<flagstop_, pc, phase, stopper, index>>
     \/ /\ ~flagstop_
        /\ flagstop_' = TRUE
        /\ \E S \in SignalAll : Wake(S)
        /\ phase' = "stopping" /\ stopper' = c /\ index' = FirstJoin
        /\ UNCHANGED again
  /\ UNCHANGED <<tasks_, task, taskVars>>

(* pthread_join() of oneself fails with EDEADLK and is ignored. *)
StopJoin ==
  /\ phase = "stopping" /\ index <= LastJoin
  /\ index = stopper \/ pc[index] = "ended"
  /\ index' = index + 1
  /\ UNCHANGED <<tasks_, flagstop_, pc, task, phase, stopper, again, taskVars>>

StopReturn ==
  /\ phase = "stopping" /\ index > LastJoin
  /\ phase' = "stopped"
  /\ UNCHANGED <<tasks_, flagstop_, pc, task, stopper, index, again, taskVars>>

(* "REQUIRES: stop() have completed executing." *)
Destroy ==
  /\ phase = "stopped"
  /\ phase' = "destroyed"
  /\ dropped' = dropped \union {tasks_[i] : i \in 1..Len(tasks_)}
  /\ tasks_' = <<>>
  /\ UNCHANGED <<flagstop_, pc, task, stopper, index, again, fresh, done>>

(* Nothing is left to run: not a deadlock. *)
Terminated ==
  /\ phase = "destroyed"
  /\ \A w \in Workers : pc[w] \in {"ended", "invalid"}
  /\ UNCHANGED vars

Stopping == StopJoin \/ StopReturn

Next ==
  \/ \E t \in Tasks : AddTask(t)
  \/ \E w \in Workers : Dispatch(w) \/ SpuriousWakeup(w) \/ FinishTask(w)
  \/ \E c \in Workers \union {External} : Stop(c)
  \/ Stopping
  \/ Destroy
  \/ Terminated

Spec == Init /\ [][Next]_vars

(* Threads are scheduled and tasks return; spurious wakeups are not owed.  *)
Fairness ==
  /\ \A w \in Workers : WF_vars(Dispatch(w)) /\ WF_vars(FinishTask(w))
  /\ WF_vars(Stopping)

FairSpec == Spec /\ Fairness

-----------------------------------------------------------------------------
StatusOf(t) ==
  IF t \in fresh THEN "new"
  ELSE IF t \in done THEN "done"
  ELSE IF t \in dropped THEN "dropped"
  ELSE IF \E w \in At("run") : task[w] = t THEN "running"
  ELSE IF \E i \in 1..Len(tasks_) : tasks_[i] = t THEN "pending"
  ELSE "lost"

Abstract == INSTANCE ThreadPool WITH
  Capacity <- NumWorkers,
  NoTask   <- NULL,
  status   <- [t \in Tasks |-> StatusOf(t)],
  caller   <- IF stopper \in Workers THEN task[stopper] ELSE NULL

(* What ThreadPool promises of addTask(), of the first stop() and of the   *)
(* destructor, whether or not a second stop() returned before the first.   *)
ImplementsThreadPool == Abstract!Spec

(* addTask() signals once per task, and a worker that wakes up may find    *)
(* the queue empty: still, as long as some worker sleeps, at least as many *)
(* workers as there are tasks are on their way to the queue.               *)
WakeupsSuffice ==
  At("waiting") # {} /\ ~flagstop_ => Len(tasks_) <= Cardinality(At("loop"))

(* A task that was queued runs, unless the pool is stopped first.          *)
AcceptedTasksRun ==
  \A t \in Tasks : t \notin fresh ~> (t \in done \/ flagstop_)
=============================================================================
