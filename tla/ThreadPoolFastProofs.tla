------------------------ MODULE ThreadPoolFastProofs ------------------------
(***************************************************************************)
(* Proofs about ThreadPoolFast, for any number of workers and any set of   *)
(* tasks: its types, its free list, what stop() has served when it returns,*)
(* why the pool may be destroyed then, and that it implements ThreadPool.  *)
(***************************************************************************)
EXTENDS ThreadPoolFast, SequenceTheorems, FiniteSetTheorems, TLAPS

-----------------------------------------------------------------------------
(* The inductive invariant, in three layers. *)

(* The free list and the hand-over slots. *)
FreeInv ==
  /\ FreeListExact
  /\ NoIdleWhilePending
  /\ \A w \in Workers : has_task_[w] => pc[w] = "wait"
  /\ \A w \in Workers : pc[w] = "run" => task_[w] # NULL

(* Requests to stop exist only once stop() was called; its caller stays in *)
(* its task until stop() returned; what stop() has joined has ended.       *)
StopInv ==
  /\ phase = "open" =>
       /\ stopper = NoThread
       /\ ~Queued(NULL)
       /\ \A w \in Workers :
            pc[w] # "ended" /\ (Assigned(w) => task_[w] # NULL)
  /\ phase \in {"adding", "joining"} =>
       \A w \in Workers : w = stopper => pc[w] = "run"
  /\ phase = "joining" =>
       \A w \in Workers : w < index => w = stopper \/ pc[w] = "ended"
  /\ phase \in {"stopped", "destroyed"} =>
       \A w \in Workers :
         pc[w] = "ended" \/ (w = stopper /\ pc[w] \in {"run", "back"})
  /\ \A w \in Workers :
       last_worker_[w] <=> phase \in {"stopped", "destroyed"} /\ w = stopper

(* A worker, other than the caller of stop(), that was told to stop. *)
Released(w) == pc[w] = "ended" \/ (Assigned(w) /\ task_[w] = NULL)

(* Where a task that was added can be. *)
Located(t) ==
  \/ t \in done
  \/ t \in dropped
  \/ Queued(t)
  \/ \E w \in Workers : (Assigned(w) \/ pc[w] = "run") /\ task_[w] = t

(* No added task is lost, and the tasks added before stop() are ahead of   *)
(* every request to stop: in the queue, and because a request that left    *)
(* the queue left no such task behind.                                     *)
PriorInv ==
  /\ prior \cap fresh = {}
  /\ \A t \in Tasks : t \in fresh \/ Located(t)
  /\ \A i, j \in 1..Len(dispatch_queue_) :
       dispatch_queue_[i] = NULL /\ i < j => dispatch_queue_[j] \notin prior
  /\ \A w \in Workers : w # stopper /\ Released(w) =>
       \A i \in 1..Len(dispatch_queue_) : dispatch_queue_[i] \notin prior
  /\ phase # "destroyed" => dropped = {}
  /\ \A w \in Workers : w # stopper => prior \cap dropped = {}

-----------------------------------------------------------------------------
(* Types *)

(* addTask() and queueWorker(), element by element: the task goes to the   *)
(* first free worker, or to the end of the queue; the worker is given the  *)
(* first task of the queue, or becomes the first of the free list.         *)
AddHanded(t) ==
  /\ workers_ # <<>> /\ workers_[1] \in Workers
  /\ task_' = [task_ EXCEPT ![workers_[1]] = t]
  /\ has_task_' = [has_task_ EXCEPT ![workers_[1]] = TRUE]
  /\ workers_' \in Seq(Workers)
  /\ Len(workers_') = Len(workers_) - 1
  /\ \A i \in 1..Len(workers_') : workers_'[i] = workers_[i + 1]
  /\ dispatch_queue_' = dispatch_queue_

AddQueued(t) ==
  /\ workers_ = <<>>
  /\ workers_' = workers_ /\ has_task_' = has_task_ /\ task_' = task_
  /\ dispatch_queue_' \in Seq(Tasks \union {NULL})
  /\ Len(dispatch_queue_') = Len(dispatch_queue_) + 1
  /\ \A i \in 1..Len(dispatch_queue_) :
       dispatch_queue_'[i] = dispatch_queue_[i]
  /\ dispatch_queue_'[Len(dispatch_queue_) + 1] = t

WorkerServed(w) ==
  /\ dispatch_queue_ # <<>> /\ dispatch_queue_[1] \in Tasks \union {NULL}
  /\ task_' = [task_ EXCEPT ![w] = dispatch_queue_[1]]
  /\ has_task_' = [has_task_ EXCEPT ![w] = TRUE]
  /\ dispatch_queue_' \in Seq(Tasks \union {NULL})
  /\ Len(dispatch_queue_') = Len(dispatch_queue_) - 1
  /\ \A i \in 1..Len(dispatch_queue_') :
       dispatch_queue_'[i] = dispatch_queue_[i + 1]
  /\ workers_' = workers_

WorkerFreed(w) ==
  /\ dispatch_queue_ = <<>>
  /\ dispatch_queue_' = dispatch_queue_
  /\ has_task_' = has_task_ /\ task_' = task_
  /\ workers_' \in Seq(Workers)
  /\ Len(workers_') = Len(workers_) + 1
  /\ workers_'[1] = w
  /\ \A i \in 1..Len(workers_) : workers_'[i + 1] = workers_[i]

(* addTask() hands the task to a free worker, or queues it. *)
LEMMA AddTaskFacts ==
  ASSUME TypeOK, NEW t \in Tasks \union {NULL}, addTask(t)
  PROVE  AddHanded(t) \/ AddQueued(t)
<1>1. CASE workers_ # <<>>
  <2>1. /\ assignTask(Head(workers_), t)
        /\ workers_' = Tail(workers_)
        /\ dispatch_queue_' = dispatch_queue_
    BY <1>1 DEF addTask, OtherWorkers
  <2>2. workers_ \in Seq(Workers)
    BY DEF TypeOK
  <2>3. Head(workers_) = workers_[1]
    BY <2>2
  <2> QED
    BY <1>1, <2>1, <2>2, <2>3, HeadTailProperties DEF assignTask, AddHanded
<1>2. CASE workers_ = <<>>
  <2>1. dispatch_queue_' = Append(dispatch_queue_, t)
    BY <1>2 DEF addTask, Enqueued
  <2>2. dispatch_queue_ \in Seq(Tasks \union {NULL})
    BY DEF TypeOK
  <2> QED
    BY <1>2, <2>1, <2>2, AppendProperties DEF addTask, AddQueued
<1> QED  BY <1>1, <1>2

(* queueWorker() serves the worker from the queue, or frees it. *)
LEMMA QueueWorkerFacts ==
  ASSUME TypeOK, NEW w \in Workers, queueWorker(w)
  PROVE  WorkerServed(w) \/ WorkerFreed(w)
<1>1. CASE dispatch_queue_ # <<>>
  <2>1. /\ assignTask(w, Head(dispatch_queue_))
        /\ dispatch_queue_' = Tail(dispatch_queue_)
        /\ workers_' = workers_
    BY <1>1 DEF queueWorker, TasksWaiting
  <2>2. dispatch_queue_ \in Seq(Tasks \union {NULL})
    BY DEF TypeOK
  <2>3. Head(dispatch_queue_) = dispatch_queue_[1]
    BY <2>2
  <2> QED
    BY <1>1, <2>1, <2>2, <2>3, HeadTailProperties
       DEF assignTask, WorkerServed
<1>2. CASE dispatch_queue_ = <<>>
  <2>1. workers_' = <<w>> \o workers_
    BY <1>2 DEF queueWorker, TasksWaiting
  <2>2. workers_ \in Seq(Workers) /\ <<w>> \in Seq(Workers)
    BY DEF TypeOK
  <2>3. /\ workers_' \in Seq(Workers)
        /\ Len(workers_') = Len(<<w>>) + Len(workers_)
        /\ \A i \in 1..(Len(<<w>>) + Len(workers_)) : workers_'[i] =
             IF i <= Len(<<w>>) THEN <<w>>[i] ELSE workers_[i - Len(<<w>>)]
    BY <2>1, <2>2, ConcatProperties
  <2>4. Len(<<w>>) = 1 /\ <<w>>[1] = w /\ Len(workers_) \in Nat
    BY <2>2
  <2>5. workers_'[1] = w
    BY <2>3, <2>4
  <2>6. \A i \in 1..Len(workers_) : workers_'[i + 1] = workers_[i]
    <3> TAKE i \in 1..Len(workers_)
    <3>1. i + 1 \in 1..(Len(<<w>>) + Len(workers_)) /\ ~(i + 1 <= Len(<<w>>))
      BY <2>4
    <3>2. workers_'[i + 1] = workers_[(i + 1) - Len(<<w>>)]
      BY <2>3, <3>1
    <3> QED  BY <2>4, <3>2
  <2> QED
    BY <1>2, <2>3, <2>4, <2>5, <2>6
       DEF queueWorker, TasksWaiting, WorkerFreed
<1> QED  BY <1>1, <1>2

(* The pool as it is constructed. *)
LEMMA InitType == Init => TypeOK /\ FreeInv
<1> SUFFICES ASSUME Init PROVE TypeOK /\ FreeInv
  OBVIOUS
<1> USE NumWorkersAssumption
<1>1. TypeOK
  BY DEF Init, TypeOK, Workers, NoThread, Phases, Places
<1>2. /\ Len(workers_) = NumWorkers
      /\ \A i \in 1..NumWorkers : workers_[i] = NumWorkers + 1 - i
  BY DEF Init
<1>3. FreeListExact
  <2>1. ASSUME NEW w \in Workers
        PROVE  \E i \in 1..Len(workers_) : workers_[i] = w
    <3>1. NumWorkers + 1 - w \in 1..NumWorkers
      BY DEF Workers
    <3> QED  BY <1>2, <3>1 DEF Workers
  <2> QED
    BY <1>2, <2>1 DEF FreeListExact, Init, Workers
<1> QED
  BY <1>1, <1>3 DEF FreeInv, NoIdleWhilePending, Init

(* Every action keeps the types. *)
LEMMA StepType == TypeOK /\ FreeInv /\ [Next]_vars => TypeOK'
<1> SUFFICES ASSUME TypeOK, FreeInv, [Next]_vars PROVE TypeOK'
  OBVIOUS
<1> USE NumWorkersAssumption
<1>1. ASSUME NEW t \in Tasks, AddTask(t) PROVE TypeOK'
  <2>1. AddHanded(t) \/ AddQueued(t)
    BY <1>1, AddTaskFacts DEF AddTask
  <2> QED
    BY <1>1, <2>1 DEF AddTask, TypeOK, stopVars, AddHanded, AddQueued
<1>2. ASSUME NEW w \in Workers, TakeTask(w) PROVE TypeOK'
  BY <1>2 DEF TakeTask, TypeOK, stopVars, taskVars, Places
<1>3. ASSUME NEW w \in Workers, BeginTask(w) PROVE TypeOK'
  BY <1>3 DEF BeginTask, TypeOK, poolVars, stopVars, taskVars, Places
<1>4. ASSUME NEW w \in Workers, FinishTask(w) PROVE TypeOK'
  <2>1. task_[w] \in Tasks
    BY <1>4 DEF FinishTask, TypeOK, FreeInv
  <2> QED
    BY <1>4, <2>1 DEF FinishTask, TypeOK, poolVars, stopVars, Places
<1>5. ASSUME NEW w \in Workers, LoopWorker(w) PROVE TypeOK'
  <2>1. UNCHANGED poolVars \/ WorkerServed(w) \/ WorkerFreed(w)
    BY <1>5, QueueWorkerFacts DEF LoopWorker
  <2> QED
    BY <1>5, <2>1 DEF LoopWorker, TypeOK, poolVars, stopVars, taskVars,
       Places, WorkerServed, WorkerFreed
<1>6. ASSUME NEW c \in Workers \union {External}, StopCall(c) PROVE TypeOK'
  BY <1>6 DEF StopCall, TypeOK, poolVars, taskVars, Phases
<1>7. CASE StopAdd
  <2>1. UNCHANGED poolVars \/ AddHanded(NULL) \/ AddQueued(NULL)
    BY <1>7, AddTaskFacts DEF StopAdd
  <2>2. index' \in 1..(NumWorkers + 1) /\ phase' \in Phases
    BY <1>7 DEF StopAdd, Requests, TypeOK, Phases
  <2>3. UNCHANGED <<pc, stopper, last_worker_, prior, taskVars>>
    BY <1>7 DEF StopAdd
  <2> QED
    BY <2>1, <2>2, <2>3
       DEF TypeOK, poolVars, taskVars, AddHanded, AddQueued
<1>8. CASE StopJoin
  BY <1>8 DEF StopJoin, TypeOK, poolVars, taskVars, Joins
<1>9. CASE StopReturn
  BY <1>9 DEF StopReturn, TypeOK, poolVars, taskVars, Phases, ExitsLast
<1>10. CASE Destroy
  BY <1>10 DEF Destroy, TypeOK, Phases
<1>11. CASE UNCHANGED vars
  BY <1>11 DEF vars, poolVars, stopVars, taskVars, TypeOK
<1> QED
  BY <1>1, <1>2, <1>3, <1>4, <1>5, <1>6, <1>7, <1>8, <1>9, <1>10, <1>11
     DEF Next, Worker, Stopping, Terminated

-----------------------------------------------------------------------------
(* The free list *)

(* A task added leaves the list of free workers right. *)
LEMMA AddTaskFree ==
  ASSUME TypeOK, TypeOK', FreeInv, pc' = pc, NEW t,
         AddHanded(t) \/ AddQueued(t)
  PROVE  FreeInv'
<1>1. CASE AddHanded(t)
  <2> DEFINE h == workers_[1]
  <2>1. /\ Len(workers_) \in Nat /\ Len(workers_) >= 1
        /\ Len(workers_') = Len(workers_) - 1
    BY <1>1 DEF AddHanded, TypeOK
  <2>2. h \in Workers /\ pc[h] = "wait" /\ ~has_task_[h]
    BY <1>1, <2>1 DEF FreeInv, FreeListExact, AddHanded
  <2>3. \A w \in Workers : w # h => has_task_'[w] = has_task_[w]
    BY <1>1 DEF AddHanded, TypeOK
  <2>4. ASSUME NEW i \in 1..Len(workers_')
        PROVE  /\ workers_'[i] = workers_[i + 1] /\ i + 1 \in 1..Len(workers_)
               /\ workers_'[i] # h /\ workers_'[i] \in Workers
    <3>1. workers_'[i] = workers_[i + 1] /\ i + 1 \in 1..Len(workers_)
      BY <1>1, <2>1 DEF AddHanded
    <3>2. workers_'[i] # h
      BY <2>1, <3>1 DEF FreeInv, FreeListExact
    <3> QED  BY <3>1, <3>2 DEF TypeOK
  <2>5. ASSUME NEW i \in 1..Len(workers_')
        PROVE  pc'[workers_'[i]] = "wait" /\ ~has_task_'[workers_'[i]]
    BY <2>3, <2>4 DEF FreeInv, FreeListExact
  <2>6. ASSUME NEW w \in Workers, pc'[w] = "wait", ~has_task_'[w]
        PROVE  \E i \in 1..Len(workers_') : workers_'[i] = w
    <3>1. w # h
      BY <1>1, <2>6 DEF AddHanded, TypeOK
    <3>2. PICK i \in 1..Len(workers_) : workers_[i] = w
      BY <2>3, <2>6, <3>1 DEF FreeInv, FreeListExact
    <3>3. i # 1
      BY <3>1, <3>2
    <3>4. i - 1 \in 1..Len(workers_') /\ (i - 1) + 1 = i
      BY <2>1, <3>3
    <3>5. workers_'[i - 1] = w
      BY <2>4, <3>2, <3>4
    <3> QED  BY <3>4, <3>5
  <2>7. ASSUME NEW i \in 1..Len(workers_'), NEW j \in 1..Len(workers_'),
               workers_'[i] = workers_'[j]
        PROVE  i = j
    <3>1. i + 1 = j + 1
      BY <2>4, <2>7 DEF FreeInv, FreeListExact
    <3> QED  BY <2>1, <3>1
  <2>8. FreeListExact'
    BY <2>5, <2>6, <2>7 DEF FreeListExact
  <2>9. NoIdleWhilePending'
    BY <1>1 DEF AddHanded, FreeInv, NoIdleWhilePending
  <2>10. \A w \in Workers : has_task_'[w] => pc'[w] = "wait"
    BY <2>2, <2>3 DEF FreeInv
  <2>11. \A w \in Workers : pc'[w] = "run" => task_'[w] # NULL
    BY <1>1, <2>2 DEF FreeInv, AddHanded, TypeOK
  <2> QED  BY <2>8, <2>9, <2>10, <2>11 DEF FreeInv
<1>2. CASE AddQueued(t)
  BY <1>2 DEF AddQueued, FreeInv, FreeListExact, NoIdleWhilePending
<1> QED  BY <1>1, <1>2

(* Every action keeps the list of free workers right. *)
LEMMA StepFree == TypeOK /\ TypeOK' /\ FreeInv /\ [Next]_vars => FreeInv'
<1> SUFFICES ASSUME TypeOK, TypeOK', FreeInv, [Next]_vars PROVE FreeInv'
  OBVIOUS
<1>1. ASSUME NEW t \in Tasks, AddTask(t) PROVE FreeInv'
  BY <1>1, AddTaskFacts, AddTaskFree DEF AddTask
<1>2. ASSUME NEW w \in Workers, TakeTask(w) PROVE FreeInv'
  BY <1>2 DEF TakeTask, FreeInv, FreeListExact, NoIdleWhilePending, TypeOK
<1>3. ASSUME NEW w \in Workers, BeginTask(w) PROVE FreeInv'
  BY <1>3 DEF BeginTask, FreeInv, FreeListExact, NoIdleWhilePending, TypeOK,
     poolVars
<1>4. ASSUME NEW w \in Workers, FinishTask(w) PROVE FreeInv'
  BY <1>4 DEF FinishTask, FreeInv, FreeListExact, NoIdleWhilePending, TypeOK,
     poolVars
<1>5. ASSUME NEW w \in Workers, LoopWorker(w) PROVE FreeInv'
  <2>1. CASE UNCHANGED poolVars /\ pc' = [pc EXCEPT ![w] = "ended"]
    BY <1>5, <2>1 DEF LoopWorker, FreeInv, FreeListExact, NoIdleWhilePending,
       TypeOK, poolVars
  <2>2. CASE WorkerServed(w) /\ pc' = [pc EXCEPT ![w] = "wait"]
    BY <1>5, <2>2 DEF LoopWorker, FreeInv, FreeListExact, NoIdleWhilePending,
       TypeOK, WorkerServed
  <2>3. CASE WorkerFreed(w) /\ pc' = [pc EXCEPT ![w] = "wait"]
    <3>1. /\ pc[w] = "back" /\ ~has_task_[w]
          /\ \A v \in Workers : v # w => pc'[v] = pc[v]
          /\ pc'[w] = "wait"
          /\ Len(workers_) \in Nat
      BY <1>5, <2>3 DEF LoopWorker, FreeInv, TypeOK
    <3>2. ASSUME NEW i \in 1..Len(workers_'), i # 1
          PROVE  /\ i - 1 \in 1..Len(workers_)
                 /\ workers_'[i] = workers_[i - 1]
                 /\ workers_'[i] # w /\ workers_'[i] \in Workers
      <4>1. i - 1 \in 1..Len(workers_) /\ (i - 1) + 1 = i
        BY <2>3, <3>1, <3>2 DEF WorkerFreed
      <4>2. workers_'[i] = workers_[i - 1]
        BY <2>3, <4>1 DEF WorkerFreed
      <4> QED  BY <3>1, <4>1, <4>2 DEF FreeInv, FreeListExact, TypeOK
    <3>3. ASSUME NEW i \in 1..Len(workers_')
          PROVE  pc'[workers_'[i]] = "wait" /\ ~has_task_'[workers_'[i]]
      <4>1. CASE i = 1
        BY <2>3, <3>1, <4>1 DEF WorkerFreed
      <4>2. CASE i # 1
        BY <2>3, <3>1, <3>2, <4>2 DEF WorkerFreed, FreeInv, FreeListExact
      <4> QED  BY <4>1, <4>2
    <3>4. ASSUME NEW v \in Workers, pc'[v] = "wait", ~has_task_'[v]
          PROVE  \E i \in 1..Len(workers_') : workers_'[i] = v
      <4>1. CASE v = w
        <5>1. 1 \in 1..Len(workers_') /\ workers_'[1] = v
          BY <2>3, <3>1, <4>1 DEF WorkerFreed
        <5> QED  BY <5>1
      <4>2. CASE v # w
        <5>1. PICK i \in 1..Len(workers_) : workers_[i] = v
          BY <2>3, <3>1, <3>4, <4>2 DEF WorkerFreed, FreeInv, FreeListExact
        <5>2. i + 1 \in 1..Len(workers_') /\ workers_'[i + 1] = v
          BY <2>3, <3>1, <5>1 DEF WorkerFreed
        <5> QED  BY <5>2
      <4> QED  BY <4>1, <4>2
    <3>5. ASSUME NEW i \in 1..Len(workers_'), NEW j \in 1..Len(workers_'),
                 workers_'[i] = workers_'[j]
          PROVE  i = j
      <4>1. CASE i = 1 \/ j = 1
        BY <2>3, <3>2, <3>5, <4>1 DEF WorkerFreed
      <4>2. CASE i # 1 /\ j # 1
        <5>1. i - 1 = j - 1
          BY <3>2, <3>5, <4>2 DEF FreeInv, FreeListExact
        <5> QED  BY <5>1
      <4> QED  BY <4>1, <4>2
    <3>6. FreeListExact'
      BY <3>3, <3>4, <3>5 DEF FreeListExact
    <3> QED
      BY <2>3, <3>1, <3>6 DEF WorkerFreed, FreeInv, NoIdleWhilePending, TypeOK
  <2> QED
    BY <1>5, <2>1, <2>2, <2>3, QueueWorkerFacts DEF LoopWorker
<1>6. ASSUME NEW c \in Workers \union {External}, StopCall(c) PROVE FreeInv'
  BY <1>6 DEF StopCall, FreeInv, FreeListExact, NoIdleWhilePending, poolVars
<1>7. CASE StopAdd
  <2>1. CASE UNCHANGED poolVars
    BY <1>7, <2>1 DEF StopAdd, FreeInv, FreeListExact, NoIdleWhilePending,
       poolVars
  <2>2. CASE AddHanded(NULL) \/ AddQueued(NULL)
    BY <1>7, <2>2, AddTaskFree DEF StopAdd
  <2> QED  BY <1>7, <2>1, <2>2, AddTaskFacts DEF StopAdd
<1>8. CASE StopJoin \/ StopReturn
  BY <1>8 DEF StopJoin, StopReturn, FreeInv, FreeListExact,
     NoIdleWhilePending, poolVars
<1>9. CASE Destroy
  BY <1>9 DEF Destroy, FreeInv, FreeListExact, NoIdleWhilePending
<1>10. CASE UNCHANGED vars
  BY <1>10 DEF vars, poolVars, FreeInv, FreeListExact, NoIdleWhilePending
<1> QED
  BY <1>1, <1>2, <1>3, <1>4, <1>5, <1>6, <1>7, <1>8, <1>9, <1>10
     DEF Next, Worker, Stopping, Terminated

(* Every variable of the pool keeps its type, for any number of workers.   *)
THEOREM Typing == Spec => []TypeOK
<1>1. TypeOK /\ FreeInv /\ [Next]_vars => TypeOK' /\ FreeInv'
  BY StepType, StepFree
<1> QED  BY InitType, <1>1, PTL DEF Spec

(* The free list holds exactly the workers that wait without a task, so no *)
(* hand-over overwrites another; and no task waits while a worker is free. *)
THEOREM FreeListCorrect == Spec => [](FreeListExact /\ NoIdleWhilePending)
<1>1. TypeOK /\ FreeInv /\ [Next]_vars => TypeOK' /\ FreeInv'
  BY StepType, StepFree
<1>2. FreeInv => FreeListExact /\ NoIdleWhilePending
  BY DEF FreeInv
<1> QED  BY InitType, <1>1, <1>2, PTL DEF Spec

-----------------------------------------------------------------------------
(* stop() *)

(* A pool that has not been told to stop. *)
LEMMA InitStop == Init => StopInv /\ PriorInv
<1> SUFFICES ASSUME Init PROVE StopInv /\ PriorInv
  OBVIOUS
<1>1. Len(dispatch_queue_) = 0
  BY DEF Init
<1>2. StopInv
  BY <1>1 DEF Init, StopInv, Queued, Assigned
<1>3. PriorInv
  BY <1>1 DEF Init, PriorInv, Released
<1> QED  BY <1>2, <1>3

(* Every action keeps what the stop relies on. *)
LEMMA StepStop ==
  TypeOK /\ TypeOK' /\ FreeInv /\ StopInv /\ [Next]_vars => StopInv'
<1> SUFFICES ASSUME TypeOK, TypeOK', FreeInv, StopInv, [Next]_vars
             PROVE  StopInv'
  OBVIOUS
<1> USE NumWorkersAssumption, NullAssumption
<1>1. ASSUME NEW t \in Tasks, AddTask(t) PROVE StopInv'
  <2>1. UNCHANGED <<pc, phase, stopper, index, last_worker_>>
    BY <1>1 DEF AddTask, stopVars
  <2>2. ASSUME phase = "open"
        PROVE  /\ ~Queued(NULL)'
               /\ \A w \in Workers : Assigned(w)' => task_'[w] # NULL
    <3>1. CASE AddHanded(t)
      BY <2>1, <2>2, <3>1 DEF AddHanded, StopInv, Queued, Assigned, TypeOK
    <3>2. CASE AddQueued(t)
      BY SMTT(30), <2>1, <2>2, <3>2 DEF AddQueued, StopInv, Queued, Assigned, TypeOK
    <3> QED  BY <1>1, <3>1, <3>2, AddTaskFacts DEF AddTask
  <2> QED  BY <2>1, <2>2 DEF StopInv
<1>2. ASSUME NEW w \in Workers, TakeTask(w) PROVE StopInv'
  BY <1>2 DEF TakeTask, StopInv, Queued, Assigned, TypeOK, stopVars
<1>3. ASSUME NEW w \in Workers, BeginTask(w) PROVE StopInv'
  BY <1>3 DEF BeginTask, StopInv, Queued, Assigned, TypeOK, stopVars, poolVars
<1>4. ASSUME NEW w \in Workers, FinishTask(w) PROVE StopInv'
  BY <1>4 DEF FinishTask, InStop, StopInv, Queued, Assigned, TypeOK, stopVars,
     poolVars
<1>5. ASSUME NEW w \in Workers, LoopWorker(w) PROVE StopInv'
  <2>1. UNCHANGED <<phase, stopper, index, last_worker_>> /\ pc[w] = "back"
    BY <1>5 DEF LoopWorker, stopVars
  <2>2. CASE last_worker_[w]
    BY <1>5, <2>1, <2>2 DEF LoopWorker, StopInv, TypeOK
  <2>3. CASE ~last_worker_[w] /\ phase = "open"
    <3>1. WorkerServed(w) \/ WorkerFreed(w)
      BY <1>5, <2>3, QueueWorkerFacts DEF LoopWorker
    <3>2. ~Queued(NULL)'
      <4>1. CASE WorkerServed(w)
        <5>1. \A i \in 1..Len(dispatch_queue_') :
                /\ i + 1 \in 1..Len(dispatch_queue_)
                /\ dispatch_queue_'[i] = dispatch_queue_[i + 1]
          BY <4>1 DEF WorkerServed, TypeOK
        <5> QED  BY <2>3, <5>1 DEF StopInv, Queued
      <4>2. CASE WorkerFreed(w)
        BY <2>3, <4>2 DEF WorkerFreed, StopInv, Queued
      <4> QED  BY <3>1, <4>1, <4>2
    <3>3. WorkerServed(w) => dispatch_queue_[1] # NULL
      BY <2>3 DEF WorkerServed, StopInv, Queued, TypeOK
    <3>4. \A v \in Workers : Assigned(v)' => task_'[v] # NULL
      BY <1>5, <2>3, <3>1, <3>3 DEF LoopWorker, WorkerServed, WorkerFreed,
         StopInv, Assigned, TypeOK
    <3> QED
      BY <1>5, <2>1, <2>3, <3>2, <3>4 DEF LoopWorker, StopInv, TypeOK
  <2>4. CASE ~last_worker_[w] /\ phase # "open"
    BY <1>5, <2>1, <2>4 DEF LoopWorker, StopInv, TypeOK
  <2> QED  BY <2>2, <2>3, <2>4 DEF TypeOK
<1>6. ASSUME NEW c \in Workers \union {External}, StopCall(c) PROVE StopInv'
  BY <1>6 DEF StopCall, StopInv, TypeOK, poolVars, External, Workers
<1>7. CASE StopAdd
  BY <1>7 DEF StopAdd, StopInv, TypeOK, Workers
<1>8. CASE StopJoin
  <2>1. \A v \in Workers : v < index' => v < index \/ v = index
    BY <1>8 DEF StopJoin, TypeOK, Workers
  <2> QED
    BY <1>8, <2>1 DEF StopJoin, StopInv, TypeOK
<1>9. CASE StopReturn
  <2>1. \A v \in Workers : v < index
    BY <1>9 DEF StopReturn, Joins, Workers, TypeOK
  <2> QED
    BY <1>9, <2>1 DEF StopReturn, ExitsLast, StopInv, TypeOK
<1>10. CASE Destroy
  BY <1>10 DEF Destroy, StopInv, TypeOK
<1>11. CASE UNCHANGED vars
  BY <1>11 DEF vars, poolVars, stopVars, StopInv, Queued, Assigned
<1> QED
  BY <1>1, <1>2, <1>3, <1>4, <1>5, <1>6, <1>7, <1>8, <1>9, <1>10, <1>11
     DEF Next, Worker, Stopping, Terminated

(* A task, or a request to stop, that is added now is not one of those     *)
(* added before stop().                                                    *)
LEMMA AddTaskPrior ==
  ASSUME TypeOK, TypeOK', FreeInv, PriorInv,
         NEW x \in Tasks \union {NULL}, x \notin prior,
         AddHanded(x) \/ AddQueued(x),
         UNCHANGED <<pc, phase, stopper, prior, done, dropped>>,
         fresh' = fresh \ {x}
  PROVE  PriorInv'
<1>1. CASE AddHanded(x)
  <2> DEFINE h == workers_[1]
  <2>1. h \in Workers /\ pc[h] = "wait" /\ ~has_task_[h]
    BY <1>1 DEF AddHanded, FreeInv, FreeListExact, TypeOK
  <2>2. Len(dispatch_queue_') = 0
    BY <1>1 DEF AddHanded, FreeInv, NoIdleWhilePending
  <2>3. \A v \in Workers : v # h =>
          has_task_'[v] = has_task_[v] /\ task_'[v] = task_[v]
    BY <1>1 DEF AddHanded, TypeOK
  <2>4. has_task_'[h] /\ task_'[h] = x
    BY <1>1, <2>1 DEF AddHanded, TypeOK
  <2>5. ASSUME NEW t \in Tasks, t \notin fresh' PROVE Located(t)'
    <3>1. CASE t = x
      BY <2>1, <2>4, <3>1 DEF Located, Assigned
    <3>2. CASE t # x
      <4>1. Located(t)
        BY <2>5, <3>2 DEF PriorInv
      <4>2. CASE t \in done \/ t \in dropped
        BY <4>2 DEF Located
      <4>3. CASE Queued(t)
        BY <1>1, <4>3 DEF AddHanded, Located, Queued
      <4>4. CASE \E w \in Workers :
                   (Assigned(w) \/ pc[w] = "run") /\ task_[w] = t
        <5>1. PICK w \in Workers :
                (Assigned(w) \/ pc[w] = "run") /\ task_[w] = t
          BY <4>4
        <5>2. w # h
          BY <2>1, <5>1 DEF Assigned
        <5> QED  BY <2>3, <5>1, <5>2 DEF Located, Assigned
      <4> QED  BY <4>1, <4>2, <4>3, <4>4 DEF Located
    <3> QED  BY <3>1, <3>2
  <2> QED  BY <2>2, <2>5 DEF PriorInv
<1>2. CASE AddQueued(x)
  <2> DEFINE n == Len(dispatch_queue_)
  <2>1. /\ n \in Nat /\ Len(dispatch_queue_') = n + 1
        /\ dispatch_queue_'[n + 1] = x
        /\ \A i \in 1..n : dispatch_queue_'[i] = dispatch_queue_[i]
    BY <1>2 DEF AddQueued, TypeOK
  <2>2. \A i \in 1..(n + 1) : i \in 1..n \/ i = n + 1
    BY <2>1
  <2>3. \A w \in Workers : /\ Assigned(w)' = Assigned(w)
                           /\ Released(w)' = Released(w)
                           /\ task_'[w] = task_[w]
    BY <1>2 DEF AddQueued, Assigned, Released
  <2>4. ASSUME NEW t \in Tasks, t \notin fresh' PROVE Located(t)'
    <3>1. CASE t = x
      BY <2>1, <3>1 DEF Located, Queued
    <3>2. CASE t # x
      <4>1. Located(t)
        BY <2>4, <3>2 DEF PriorInv
      <4>2. Queued(t) => Queued(t)'
        BY <2>1 DEF Queued
      <4> QED  BY <2>3, <4>1, <4>2 DEF Located
    <3> QED  BY <3>1, <3>2
  <2>5. ASSUME NEW i \in 1..(n + 1), NEW j \in 1..(n + 1),
               dispatch_queue_'[i] = NULL, i < j
        PROVE  dispatch_queue_'[j] \notin prior
    <3>1. CASE j = n + 1
      BY <2>1, <3>1
    <3>2. CASE j # n + 1
      <4>1. i \in 1..n /\ j \in 1..n
        BY <2>1, <2>2, <2>5, <3>2
      <4> QED  BY <2>1, <2>5, <4>1 DEF PriorInv
    <3> QED  BY <3>1, <3>2
  <2>6. ASSUME NEW w \in Workers, w # stopper, Released(w)',
               NEW i \in 1..(n + 1)
        PROVE  dispatch_queue_'[i] \notin prior
    BY <2>1, <2>2, <2>3, <2>6 DEF PriorInv
  <2> QED  BY <2>1, <2>4, <2>5, <2>6 DEF PriorInv
<1> QED  BY <1>1, <1>2

(* A worker's turn of the loop keeps the order of the tasks. *)
LEMMA LoopWorkerPrior ==
  ASSUME TypeOK, TypeOK', FreeInv, StopInv, PriorInv,
         NEW w \in Workers, LoopWorker(w)
  PROVE  PriorInv'
<1>1. /\ pc[w] = "back" /\ ~Assigned(w)
      /\ UNCHANGED <<phase, stopper, prior, fresh, done, dropped>>
  BY DEF LoopWorker, stopVars, taskVars, Assigned, FreeInv
<1>2. CASE last_worker_[w]
  <2>1. w = stopper /\ UNCHANGED poolVars /\ pc' = [pc EXCEPT ![w] = "ended"]
    BY <1>2 DEF LoopWorker, StopInv
  <2>2. \A v \in Workers : v # w => pc'[v] = pc[v]
    BY <2>1 DEF TypeOK
  <2>3. \A t \in Tasks : Located(t) => Located(t)'
    BY <1>1, <2>1, <2>2 DEF Located, Queued, Assigned, poolVars
  <2>4. \A v \in Workers : v # stopper => Released(v)' = Released(v)
    BY <2>1, <2>2 DEF Released, Assigned, poolVars
  <2> QED  BY <1>1, <2>1, <2>3, <2>4 DEF PriorInv, poolVars
<1>3. CASE ~last_worker_[w] /\ WorkerServed(w)
  <2> DEFINE n == Len(dispatch_queue_)
  <2>1. pc' = [pc EXCEPT ![w] = "wait"]
    BY <1>3 DEF LoopWorker
  <2>2. \A v \in Workers : v # w =>
          /\ Assigned(v)' = Assigned(v) /\ Released(v)' = Released(v)
          /\ pc'[v] = pc[v] /\ task_'[v] = task_[v]
    BY <1>3, <2>1 DEF WorkerServed, Assigned, Released, TypeOK
  <2>3. Assigned(w)' /\ task_'[w] = dispatch_queue_[1] /\ pc'[w] = "wait"
    BY <1>3, <2>1 DEF WorkerServed, Assigned, TypeOK
  <2>4. /\ n \in Nat /\ n >= 1 /\ Len(dispatch_queue_') = n - 1
        /\ \A i \in 1..(n - 1) : /\ i + 1 \in 1..n
                                 /\ dispatch_queue_'[i] = dispatch_queue_[i + 1]
    BY <1>3 DEF WorkerServed, TypeOK
  <2>5. ASSUME NEW t \in Tasks, Located(t) PROVE Located(t)'
    <3>1. CASE t \in done \/ t \in dropped
      BY <1>1, <3>1 DEF Located
    <3>2. CASE Queued(t)
      <4>1. PICK i \in 1..n : dispatch_queue_[i] = t
        BY <3>2 DEF Queued
      <4>2. CASE i = 1
        BY <2>3, <4>1, <4>2 DEF Located
      <4>3. CASE i # 1
        <5>1. i - 1 \in 1..(n - 1) /\ (i - 1) + 1 = i
          BY <2>4, <4>3
        <5>2. dispatch_queue_'[i - 1] = t
          BY <2>4, <4>1, <5>1
        <5> QED  BY <2>4, <5>1, <5>2 DEF Located, Queued
      <4> QED  BY <4>2, <4>3
    <3>3. CASE \E v \in Workers :
                 (Assigned(v) \/ pc[v] = "run") /\ task_[v] = t
      <4>1. PICK v \in Workers :
              (Assigned(v) \/ pc[v] = "run") /\ task_[v] = t
        BY <3>3
      <4>2. v # w
        BY <1>1, <4>1
      <4> QED  BY <2>2, <4>1, <4>2 DEF Located
    <3> QED  BY <2>5, <3>1, <3>2, <3>3 DEF Located
  <2>6. ASSUME NEW i \in 1..(n - 1), NEW j \in 1..(n - 1),
               dispatch_queue_'[i] = NULL, i < j
        PROVE  dispatch_queue_'[j] \notin prior
    <3>1. i + 1 < j + 1
      BY <2>4, <2>6
    <3> QED  BY <2>4, <2>6, <3>1 DEF PriorInv
  <2>7. ASSUME NEW v \in Workers, v # stopper, Released(v)',
               NEW i \in 1..(n - 1)
        PROVE  dispatch_queue_'[i] \notin prior
    <3>1. CASE v # w
      BY <2>2, <2>4, <2>7, <3>1 DEF PriorInv
    <3>2. CASE v = w
      <4>1. dispatch_queue_[1] = NULL
        BY <2>3, <2>7, <3>2 DEF Released
      <4>2. 1 \in 1..n /\ 1 < i + 1
        BY <2>4
      <4> QED  BY <2>4, <4>1, <4>2 DEF PriorInv
    <3> QED  BY <3>1, <3>2
  <2> QED  BY <1>1, <2>4, <2>5, <2>6, <2>7 DEF PriorInv
<1>4. CASE ~last_worker_[w] /\ WorkerFreed(w)
  <2>1. pc' = [pc EXCEPT ![w] = "wait"] /\ Len(dispatch_queue_') = 0
    BY <1>4 DEF LoopWorker, WorkerFreed
  <2>2. \A t \in Tasks : Located(t) => Located(t)'
    BY <1>1, <1>4, <2>1 DEF Located, Queued, Assigned, WorkerFreed, TypeOK
  <2> QED  BY <1>1, <2>1, <2>2 DEF PriorInv
<1> QED  BY <1>2, <1>3, <1>4, QueueWorkerFacts DEF LoopWorker

(* Every action keeps the order of the tasks and the stop. *)
LEMMA StepPrior ==
  TypeOK /\ TypeOK' /\ FreeInv /\ StopInv /\ PriorInv /\ [Next]_vars
    => PriorInv'
<1> SUFFICES ASSUME TypeOK, TypeOK', FreeInv, StopInv, PriorInv, [Next]_vars
             PROVE  PriorInv'
  OBVIOUS
<1> USE NullAssumption
<1>1. ASSUME NEW t \in Tasks, AddTask(t) PROVE PriorInv'
  <2>1. t \notin prior
    BY <1>1 DEF AddTask, PriorInv
  <2> QED
    BY <1>1, <2>1, AddTaskFacts, AddTaskPrior DEF AddTask, stopVars
<1>2. ASSUME NEW w \in Workers, TakeTask(w) PROVE PriorInv'
  <2>1. \A v \in Workers :
          /\ Assigned(v)' = Assigned(v) /\ Released(v)' = Released(v)
          /\ pc[v] = "run" => pc'[v] = "run"
    BY <1>2 DEF TakeTask, Assigned, Released, TypeOK
  <2>2. \A t \in Tasks : Located(t) => Located(t)'
    BY <1>2, <2>1 DEF TakeTask, Located, Queued, taskVars
  <2> QED  BY <1>2, <2>1, <2>2 DEF TakeTask, PriorInv, stopVars, taskVars
<1>3. ASSUME NEW w \in Workers, BeginTask(w) PROVE PriorInv'
  <2>1. ~has_task_[w]
    BY <1>3 DEF BeginTask, FreeInv
  <2>2. \A v \in Workers : Released(v)' = Released(v)
    BY <1>3, <2>1 DEF BeginTask, Assigned, Released, TypeOK, poolVars
  <2>3. \A v \in Workers : task_[v] # NULL /\ (Assigned(v) \/ pc[v] = "run")
          => Assigned(v)' \/ pc'[v] = "run"
    BY <1>3 DEF BeginTask, Assigned, TypeOK, poolVars
  <2>4. \A t \in Tasks : Located(t) => Located(t)'
    BY <1>3, <2>3 DEF BeginTask, Located, Queued, taskVars, poolVars
  <2> QED
    BY <1>3, <2>2, <2>4 DEF BeginTask, PriorInv, stopVars, taskVars, poolVars
<1>4. ASSUME NEW w \in Workers, FinishTask(w) PROVE PriorInv'
  <2>1. \A v \in Workers : Assigned(v)' = Assigned(v)
    BY <1>4 DEF FinishTask, Assigned, TypeOK, poolVars
  <2>2. \A v \in Workers : Released(v)' = Released(v)
    BY <1>4, <2>1 DEF FinishTask, Released, TypeOK, poolVars
  <2>3. \A v \in Workers : v # w => pc'[v] = pc[v]
    BY <1>4 DEF FinishTask, TypeOK
  <2>4. \A t \in Tasks : Located(t) => Located(t)'
    BY <1>4, <2>1, <2>3 DEF FinishTask, Located, Queued, poolVars
  <2> QED
    BY <1>4, <2>2, <2>4 DEF FinishTask, PriorInv, stopVars, poolVars
<1>5. ASSUME NEW w \in Workers, LoopWorker(w) PROVE PriorInv'
  BY <1>5, LoopWorkerPrior
<1>6. ASSUME NEW c \in Workers \union {External}, StopCall(c) PROVE PriorInv'
  <2>1. /\ phase = "open" /\ ~Queued(NULL) /\ dropped = {}
        /\ \A w \in Workers : ~Released(w)
    BY <1>6 DEF StopCall, StopInv, PriorInv, Released
  <2>2. /\ UNCHANGED <<poolVars, pc, taskVars>>
        /\ prior' = Tasks \ fresh /\ phase' = "adding"
    BY <1>6 DEF StopCall
  <2>3. \A w \in Workers : ~Released(w)'
    BY <2>1, <2>2 DEF Released, Assigned, poolVars
  <2>4. \A t \in Tasks : Located(t) => Located(t)'
    BY <2>2 DEF Located, Queued, Assigned, poolVars, taskVars
  <2>5. \A i \in 1..Len(dispatch_queue_') : dispatch_queue_'[i] # NULL
    BY <2>1, <2>2 DEF Queued, poolVars
  <2> QED
    BY <2>1, <2>2, <2>3, <2>4, <2>5 DEF PriorInv, taskVars
<1>7. CASE StopAdd
  <2>1. UNCHANGED <<pc, stopper, prior, fresh, done, dropped>>
    BY <1>7 DEF StopAdd, taskVars
  <2>2. NULL \notin prior /\ fresh = fresh \ {NULL}
    BY DEF TypeOK
  <2>3. CASE addTask(NULL) /\ UNCHANGED phase
    BY <2>1, <2>2, <2>3, AddTaskFacts, AddTaskPrior
  <2>4. CASE UNCHANGED poolVars
    <3>1. \A w \in Workers : Released(w)' = Released(w)
      BY <2>1, <2>4 DEF Released, Assigned, poolVars
    <3>2. \A t \in Tasks : Located(t) => Located(t)'
      BY <2>1, <2>4 DEF Located, Queued, Assigned, poolVars
    <3>3. phase # "destroyed"
      BY <1>7 DEF StopAdd
    <3> QED
      BY <2>1, <2>4, <3>1, <3>2, <3>3 DEF PriorInv, poolVars
  <2> QED  BY <1>7, <2>3, <2>4 DEF StopAdd
<1>8. CASE StopJoin \/ StopReturn
  <2>1. /\ UNCHANGED <<poolVars, pc, stopper, prior, taskVars>>
        /\ phase # "destroyed"
    BY <1>8 DEF StopJoin, StopReturn
  <2>2. \A w \in Workers : Released(w)' = Released(w)
    BY <2>1 DEF Released, Assigned, poolVars
  <2>3. \A t \in Tasks : Located(t) => Located(t)'
    BY <2>1 DEF Located, Queued, Assigned, poolVars, taskVars
  <2> QED  BY <2>1, <2>2, <2>3 DEF PriorInv, poolVars, taskVars
<1>9. CASE Destroy
  <2>1. /\ UNCHANGED <<has_task_, task_, pc, stopper, prior, fresh, done>>
        /\ phase = "stopped" /\ phase' = "destroyed"
        /\ dropped' = {t \in Tasks : Queued(t)}
        /\ Len(dispatch_queue_') = 0
    BY <1>9 DEF Destroy, Queued
  <2>2. \A t \in Tasks : Located(t) => Located(t)'
    <3>1. dropped = {}
      BY <2>1 DEF PriorInv
    <3> QED  BY <2>1, <3>1 DEF Located, Assigned
  <2>3. ASSUME NEW w \in Workers, w # stopper PROVE prior' \cap dropped' = {}
    <3>1. Released(w)
      BY <2>1, <2>3 DEF StopInv, Released
    <3> QED  BY <2>1, <2>3, <3>1 DEF PriorInv, Queued
  <2> QED  BY <2>1, <2>2, <2>3 DEF PriorInv
<1>10. CASE UNCHANGED vars
  <2>1. UNCHANGED <<poolVars, pc, phase, stopper, prior, taskVars>>
    BY <1>10 DEF vars, stopVars
  <2>2. \A w \in Workers : Released(w)' = Released(w)
    BY <2>1 DEF Released, Assigned, poolVars
  <2>3. \A t \in Tasks : Located(t) => Located(t)'
    BY <2>1 DEF Located, Queued, Assigned, poolVars, taskVars
  <2> QED  BY <2>1, <2>2, <2>3 DEF PriorInv, poolVars, taskVars
<1> QED
  BY <1>1, <1>2, <1>3, <1>4, <1>5, <1>6, <1>7, <1>8, <1>9, <1>10
     DEF Next, Worker, Stopping, Terminated

Inv == TypeOK /\ FreeInv /\ StopInv /\ PriorInv

(* The inductive invariant holds throughout. *)
LEMMA Invariance == Spec => []Inv
<1>1. Init => Inv
  BY InitType, InitStop DEF Inv
<1>2. Inv /\ [Next]_vars => Inv'
  BY StepType, StepFree, StepStop, StepPrior DEF Inv
<1> QED  BY <1>1, <1>2, PTL DEF Spec

(* stop() returns only after every task added before it was called has     *)
(* run, its own caller excepted, as soon as the pool has a worker besides  *)
(* that caller.                                                            *)
THEOREM PriorServed == Spec => []PriorTasksServed
<1>1. Inv => PriorTasksServed
  <2> SUFFICES ASSUME Inv, NEW w \in Workers, w # stopper,
                      phase \in {"stopped", "destroyed"},
                      NEW t \in prior, t \notin done
               PROVE  /\ stopper \in Workers /\ task_[stopper] = t
                      /\ pc[stopper] = "run"
    BY DEF PriorTasksServed, AllPriorServed
  <2> USE DEF Inv
  <2>1. t \in Tasks /\ t \notin fresh /\ t \notin dropped
    BY DEF TypeOK, PriorInv
  <2>2. Located(t)
    BY <2>1 DEF PriorInv
  <2>3. ~Queued(t)
    BY DEF StopInv, PriorInv, Released, Queued
  <2>4. PICK v \in Workers : (Assigned(v) \/ pc[v] = "run") /\ task_[v] = t
    BY <2>1, <2>2, <2>3 DEF Located
  <2>5. pc[v] # "ended"
    BY <2>4 DEF Assigned, FreeInv
  <2>6. v = stopper /\ pc[v] \in {"run", "back"}
    BY <2>5 DEF StopInv
  <2> QED  BY <2>4, <2>6 DEF Assigned, FreeInv
<1> QED  BY Invariance, <1>1, PTL

(* When stop() has returned the pool may be destroyed at once: no worker   *)
(* will touch it again, the caller of stop() included.                     *)
THEOREM SafeDestruction == Spec => []NoUseAfterDestroy
<1>1. Inv => NoUseAfterDestroy
  BY DEF Inv, StopInv, NoUseAfterDestroy
<1> QED  BY Invariance, <1>1, PTL

-----------------------------------------------------------------------------
(* ThreadPoolFast implements ThreadPool: every step of the pool is a step  *)
(* that ThreadPool allows, or changes nothing a caller can see.            *)

(* Worker w was given task t and has not finished it. *)
Holding(w, t) == (Assigned(w) \/ pc[w] = "run") /\ task_[w] = t

(* A task is in one place: not added yet, in the queue once, with one      *)
(* worker, done or dropped.                                                *)
OnceInv ==
  /\ \A t \in Tasks : t \in fresh \union done \union dropped =>
       ~Queued(t) /\ \A w \in Workers : ~Holding(w, t)
  /\ \A t \in Tasks : Queued(t) => \A w \in Workers : ~Holding(w, t)
  /\ \A i, j \in 1..Len(dispatch_queue_) :
       dispatch_queue_[i] = dispatch_queue_[j] /\ i # j =>
         dispatch_queue_[i] = NULL
  /\ \A t \in Tasks : \A v, w \in Workers :
       Holding(v, t) /\ Holding(w, t) => v = w
  /\ fresh \cap done = {} /\ fresh \cap dropped = {} /\ done \cap dropped = {}

RInv == Inv /\ OnceInv

-----------------------------------------------------------------------------
(* A pool starts with no task anywhere. *)
LEMMA InitOnce == Init => OnceInv
<1> SUFFICES ASSUME Init PROVE OnceInv
  OBVIOUS
<1>1. Len(dispatch_queue_) = 0
  BY DEF Init
<1> QED
  BY <1>1 DEF Init, OnceInv, Queued, Holding, Assigned

(* A task, or a request to stop, is handed to a free worker or queued: it  *)
(* was nowhere before.                                                     *)
LEMMA AddTaskOnce ==
  ASSUME TypeOK, TypeOK', FreeInv, OnceInv,
         NEW x \in Tasks \union {NULL}, x \in fresh \/ x = NULL,
         addTask(x), UNCHANGED <<pc, done, dropped>>, fresh' = fresh \ {x}
  PROVE  OnceInv'
<1> USE NullAssumption
<1>1. CASE AddHanded(x)
  <2> DEFINE h == workers_[1]
  <2>1. h \in Workers /\ pc[h] = "wait" /\ ~has_task_[h]
    BY <1>1 DEF AddHanded, FreeInv, FreeListExact, TypeOK
  <2>2. \A t \in Tasks : Queued(t)' <=> Queued(t)
    BY <1>1 DEF AddHanded, Queued
  <2>3. \A t \in Tasks, w \in Workers :
          Holding(w, t)' <=> Holding(w, t) \/ (w = h /\ t = x)
    BY <1>1, <2>1 DEF AddHanded, Holding, Assigned, TypeOK
  <2>4. \A t \in Tasks : ~Holding(h, t)
    BY <2>1 DEF Holding, Assigned
  <2>5. dispatch_queue_' = dispatch_queue_
    BY <1>1 DEF AddHanded
  <2> QED
    BY <2>1, <2>2, <2>3, <2>4, <2>5 DEF OnceInv
<1>2. CASE AddQueued(x)
  <2>1. \A t \in Tasks : Queued(t)' <=> Queued(t) \/ t = x
    <3>1. Len(dispatch_queue_) \in Nat
      BY DEF TypeOK
    <3>2. \A i \in 1..Len(dispatch_queue_') :
            \/ i \in 1..Len(dispatch_queue_) /\ dispatch_queue_'[i] = dispatch_queue_[i]
            \/ i = Len(dispatch_queue_) + 1 /\ dispatch_queue_'[i] = x
      BY <1>2, <3>1 DEF AddQueued
    <3>3. /\ \A i \in 1..Len(dispatch_queue_) : i \in 1..Len(dispatch_queue_')
          /\ Len(dispatch_queue_) + 1 \in 1..Len(dispatch_queue_')
      BY <1>2, <3>1 DEF AddQueued
    <3>4. \A t \in Tasks : Queued(t)' => Queued(t) \/ t = x
      BY <3>2 DEF Queued
    <3>5. \A t \in Tasks : Queued(t) \/ t = x => Queued(t)'
      BY <1>2, <3>3 DEF AddQueued, Queued
    <3> QED  BY <3>4, <3>5
  <2>2. \A t \in Tasks, w \in Workers : Holding(w, t)' <=> Holding(w, t)
    BY <1>2 DEF AddQueued, Holding, Assigned
  <2>3. x \in fresh => \A i \in 1..Len(dispatch_queue_) : dispatch_queue_[i] # x
    BY DEF OnceInv, Queued, TypeOK
  <2>4. \A i, j \in 1..Len(dispatch_queue_') :
          dispatch_queue_'[i] = dispatch_queue_'[j] /\ i # j =>
            dispatch_queue_'[i] = NULL
    BY <1>2, <2>3 DEF AddQueued, OnceInv, TypeOK
  <2> QED
    BY <2>1, <2>2, <2>4 DEF OnceInv
<1> QED  BY <1>1, <1>2, AddTaskFacts

(* The first task of the queue moves to the worker that comes back, or the *)
(* queue is empty and stays so.                                            *)
LEMMA QueueWorkerOnce ==
  ASSUME TypeOK, TypeOK', FreeInv, OnceInv, NEW w \in Workers, pc[w] = "back",
         queueWorker(w), pc' = [pc EXCEPT ![w] = "wait"],
         UNCHANGED <<fresh, done, dropped>>
  PROVE  /\ OnceInv'
         /\ \A t \in Tasks :
              \/ Queued(t)' <=> Queued(t)
              \/ Queued(t) /\ Holding(w, t)'
         /\ \A t \in Tasks, v \in Workers : v # w => (Holding(v, t)' <=> Holding(v, t))
<1> USE NullAssumption
<1>0. ~has_task_[w]
  BY DEF FreeInv
<1>1. CASE WorkerServed(w)
  <2> DEFINE x == dispatch_queue_[1]
  <2>1. \A i \in 1..Len(dispatch_queue_') :
          i + 1 \in 1..Len(dispatch_queue_) /\ dispatch_queue_'[i] = dispatch_queue_[i + 1]
    BY <1>1 DEF WorkerServed, TypeOK
  <2>2. \A i \in 1..Len(dispatch_queue_) : i = 1 \/ (i - 1) \in 1..Len(dispatch_queue_')
    BY <1>1 DEF WorkerServed, TypeOK
  <2>3. \A i \in 1..Len(dispatch_queue_) :
          i = 1 \/ dispatch_queue_[i] = dispatch_queue_'[i - 1]
    BY <2>1, <2>2 DEF TypeOK
  <2>4. 1 \in 1..Len(dispatch_queue_)
    BY <1>1 DEF WorkerServed, TypeOK
  <2>5. \A t \in Tasks : Queued(t)' => Queued(t)
    BY <2>1 DEF Queued
  <2>6. \A t \in Tasks : Queued(t) => t = x \/ Queued(t)'
    BY <2>2, <2>3 DEF Queued
  <2>7. \A t \in Tasks : t = x => Queued(t) /\ ~Queued(t)'
    <3>1. \A i \in 1..Len(dispatch_queue_) : i # 1 /\ x # NULL => dispatch_queue_[i] # x
      BY <2>4 DEF OnceInv
    <3>2. \A i \in 1..Len(dispatch_queue_') : x # NULL => dispatch_queue_'[i] # x
      BY <2>1, <3>1 DEF TypeOK
    <3> QED
      BY <2>4, <3>2 DEF Queued
  <2>8. \A t \in Tasks, v \in Workers :
          Holding(v, t)' <=> (v # w /\ Holding(v, t)) \/ (v = w /\ t = x)
    BY <1>0, <1>1 DEF WorkerServed, Holding, Assigned, TypeOK
  <2>9. \A i, j \in 1..Len(dispatch_queue_') :
          dispatch_queue_'[i] = dispatch_queue_'[j] /\ i # j =>
            dispatch_queue_'[i] = NULL
    BY <2>1 DEF OnceInv, TypeOK
  <2>10. OnceInv'
    BY <2>5, <2>6, <2>7, <2>8, <2>9 DEF OnceInv
  <2> QED
    BY <2>5, <2>6, <2>7, <2>8, <2>10
<1>2. CASE WorkerFreed(w)
  <2>1. \A t \in Tasks : Queued(t)' <=> Queued(t)
    BY <1>2 DEF WorkerFreed, Queued
  <2>2. \A t \in Tasks, v \in Workers : Holding(v, t)' <=> Holding(v, t)
    BY <1>0, <1>2 DEF WorkerFreed, Holding, Assigned, TypeOK
  <2> QED
    BY <1>2, <2>1, <2>2 DEF OnceInv, WorkerFreed
<1> QED  BY <1>1, <1>2, QueueWorkerFacts

(* Every step keeps each task in one place. *)
LEMMA StepOnce ==
  ASSUME Inv, Inv', OnceInv, [Next]_vars
  PROVE  OnceInv'
<1> USE NullAssumption DEF Inv
<1>1. ASSUME NEW t \in Tasks, AddTask(t) PROVE OnceInv'
  BY <1>1, AddTaskOnce DEF AddTask
<1>2. ASSUME NEW w \in Workers, TakeTask(w) PROVE OnceInv'
  <2>1. \A t \in Tasks, v \in Workers : Holding(v, t)' <=> Holding(v, t)
    BY <1>2 DEF TakeTask, Holding, Assigned, TypeOK
  <2>2. \A t \in Tasks : Queued(t)' <=> Queued(t)
    BY <1>2 DEF TakeTask, Queued
  <2> QED
    BY <1>2, <2>1, <2>2 DEF TakeTask, OnceInv, taskVars
<1>3. ASSUME NEW w \in Workers, BeginTask(w) PROVE OnceInv'
  <2>1. \A t \in Tasks, v \in Workers : Holding(v, t)' <=> Holding(v, t)
    BY <1>3 DEF BeginTask, Holding, Assigned, FreeInv, TypeOK, poolVars
  <2>2. \A t \in Tasks : Queued(t)' <=> Queued(t)
    BY <1>3 DEF BeginTask, Queued, poolVars
  <2> QED
    BY <1>3, <2>1, <2>2 DEF BeginTask, OnceInv, taskVars, poolVars
<1>4. ASSUME NEW w \in Workers, FinishTask(w) PROVE OnceInv'
  <2>1. /\ Holding(w, task_[w]) /\ task_[w] \in Tasks
        /\ done' = done \union {task_[w]}
    BY <1>4 DEF FinishTask, Holding, FreeInv, TypeOK
  <2>2. \A t \in Tasks, v \in Workers : Holding(v, t)' <=> v # w /\ Holding(v, t)
    BY <1>4 DEF FinishTask, Holding, Assigned, FreeInv, TypeOK, poolVars
  <2>3. \A t \in Tasks : Queued(t)' <=> Queued(t)
    BY <1>4 DEF FinishTask, Queued, poolVars
  <2>4. dispatch_queue_' = dispatch_queue_ /\ fresh' = fresh /\ dropped' = dropped
    BY <1>4 DEF FinishTask, poolVars
  <2> QED
    BY <2>1, <2>2, <2>3, <2>4 DEF OnceInv
<1>5. ASSUME NEW w \in Workers, LoopWorker(w) PROVE OnceInv'
  <2>1. CASE ~last_worker_[w]
    BY <1>5, <2>1, QueueWorkerOnce DEF LoopWorker, taskVars
  <2>2. CASE last_worker_[w]
    <3>1. \A t \in Tasks, v \in Workers : Holding(v, t)' <=> Holding(v, t)
      BY <1>5, <2>2 DEF LoopWorker, Holding, Assigned, TypeOK, poolVars
    <3>2. \A t \in Tasks : Queued(t)' <=> Queued(t)
      BY <1>5, <2>2 DEF LoopWorker, Queued, poolVars
    <3> QED
      BY <1>5, <2>2, <3>1, <3>2 DEF LoopWorker, OnceInv, taskVars, poolVars
  <2> QED  BY <2>1, <2>2
<1>6. ASSUME NEW c \in Workers \union {External}, StopCall(c) PROVE OnceInv'
  BY <1>6 DEF StopCall, OnceInv, Queued, Holding, Assigned, poolVars,
     taskVars
<1>7. CASE StopAdd
  <2>1. CASE index <= Requests
    <3>1. addTask(NULL) /\ UNCHANGED <<pc, taskVars>>
      BY <1>7, <2>1, NumWorkersAssumption DEF StopAdd, Requests, TypeOK
    <3>2. fresh' = fresh \ {NULL}
      BY <3>1 DEF taskVars, TypeOK
    <3> QED
      BY <3>1, <3>2, AddTaskOnce DEF taskVars
  <2>2. CASE ~(index <= Requests)
    BY <1>7, <2>2 DEF StopAdd, OnceInv, Queued, Holding, Assigned,
       poolVars, taskVars
  <2> QED  BY <2>1, <2>2
<1>8. CASE StopJoin
  BY <1>8 DEF StopJoin, OnceInv, Queued, Holding, Assigned, poolVars,
     taskVars
<1>9. CASE StopReturn
  BY <1>9 DEF StopReturn, OnceInv, Queued, Holding, Assigned, poolVars,
     taskVars
<1>10. CASE Destroy
  <2>1. Len(dispatch_queue_') = 0
    BY <1>10 DEF Destroy
  <2>2. \A t \in Tasks : ~Queued(t)' /\ (t \in dropped' <=> Queued(t))
    BY <1>10, <2>1 DEF Destroy, Queued
  <2>3. \A t \in Tasks, v \in Workers : Holding(v, t)' <=> Holding(v, t)
    BY <1>10 DEF Destroy, Holding, Assigned
  <2> QED
    BY <1>10, <2>1, <2>2, <2>3 DEF Destroy, OnceInv, TypeOK
<1>11. CASE UNCHANGED vars
  BY <1>11 DEF vars, poolVars, taskVars, OnceInv, Queued, Holding, Assigned
<1> QED
  BY <1>1, <1>2, <1>3, <1>4, <1>5, <1>6, <1>7, <1>8, <1>9, <1>10, <1>11
     DEF Next, Worker, Stopping, Terminated

(* It is in one place in every state that can be reached. *)
LEMMA InvariantR == Spec => []RInv
<1>1. Init => OnceInv
  BY InitOnce
<1>2. Inv /\ Inv' /\ OnceInv /\ [Next]_vars => OnceInv'
  BY StepOnce
<1> QED
  BY <1>1, <1>2, Invariance, PTL DEF Spec, RInv

-----------------------------------------------------------------------------
(* A worker runs task t; t is in the queue, or with a worker that has not  *)
(* begun it.                                                               *)
Runs(t)  == \E w \in Workers : pc[w] = "run" /\ task_[w] = t
Waits(t) == Queued(t) \/ \E w \in Workers : Assigned(w) /\ task_[w] = t

(* What a caller sees of a task: where it is. *)
StatusCorrect ==
  \A t \in Tasks :
    /\ StatusOf(t) \in Abstract!Status
    /\ StatusOf(t) = "new" <=> t \in fresh
    /\ StatusOf(t) = "done" <=> t \in done
    /\ StatusOf(t) = "dropped" <=> t \in dropped
    /\ StatusOf(t) = "running" <=> Runs(t)
    /\ StatusOf(t) = "pending" <=> Waits(t)

(* StatusOf() names the one place a task is in, and a task that was added  *)
(* is never lost.                                                          *)
LEMMA StatusFacts == RInv => StatusCorrect
<1> SUFFICES ASSUME RInv, NEW t \in Tasks
             PROVE  /\ StatusOf(t) \in Abstract!Status
                    /\ StatusOf(t) = "new" <=> t \in fresh
                    /\ StatusOf(t) = "done" <=> t \in done
                    /\ StatusOf(t) = "dropped" <=> t \in dropped
                    /\ StatusOf(t) = "running" <=> Runs(t)
                    /\ StatusOf(t) = "pending" <=> Waits(t)
  BY DEF StatusCorrect
<1> USE DEF RInv, Inv
<1>1. t \in fresh \/ Located(t)
  BY DEF PriorInv
<1>2. Located(t) => t \in done \/ t \in dropped \/ Runs(t) \/ Waits(t)
  BY DEF Located, Runs, Waits
<1>3. ~(Runs(t) /\ Waits(t))
  BY DEF Runs, Waits, OnceInv, Holding, Assigned, FreeInv, TypeOK
<1>4. Runs(t) \/ Waits(t) => t \notin fresh /\ t \notin done /\ t \notin dropped
  BY DEF Runs, Waits, OnceInv, Holding
<1>5. StatusOf(t) = IF t \in fresh THEN "new"
                    ELSE IF t \in done THEN "done"
                    ELSE IF t \in dropped THEN "dropped"
                    ELSE IF Runs(t) THEN "running"
                    ELSE IF Waits(t) THEN "pending"
                    ELSE "lost"
  BY DEF StatusOf, Runs, Waits
<1> QED
  BY <1>1, <1>2, <1>3, <1>4, <1>5 DEF OnceInv, Abstract!Status

(* It does after a step, too. *)
LEMMA StatusFactsNext == RInv' => StatusCorrect'
BY StatusFacts, PTL

(* The three variables of ThreadPool.                                      *)
StatusFn == [t \in Tasks |-> StatusOf(t)]
PhaseOf  == IF phase \in {"adding", "joining"} THEN "stopping" ELSE phase
CallerOf == IF stopper \in Workers THEN task_[stopper] ELSE NULL

(* The task that issued stop() stays the same: its worker takes no other.  *)
LEMMA CallerKept ==
  ASSUME RInv, UNCHANGED stopper,
         \A w \in Workers : task_'[w] = task_[w] \/ pc[w] \in {"wait", "back"},
         \A w \in Workers : task_'[w] = task_[w] \/ ~last_worker_[w]
  PROVE  CallerOf' = CallerOf
<1>1. CASE stopper \in Workers
  <2>1. phase # "open"
    BY <1>1, NumWorkersAssumption DEF RInv, Inv, StopInv, NoThread, Workers
  <2>2. task_'[stopper] = task_[stopper]
    BY <1>1, <2>1 DEF RInv, Inv, StopInv, TypeOK, Phases
  <2> QED
    BY <1>1, <2>2 DEF CallerOf
<1>2. CASE stopper \notin Workers
  BY <1>2 DEF CallerOf
<1> QED  BY <1>1, <1>2

(* Fewer tasks run than there are workers, if one of them runs none. *)
LEMMA FreeCapacity ==
  ASSUME RInv, NEW w \in Workers, pc[w] # "run"
  PROVE  Cardinality({t \in Tasks : StatusFn[t] = "running"}) < NumWorkers
<1> DEFINE R == {t \in Tasks : StatusFn[t] = "running"}
           f == [t \in R |-> CHOOSE v \in Workers : pc[v] = "run" /\ task_[v] = t]
<1>1. \A t \in R : f[t] \in Workers \ {w} /\ task_[f[t]] = t
  <2> SUFFICES ASSUME NEW t \in R PROVE f[t] \in Workers \ {w} /\ task_[f[t]] = t
    OBVIOUS
  <2>1. \E v \in Workers : pc[v] = "run" /\ task_[v] = t
    BY StatusFacts DEF StatusFn, StatusCorrect, Runs
  <2> QED
    BY <2>1
<1>2. f \in Injection(R, Workers \ {w})
  <2>1. f \in [R -> Workers \ {w}] /\ DOMAIN f = R
    BY <1>1
  <2>2. \A t, u \in R : f[t] = f[u] => t = u
    <3> HIDE DEF f, R
    <3> QED  BY <1>1
  <2> HIDE DEF f, R
  <2> QED
    BY <2>1, <2>2 DEF Injection, IsInjective
<1>3. IsFiniteSet(Workers) /\ Cardinality(Workers) = NumWorkers
  BY FS_Interval, NumWorkersAssumption DEF Workers
<1>4. IsFiniteSet(Workers \ {w}) /\ Cardinality(Workers \ {w}) = NumWorkers - 1
  BY <1>3, FS_RemoveElement
<1>5. IsFiniteSet(R) /\ Cardinality(R) <= NumWorkers - 1
  BY <1>2, <1>4, FS_Injection
<1>6. Cardinality(R) \in Nat
  BY <1>5, FS_CardinalityType
<1> QED
  BY <1>5, <1>6, NumWorkersAssumption

(* A step that leaves the status of each task alone, the phase and the     *)
(* caller, is not seen.                                                    *)
LEMMA Unseen ==
  ASSUME \A t \in Tasks : StatusOf(t)' = StatusOf(t), PhaseOf' = PhaseOf,
         CallerOf' = CallerOf
  PROVE  UNCHANGED Abstract!vars
<1>1. StatusFn' = StatusFn
  BY DEF StatusFn
<1> QED
  BY <1>1 DEF StatusFn, PhaseOf, CallerOf, Abstract!vars

(* The status of every task but t is the same after a step.                *)
LEMMA OneTask ==
  ASSUME NEW t \in Tasks, NEW s, StatusOf(t)' = s,
         \A u \in Tasks : u # t => StatusOf(u)' = StatusOf(u)
  PROVE  StatusFn' = [StatusFn EXCEPT ![t] = s]
BY DEF StatusFn

(* Every step of the pool is a step of ThreadPool, or one that nobody      *)
(* sees: the hand over of a task to a worker, the requests to stop and the *)
(* joins.                                                                  *)
LEMMA Simulation ==
  ASSUME RInv, RInv', [Next]_vars
  PROVE  [Abstract!Next]_(Abstract!vars)
<1> USE NullAssumption DEF RInv, Inv
<1>0. StatusCorrect /\ StatusCorrect'
  BY StatusFacts, StatusFactsNext
<1>1. ASSUME NEW t \in Tasks, AddTask(t) PROVE Abstract!AddTask(t)
  <2>1. /\ t \in fresh /\ fresh' = fresh \ {t} /\ phase # "destroyed"
        /\ UNCHANGED <<pc, stopVars, done, dropped>> /\ (AddHanded(t) \/ AddQueued(t))
    BY <1>1, AddTaskFacts DEF AddTask
  <2>2. Waits(t)' /\ \A u \in Tasks : u # t => (Waits(u)' <=> Waits(u)) /\ (Runs(u)' <=> Runs(u))
    <3>1. CASE AddHanded(t)
      <4> DEFINE h == workers_[1]
      <4>1. h \in Workers /\ pc[h] = "wait" /\ ~has_task_[h]
        BY <3>1 DEF AddHanded, FreeInv, FreeListExact, TypeOK
      <4>2. \A u \in Tasks : Queued(u)' <=> Queued(u)
        BY <3>1 DEF AddHanded, Queued
      <4> QED
        BY <2>1, <3>1, <4>1, <4>2
           DEF AddHanded, Waits, Runs, Assigned, TypeOK
    <3>2. CASE AddQueued(t)
      <4>1. Len(dispatch_queue_) \in Nat
        BY DEF TypeOK
      <4>2. \A i \in 1..Len(dispatch_queue_') :
              \/ i \in 1..Len(dispatch_queue_) /\ dispatch_queue_'[i] = dispatch_queue_[i]
              \/ i = Len(dispatch_queue_) + 1 /\ dispatch_queue_'[i] = t
        BY <3>2, <4>1 DEF AddQueued
      <4>3. /\ \A i \in 1..Len(dispatch_queue_) : i \in 1..Len(dispatch_queue_')
            /\ Len(dispatch_queue_) + 1 \in 1..Len(dispatch_queue_')
        BY <3>2, <4>1 DEF AddQueued
      <4>4. Queued(t)' /\ \A u \in Tasks : u # t => (Queued(u)' <=> Queued(u))
        BY <3>2, <4>2, <4>3 DEF AddQueued, Queued
      <4> QED
        BY <2>1, <3>2, <4>4 DEF AddQueued, Waits, Runs, Assigned
    <3> QED  BY <2>1, <3>1, <3>2
  <2>3. StatusOf(t) = "new" /\ StatusOf(t)' = "pending"
    BY <1>0, <2>1, <2>2 DEF StatusCorrect
  <2>4. \A u \in Tasks : u # t => StatusOf(u)' = StatusOf(u)
    BY <1>0, <2>1, <2>2 DEF StatusCorrect, Abstract!Status
  <2>5. StatusFn' = [StatusFn EXCEPT ![t] = "pending"]
    BY <2>3, <2>4, OneTask
  <2>6. CallerOf' = CallerOf
    <3>1. \A w \in Workers : task_'[w] = task_[w] \/ pc[w] = "wait"
      BY <2>1 DEF AddHanded, AddQueued, FreeInv, FreeListExact, TypeOK
    <3>2. \A w \in Workers : pc[w] = "wait" => ~last_worker_[w]
      BY DEF StopInv
    <3> QED
      BY <2>1, <3>1, <3>2, CallerKept DEF stopVars
  <2>7. PhaseOf' = PhaseOf /\ PhaseOf # "destroyed"
    BY <2>1 DEF PhaseOf, stopVars
  <2>8. StatusFn[t] = "new"
    BY <2>3 DEF StatusFn
  <2> QED
    BY <2>5, <2>6, <2>7, <2>8 DEF Abstract!AddTask, StatusFn, PhaseOf,
       CallerOf
<1>2. ASSUME NEW w \in Workers, TakeTask(w) PROVE UNCHANGED Abstract!vars
  <2>1. \A u \in Tasks : (Waits(u)' <=> Waits(u)) /\ (Runs(u)' <=> Runs(u))
    BY <1>2 DEF TakeTask, Waits, Runs, Queued, Assigned, TypeOK
  <2>2. \A u \in Tasks : StatusOf(u)' = StatusOf(u)
    BY <1>0, <1>2, <2>1 DEF TakeTask, taskVars, StatusCorrect,
       Abstract!Status
  <2> QED
    BY <1>2, <2>2, Unseen DEF TakeTask, stopVars, PhaseOf, CallerOf
<1>3. ASSUME NEW w \in Workers, BeginTask(w)
      PROVE  [Abstract!Next]_(Abstract!vars)
  <2>1. CASE task_[w] = NULL
    <3>1. \A u \in Tasks : (Waits(u)' <=> Waits(u)) /\ (Runs(u)' <=> Runs(u))
      BY <1>3, <2>1 DEF BeginTask, poolVars, Waits, Runs, Queued, Assigned,
         TypeOK
    <3>2. \A u \in Tasks : StatusOf(u)' = StatusOf(u)
      BY <1>0, <1>3, <3>1 DEF BeginTask, taskVars, StatusCorrect,
         Abstract!Status
    <3> QED
      BY <1>3, <3>2, Unseen DEF BeginTask, poolVars, stopVars, PhaseOf,
         CallerOf
  <2>2. CASE task_[w] # NULL
    <3>1. PICK t \in Tasks : t = task_[w]
      BY <2>2 DEF TypeOK
    <3>2. Waits(t) /\ Runs(t)'
      BY <1>3, <2>2, <3>1 DEF BeginTask, poolVars, Waits, Runs, Assigned,
         TypeOK
    <3>3. \A u \in Tasks : u # t => (Waits(u)' <=> Waits(u)) /\ (Runs(u)' <=> Runs(u))
      BY <1>3, <2>2, <3>1 DEF BeginTask, poolVars, Waits, Runs, Queued,
         Assigned, TypeOK
    <3>4. StatusOf(t) = "pending" /\ StatusOf(t)' = "running"
      BY <1>0, <3>2 DEF StatusCorrect
    <3>5. \A u \in Tasks : u # t => StatusOf(u)' = StatusOf(u)
      BY <1>0, <1>3, <3>3 DEF BeginTask, taskVars, StatusCorrect,
         Abstract!Status
    <3>6. StatusFn' = [StatusFn EXCEPT ![t] = "running"] /\ StatusFn[t] = "pending"
      BY <3>4, <3>5, OneTask DEF StatusFn
    <3>7. PhaseOf' = PhaseOf /\ CallerOf' = CallerOf
      BY <1>3 DEF BeginTask, poolVars, stopVars, PhaseOf, CallerOf
    <3>8. PhaseOf \in {"open", "stopping"}
      BY <1>3 DEF BeginTask, StopInv, PhaseOf, TypeOK, Phases
    <3>9. Cardinality({u \in Tasks : StatusFn[u] = "running"}) < NumWorkers
      BY <1>3, FreeCapacity DEF BeginTask
    <3>10. Abstract!StartTask(t)
      <4>1. Abstract!Cardinality(Abstract!With("running")) < NumWorkers
        BY <3>9, Zenon DEF Abstract!With, StatusFn, Abstract!Cardinality,
           Cardinality
      <4>2. /\ StatusFn[t] = "pending" /\ PhaseOf \in {"open", "stopping"}
            /\ StatusFn' = [StatusFn EXCEPT ![t] = "running"]
            /\ UNCHANGED <<PhaseOf, CallerOf>>
        BY <3>6, <3>7, <3>8
      <4> QED
        BY <4>1, <4>2, Zenon DEF Abstract!StartTask, StatusFn, PhaseOf,
           CallerOf
    <3> QED
      BY <3>10 DEF Abstract!Next
  <2> QED  BY <2>1, <2>2
<1>4. ASSUME NEW w \in Workers, FinishTask(w) PROVE Abstract!Next
  <2>0. PICK t \in Tasks : t = task_[w]
    BY <1>4 DEF FinishTask, FreeInv, TypeOK
  <2>1. pc[w] = "run" /\ done' = done \union {t}
    BY <1>4, <2>0 DEF FinishTask
  <2>2. Runs(t)
    BY <2>0, <2>1 DEF Runs
  <2>3. \A u \in Tasks : u # t => (Waits(u)' <=> Waits(u)) /\ (Runs(u)' <=> Runs(u))
    BY <1>4, <2>0 DEF FinishTask, poolVars, Waits, Runs, Queued, Assigned,
       TypeOK
  <2>4. StatusOf(t) = "running" /\ StatusOf(t)' = "done"
    BY <1>0, <2>1, <2>2 DEF StatusCorrect
  <2>5. \A u \in Tasks : u # t => StatusOf(u)' = StatusOf(u)
    BY <1>0, <1>4, <2>3 DEF FinishTask, StatusCorrect, Abstract!Status
  <2>6. StatusFn' = [StatusFn EXCEPT ![t] = "done"] /\ StatusFn[t] = "running"
    BY <2>1, <2>4, <2>5, OneTask DEF StatusFn
  <2>7. PhaseOf' = PhaseOf /\ CallerOf' = CallerOf
    BY <1>4 DEF FinishTask, poolVars, stopVars, PhaseOf, CallerOf
  <2>8. ~(PhaseOf = "stopping" /\ CallerOf = t)
    <3> SUFFICES ASSUME PhaseOf = "stopping", CallerOf = t PROVE FALSE
      OBVIOUS
    <3>1. phase \in {"adding", "joining"}
      BY DEF PhaseOf, TypeOK, Phases
    <3>2. stopper \in Workers /\ task_[stopper] = t
      BY <2>1 DEF CallerOf
    <3>3. pc[stopper] = "run"
      BY <3>1, <3>2 DEF StopInv
    <3>4. stopper = w
      BY <2>0, <2>1, <3>2, <3>3 DEF OnceInv, Holding
    <3> QED
      BY <1>4, <3>1, <3>4 DEF FinishTask, InStop
  <2>9. Abstract!FinishTask(t)
    BY <2>6, <2>7, <2>8 DEF Abstract!FinishTask, StatusFn, PhaseOf, CallerOf
  <2> QED
    BY <2>9 DEF Abstract!Next
<1>5. ASSUME NEW w \in Workers, LoopWorker(w) PROVE UNCHANGED Abstract!vars
  <2>1. CASE last_worker_[w]
    <3>1. \A u \in Tasks : (Waits(u)' <=> Waits(u)) /\ (Runs(u)' <=> Runs(u))
      BY <1>5, <2>1 DEF LoopWorker, poolVars, Waits, Runs, Queued,
         Assigned, TypeOK
    <3>2. \A u \in Tasks : StatusOf(u)' = StatusOf(u)
      BY <1>0, <1>5, <3>1 DEF LoopWorker, taskVars, StatusCorrect,
         Abstract!Status
    <3> QED
      BY <1>5, <2>1, <3>2, Unseen
         DEF LoopWorker, poolVars, stopVars, PhaseOf, CallerOf
  <2>2. CASE ~last_worker_[w]
    <3>1. /\ pc[w] = "back" /\ queueWorker(w) /\ pc' = [pc EXCEPT ![w] = "wait"]
          /\ UNCHANGED <<fresh, done, dropped, stopVars>>
      BY <1>5, <2>2 DEF LoopWorker, taskVars
    <3>2. /\ \A t \in Tasks :
               \/ Queued(t)' <=> Queued(t)
               \/ Queued(t) /\ Holding(w, t)'
          /\ \A t \in Tasks, v \in Workers : v # w => (Holding(v, t)' <=> Holding(v, t))
      BY <3>1, QueueWorkerOnce
    <3>3. \A u \in Tasks : Waits(u) => Waits(u)'
      BY <3>1, <3>2 DEF Waits, Holding, Assigned, FreeInv, TypeOK
    <3>4. WorkerServed(w) \/ WorkerFreed(w)
      BY <3>1, QueueWorkerFacts
    <3>5. \A u \in Tasks : Runs(u)' <=> Runs(u)
      BY <3>1, <3>4 DEF WorkerServed, WorkerFreed, Runs, TypeOK
    <3>6. \A u \in Tasks : StatusOf(u)' = StatusOf(u)
      BY <1>0, <3>1, <3>3, <3>5 DEF StatusCorrect, Abstract!Status
    <3>7. \A v \in Workers : task_'[v] = task_[v] \/ v = w
      BY <3>4 DEF WorkerServed, WorkerFreed, TypeOK
    <3>8. CallerOf' = CallerOf
      BY <2>2, <3>1, <3>7, CallerKept DEF stopVars
    <3> QED
      BY <3>1, <3>6, <3>8, Unseen DEF stopVars, PhaseOf
  <2> QED  BY <2>1, <2>2
<1>6. ASSUME NEW c \in Workers \union {External}, StopCall(c) PROVE Abstract!Next
  <2>1. /\ phase = "open" /\ phase' = "adding" /\ stopper' = c
        /\ UNCHANGED <<poolVars, pc, taskVars>>
    BY <1>6 DEF StopCall
  <2>2. \A u \in Tasks : (Waits(u)' <=> Waits(u)) /\ (Runs(u)' <=> Runs(u))
    BY <2>1 DEF poolVars, Waits, Runs, Queued, Assigned
  <2>3. \A u \in Tasks : StatusOf(u)' = StatusOf(u)
    BY <1>0, <2>1, <2>2 DEF taskVars, StatusCorrect, Abstract!Status
  <2>4. StatusFn' = StatusFn /\ PhaseOf = "open" /\ PhaseOf' = "stopping"
    BY <2>1, <2>3 DEF StatusFn, PhaseOf
  <2>5. CASE c \in Workers
    <3>1. pc[c] = "run" /\ task_[c] \in Tasks
      BY <1>6, <2>5, NumWorkersAssumption
         DEF StopCall, External, Workers, FreeInv, TypeOK
    <3>2. StatusFn[task_[c]] = "running"
      BY <1>0, <2>5, <3>1 DEF StatusCorrect, Runs, StatusFn
    <3>3. CallerOf' = task_[c]
      BY <2>1, <2>5 DEF CallerOf, poolVars
    <3>4. Abstract!StopCall(task_[c])
      BY <2>4, <3>1, <3>2, <3>3
         DEF Abstract!StopCall, StatusFn, PhaseOf, CallerOf
    <3> QED
      BY <3>1, <3>4 DEF Abstract!Next
  <2>6. CASE c = External
    <3>1. CallerOf' = NULL
      BY <2>1, <2>6, NumWorkersAssumption DEF CallerOf, External, Workers
    <3>2. Abstract!StopCall(NULL)
      BY <2>4, <3>1 DEF Abstract!StopCall, StatusFn, PhaseOf, CallerOf
    <3> QED
      BY <3>2 DEF Abstract!Next
  <2> QED  BY <2>5, <2>6
<1>7. CASE StopAdd
  <2>1. CASE index <= Requests
    <3>1. addTask(NULL) /\ UNCHANGED <<pc, phase, stopper, taskVars>>
      BY <1>7, <2>1, NumWorkersAssumption DEF StopAdd, Requests, TypeOK
    <3>2. AddHanded(NULL) \/ AddQueued(NULL)
      BY <3>1, AddTaskFacts
    <3>3. \A u \in Tasks : (Waits(u) => Waits(u)') /\ (Runs(u)' <=> Runs(u))
      <4>1. CASE AddHanded(NULL)
        <5> DEFINE h == workers_[1]
        <5>1. h \in Workers /\ pc[h] = "wait" /\ ~has_task_[h]
          BY <4>1 DEF AddHanded, FreeInv, FreeListExact, TypeOK
        <5> QED
          BY <3>1, <4>1, <5>1 DEF AddHanded, Waits, Runs, Queued, Assigned,
             TypeOK
      <4>2. CASE AddQueued(NULL)
        BY <3>1, <4>2 DEF AddQueued, Waits, Runs, Queued, Assigned, TypeOK
      <4> QED  BY <3>2, <4>1, <4>2
    <3>4. \A u \in Tasks : StatusOf(u)' = StatusOf(u)
      BY <1>0, <3>1, <3>3 DEF taskVars, StatusCorrect, Abstract!Status
    <3>5. \A w \in Workers : task_'[w] = task_[w] \/ (pc[w] = "wait" /\ ~last_worker_[w])
      BY <3>2, <1>7 DEF StopAdd, AddHanded, AddQueued, FreeInv,
         FreeListExact, StopInv, TypeOK
    <3>6. CallerOf' = CallerOf
      BY <3>1, <3>5, CallerKept
    <3> QED
      BY <3>1, <3>4, <3>6, Unseen DEF PhaseOf
  <2>2. CASE ~(index <= Requests)
    <3>1. /\ phase = "adding" /\ phase' = "joining"
          /\ UNCHANGED <<poolVars, pc, stopper, taskVars>>
      BY <1>7, <2>2 DEF StopAdd
    <3>2. \A u \in Tasks : StatusOf(u)' = StatusOf(u)
      BY <3>1 DEF StatusOf, Queued, Assigned, poolVars, taskVars
    <3> QED
      BY <3>1, <3>2, Unseen DEF PhaseOf, CallerOf, poolVars
  <2> QED  BY <2>1, <2>2
<1>8. CASE StopJoin
  <2>1. \A u \in Tasks : StatusOf(u)' = StatusOf(u)
    BY <1>8 DEF StopJoin, StatusOf, Queued, Assigned, poolVars, taskVars
  <2> QED
    BY <1>8, <2>1, Unseen DEF StopJoin, PhaseOf, CallerOf, poolVars
<1>9. CASE StopReturn
  <2>1. \A u \in Tasks : StatusOf(u)' = StatusOf(u)
    BY <1>9 DEF StopReturn, StatusOf, Queued, Assigned, poolVars, taskVars
  <2>2. StatusFn' = StatusFn
    BY <2>1 DEF StatusFn
  <2>3. PhaseOf = "stopping" /\ PhaseOf' = "stopped" /\ CallerOf' = CallerOf
    BY <1>9 DEF StopReturn, PhaseOf, CallerOf, poolVars
  <2>4. \A v \in Workers : v < index
    BY <1>9, NumWorkersAssumption DEF StopReturn, Joins, Workers, TypeOK
  <2>5. {t \in Tasks : StatusFn[t] = "running"} \subseteq {CallerOf}
    BY <1>0, <1>9, <2>4 DEF StopReturn, StopInv, StatusCorrect, Runs,
       StatusFn, CallerOf
  <2>6. Abstract!StopReturn
    BY <2>2, <2>3, <2>5 DEF Abstract!StopReturn, Abstract!With, StatusFn,
       PhaseOf, CallerOf
  <2> QED
    BY <2>6 DEF Abstract!Next
<1>10. CASE Destroy
  <2>1. /\ phase = "stopped" /\ phase' = "destroyed" /\ dispatch_queue_' = <<>>
        /\ \A t \in Tasks : t \in dropped' <=> Queued(t)
        /\ UNCHANGED <<has_task_, task_, pc, stopper, fresh, done>>
    BY <1>10 DEF Destroy, Queued
  <2>2. \A w \in Workers : ~Assigned(w)
    BY <2>1 DEF StopInv, Assigned, FreeInv
  <2>3. \A u \in Tasks : (Waits(u) <=> Queued(u)) /\ (Runs(u)' <=> Runs(u)) /\ ~Waits(u)'
    BY <2>1, <2>2 DEF Waits, Runs, Queued, Assigned
  <2>4. dropped = {}
    BY <2>1 DEF PriorInv
  <2>5. \A u \in Tasks :
          StatusOf(u)' = IF StatusOf(u) = "pending" THEN "dropped" ELSE StatusOf(u)
    BY <1>0, <2>1, <2>3, <2>4 DEF StatusCorrect, Abstract!Status
  <2>6. StatusFn' = [t \in Tasks |->
                       IF StatusFn[t] = "pending" THEN "dropped" ELSE StatusFn[t]]
    BY <2>5 DEF StatusFn
  <2>7. PhaseOf = "stopped" /\ PhaseOf' = "destroyed" /\ CallerOf' = CallerOf
    BY <2>1 DEF PhaseOf, CallerOf
  <2>8. Abstract!Destroy
    BY <2>6, <2>7 DEF Abstract!Destroy, StatusFn, PhaseOf, CallerOf
  <2> QED
    BY <2>8 DEF Abstract!Next
<1>11. CASE UNCHANGED vars
  <2>1. \A u \in Tasks : StatusOf(u)' = StatusOf(u)
    BY <1>11 DEF vars, StatusOf, Queued, Assigned, poolVars, taskVars
  <2> QED
    BY <1>11, <2>1, Unseen DEF vars, PhaseOf, CallerOf, poolVars, stopVars
<1>12. ASSUME NEW t \in Tasks, AddTask(t) PROVE Abstract!Next
  BY <1>1, <1>12 DEF Abstract!Next
<1> QED
  BY <1>2, <1>3, <1>4, <1>5, <1>6, <1>7, <1>8, <1>9, <1>10, <1>11, <1>12
     DEF Next, Worker, Stopping, Terminated

(* A new pool is a new ThreadPool. *)
LEMMA InitSimulation == Init => Abstract!Init
<1> SUFFICES ASSUME Init PROVE Abstract!Init
  OBVIOUS
<1>1. \A t \in Tasks : StatusOf(t) = "new"
  BY DEF Init, StatusOf
<1>2. stopper \notin Workers
  BY NumWorkersAssumption DEF Init, NoThread, Workers
<1> QED
  BY <1>1, <1>2 DEF Init, Abstract!Init

(* ThreadPoolFast is a ThreadPool, whatever the number of workers: a task  *)
(* that is added runs at most once and is not lost, no task begins after   *)
(* stop() returned, and stop() returns only when no task but its caller is *)
(* running.                                                                *)
THEOREM Refinement == Spec => ImplementsThreadPool
<1>1. RInv /\ RInv' /\ [Next]_vars => [Abstract!Next]_(Abstract!vars)
  BY Simulation
<1> QED
  BY <1>1, InitSimulation, InvariantR, PTL
     DEF Spec, ImplementsThreadPool, Abstract!Spec
=============================================================================
