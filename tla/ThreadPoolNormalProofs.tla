----------------------- MODULE ThreadPoolNormalProofs -----------------------
(***************************************************************************)
(* What ThreadPoolNormal promises, for any number of workers and any set   *)
(* of tasks: its types, that addTask() wakes up enough workers, and that   *)
(* the pool implements ThreadPool.                                         *)
(*                                                                         *)
(* WakeupsSuffice is inductive once the types are known.  The refinement   *)
(* needs that each task is in one place (OnceInv), and how far the first   *)
(* stop() is (StopInv), however often stop() is called after it.           *)
(***************************************************************************)
EXTENDS ThreadPoolNormal, FiniteSetTheorems, TLAPS

Queued(t) == \E i \in 1..Len(tasks_) : tasks_[i] = t
Runs(w, t) == pc[w] = "run" /\ task[w] = t

(* A task is in one place: not added yet, in the queue once, with the one  *)
(* worker that runs it, done or dropped.                                   *)
OnceInv ==
  /\ \A t \in Tasks : t \in fresh \union done \union dropped =>
       ~Queued(t) /\ \A w \in Workers : ~Runs(w, t)
  /\ \A t \in Tasks : Queued(t) => \A w \in Workers : ~Runs(w, t)
  /\ \A i, j \in 1..Len(tasks_) : tasks_[i] = tasks_[j] => i = j
  /\ \A t \in Tasks : \A v, w \in Workers : Runs(v, t) /\ Runs(w, t) => v = w
  /\ fresh \cap done = {} /\ fresh \cap dropped = {} /\ done \cap dropped = {}
  /\ \A t \in Tasks :
       \/ t \in fresh \union done \union dropped
       \/ Queued(t)
       \/ \E w \in Workers : Runs(w, t)
  /\ \A w \in Workers : pc[w] = "run" => task[w] \in Tasks

(* The first stop(): its caller stays in its task until it returns, what   *)
(* it has joined has ended, and after it no other worker is left.          *)
StopInv ==
  /\ flagstop_ <=> phase # "open"
  /\ phase = "open" => stopper = NoThread
  /\ phase = "stopping" =>
       \A w \in Workers :
         /\ w = stopper => pc[w] = "run"
         /\ w < index => w = stopper \/ pc[w] = "ended"
  /\ phase \in {"stopped", "destroyed"} =>
       \A w \in Workers : w = stopper \/ pc[w] = "ended"

IInv == TypeOK /\ OnceInv /\ StopInv

-----------------------------------------------------------------------------
(* signal() and signalAll() only move waiting workers back to the loop. *)
LEMMA WakeFacts ==
  ASSUME TypeOK, NEW S \in SUBSET At("waiting"), Wake(S)
  PROVE  /\ pc' \in [Workers -> Places]
         /\ \A w \in Workers :
              \/ pc'[w] = pc[w]
              \/ pc[w] = "waiting" /\ pc'[w] = "loop"
BY DEF TypeOK, At, Wake, Places

(* signal() wakes up one worker, if any waits. *)
LEMMA SignalFacts ==
  /\ \A S \in Signal : S \in SUBSET At("waiting")
  /\ \A S \in Signal : At("waiting") # {} => \E w \in At("waiting") : S = {w}
BY DEF Signal

(* Every step keeps the types. *)
LEMMA TypeStep ==
  ASSUME IInv, [Next]_vars
  PROVE  TypeOK'
<1> USE DEF IInv
<1>1. ASSUME NEW t \in Tasks, AddTask(t) PROVE TypeOK'
  <2>1. pc' \in [Workers -> Places]
    BY <1>1, WakeFacts, SignalFacts DEF AddTask, TypeOK
  <2>2. tasks_' \in Seq(Tasks)
    BY <1>1 DEF AddTask, TypeOK
  <2> QED
    BY <1>1, <2>1, <2>2 DEF AddTask, TypeOK, stopVars
<1>2. ASSUME NEW w \in Workers, Dispatch(w) PROVE TypeOK'
  <2>1. pc' \in [Workers -> Places]
    BY <1>2 DEF Dispatch, Wait, Leave, PopTask, TypeOK, Places
  <2>2. tasks_' \in Seq(Tasks) /\ task' \in [Workers -> Tasks \union {NULL}]
    <3>1. tasks_ # <<>> => Head(tasks_) \in Tasks /\ Tail(tasks_) \in Seq(Tasks)
      BY DEF TypeOK
    <3>2. CASE PopTask(w)
      BY <3>1, <3>2 DEF PopTask, TypeOK
    <3>3. CASE UNCHANGED <<tasks_, task>>
      BY <3>3 DEF TypeOK
    <3> QED
      BY <1>2, <3>2, <3>3 DEF Dispatch, Wait, Leave
  <2> QED
    BY <1>2, <2>1, <2>2 DEF Dispatch, TypeOK, stopVars, taskVars
<1>3. ASSUME NEW w \in Workers, SpuriousWakeup(w) PROVE TypeOK'
  BY <1>3 DEF SpuriousWakeup, TypeOK, Places, stopVars, taskVars
<1>4. ASSUME NEW w \in Workers, FinishTask(w) PROVE TypeOK'
  BY <1>4 DEF FinishTask, OnceInv, TypeOK, Places, stopVars
<1>5. ASSUME NEW c \in Workers \union {External}, Stop(c) PROVE TypeOK'
  <2>1. pc' \in [Workers -> Places]
    BY <1>5, WakeFacts DEF Stop, SignalAll, TypeOK
  <2>2. flagstop_' \in BOOLEAN
    BY <1>5 DEF Stop, TypeOK
  <2>3. index' \in 1..(NumWorkers + 1)
    BY <1>5, NumWorkersAssumption DEF Stop, FirstJoin, TypeOK
  <2>4. /\ phase' \in Phases /\ again' \subseteq Workers \union {External}
        /\ stopper' \in Workers \union {External, NoThread}
    BY <1>5 DEF Stop, TypeOK, Phases
  <2> QED
    BY <1>5, <2>1, <2>2, <2>3, <2>4 DEF Stop, TypeOK, taskVars
<1>6. CASE StopJoin
  BY <1>6, NumWorkersAssumption DEF StopJoin, LastJoin, TypeOK, taskVars
<1>7. CASE StopReturn
  BY <1>7 DEF StopReturn, TypeOK, Phases, taskVars
<1>8. CASE Destroy
  BY <1>8 DEF Destroy, TypeOK, Phases
<1>9. CASE UNCHANGED vars
  BY <1>9 DEF vars, stopVars, taskVars, TypeOK
<1> QED
  BY <1>1, <1>2, <1>3, <1>4, <1>5, <1>6, <1>7, <1>8, <1>9
     DEF Next, Stopping, Terminated

(* addTask() puts the task behind the others. *)
LEMMA QueuedAfterAppend ==
  ASSUME TypeOK, NEW t \in Tasks, tasks_' = Append(tasks_, t)
  PROVE  /\ \A u \in Tasks : Queued(u)' <=> Queued(u) \/ u = t
         /\ ~Queued(t) /\ (\A i, j \in 1..Len(tasks_) : tasks_[i] = tasks_[j] => i = j)
              => \A i, j \in 1..Len(tasks_') : tasks_'[i] = tasks_'[j] => i = j
<1>1. Len(tasks_) \in Nat /\ Len(tasks_') = Len(tasks_) + 1
  BY DEF TypeOK
<1>2. \A i \in 1..Len(tasks_') :
        \/ i \in 1..Len(tasks_) /\ tasks_'[i] = tasks_[i]
        \/ i = Len(tasks_) + 1 /\ tasks_'[i] = t
  BY <1>1
<1>3. \A u \in Tasks : Queued(u)' => Queued(u) \/ u = t
  BY <1>2 DEF Queued
<1>4. \A u \in Tasks : Queued(u) => Queued(u)'
  <2>1. \A i \in 1..Len(tasks_) : i \in 1..Len(tasks_') /\ tasks_'[i] = tasks_[i]
    BY <1>1, <1>2
  <2> QED
    BY <2>1 DEF Queued
<1>5. Queued(t)'
  <2>1. Len(tasks_) + 1 \in 1..Len(tasks_') /\ tasks_'[Len(tasks_) + 1] = t
    BY <1>1
  <2> QED
    BY <2>1 DEF Queued
<1>6. ~Queued(t) /\ (\A i, j \in 1..Len(tasks_) : tasks_[i] = tasks_[j] => i = j)
        => \A i, j \in 1..Len(tasks_') : tasks_'[i] = tasks_'[j] => i = j
  BY <1>2 DEF Queued
<1> QED
  BY <1>3, <1>4, <1>5, <1>6

(* A worker takes the first task of the queue. *)
LEMMA QueuedAfterPop ==
  ASSUME TypeOK, tasks_ # <<>>, tasks_' = Tail(tasks_),
         \A i, j \in 1..Len(tasks_) : tasks_[i] = tasks_[j] => i = j
  PROVE  /\ Head(tasks_) \in Tasks /\ Queued(Head(tasks_))
         /\ \A u \in Tasks : Queued(u)' <=> Queued(u) /\ u # Head(tasks_)
         /\ \A i, j \in 1..Len(tasks_') : tasks_'[i] = tasks_'[j] => i = j
<1>1. /\ Len(tasks_) \in Nat /\ Len(tasks_) > 0
      /\ Len(tasks_') = Len(tasks_) - 1 /\ Head(tasks_) = tasks_[1]
      /\ Head(tasks_) \in Tasks
  BY DEF TypeOK
<1>2. \A i \in 1..Len(tasks_') :
        i + 1 \in 1..Len(tasks_) /\ tasks_'[i] = tasks_[i + 1]
  BY <1>1 DEF TypeOK
<1>3. \A i \in 1..Len(tasks_) : i = 1 \/ i - 1 \in 1..Len(tasks_')
  BY <1>1
<1>4. \A i \in 1..Len(tasks_) : i = 1 \/ tasks_[i] = tasks_'[i - 1]
  BY <1>1, <1>2, <1>3
<1>5. 1 \in 1..Len(tasks_)
  BY <1>1
<1>6. \A u \in Tasks : Queued(u)' => Queued(u) /\ u # Head(tasks_)
  BY <1>1, <1>2, <1>5 DEF Queued
<1>7. \A u \in Tasks : Queued(u) /\ u # Head(tasks_) => Queued(u)'
  BY <1>1, <1>3, <1>4 DEF Queued
<1>8. \A i, j \in 1..Len(tasks_') : tasks_'[i] = tasks_'[j] => i = j
  BY <1>1, <1>2
<1> QED
  BY <1>1, <1>5, <1>6, <1>7, <1>8 DEF Queued

(* Every step keeps each task in one place: addTask() queues it or drops   *)
(* it, a worker takes it from the queue, and the destructor drops the      *)
(* rest.                                                                   *)
LEMMA OnceStep ==
  ASSUME IInv, TypeOK', [Next]_vars
  PROVE  OnceInv'
<1> USE DEF IInv
<1>1. ASSUME NEW t \in Tasks, AddTask(t) PROVE OnceInv'
  <2>1. \A w \in Workers, u \in Tasks : Runs(w, u)' <=> Runs(w, u)
    BY <1>1, WakeFacts, SignalFacts DEF AddTask, Runs
  <2>2. \A w \in Workers : pc'[w] = "run" => pc[w] = "run"
    BY <1>1, WakeFacts, SignalFacts DEF AddTask
  <2>3. t \in fresh /\ fresh' = fresh \ {t} /\ done' = done /\ task' = task
    BY <1>1 DEF AddTask
  <2>4. CASE flagstop_
    <3>1. tasks_' = tasks_ /\ dropped' = dropped \union {t}
      BY <1>1, <2>4 DEF AddTask
    <3>2. \A u \in Tasks : Queued(u)' <=> Queued(u)
      BY <3>1 DEF Queued
    <3> QED
      BY <2>1, <2>2, <2>3, <3>1, <3>2 DEF OnceInv
  <2>5. CASE ~flagstop_
    <3>1. tasks_' = Append(tasks_, t) /\ dropped' = dropped
      BY <1>1, <2>5 DEF AddTask
    <3>2. \A u \in Tasks : Queued(u)' <=> Queued(u) \/ u = t
      BY <3>1, QueuedAfterAppend
    <3>3. \A i, j \in 1..Len(tasks_') : tasks_'[i] = tasks_'[j] => i = j
      BY <2>3, <3>1, QueuedAfterAppend DEF OnceInv
    <3> QED
      BY <2>1, <2>2, <2>3, <3>1, <3>2, <3>3 DEF OnceInv
  <2> QED  BY <2>4, <2>5
<1>2. ASSUME NEW w \in Workers, Dispatch(w) PROVE OnceInv'
  <2>1. UNCHANGED <<fresh, done, dropped>> /\ pc[w] = "loop"
    BY <1>2 DEF Dispatch, taskVars
  <2>2. CASE PopTask(w)
    <3> DEFINE h == Head(tasks_)
    <3>1. /\ h \in Tasks /\ Queued(h)
          /\ \A u \in Tasks : Queued(u)' <=> Queued(u) /\ u # h
          /\ \A i, j \in 1..Len(tasks_') : tasks_'[i] = tasks_'[j] => i = j
      BY <2>2, QueuedAfterPop DEF PopTask, OnceInv
    <3>2. \A v \in Workers, u \in Tasks :
            Runs(v, u)' <=> (v # w /\ Runs(v, u)) \/ (v = w /\ u = h)
      BY <2>2 DEF PopTask, Runs, TypeOK
    <3>3. \A v \in Workers : pc'[v] = "run" => task'[v] \in Tasks
      BY <2>2, <3>1 DEF PopTask, OnceInv, TypeOK
    <3>4. \A u \in Tasks : ~Runs(w, u)
      BY <2>1 DEF Runs
    <3> HIDE DEF h
    <3> QED
      BY <2>1, <3>1, <3>2, <3>3, <3>4 DEF OnceInv
  <2>3. CASE UNCHANGED <<tasks_, task>> /\ pc'[w] # "run"
    <3>1. \A v \in Workers : v # w => pc'[v] = pc[v]
      BY <1>2 DEF Dispatch, Wait, Leave, PopTask, TypeOK
    <3>2. \A v \in Workers, u \in Tasks : Runs(v, u)' <=> Runs(v, u)
      BY <2>1, <2>3, <3>1 DEF Runs
    <3>3. \A u \in Tasks : Queued(u)' <=> Queued(u)
      BY <2>3 DEF Queued
    <3> QED
      BY <2>1, <2>3, <3>1, <3>2, <3>3 DEF OnceInv
  <2> QED
    BY <1>2, <2>2, <2>3 DEF Dispatch, Wait, Leave, TypeOK
<1>3. ASSUME NEW w \in Workers, SpuriousWakeup(w) PROVE OnceInv'
  BY <1>3 DEF SpuriousWakeup, taskVars, OnceInv, Queued, Runs, TypeOK
<1>4. ASSUME NEW w \in Workers, FinishTask(w) PROVE OnceInv'
  <2>1. PICK t \in Tasks : t = task[w]
    BY <1>4 DEF FinishTask, OnceInv
  <2>2. /\ Runs(w, t) /\ done' = done \union {t} /\ task' = task
        /\ tasks_' = tasks_ /\ fresh' = fresh /\ dropped' = dropped
        /\ pc'[w] # "run" /\ \A v \in Workers : v # w => pc'[v] = pc[v]
    BY <1>4, <2>1 DEF FinishTask, Runs, TypeOK
  <2>3. \A v \in Workers, u \in Tasks : Runs(v, u)' <=> v # w /\ Runs(v, u)
    BY <2>2 DEF Runs
  <2>4. \A u \in Tasks : Queued(u)' <=> Queued(u)
    BY <2>2 DEF Queued
  <2>5. \A u \in Tasks : Runs(w, u) => u = t
    BY <2>1 DEF Runs
  <2> QED
    BY <2>2, <2>3, <2>4, <2>5 DEF OnceInv
<1>5. ASSUME NEW c \in Workers \union {External}, Stop(c) PROVE OnceInv'
  <2>1. \A w \in Workers : pc'[w] = pc[w] \/ (pc[w] = "waiting" /\ pc'[w] = "loop")
    BY <1>5, WakeFacts DEF Stop, SignalAll
  <2>2. UNCHANGED <<tasks_, task, fresh, done, dropped>>
    BY <1>5 DEF Stop, taskVars
  <2>3. \A v \in Workers, u \in Tasks : Runs(v, u)' <=> Runs(v, u)
    BY <2>1, <2>2 DEF Runs
  <2>4. \A u \in Tasks : Queued(u)' <=> Queued(u)
    BY <2>2 DEF Queued
  <2> QED
    BY <2>1, <2>2, <2>3, <2>4 DEF OnceInv
<1>6. CASE StopJoin \/ StopReturn \/ UNCHANGED vars
  BY <1>6 DEF StopJoin, StopReturn, vars, taskVars, OnceInv, Queued, Runs
<1>7. CASE Destroy
  <2>1. /\ Len(tasks_') = 0 /\ UNCHANGED <<pc, task, fresh, done>>
        /\ \A u \in Tasks : u \in dropped' <=> u \in dropped \/ Queued(u)
    BY <1>7 DEF Destroy, Queued
  <2>2. \A u \in Tasks : ~Queued(u)'
    BY <2>1 DEF Queued
  <2>3. \A v \in Workers, u \in Tasks : Runs(v, u)' <=> Runs(v, u)
    BY <2>1 DEF Runs
  <2> QED
    BY <2>1, <2>2, <2>3 DEF OnceInv, TypeOK
<1> QED
  BY <1>1, <1>2, <1>3, <1>4, <1>5, <1>6, <1>7 DEF Next, Stopping, Terminated

(* Every step keeps what the first stop() has reached: a second stop()     *)
(* returns at once and changes nothing of it.                              *)
LEMMA StopStep ==
  ASSUME IInv, TypeOK', [Next]_vars
  PROVE  StopInv'
<1> USE DEF IInv, StopInv, TypeOK
<1>1. ASSUME NEW t \in Tasks, AddTask(t) PROVE StopInv'
  BY <1>1, WakeFacts, SignalFacts DEF AddTask, stopVars
<1>2. ASSUME NEW w \in Workers, Dispatch(w) PROVE StopInv'
  BY <1>2 DEF Dispatch, Wait, Leave, PopTask, stopVars
<1>3. ASSUME NEW w \in Workers, SpuriousWakeup(w) PROVE StopInv'
  BY <1>3 DEF SpuriousWakeup, stopVars
<1>4. ASSUME NEW w \in Workers, FinishTask(w) PROVE StopInv'
  BY <1>4 DEF FinishTask, stopVars
<1>5. ASSUME NEW c \in Workers \union {External}, Stop(c) PROVE StopInv'
  <2>1. \A w \in Workers : pc'[w] = pc[w] \/ (pc[w] = "waiting" /\ pc'[w] = "loop")
    BY <1>5, WakeFacts DEF Stop, SignalAll
  <2> QED
    BY <1>5, <2>1, NumWorkersAssumption DEF Stop, FirstJoin, Workers, External
<1>6. CASE StopJoin
  BY <1>6, NumWorkersAssumption DEF StopJoin, LastJoin, Workers
<1>7. CASE StopReturn
  BY <1>7, NumWorkersAssumption DEF StopReturn, LastJoin, Workers
<1>8. CASE Destroy
  BY <1>8 DEF Destroy
<1>9. CASE UNCHANGED vars
  BY <1>9 DEF vars, stopVars
<1> QED
  BY <1>1, <1>2, <1>3, <1>4, <1>5, <1>6, <1>7, <1>8, <1>9
     DEF Next, Stopping, Terminated

(* A pool starts with no task anywhere and its workers about to look. *)
LEMMA InitIInv == Init => IInv
<1> SUFFICES ASSUME Init PROVE IInv
  OBVIOUS
<1>1. TypeOK
  <2>1. tasks_ \in Seq(Tasks) /\ index \in 1..(NumWorkers + 1)
    BY NumWorkersAssumption DEF Init
  <2>2. flagstop_ \in BOOLEAN
    BY DEF Init
  <2> QED
    BY <2>1, <2>2 DEF Init, TypeOK, Places, Phases
<1>2. OnceInv
  <2>1. Len(tasks_) = 0
    BY DEF Init
  <2> QED
    BY <2>1 DEF Init, OnceInv, Queued, Runs
<1>3. StopInv
  BY DEF Init, StopInv
<1> QED
  BY <1>1, <1>2, <1>3 DEF IInv

(* The invariant holds in every state that can be reached. *)
LEMMA Inductive == Spec => []IInv
<1>1. IInv /\ [Next]_vars => IInv'
  BY TypeStep, OnceStep, StopStep DEF IInv
<1> QED
  BY <1>1, InitIInv, PTL DEF Spec

(* Every variable keeps its type. *)
THEOREM Typing == Spec => []TypeOK
<1>1. IInv => TypeOK
  BY DEF IInv
<1> QED
  BY <1>1, Inductive, PTL

-----------------------------------------------------------------------------
(* The workers at a place can be counted. *)
LEMMA AtFinite ==
  ASSUME NEW place
  PROVE  IsFiniteSet(At(place)) /\ Cardinality(At(place)) \in Nat
<1>1. IsFiniteSet(Workers)
  BY FS_Interval, NumWorkersAssumption DEF Workers
<1>2. IsFiniteSet(At(place))
  BY <1>1, FS_Subset DEF At
<1> QED
  BY <1>2, FS_CardinalityType

(* One worker more is on its way to the queue. *)
LEMMA LoopAfter ==
  ASSUME TypeOK', NEW w \in Workers, w \notin At("loop"),
         pc'[w] = "loop", \A v \in Workers : v # w => pc'[v] = pc[v]
  PROVE  Cardinality(At("loop")') = Cardinality(At("loop")) + 1
<1>1. At("loop")' = At("loop") \union {w}
  BY DEF At
<1> QED
  BY <1>1, AtFinite, FS_AddElement

(* Every step keeps enough workers on their way: the one that waits again  *)
(* found the queue empty, and the one that takes a task shortens it.       *)
LEMMA WakeupsStep ==
  ASSUME IInv, TypeOK', WakeupsSuffice, [Next]_vars
  PROVE  WakeupsSuffice'
<1> SUFFICES ASSUME At("waiting")' # {}, ~flagstop_'
             PROVE  Len(tasks_') <= Cardinality(At("loop")')
  BY DEF WakeupsSuffice
<1> USE DEF IInv
<1>0. Len(tasks_) \in Nat /\ Cardinality(At("loop")) \in Nat
  BY AtFinite DEF TypeOK
<1>1. ASSUME NEW t \in Tasks, AddTask(t)
      PROVE  Len(tasks_') <= Cardinality(At("loop")')
  <2>1. ~flagstop_ /\ tasks_' = Append(tasks_, t)
    BY <1>1 DEF AddTask
  <2>2. PICK S \in Signal : Wake(S)
    BY <1>1, <2>1 DEF AddTask
  <2>3. At("waiting") # {}
    BY <2>2, WakeFacts, SignalFacts DEF At
  <2>4. PICK w \in At("waiting") : S = {w}
    BY <2>2, <2>3, SignalFacts
  <2>5. Cardinality(At("loop")') = Cardinality(At("loop")) + 1
    BY <2>2, <2>4, LoopAfter DEF Wake, At
  <2>6. Len(tasks_') = Len(tasks_) + 1
    BY <2>1 DEF TypeOK
  <2> QED
    BY <1>0, <2>1, <2>3, <2>5, <2>6 DEF WakeupsSuffice
<1>2. ASSUME NEW w \in Workers, Dispatch(w)
      PROVE  Len(tasks_') <= Cardinality(At("loop")')
  <2>1. ~flagstop_ /\ phase # "destroyed" /\ pc[w] = "loop"
    BY <1>2 DEF Dispatch, StopInv
  <2>2. CASE Wait(w)
    <3>1. Len(tasks_') = 0
      BY <2>2 DEF Wait
    <3>2. At("loop")' \subseteq At("loop")
      BY <2>2 DEF Wait, At, TypeOK
    <3>3. IsFiniteSet(At("loop")')
      BY <3>2, AtFinite, FS_Subset
    <3> QED
      BY <3>1, <3>3, FS_CardinalityType
  <2>3. CASE PopTask(w)
    <3>1. At("loop")' = At("loop") \ {w} /\ w \in At("loop")
      BY <2>1, <2>3 DEF PopTask, At, TypeOK
    <3>2. Cardinality(At("loop")') = Cardinality(At("loop")) - 1
      BY <3>1, AtFinite, FS_RemoveElement
    <3>3. Len(tasks_') = Len(tasks_) - 1
      BY <2>3 DEF PopTask, TypeOK
    <3>4. At("waiting") # {}
      BY <2>3 DEF PopTask, At, TypeOK
    <3> QED
      BY <1>0, <2>1, <3>2, <3>3, <3>4 DEF WakeupsSuffice
  <2> QED
    BY <1>2, <2>1, <2>2, <2>3 DEF Dispatch, Leave
<1>3. ASSUME NEW w \in Workers, SpuriousWakeup(w) \/ FinishTask(w)
      PROVE  Len(tasks_') <= Cardinality(At("loop")')
  <2>1. /\ pc[w] \in {"waiting", "run"} /\ pc' = [pc EXCEPT ![w] = "loop"]
        /\ UNCHANGED <<tasks_, flagstop_>>
    BY <1>3 DEF SpuriousWakeup, FinishTask
  <2>2. Cardinality(At("loop")') = Cardinality(At("loop")) + 1
    BY <2>1, LoopAfter DEF At, TypeOK
  <2>3. At("waiting") # {}
    BY <2>1 DEF At, TypeOK
  <2> QED
    BY <1>0, <2>1, <2>2, <2>3 DEF WakeupsSuffice
<1>4. ASSUME NEW c \in Workers \union {External}, Stop(c)
      PROVE  Len(tasks_') <= Cardinality(At("loop")')
  BY <1>4 DEF Stop
<1>5. CASE StopJoin \/ StopReturn \/ UNCHANGED vars
  BY <1>5 DEF StopJoin, StopReturn, vars, At, WakeupsSuffice
<1>6. CASE Destroy
  BY <1>6 DEF Destroy, StopInv
<1> QED
  BY <1>1, <1>2, <1>3, <1>4, <1>5, <1>6 DEF Next, Stopping, Terminated

(* addTask() signals often enough: as long as a worker sleeps, at least as *)
(* many others are on their way to the queue as it has tasks.              *)
THEOREM WakeupsAreEnough == Spec => []WakeupsSuffice
<1>1. Init => WakeupsSuffice
  BY DEF Init, WakeupsSuffice, At
<1>2. IInv /\ IInv' /\ WakeupsSuffice /\ [Next]_vars => WakeupsSuffice'
  BY WakeupsStep DEF IInv
<1> QED
  BY <1>1, <1>2, Inductive, PTL DEF Spec

-----------------------------------------------------------------------------
(* The refinement *)

(* StatusOf() names the one place a task is in. *)
StatusCorrect ==
  \A t \in Tasks :
    /\ StatusOf(t) \in Abstract!Status
    /\ StatusOf(t) = "new" <=> t \in fresh
    /\ StatusOf(t) = "done" <=> t \in done
    /\ StatusOf(t) = "dropped" <=> t \in dropped
    /\ StatusOf(t) = "running" <=> \E w \in Workers : Runs(w, t)
    /\ StatusOf(t) = "pending" <=> Queued(t)

(* A task that was added is never lost, and never in two places. *)
LEMMA StatusFacts == IInv => StatusCorrect
<1> SUFFICES ASSUME IInv, NEW t \in Tasks
             PROVE  /\ StatusOf(t) \in Abstract!Status
                    /\ StatusOf(t) = "new" <=> t \in fresh
                    /\ StatusOf(t) = "done" <=> t \in done
                    /\ StatusOf(t) = "dropped" <=> t \in dropped
                    /\ StatusOf(t) = "running" <=> \E w \in Workers : Runs(w, t)
                    /\ StatusOf(t) = "pending" <=> Queued(t)
  BY DEF StatusCorrect
<1> DEFINE R == \E w \in Workers : Runs(w, t)
<1>1. StatusOf(t) = IF t \in fresh THEN "new"
                    ELSE IF t \in done THEN "done"
                    ELSE IF t \in dropped THEN "dropped"
                    ELSE IF R THEN "running"
                    ELSE IF Queued(t) THEN "pending"
                    ELSE "lost"
  BY DEF StatusOf, Runs, At, Queued
<1>2. t \in fresh \union done \union dropped \/ Queued(t) \/ R
  BY DEF IInv, OnceInv
<1>3. /\ t \in fresh \union done \union dropped => ~Queued(t) /\ ~R
      /\ ~(Queued(t) /\ R)
  BY DEF IInv, OnceInv
<1>4. /\ ~(t \in fresh /\ t \in done) /\ ~(t \in fresh /\ t \in dropped)
      /\ ~(t \in done /\ t \in dropped)
  BY DEF IInv, OnceInv
<1> HIDE DEF R
<1>5. /\ StatusOf(t) = "running" <=> R
      /\ StatusOf(t) \in Abstract!Status
      /\ StatusOf(t) = "new" <=> t \in fresh
      /\ StatusOf(t) = "done" <=> t \in done
      /\ StatusOf(t) = "dropped" <=> t \in dropped
      /\ StatusOf(t) = "pending" <=> Queued(t)
  BY <1>1, <1>2, <1>3, <1>4 DEF Abstract!Status
<1> QED
  BY <1>5 DEF R

(* The same after a step. *)
LEMMA StatusFactsNext == IInv' => StatusCorrect'
BY StatusFacts, PTL

(* The variables of ThreadPool that are not variables of this pool. *)
StatusFn == [t \in Tasks |-> StatusOf(t)]
CallerOf == IF stopper \in Workers THEN task[stopper] ELSE NULL

(* A step after which every task is where it was, as far as a caller can   *)
(* tell, is not seen.                                                      *)
LEMMA Unseen ==
  ASSUME IInv, IInv', UNCHANGED <<fresh, done, dropped, phase>>,
         CallerOf' = CallerOf,
         \A t \in Tasks, w \in Workers : Runs(w, t)' <=> Runs(w, t)
  PROVE  UNCHANGED Abstract!vars
<1>1. StatusCorrect /\ StatusCorrect'
  BY StatusFacts, StatusFactsNext
<1>2. \A t \in Tasks : StatusOf(t)' = StatusOf(t)
  BY <1>1 DEF StatusCorrect, Abstract!Status
<1>3. StatusFn' = StatusFn
  BY <1>2 DEF StatusFn
<1> QED
  BY <1>3 DEF StatusFn, CallerOf, Abstract!vars

(* Fewer tasks run than there are workers, if one of them runs none. *)
LEMMA FreeCapacity ==
  ASSUME IInv, NEW w \in Workers, pc[w] # "run"
  PROVE  Abstract!Cardinality(Abstract!With("running")) < NumWorkers
<1> DEFINE R == {t \in Tasks : StatusFn[t] = "running"}
           f == [t \in R |-> CHOOSE v \in Workers : Runs(v, t)]
<1>1. \A t \in R : f[t] \in Workers \ {w} /\ task[f[t]] = t
  <2> SUFFICES ASSUME NEW t \in R
               PROVE  f[t] \in Workers \ {w} /\ task[f[t]] = t
    OBVIOUS
  <2>1. \E v \in Workers : Runs(v, t)
    BY StatusFacts DEF StatusFn, StatusCorrect
  <2> QED
    BY <2>1 DEF Runs
<1>2. f \in Injection(R, Workers \ {w})
  <2>1. f \in [R -> Workers \ {w}] /\ DOMAIN f = R
    BY <1>1
  <2>2. \A t, u \in R : f[t] = f[u] => t = u
    <3> HIDE DEF f, R
    <3> QED  BY <1>1
  <2> HIDE DEF f, R
  <2> QED
    BY <2>1, <2>2 DEF Injection, IsInjective
<1>3. IsFiniteSet(Workers) /\ Cardinality(Workers) = NumWorkers
  BY FS_Interval, NumWorkersAssumption DEF Workers
<1>4. /\ IsFiniteSet(Workers \ {w})
      /\ Cardinality(Workers \ {w}) = NumWorkers - 1
  BY <1>3, FS_RemoveElement
<1>5. IsFiniteSet(R) /\ Cardinality(R) <= NumWorkers - 1
  BY <1>2, <1>4, FS_Injection
<1>6. Cardinality(R) \in Nat
  BY <1>5, FS_CardinalityType
<1>7. Cardinality(R) < NumWorkers
  BY <1>5, <1>6, NumWorkersAssumption
<1> QED
  BY <1>7, Zenon
     DEF Abstract!With, StatusFn, Abstract!Cardinality, Cardinality

(* Every step of the pool is a step of ThreadPool, or one that nobody      *)
(* sees: a wait, a wakeup, a join, a second stop().                        *)
LEMMA Simulation ==
  ASSUME IInv, IInv', [Next]_vars
  PROVE  [Abstract!Next]_(Abstract!vars)
<1> USE NullAssumption DEF IInv
<1>0. StatusCorrect /\ StatusCorrect'
  BY StatusFacts, StatusFactsNext
<1>1. ASSUME NEW t \in Tasks, AddTask(t) PROVE Abstract!Next
  <2>1. /\ t \in fresh /\ fresh' = fresh \ {t} /\ phase # "destroyed"
        /\ UNCHANGED <<done, task, phase, stopper>>
    BY <1>1 DEF AddTask, stopVars
  <2>2. \A u \in Tasks, w \in Workers : Runs(w, u)' <=> Runs(w, u)
    BY <1>1, WakeFacts, SignalFacts DEF AddTask, Runs
  <2>3. StatusFn[t] = "new"
    BY <1>0, <2>1 DEF StatusFn, StatusCorrect
  <2>4. CallerOf' = CallerOf
    BY <2>1 DEF CallerOf
  <2>5. \A u \in Tasks : u # t => (u \in dropped' <=> u \in dropped)
    BY <1>1 DEF AddTask
  <2>6. \A u \in Tasks : u # t => StatusOf(u)' = StatusOf(u)
    BY <1>0, <2>1, <2>2, <2>5 DEF StatusCorrect, Abstract!Status
  <2>7. CASE flagstop_
    <3>1. StatusOf(t)' = "dropped"
      BY <1>0, <1>1, <2>7 DEF AddTask, StatusCorrect
    <3>2. StatusFn' = [StatusFn EXCEPT ![t] = "dropped"] /\ phase # "open"
      BY <2>6, <2>7, <3>1 DEF StatusFn, StopInv
    <3>3. Abstract!AddTask(t)
      BY <2>1, <2>3, <2>4, <3>2 DEF Abstract!AddTask, StatusFn, CallerOf
    <3> QED
      BY <3>3 DEF Abstract!Next
  <2>8. CASE ~flagstop_
    <3>1. Queued(t)'
      BY <1>1, <2>8, QueuedAfterAppend DEF AddTask
    <3>2. StatusOf(t)' = "pending"
      BY <1>0, <3>1 DEF StatusCorrect
    <3>3. StatusFn' = [StatusFn EXCEPT ![t] = "pending"]
      BY <2>6, <3>2 DEF StatusFn
    <3>4. Abstract!AddTask(t)
      BY <2>1, <2>3, <2>4, <3>3 DEF Abstract!AddTask, StatusFn, CallerOf
    <3> QED
      BY <3>4 DEF Abstract!Next
  <2> QED  BY <2>7, <2>8
<1>2. ASSUME NEW w \in Workers, Dispatch(w), PopTask(w) PROVE Abstract!Next
  <2>1. /\ pc[w] = "loop" /\ phase = "open"
        /\ UNCHANGED <<phase, stopper, fresh, done, dropped>>
    BY <1>2 DEF Dispatch, PopTask, StopInv, stopVars, taskVars
  <2>2. PICK t \in Tasks : t = Head(tasks_)
    BY <1>2 DEF PopTask, TypeOK
  <2>3. Queued(t) /\ \A u \in Tasks : Queued(u)' <=> Queued(u) /\ u # t
    BY <1>2, <2>2, QueuedAfterPop DEF PopTask, OnceInv
  <2>4. /\ Runs(w, t)'
        /\ \A v \in Workers, u \in Tasks : u # t => (Runs(v, u)' <=> Runs(v, u))
    BY <1>2, <2>1, <2>2 DEF PopTask, Runs, TypeOK
  <2>5. StatusOf(t) = "pending" /\ StatusOf(t)' = "running"
    BY <1>0, <2>3, <2>4 DEF StatusCorrect
  <2>6. \A u \in Tasks : u # t => StatusOf(u)' = StatusOf(u)
    BY <1>0, <2>1, <2>4 DEF StatusCorrect, Abstract!Status
  <2>7. /\ StatusFn' = [StatusFn EXCEPT ![t] = "running"]
        /\ StatusFn[t] = "pending"
    BY <2>5, <2>6 DEF StatusFn
  <2>8. CallerOf' = CallerOf
    BY <2>1, NumWorkersAssumption DEF StopInv, CallerOf, NoThread, Workers
  <2>9. Abstract!Cardinality(Abstract!With("running")) < NumWorkers
    BY <2>1, FreeCapacity
  <2>10. Abstract!StartTask(t)
    BY <2>1, <2>7, <2>8, <2>9, Zenon
       DEF Abstract!StartTask, StatusFn, CallerOf
  <2> QED
    BY <2>10 DEF Abstract!Next
<1>3. ASSUME NEW w \in Workers, Dispatch(w), ~PopTask(w)
      PROVE  UNCHANGED Abstract!vars
  <2>1. /\ pc[w] = "loop" /\ pc'[w] # "run"
        /\ \A v \in Workers : v # w => pc'[v] = pc[v]
        /\ UNCHANGED <<task, phase, stopper, fresh, done, dropped>>
    BY <1>3 DEF Dispatch, Wait, Leave, TypeOK, stopVars, taskVars
  <2>2. \A u \in Tasks, v \in Workers : Runs(v, u)' <=> Runs(v, u)
    BY <2>1 DEF Runs
  <2> QED
    BY <2>1, <2>2, Unseen DEF CallerOf
<1>4. ASSUME NEW w \in Workers, SpuriousWakeup(w) PROVE UNCHANGED Abstract!vars
  <2>1. \A u \in Tasks, v \in Workers : Runs(v, u)' <=> Runs(v, u)
    BY <1>4 DEF SpuriousWakeup, Runs, TypeOK
  <2> QED
    BY <1>4, <2>1, Unseen DEF SpuriousWakeup, CallerOf, stopVars, taskVars
<1>5. ASSUME NEW w \in Workers, FinishTask(w) PROVE Abstract!Next
  <2>1. PICK t \in Tasks : t = task[w]
    BY <1>5 DEF FinishTask, OnceInv
  <2>2. /\ Runs(w, t) /\ done' = done \union {t}
        /\ UNCHANGED <<task, fresh, dropped, phase, stopper>>
        /\ pc'[w] # "run" /\ \A v \in Workers : v # w => pc'[v] = pc[v]
    BY <1>5, <2>1 DEF FinishTask, Runs, TypeOK, stopVars
  <2>3. \A v \in Workers, u \in Tasks : u # t => (Runs(v, u)' <=> Runs(v, u))
    BY <2>1, <2>2 DEF Runs
  <2>4. StatusOf(t) = "running" /\ StatusOf(t)' = "done"
    BY <1>0, <2>2 DEF StatusCorrect
  <2>5. \A u \in Tasks : u # t => StatusOf(u)' = StatusOf(u)
    BY <1>0, <2>2, <2>3 DEF StatusCorrect, Abstract!Status
  <2>6. StatusFn' = [StatusFn EXCEPT ![t] = "done"] /\ StatusFn[t] = "running"
    BY <2>4, <2>5 DEF StatusFn
  <2>7. ~(phase = "stopping" /\ CallerOf = t)
    <3> SUFFICES ASSUME phase = "stopping", CallerOf = t PROVE FALSE
      OBVIOUS
    <3>1. stopper \in Workers /\ task[stopper] = t
      BY DEF CallerOf
    <3>2. Runs(stopper, t)
      BY <3>1 DEF StopInv, Runs
    <3>3. stopper = w
      BY <2>2, <3>1, <3>2 DEF OnceInv
    <3> QED
      BY <1>5, <3>3 DEF FinishTask
  <2>8. CallerOf' = CallerOf
    BY <2>2 DEF CallerOf
  <2>9. Abstract!FinishTask(t)
    BY <2>2, <2>6, <2>7, <2>8 DEF Abstract!FinishTask, StatusFn, CallerOf
  <2> QED
    BY <2>9 DEF Abstract!Next
<1>6. ASSUME NEW c \in Workers \union {External}, Stop(c)
      PROVE  [Abstract!Next]_(Abstract!vars)
  <2>1. \A w \in Workers : pc'[w] = pc[w] \/ (pc[w] = "waiting" /\ pc'[w] = "loop")
    BY <1>6, WakeFacts DEF Stop, SignalAll
  <2>2. UNCHANGED <<task, fresh, done, dropped>>
    BY <1>6 DEF Stop, taskVars
  <2>3. \A u \in Tasks, v \in Workers : Runs(v, u)' <=> Runs(v, u)
    BY <2>1, <2>2 DEF Runs
  <2>4. CASE flagstop_
    BY <1>6, <2>2, <2>3, <2>4, Unseen DEF Stop, CallerOf
  <2>5. CASE ~flagstop_
    <3>1. phase = "open" /\ phase' = "stopping" /\ stopper' = c
      BY <1>6, <2>5 DEF Stop, StopInv
    <3>2. \A u \in Tasks : StatusOf(u)' = StatusOf(u)
      BY <1>0, <2>2, <2>3 DEF StatusCorrect, Abstract!Status
    <3>3. StatusFn' = StatusFn
      BY <3>2 DEF StatusFn
    <3>4. CASE c \in Workers
      <4>1. pc[c] = "run" /\ task[c] \in Tasks
        BY <1>6, <3>4, NumWorkersAssumption
           DEF Stop, External, Workers, OnceInv
      <4>2. StatusFn[task[c]] = "running"
        BY <1>0, <3>4, <4>1 DEF StatusCorrect, Runs, StatusFn
      <4>3. CallerOf' = task[c]
        BY <2>2, <3>1, <3>4 DEF CallerOf
      <4>4. Abstract!StopCall(task[c])
        BY <3>1, <3>3, <4>1, <4>2, <4>3
           DEF Abstract!StopCall, StatusFn, CallerOf
      <4> QED
        BY <4>1, <4>4 DEF Abstract!Next
    <3>5. CASE c = External
      <4>1. CallerOf' = NULL
        BY <3>1, <3>5, NumWorkersAssumption DEF CallerOf, External, Workers
      <4>2. Abstract!StopCall(NULL)
        BY <3>1, <3>3, <4>1 DEF Abstract!StopCall, StatusFn, CallerOf
      <4> QED
        BY <4>2 DEF Abstract!Next
    <3> QED  BY <3>4, <3>5
  <2> QED  BY <2>4, <2>5
<1>7. CASE StopJoin \/ UNCHANGED vars
  <2>1. UNCHANGED <<pc, task, phase, stopper, fresh, done, dropped>>
    BY <1>7 DEF StopJoin, vars, stopVars, taskVars
  <2> QED
    BY <2>1, Unseen DEF Runs, CallerOf
<1>8. CASE StopReturn
  <2>1. /\ phase = "stopping" /\ phase' = "stopped"
        /\ UNCHANGED <<pc, task, stopper, fresh, done, dropped>>
    BY <1>8 DEF StopReturn, taskVars
  <2>2. \A u \in Tasks : StatusOf(u)' = StatusOf(u)
    BY <1>0, <2>1 DEF StatusCorrect, Abstract!Status, Runs
  <2>3. StatusFn' = StatusFn /\ CallerOf' = CallerOf
    BY <2>1, <2>2 DEF StatusFn, CallerOf
  <2>4. \A w \in Workers : w = stopper \/ pc[w] = "ended"
    BY <1>8, NumWorkersAssumption
       DEF StopReturn, LastJoin, StopInv, Workers, TypeOK
  <2>5. {t \in Tasks : StatusFn[t] = "running"} \subseteq {CallerOf}
    BY <1>0, <2>4 DEF StatusCorrect, Runs, StatusFn, CallerOf
  <2>6. Abstract!StopReturn
    BY <2>1, <2>3, <2>5 DEF Abstract!StopReturn, Abstract!With, StatusFn, CallerOf
  <2> QED
    BY <2>6 DEF Abstract!Next
<1>9. CASE Destroy
  <2>1. /\ phase = "stopped" /\ phase' = "destroyed"
        /\ UNCHANGED <<pc, task, stopper, fresh, done>>
        /\ \A u \in Tasks : u \in dropped' <=> u \in dropped \/ Queued(u)
    BY <1>9 DEF Destroy, Queued
  <2>2. \A u \in Tasks, v \in Workers : Runs(v, u)' <=> Runs(v, u)
    BY <2>1 DEF Runs
  <2>3. \A u \in Tasks :
          StatusOf(u)' = IF StatusOf(u) = "pending" THEN "dropped" ELSE StatusOf(u)
    BY <1>0, <2>1, <2>2 DEF StatusCorrect, Abstract!Status
  <2>4. StatusFn' = [t \in Tasks |->
                       IF StatusFn[t] = "pending" THEN "dropped" ELSE StatusFn[t]]
    BY <2>3 DEF StatusFn
  <2>5. CallerOf' = CallerOf
    BY <2>1 DEF CallerOf
  <2>6. Abstract!Destroy
    BY <2>1, <2>4, <2>5 DEF Abstract!Destroy, StatusFn, CallerOf
  <2> QED
    BY <2>6 DEF Abstract!Next
<1> QED
  BY <1>1, <1>2, <1>3, <1>4, <1>5, <1>6, <1>7, <1>8, <1>9
     DEF Next, Stopping, Terminated

(* A new pool is a new ThreadPool. *)
LEMMA InitSimulation == Init => Abstract!Init
<1> SUFFICES ASSUME Init PROVE Abstract!Init
  OBVIOUS
<1>1. \A t \in Tasks : StatusOf(t) = "new"
  BY DEF Init, StatusOf
<1>2. stopper \notin Workers
  BY NumWorkersAssumption DEF Init, NoThread, Workers
<1> QED
  BY <1>1, <1>2 DEF Init, Abstract!Init

(* ThreadPoolNormal is a ThreadPool, whatever the number of workers and    *)
(* however often stop() is called: a task runs at most once and is not     *)
(* lost, none begins after the first stop() returned, and that returns     *)
(* only when no task but its caller is running.                            *)
THEOREM Refinement == Spec => ImplementsThreadPool
<1>1. IInv /\ IInv' /\ [Next]_vars => [Abstract!Next]_(Abstract!vars)
  BY Simulation
<1> QED
  BY <1>1, InitSimulation, Inductive, PTL
     DEF Spec, ImplementsThreadPool, Abstract!Spec
=============================================================================
