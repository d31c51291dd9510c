------------------------ MODULE ServerShutdownProofs ------------------------
(***************************************************************************)
(* What ServerShutdown.tla promises, for any number of acceptors,          *)
(* connections, tasks and timers: when ServiceManager::run() goes on,      *)
(* stop() has completed; and a Descriptor is freed only when epoll and the *)
(* polling loop have forgotten it.                                         *)
(*                                                                         *)
(* Neither is inductive. That stop() has completed is known to run() by    *)
(* one flag, so the invariant follows the thread inside stop() through its *)
(* stages (StageInv), with what each stage leaves behind (StopInv), the    *)
(* polling loop that must have ended meanwhile (PollInv), the tasks that   *)
(* are to be joined (TaskInv) and the order in which a socket is closed    *)
(* and its Descriptor deleted (MemoryInv).                                 *)
(***************************************************************************)
EXTENDS ServerShutdown, TLAPS

(* The places inside stop(), from the closing of the first acceptor on, and *)
(* the places inside pollBody().                                           *)
Stopping ==
  {"closeFd", "del", "null", "ioStop", "ioWait", "join", "free", "setStopped"}

PollBody == {"stopped?", "epoll", "timers", "events", "collect", "endPoll"}

(* Only a running task has a place, and its callback fits the place. *)
TaskInv ==
  /\ timers <= added
  /\ \A t \in Tasks :
       /\ pc[t] # "idle" => status[t] = "running"
       /\ status[t] \in {"pending", "running"} => job[t] # NoJob
       /\ pc[t] \in {"accepted", "failed", "spin"} => job[t] \in Acceptors
       /\ pc[t] = "rearm" => job[t] \in Descs
       /\ pc[t] = "release" => job[t] \in Conns

(* The loop of pollBody(), and what it leaves behind. *)
PollInv ==
  /\ polling_ <=> main \in PollBody
  /\ main \in {"endPoll", "waitStopped", "acceptors", "pool", "exit", "gone"} =>
       ioStopped
  /\ main \in {"acceptors", "pool", "exit", "gone"} => stopped_
  /\ main \notin {"timers", "events"} => events = {}

(* A socket is closed before its Descriptor is deleted, and epoll knows    *)
(* only open sockets.                                                      *)
MemoryInv ==
  \A d \in Descs :
    /\ desc[d] \in {"deleted", "freed"} => ~open[d]
    /\ edge[d] => open[d]
    /\ desc[d] = "freed" => d \notin events

(* What became of an acceptor: each implies the one before.                *)
Closed(a)  == ~open[a]
Deleted(a) == ~open[a] /\ desc[a] \in {"deleted", "freed"}
Freed(a)   == ~open[a] /\ desc[a] = "freed"

(* How far the one thread inside stop() is. *)
StageInv ==
  \A x \in Threads :
    /\ pc[x] \in Stopping => /\ stop_requested_ /\ ~stopped_
                             /\ \A y \in Threads : pc[y] \in Stopping => y = x
    /\ pc[x] \in {"closeFd", "del", "null"} =>
         closing \in Acceptors /\ \A a \in Acceptors : a < closing => Deleted(a)
    /\ pc[x] = "del" => Closed(closing)
    /\ pc[x] = "null" => Deleted(closing)
    /\ pc[x] \in {"ioStop", "ioWait", "join", "free"} =>
         \A a \in Acceptors : Deleted(a)
    /\ pc[x] \in {"ioWait", "join", "free", "setStopped"} => ioStopped
    /\ pc[x] \in {"closeFd", "del", "null", "ioStop", "ioWait"} => phase = "open"
    /\ pc[x] = "join" => phase = "stopping"
    /\ pc[x] \in {"free", "setStopped"} => phase = "stopped"
    /\ pc[x] = "setStopped" => \A a \in Acceptors : Freed(a)

(* What the flags of stop() say about the pool and the acceptors.          *)
StopInv ==
  /\ ~stop_requested_ => ~stopped_ /\ phase = "open"
  /\ phase # "open" =>
       ioStopped /\ main \notin {"epoll", "timers", "events", "collect"}
  /\ phase \in {"stopped", "destroyed"} =>
       \A t \in Tasks : status[t] = "running" => t = caller
  /\ stopped_ => /\ phase \in {"stopped", "destroyed"}
                 /\ \A a \in Acceptors : Freed(a)

IInv == TypeOK /\ TaskInv /\ PollInv /\ MemoryInv /\ StageInv /\ StopInv

(* addTask(), as its caller sees it: a task is queued, or turned away. *)
LEMMA AddTaskFacts ==
  ASSUME NEW callback, AddTask(callback)
  PROVE  /\ \E t \in Tasks :
              /\ status[t] = "new" /\ job' = [job EXCEPT ![t] = callback]
              /\ \/ status' = [status EXCEPT ![t] = "pending"]
                 \/ status' = [status EXCEPT ![t] = "dropped"]
         /\ phase' = phase /\ caller' = caller
BY DEF AddTask, Pool!AddTask

(* The numbers of acceptors, connections and the two other jobs differ. *)
LEMMA Numbers ==
  /\ Acceptors \subseteq Descs /\ Conns \subseteq Descs
  /\ Acceptors \cap Conns = {}
  /\ TimerJob \notin Descs /\ NoJob \notin Descs /\ TimerJob # NoJob
  /\ Tasks \subseteq Threads /\ NoTask \in Threads /\ NoTask \notin Tasks
BY ShutdownAssumption DEF Acceptors, Conns, Descs, TimerJob, NoJob, Threads

(* Where stop() returns to: the callback that issued it, or, outside the   *)
(* pool, nowhere.                                                          *)
LEMMA StopReturnsFacts ==
  ASSUME TypeOK, TaskInv, NEW x \in Threads, pc[x] # "idle", StopReturns(x)
  PROVE  \E place \in {"idle", "return", "run", "release"} :
           /\ Goto(x, place)
           /\ x = NoTask => place = "idle"
           /\ x \in Tasks /\ place = "release" => job[x] \in Conns
<1>1. CASE x = NoTask
  BY <1>1, Numbers DEF StopReturns
<1>2. CASE x # NoTask
  <2>1. x \in Tasks
    BY <1>2 DEF Threads
  <2>2. job[x] \in Descs \union {TimerJob}
    BY <2>1 DEF TypeOK, TaskInv
  <2>3. CASE job[x] = TimerJob
    <3>1. Goto(x, "return")
      BY <1>2, <2>3, Numbers DEF StopReturns
    <3> QED  BY <1>2, <3>1
  <2>4. CASE job[x] \in Acceptors
    <3>1. Goto(x, "run")
      BY <1>2, <2>4, Numbers DEF StopReturns
    <3> QED  BY <1>2, <3>1
  <2>5. CASE job[x] \in Conns
    <3>1. Goto(x, "release")
      BY <1>2, <2>5, Numbers DEF StopReturns
    <3> QED  BY <1>2, <2>5, <3>1
  <2> QED
    BY <2>2, <2>3, <2>4, <2>5 DEF Descs
<1> QED  BY <1>1, <1>2

(* addTask() keeps the types of the state of the pool. *)
LEMMA AddTaskType ==
  ASSUME TypeOK, NEW callback \in Descs \union {TimerJob, NoJob}, AddTask(callback)
  PROVE  /\ status' \in [Tasks -> Pool!Status] /\ phase' = phase
         /\ caller' = caller /\ job' \in [Tasks -> Descs \union {TimerJob, NoJob}]
BY AddTaskFacts DEF TypeOK, Pool!Status

(* A flag of a Descriptor is set or reset. *)
LEMMA FlagUpdate ==
  ASSUME NEW f \in [Descs -> BOOLEAN], NEW d, NEW b \in BOOLEAN
  PROVE  [f EXCEPT ![d] = b] \in [Descs -> BOOLEAN]
BY Zenon

(* Every step keeps the tasks in order: a task has a place only while it   *)
(* runs, and its callback fits the place.                                  *)
LEMMA TaskStep ==
  ASSUME IInv, [Next]_vars
  PROVE  TaskInv'
<1> USE DEF poolVars, smVars, ioVars, sockVars, IInv, TypeOK, TaskInv,
           PollInv, descVars
<1>1. CASE Main /\ StartAccept
  BY <1>1, Numbers DEF Main, StartAccept
<1>2. CASE Main /\ Poll
  BY <1>2, Numbers DEF Main, Poll
<1>3. CASE Main /\ CheckStopped
  BY <1>3, Numbers DEF Main, CheckStopped
<1>4. CASE Main /\ EpollWait
  BY <1>4, Numbers DEF Main, EpollWait
<1>5. CASE Main /\ IssueTimers
  BY <1>5, Numbers, AddTaskFacts DEF Main, IssueTimers
<1>6. CASE Main /\ HandleEvents
  BY <1>6, Numbers, AddTaskFacts DEF Main, HandleEvents, ReadIfWaiting
<1>7. CASE Main /\ Collect
  BY <1>7, Numbers DEF Main, Collect, FreeDeleted
<1>8. CASE Main /\ EndPoll
  BY <1>8, Numbers DEF Main, EndPoll, PollingOver
<1>9. CASE Main /\ WaitStopped
  BY <1>9, Numbers DEF Main, WaitStopped, StopCompleted
<1>10. CASE Main /\ DeleteAcceptors
  BY <1>10, Numbers DEF Main, DeleteAcceptors
<1>11. CASE Main /\ DeleteIOManager
  BY <1>11, Numbers DEF Main, DeleteIOManager, Pool!Destroy
<1>12. CASE OutsideStop
  BY <1>12, Numbers DEF OutsideStop, Goto, mainVars
<1>13. ASSUME NEW x \in Threads, StopSteps(x), Stop(x)
      PROVE  TaskInv'
  BY <1>13, Numbers DEF StopSteps, Stop, Goto, mainVars
<1>14. ASSUME NEW x \in Threads, StopSteps(x), StopWait(x)
      PROVE  TaskInv'
  <2>1. PICK place \in {"idle", "return", "run", "release"} :
          /\ Goto(x, place)
          /\ x = NoTask => place = "idle"
          /\ x \in Tasks /\ place = "release" => job[x] \in Conns
    BY <1>14, StopReturnsFacts DEF StopWait
  <2> QED
    BY <1>14, <2>1, Numbers DEF StopWait, Goto
<1>15. ASSUME NEW x \in Threads, StopSteps(x), CloseAcceptor(x)
      PROVE  TaskInv'
  BY <1>15, Numbers DEF StopSteps, CloseAcceptor, Goto, CloseStep, CloseFd,
     DelDescriptor, ClearPointer, MoreAcceptors, mainVars
<1>16. ASSUME NEW x \in Threads, StopSteps(x), IOStop(x)
      PROVE  TaskInv'
  BY <1>16, Numbers DEF StopSteps, IOStop, Goto, mainVars
<1>17. ASSUME NEW x \in Threads, StopSteps(x), IOWait(x)
      PROVE  TaskInv'
  BY <1>17, Numbers DEF StopSteps, IOWait, Goto, PollingEnded,
     Pool!StopCall, mainVars
<1>18. ASSUME NEW x \in Threads, StopSteps(x), PoolStopped(x)
      PROVE  TaskInv'
  BY <1>18, Numbers DEF StopSteps, PoolStopped, Goto, Pool!StopReturn,
     Pool!With, mainVars
<1>19. ASSUME NEW x \in Threads, StopSteps(x), FreeRest(x)
      PROVE  TaskInv'
  BY <1>19, Numbers DEF StopSteps, FreeRest, Goto, FreeDeleted, mainVars
<1>20. ASSUME NEW x \in Threads, StopSteps(x), SetStopped(x)
      PROVE  TaskInv'
  <2>1. PICK place \in {"idle", "return", "run", "release"} :
          /\ Goto(x, place)
          /\ x = NoTask => place = "idle"
          /\ x \in Tasks /\ place = "release" => job[x] \in Conns
    BY <1>20, StopReturnsFacts DEF SetStopped
  <2> QED
    BY <1>20, <2>1, Numbers DEF SetStopped, Goto
<1>21. ASSUME NEW t \in Tasks, TaskSteps(t), Start(t)
      PROVE  TaskInv'
  BY <1>21, Numbers DEF TaskSteps, Start, Goto, Pool!StartTask, mainVars
<1>22. ASSUME NEW t \in Tasks, TaskSteps(t), Accept(t)
      PROVE  TaskInv'
  BY <1>22, Numbers DEF TaskSteps, Accept, Goto, mainVars
<1>23. ASSUME NEW t \in Tasks, TaskSteps(t), AcceptConnection(t)
      PROVE  TaskInv'
  BY <1>23, Numbers DEF TaskSteps, AcceptConnection, Goto, mainVars
<1>24. ASSUME NEW t \in Tasks, TaskSteps(t), AcceptFailed(t)
      PROVE  TaskInv'
  BY <1>24, Numbers DEF TaskSteps, AcceptFailed, Goto, mainVars
<1>25. ASSUME NEW t \in Tasks, TaskSteps(t), HandleRequest(t)
      PROVE  TaskInv'
  BY <1>25, Numbers DEF TaskSteps, HandleRequest, Goto, mainVars
<1>26. ASSUME NEW t \in Tasks, TaskSteps(t), Rearm(t)
      PROVE  TaskInv'
  BY <1>26, Numbers, AddTaskFacts DEF TaskSteps, Rearm, Goto, mainVars
<1>27. ASSUME NEW t \in Tasks, TaskSteps(t), ReleaseConnection(t)
      PROVE  TaskInv'
  BY <1>27, Numbers DEF TaskSteps, ReleaseConnection, Goto, mainVars
<1>28. ASSUME NEW t \in Tasks, TaskSteps(t), Check(t)
      PROVE  TaskInv'
  BY <1>28, Numbers DEF TaskSteps, Check, Goto, mainVars
<1>29. ASSUME NEW t \in Tasks, TaskSteps(t), Return(t)
      PROVE  TaskInv'
  BY <1>29, Numbers DEF TaskSteps, Return, Goto, Pool!FinishTask, mainVars
<1>30. CASE Crash
  BY <1>30, Numbers DEF Crash, mainVars
<1>31. ASSUME NEW d \in Descs, Arrive(d)
      PROVE  TaskInv'
  BY <1>31, Numbers DEF Arrive, mainVars
<1>32. CASE UNCHANGED vars
  BY <1>32 DEF vars, mainVars
<1>33. CASE Main /\ Exit
  BY <1>33, Numbers DEF Main, Exit
<1> QED
  BY <1>1, <1>2, <1>3, <1>4, <1>5, <1>6, <1>7, <1>8, <1>9, <1>10, <1>11,
     <1>12, <1>13, <1>14, <1>15, <1>16, <1>17, <1>18, <1>19, <1>20, <1>21,
     <1>22, <1>23, <1>24, <1>25, <1>26, <1>27, <1>28, <1>29, <1>30, <1>31,
     <1>32, <1>33 DEF Next, Main, StopSteps, TaskSteps

(* Every step keeps the polling loop in order: pollBody() runs between     *)
(* poll() and the last test of the flag, and run() goes on only when both  *)
(* that and stop() are over.                                               *)
LEMMA PollStep ==
  ASSUME IInv, [Next]_vars
  PROVE  PollInv'
<1> USE DEF poolVars, smVars, ioVars, sockVars, IInv, TypeOK, TaskInv,
           PollInv, PollBody, StopInv, descVars
<1>1. CASE Main /\ StartAccept
  BY <1>1, Numbers DEF Main, StartAccept
<1>2. CASE Main /\ Poll
  BY <1>2, Numbers DEF Main, Poll
<1>3. CASE Main /\ CheckStopped
  BY <1>3, Numbers DEF Main, CheckStopped
<1>4. CASE Main /\ EpollWait
  BY <1>4, Numbers DEF Main, EpollWait
<1>5. CASE Main /\ IssueTimers
  BY <1>5, Numbers, AddTaskFacts DEF Main, IssueTimers
<1>6. CASE Main /\ HandleEvents
  BY <1>6, Numbers, AddTaskFacts DEF Main, HandleEvents, ReadIfWaiting
<1>7. CASE Main /\ Collect
  BY <1>7, Numbers DEF Main, Collect, FreeDeleted
<1>8. CASE Main /\ EndPoll
  BY <1>8, Numbers DEF Main, EndPoll, PollingOver
<1>9. CASE Main /\ WaitStopped
  BY <1>9, Numbers DEF Main, WaitStopped, StopCompleted
<1>10. CASE Main /\ DeleteAcceptors
  BY <1>10, Numbers DEF Main, DeleteAcceptors
<1>11. CASE Main /\ DeleteIOManager
  BY <1>11, Numbers DEF Main, DeleteIOManager, Pool!Destroy
<1>12. CASE OutsideStop
  BY <1>12, Numbers DEF OutsideStop, Goto, mainVars
<1>13. ASSUME NEW x \in Threads, StopSteps(x), Stop(x)
      PROVE  PollInv'
  BY <1>13, Numbers DEF StopSteps, Stop, Goto, mainVars
<1>14. ASSUME NEW x \in Threads, StopSteps(x), StopWait(x)
      PROVE  PollInv'
  BY <1>14, Numbers DEF StopSteps, StopWait, Goto, StopReturns, mainVars
<1>15. ASSUME NEW x \in Threads, StopSteps(x), CloseAcceptor(x)
      PROVE  PollInv'
  BY <1>15, Numbers DEF StopSteps, CloseAcceptor, Goto, CloseStep, CloseFd,
     DelDescriptor, ClearPointer, MoreAcceptors, mainVars
<1>16. ASSUME NEW x \in Threads, StopSteps(x), IOStop(x)
      PROVE  PollInv'
  BY <1>16, Numbers DEF StopSteps, IOStop, Goto, mainVars
<1>17. ASSUME NEW x \in Threads, StopSteps(x), IOWait(x)
      PROVE  PollInv'
  BY <1>17, Numbers DEF StopSteps, IOWait, Goto, PollingEnded,
     Pool!StopCall, mainVars
<1>18. ASSUME NEW x \in Threads, StopSteps(x), PoolStopped(x)
      PROVE  PollInv'
  BY <1>18, Numbers DEF StopSteps, PoolStopped, Goto, Pool!StopReturn,
     Pool!With, mainVars
<1>19. ASSUME NEW x \in Threads, StopSteps(x), FreeRest(x)
      PROVE  PollInv'
  BY <1>19, Numbers DEF StopSteps, FreeRest, Goto, FreeDeleted, mainVars
<1>20. ASSUME NEW x \in Threads, StopSteps(x), SetStopped(x)
      PROVE  PollInv'
  BY <1>20, Numbers DEF StopSteps, SetStopped, Goto, StopReturns, mainVars
<1>21. ASSUME NEW t \in Tasks, TaskSteps(t), Start(t)
      PROVE  PollInv'
  BY <1>21, Numbers DEF TaskSteps, Start, Goto, Pool!StartTask, mainVars
<1>22. ASSUME NEW t \in Tasks, TaskSteps(t), Accept(t)
      PROVE  PollInv'
  BY <1>22, Numbers DEF TaskSteps, Accept, Goto, mainVars
<1>23. ASSUME NEW t \in Tasks, TaskSteps(t), AcceptConnection(t)
      PROVE  PollInv'
  BY <1>23, Numbers DEF TaskSteps, AcceptConnection, Goto, mainVars
<1>24. ASSUME NEW t \in Tasks, TaskSteps(t), AcceptFailed(t)
      PROVE  PollInv'
  BY <1>24, Numbers DEF TaskSteps, AcceptFailed, Goto, mainVars
<1>25. ASSUME NEW t \in Tasks, TaskSteps(t), HandleRequest(t)
      PROVE  PollInv'
  BY <1>25, Numbers DEF TaskSteps, HandleRequest, Goto, mainVars
<1>26. ASSUME NEW t \in Tasks, TaskSteps(t), Rearm(t)
      PROVE  PollInv'
  BY <1>26, Numbers, AddTaskFacts DEF TaskSteps, Rearm, Goto, mainVars
<1>27. ASSUME NEW t \in Tasks, TaskSteps(t), ReleaseConnection(t)
      PROVE  PollInv'
  BY <1>27, Numbers DEF TaskSteps, ReleaseConnection, Goto, mainVars
<1>28. ASSUME NEW t \in Tasks, TaskSteps(t), Check(t)
      PROVE  PollInv'
  BY <1>28, Numbers DEF TaskSteps, Check, Goto, mainVars
<1>29. ASSUME NEW t \in Tasks, TaskSteps(t), Return(t)
      PROVE  PollInv'
  BY <1>29, Numbers DEF TaskSteps, Return, Goto, Pool!FinishTask, mainVars
<1>30. CASE Crash
  BY <1>30, Numbers DEF Crash, mainVars
<1>31. ASSUME NEW d \in Descs, Arrive(d)
      PROVE  PollInv'
  BY <1>31, Numbers DEF Arrive, mainVars
<1>32. CASE UNCHANGED vars
  BY <1>32 DEF vars, mainVars
<1>33. CASE Main /\ Exit
  BY <1>33, Numbers DEF Main, Exit
<1> QED
  BY <1>1, <1>2, <1>3, <1>4, <1>5, <1>6, <1>7, <1>8, <1>9, <1>10, <1>11,
     <1>12, <1>13, <1>14, <1>15, <1>16, <1>17, <1>18, <1>19, <1>20, <1>21,
     <1>22, <1>23, <1>24, <1>25, <1>26, <1>27, <1>28, <1>29, <1>30, <1>31,
     <1>32, <1>33 DEF Next, Main, StopSteps, TaskSteps

(* Every step keeps the order of a close: the socket, then the Descriptor, *)
(* and at last the memory, when no event names it.                         *)
LEMMA MemoryStep ==
  ASSUME IInv, [Next]_vars
  PROVE  MemoryInv'
<1> USE DEF poolVars, smVars, ioVars, sockVars, IInv, TypeOK, PollInv,
           MemoryInv, StageInv, StopInv, Closed, PollBody, descVars
<1>1. CASE Main /\ StartAccept
  BY <1>1, Numbers DEF Main, StartAccept
<1>2. CASE Main /\ Poll
  BY <1>2, Numbers DEF Main, Poll
<1>3. CASE Main /\ CheckStopped
  BY <1>3, Numbers DEF Main, CheckStopped
<1>4. CASE Main /\ EpollWait
  BY <1>4, Numbers DEF Main, EpollWait
<1>5. CASE Main /\ IssueTimers
  BY <1>5, Numbers, AddTaskFacts DEF Main, IssueTimers
<1>6. CASE Main /\ HandleEvents
  BY <1>6, Numbers, AddTaskFacts DEF Main, HandleEvents, ReadIfWaiting
<1>7. CASE Main /\ Collect
  BY <1>7, Numbers DEF Main, Collect, FreeDeleted
<1>8. CASE Main /\ EndPoll
  BY <1>8, Numbers DEF Main, EndPoll, PollingOver
<1>9. CASE Main /\ WaitStopped
  BY <1>9, Numbers DEF Main, WaitStopped, StopCompleted
<1>10. CASE Main /\ DeleteAcceptors
  BY <1>10, Numbers DEF Main, DeleteAcceptors
<1>11. CASE Main /\ DeleteIOManager
  BY <1>11, Numbers DEF Main, DeleteIOManager, Pool!Destroy
<1>12. CASE OutsideStop
  BY <1>12, Numbers DEF OutsideStop, Goto, mainVars
<1>13. ASSUME NEW x \in Threads, StopSteps(x), Stop(x)
      PROVE  MemoryInv'
  BY <1>13, Numbers DEF StopSteps, Stop, Goto, mainVars
<1>14. ASSUME NEW x \in Threads, StopSteps(x), StopWait(x)
      PROVE  MemoryInv'
  BY <1>14, Numbers DEF StopSteps, StopWait, Goto, StopReturns, mainVars
<1>15. ASSUME NEW x \in Threads, StopSteps(x), CloseAcceptor(x)
      PROVE  MemoryInv'
  BY ZenonT(40), <1>15, Numbers DEF StopSteps, CloseAcceptor, Goto, CloseStep, CloseFd,
     DelDescriptor, ClearPointer, MoreAcceptors, mainVars
<1>16. ASSUME NEW x \in Threads, StopSteps(x), IOStop(x)
      PROVE  MemoryInv'
  BY <1>16, Numbers DEF StopSteps, IOStop, Goto, mainVars
<1>17. ASSUME NEW x \in Threads, StopSteps(x), IOWait(x)
      PROVE  MemoryInv'
  BY <1>17, Numbers DEF StopSteps, IOWait, Goto, PollingEnded,
     Pool!StopCall, mainVars
<1>18. ASSUME NEW x \in Threads, StopSteps(x), PoolStopped(x)
      PROVE  MemoryInv'
  BY <1>18, Numbers DEF StopSteps, PoolStopped, Goto, Pool!StopReturn,
     Pool!With, mainVars
<1>19. ASSUME NEW x \in Threads, StopSteps(x), FreeRest(x)
      PROVE  MemoryInv'
  BY <1>19, Numbers DEF StopSteps, FreeRest, Goto, FreeDeleted, mainVars
<1>20. ASSUME NEW x \in Threads, StopSteps(x), SetStopped(x)
      PROVE  MemoryInv'
  BY <1>20, Numbers DEF StopSteps, SetStopped, Goto, StopReturns, mainVars
<1>21. ASSUME NEW t \in Tasks, TaskSteps(t), Start(t)
      PROVE  MemoryInv'
  BY <1>21, Numbers DEF TaskSteps, Start, Goto, Pool!StartTask, mainVars
<1>22. ASSUME NEW t \in Tasks, TaskSteps(t), Accept(t)
      PROVE  MemoryInv'
  BY <1>22, Numbers DEF TaskSteps, Accept, Goto, mainVars
<1>23. ASSUME NEW t \in Tasks, TaskSteps(t), AcceptConnection(t)
      PROVE  MemoryInv'
  BY <1>23, Numbers DEF TaskSteps, AcceptConnection, Goto, mainVars
<1>24. ASSUME NEW t \in Tasks, TaskSteps(t), AcceptFailed(t)
      PROVE  MemoryInv'
  BY <1>24, Numbers DEF TaskSteps, AcceptFailed, Goto, mainVars
<1>25. ASSUME NEW t \in Tasks, TaskSteps(t), HandleRequest(t)
      PROVE  MemoryInv'
  BY <1>25, Numbers DEF TaskSteps, HandleRequest, Goto, mainVars
<1>26. ASSUME NEW t \in Tasks, TaskSteps(t), Rearm(t)
      PROVE  MemoryInv'
  BY <1>26, Numbers, AddTaskFacts DEF TaskSteps, Rearm, Goto, mainVars
<1>27. ASSUME NEW t \in Tasks, TaskSteps(t), ReleaseConnection(t)
      PROVE  MemoryInv'
  BY <1>27, Numbers DEF TaskSteps, ReleaseConnection, Goto, mainVars
<1>28. ASSUME NEW t \in Tasks, TaskSteps(t), Check(t)
      PROVE  MemoryInv'
  BY <1>28, Numbers DEF TaskSteps, Check, Goto, mainVars
<1>29. ASSUME NEW t \in Tasks, TaskSteps(t), Return(t)
      PROVE  MemoryInv'
  BY <1>29, Numbers DEF TaskSteps, Return, Goto, Pool!FinishTask, mainVars
<1>30. CASE Crash
  BY <1>30, Numbers DEF Crash, mainVars
<1>31. ASSUME NEW d \in Descs, Arrive(d)
      PROVE  MemoryInv'
  BY <1>31, Numbers DEF Arrive, mainVars
<1>32. CASE UNCHANGED vars
  BY <1>32 DEF vars, mainVars
<1>33. CASE Main /\ Exit
  BY <1>33, Numbers DEF Main, Exit
<1> QED
  BY <1>1, <1>2, <1>3, <1>4, <1>5, <1>6, <1>7, <1>8, <1>9, <1>10, <1>11,
     <1>12, <1>13, <1>14, <1>15, <1>16, <1>17, <1>18, <1>19, <1>20, <1>21,
     <1>22, <1>23, <1>24, <1>25, <1>26, <1>27, <1>28, <1>29, <1>30, <1>31,
     <1>32, <1>33 DEF Next, Main, StopSteps, TaskSteps

(* Every step keeps what stop() has reached so far. *)
LEMMA StopStep ==
  ASSUME IInv, [Next]_vars
  PROVE  StopInv'
<1> USE DEF poolVars, smVars, ioVars, sockVars, IInv, TypeOK, TaskInv,
           PollInv, PollBody, StageInv, StopInv, Freed, Stopping, descVars
<1>1. CASE Main /\ StartAccept
  BY <1>1, Numbers DEF Main, StartAccept
<1>2. CASE Main /\ Poll
  BY <1>2, Numbers DEF Main, Poll
<1>3. CASE Main /\ CheckStopped
  BY <1>3, Numbers DEF Main, CheckStopped
<1>4. CASE Main /\ EpollWait
  BY <1>4, Numbers DEF Main, EpollWait
<1>5. CASE Main /\ IssueTimers
  BY <1>5, Numbers, AddTaskFacts DEF Main, IssueTimers
<1>6. CASE Main /\ HandleEvents
  BY <1>6, Numbers, AddTaskFacts DEF Main, HandleEvents, ReadIfWaiting
<1>7. CASE Main /\ Collect
  BY <1>7, Numbers DEF Main, Collect, FreeDeleted
<1>8. CASE Main /\ EndPoll
  BY <1>8, Numbers DEF Main, EndPoll, PollingOver
<1>9. CASE Main /\ WaitStopped
  BY <1>9, Numbers DEF Main, WaitStopped, StopCompleted
<1>10. CASE Main /\ DeleteAcceptors
  BY <1>10, Numbers DEF Main, DeleteAcceptors
<1>11. CASE Main /\ DeleteIOManager
  BY <1>11, Numbers DEF Main, DeleteIOManager, Pool!Destroy
<1>12. CASE OutsideStop
  BY <1>12, Numbers DEF OutsideStop, Goto, mainVars
<1>13. ASSUME NEW x \in Threads, StopSteps(x), Stop(x)
      PROVE  StopInv'
  BY <1>13, Numbers DEF StopSteps, Stop, Goto, mainVars
<1>14. ASSUME NEW x \in Threads, StopSteps(x), StopWait(x)
      PROVE  StopInv'
  BY <1>14, Numbers DEF StopSteps, StopWait, Goto, StopReturns, mainVars
<1>15. ASSUME NEW x \in Threads, StopSteps(x), CloseAcceptor(x)
      PROVE  StopInv'
  BY <1>15, Numbers DEF StopSteps, CloseAcceptor, Goto, CloseStep, CloseFd,
     DelDescriptor, ClearPointer, MoreAcceptors, mainVars
<1>16. ASSUME NEW x \in Threads, StopSteps(x), IOStop(x)
      PROVE  StopInv'
  BY <1>16, Numbers DEF StopSteps, IOStop, Goto, mainVars
<1>17. ASSUME NEW x \in Threads, StopSteps(x), IOWait(x)
      PROVE  StopInv'
  BY <1>17, Numbers DEF StopSteps, IOWait, Goto, PollingEnded,
     Pool!StopCall, mainVars
<1>18. ASSUME NEW x \in Threads, StopSteps(x), PoolStopped(x)
      PROVE  StopInv'
  BY <1>18, Numbers DEF StopSteps, PoolStopped, Goto, Pool!StopReturn,
     Pool!With, mainVars
<1>19. ASSUME NEW x \in Threads, StopSteps(x), FreeRest(x)
      PROVE  StopInv'
  BY <1>19, Numbers DEF StopSteps, FreeRest, Goto, FreeDeleted, mainVars
<1>20. ASSUME NEW x \in Threads, StopSteps(x), SetStopped(x)
      PROVE  StopInv'
  BY <1>20, Numbers DEF StopSteps, SetStopped, Goto, StopReturns, mainVars
<1>21. ASSUME NEW t \in Tasks, TaskSteps(t), Start(t)
      PROVE  StopInv'
  BY <1>21, Numbers DEF TaskSteps, Start, Goto, Pool!StartTask, mainVars
<1>22. ASSUME NEW t \in Tasks, TaskSteps(t), Accept(t)
      PROVE  StopInv'
  BY <1>22, Numbers DEF TaskSteps, Accept, Goto, mainVars
<1>23. ASSUME NEW t \in Tasks, TaskSteps(t), AcceptConnection(t)
      PROVE  StopInv'
  BY <1>23, Numbers DEF TaskSteps, AcceptConnection, Goto, mainVars
<1>24. ASSUME NEW t \in Tasks, TaskSteps(t), AcceptFailed(t)
      PROVE  StopInv'
  BY <1>24, Numbers DEF TaskSteps, AcceptFailed, Goto, mainVars
<1>25. ASSUME NEW t \in Tasks, TaskSteps(t), HandleRequest(t)
      PROVE  StopInv'
  BY <1>25, Numbers DEF TaskSteps, HandleRequest, Goto, mainVars
<1>26. ASSUME NEW t \in Tasks, TaskSteps(t), Rearm(t)
      PROVE  StopInv'
  BY <1>26, Numbers, AddTaskFacts DEF TaskSteps, Rearm, Goto, mainVars
<1>27. ASSUME NEW t \in Tasks, TaskSteps(t), ReleaseConnection(t)
      PROVE  StopInv'
  BY <1>27, Numbers DEF TaskSteps, ReleaseConnection, Goto, mainVars
<1>28. ASSUME NEW t \in Tasks, TaskSteps(t), Check(t)
      PROVE  StopInv'
  BY <1>28, Numbers DEF TaskSteps, Check, Goto, mainVars
<1>29. ASSUME NEW t \in Tasks, TaskSteps(t), Return(t)
      PROVE  StopInv'
  BY <1>29, Numbers DEF TaskSteps, Return, Goto, Pool!FinishTask, mainVars
<1>30. CASE Crash
  BY <1>30, Numbers DEF Crash, mainVars
<1>31. ASSUME NEW d \in Descs, Arrive(d)
      PROVE  StopInv'
  BY <1>31, Numbers DEF Arrive, mainVars
<1>32. CASE UNCHANGED vars
  BY <1>32 DEF vars, mainVars
<1>33. CASE Main /\ Exit
  BY <1>33, Numbers DEF Main, Exit
<1> QED
  BY <1>1, <1>2, <1>3, <1>4, <1>5, <1>6, <1>7, <1>8, <1>9, <1>10, <1>11,
     <1>12, <1>13, <1>14, <1>15, <1>16, <1>17, <1>18, <1>19, <1>20, <1>21,
     <1>22, <1>23, <1>24, <1>25, <1>26, <1>27, <1>28, <1>29, <1>30, <1>31,
     <1>32, <1>33 DEF Next, Main, StopSteps, TaskSteps

(* Every step keeps the one thread inside stop() in its stages: each       *)
(* acceptor is closed and deleted in turn, the polling loop is over before *)
(* the pool is joined, and the pool is joined before the Descriptors are   *)
(* freed.                                                                  *)
LEMMA StageStep ==
  ASSUME IInv, [Next]_vars
  PROVE  StageInv'
<1> USE DEF poolVars, smVars, ioVars, sockVars, IInv, TypeOK, TaskInv,
           PollInv, PollBody, StageInv, StopInv, Freed, Deleted, Closed,
           Stopping, descVars
<1>1. CASE Main /\ StartAccept
  BY <1>1, Numbers DEF Main, StartAccept
<1>2. CASE Main /\ Poll
  BY <1>2, Numbers DEF Main, Poll
<1>3. CASE Main /\ CheckStopped
  BY <1>3, Numbers DEF Main, CheckStopped
<1>4. CASE Main /\ EpollWait
  BY <1>4, Numbers DEF Main, EpollWait
<1>5. CASE Main /\ IssueTimers
  BY <1>5, Numbers, AddTaskFacts DEF Main, IssueTimers
<1>6. CASE Main /\ HandleEvents
  BY <1>6, Numbers, AddTaskFacts DEF Main, HandleEvents, ReadIfWaiting
<1>7. CASE Main /\ Collect
  BY <1>7, Numbers DEF Main, Collect, FreeDeleted
<1>8. CASE Main /\ EndPoll
  BY <1>8, Numbers DEF Main, EndPoll, PollingOver
<1>9. CASE Main /\ WaitStopped
  BY <1>9, Numbers DEF Main, WaitStopped, StopCompleted
<1>10. CASE Main /\ DeleteAcceptors
  BY <1>10, Numbers DEF Main, DeleteAcceptors
<1>11. CASE Main /\ DeleteIOManager
  BY <1>11, Numbers DEF Main, DeleteIOManager, Pool!Destroy
<1>12. CASE OutsideStop
  BY <1>12, Numbers DEF OutsideStop, Goto, mainVars
<1>13. ASSUME NEW x \in Threads, StopSteps(x), Stop(x)
      PROVE  StageInv'
  <2>1. CASE stop_requested_
    BY <1>13, <2>1 DEF Stop, Goto
  <2>2. CASE ~stop_requested_
    <3>1. \A y \in Threads : pc[y] \notin Stopping
      BY <2>2
    <3>2. /\ pc'[x] = "closeFd" /\ \A y \in Threads : y # x => pc'[y] = pc[y]
          /\ closing' = 1 /\ stop_requested_'
          /\ stopped_' = stopped_ /\ phase' = phase
      BY <1>13, <2>2 DEF Stop, Goto
    <3>3. 1 \in Acceptors /\ \A a \in Acceptors : ~(a < 1)
      BY ShutdownAssumption DEF Acceptors
    <3>4. ~stopped_ /\ phase = "open"
      BY <2>2
    <3> QED
      BY <3>1, <3>2, <3>3, <3>4
  <2> QED  BY <2>1, <2>2
<1>14. ASSUME NEW x \in Threads, StopSteps(x), StopWait(x)
      PROVE  StageInv'
  <2>1. PICK place \in {"idle", "return", "run", "release"} :
          /\ Goto(x, place)
          /\ x = NoTask => place = "idle"
          /\ x \in Tasks /\ place = "release" => job[x] \in Conns
    BY <1>14, StopReturnsFacts DEF StopWait
  <2> QED
    BY <1>14, <2>1, Numbers DEF StopWait, Goto
<1>15. ASSUME NEW x \in Threads, StopSteps(x), CloseAcceptor(x)
      PROVE  StageInv'
  <2>1. /\ pc[x] \in Stopping /\ closing \in Acceptors
        /\ stop_requested_ /\ ~stopped_ /\ phase = "open"
        /\ \A y \in Threads : pc[y] \in Stopping => y = x
    BY <1>15 DEF CloseAcceptor
  <2>2. /\ stop_requested_' = stop_requested_ /\ stopped_' = stopped_
        /\ phase' = phase
        /\ \A y \in Threads : y # x => pc'[y] = pc[y]
        /\ ioStopped' = ioStopped
    BY <1>15 DEF CloseAcceptor, Goto
  <2>3. CASE pc[x] = "closeFd"
    <3>1. CloseFd(closing) /\ closing' = closing /\ Goto(x, "del")
      BY <1>15, <2>3 DEF CloseAcceptor, CloseStep
    <3>2. \A a \in Acceptors : Deleted(a) => Deleted(a)'
      BY <2>1, <3>1, Numbers DEF CloseFd
    <3>3. Closed(closing)'
      BY <2>1, <3>1, Numbers DEF CloseFd
    <3> QED
      BY <2>1, <2>2, <2>3, <3>1, <3>2, <3>3 DEF Goto
  <2>4. CASE pc[x] = "del"
    <3>1. DelDescriptor(closing) /\ closing' = closing /\ Goto(x, "null")
      BY <1>15, <2>4 DEF CloseAcceptor, CloseStep
    <3>2. \A a \in Acceptors : Deleted(a) => Deleted(a)'
      BY <2>1, <3>1, Numbers DEF DelDescriptor
    <3>3. Deleted(closing)'
      BY <2>1, <2>4, <3>1, Numbers DEF DelDescriptor
    <3> QED
      BY <2>1, <2>2, <2>4, <3>1, <3>2, <3>3 DEF Goto
  <2>5. CASE pc[x] = "null"
    <3>1. ClearPointer(closing)
      BY <1>15, <2>5 DEF CloseAcceptor, CloseStep
    <3>2. \A a \in Acceptors : Deleted(a) => Deleted(a)'
      BY <3>1 DEF ClearPointer
    <3>3. \A a \in Acceptors : a < closing + 1 => Deleted(a)
      BY <2>1, <2>5 DEF Acceptors
    <3>4. CASE MoreAcceptors
      <4>1. closing' = closing + 1 /\ Goto(x, "closeFd")
        BY <1>15, <2>5, <3>4 DEF CloseAcceptor
      <4>2. closing' \in Acceptors
        BY <2>1, <3>4, <4>1, ShutdownAssumption DEF MoreAcceptors, Acceptors
      <4> QED
        BY <2>1, <2>2, <3>2, <3>3, <4>1, <4>2 DEF Goto
    <3>5. CASE ~MoreAcceptors
      <4>1. closing' = closing /\ Goto(x, "ioStop")
        BY <1>15, <2>5, <3>5 DEF CloseAcceptor
      <4>2. \A a \in Acceptors : a < closing + 1
        BY <2>1, <3>5, ShutdownAssumption DEF MoreAcceptors, Acceptors
      <4> QED
        BY <2>1, <2>2, <3>2, <3>3, <4>1, <4>2 DEF Goto
    <3> QED  BY <3>4, <3>5
  <2> QED
    BY <1>15, <2>3, <2>4, <2>5 DEF CloseAcceptor
<1>16. ASSUME NEW x \in Threads, StopSteps(x), IOStop(x)
      PROVE  StageInv'
  BY <1>16, Numbers DEF StopSteps, IOStop, Goto, mainVars
<1>17. ASSUME NEW x \in Threads, StopSteps(x), IOWait(x)
      PROVE  StageInv'
  BY <1>17, Numbers DEF StopSteps, IOWait, Goto, PollingEnded,
     Pool!StopCall, mainVars
<1>18. ASSUME NEW x \in Threads, StopSteps(x), PoolStopped(x)
      PROVE  StageInv'
  BY <1>18, Numbers DEF StopSteps, PoolStopped, Goto, Pool!StopReturn,
     Pool!With, mainVars
<1>19. ASSUME NEW x \in Threads, StopSteps(x), FreeRest(x)
      PROVE  StageInv'
  BY <1>19, Numbers DEF StopSteps, FreeRest, Goto, FreeDeleted, mainVars
<1>20. ASSUME NEW x \in Threads, StopSteps(x), SetStopped(x)
      PROVE  StageInv'
  <2>1. PICK place \in {"idle", "return", "run", "release"} :
          /\ Goto(x, place)
          /\ x = NoTask => place = "idle"
          /\ x \in Tasks /\ place = "release" => job[x] \in Conns
    BY <1>20, StopReturnsFacts DEF SetStopped
  <2> QED
    BY <1>20, <2>1, Numbers DEF SetStopped, Goto
<1>21. ASSUME NEW t \in Tasks, TaskSteps(t), Start(t)
      PROVE  StageInv'
  BY <1>21, Numbers DEF TaskSteps, Start, Goto, Pool!StartTask, mainVars
<1>22. ASSUME NEW t \in Tasks, TaskSteps(t), Accept(t)
      PROVE  StageInv'
  BY <1>22, Numbers DEF TaskSteps, Accept, Goto, mainVars
<1>23. ASSUME NEW t \in Tasks, TaskSteps(t), AcceptConnection(t)
      PROVE  StageInv'
  BY <1>23, Numbers DEF TaskSteps, AcceptConnection, Goto, mainVars
<1>24. ASSUME NEW t \in Tasks, TaskSteps(t), AcceptFailed(t)
      PROVE  StageInv'
  BY <1>24, Numbers DEF TaskSteps, AcceptFailed, Goto, mainVars
<1>25. ASSUME NEW t \in Tasks, TaskSteps(t), HandleRequest(t)
      PROVE  StageInv'
  BY <1>25, Numbers DEF TaskSteps, HandleRequest, Goto, mainVars
<1>26. ASSUME NEW t \in Tasks, TaskSteps(t), Rearm(t)
      PROVE  StageInv'
  BY <1>26, Numbers, AddTaskFacts DEF TaskSteps, Rearm, Goto, mainVars
<1>27. ASSUME NEW t \in Tasks, TaskSteps(t), ReleaseConnection(t)
      PROVE  StageInv'
  BY <1>27, Numbers DEF TaskSteps, ReleaseConnection, Goto, mainVars
<1>28. ASSUME NEW t \in Tasks, TaskSteps(t), Check(t)
      PROVE  StageInv'
  BY <1>28, Numbers DEF TaskSteps, Check, Goto, mainVars
<1>29. ASSUME NEW t \in Tasks, TaskSteps(t), Return(t)
      PROVE  StageInv'
  BY <1>29, Numbers DEF TaskSteps, Return, Goto, Pool!FinishTask, mainVars
<1>30. CASE Crash
  BY <1>30, Numbers DEF Crash, mainVars
<1>31. ASSUME NEW d \in Descs, Arrive(d)
      PROVE  StageInv'
  BY <1>31, Numbers DEF Arrive, mainVars
<1>32. CASE UNCHANGED vars
  BY <1>32 DEF vars, mainVars
<1>33. CASE Main /\ Exit
  BY <1>33, Numbers DEF Main, Exit
<1> QED
  BY <1>1, <1>2, <1>3, <1>4, <1>5, <1>6, <1>7, <1>8, <1>9, <1>10, <1>11,
     <1>12, <1>13, <1>14, <1>15, <1>16, <1>17, <1>18, <1>19, <1>20, <1>21,
     <1>22, <1>23, <1>24, <1>25, <1>26, <1>27, <1>28, <1>29, <1>30, <1>31,
     <1>32, <1>33 DEF Next, Main, StopSteps, TaskSteps

(* Every step keeps the types. *)
LEMMA TypeStep ==
  ASSUME IInv, [Next]_vars
  PROVE  TypeOK'
<1> USE DEF poolVars, smVars, ioVars, sockVars, descVars
<1>1. CASE Main /\ StartAccept
  BY <1>1, Numbers, ShutdownAssumption
     DEF Main, StartAccept, IInv, TypeOK, TaskInv, Pool!Status,
     Pool!Phases, Places
<1>2. CASE Main /\ Poll
  BY <1>2, Numbers, ShutdownAssumption
     DEF Main, Poll, IInv, TypeOK, TaskInv, Pool!Status, Pool!Phases, Places
<1>3. CASE Main /\ CheckStopped
  BY <1>3, Numbers, ShutdownAssumption
     DEF Main, CheckStopped, IInv, TypeOK, TaskInv, Pool!Status,
     Pool!Phases, Places
<1>4. CASE Main /\ EpollWait
  BY <1>4, Numbers, ShutdownAssumption
     DEF Main, EpollWait, IInv, TypeOK, TaskInv, Pool!Status, Pool!Phases,
     Places
<1>5. CASE Main /\ IssueTimers
  BY <1>5, Numbers, ShutdownAssumption, AddTaskFacts
     DEF Main, IssueTimers, IInv, TypeOK, TaskInv, Pool!Status,
     Pool!Phases, Places
<1>6. CASE Main /\ HandleEvents
  <2>1. PICK d \in events : ReadIfWaiting(d) /\ events' = events \ {d}
    BY <1>6 DEF HandleEvents
  <2>2. d \in Descs /\ TRUE \in BOOLEAN /\ FALSE \in BOOLEAN
    BY DEF IInv, TypeOK
  <2>3. /\ status' \in [Tasks -> Pool!Status] /\ phase' = phase
        /\ caller' = caller /\ job' \in [Tasks -> Descs \union {TimerJob, NoJob}]
        /\ can_read_' \in [Descs -> BOOLEAN]
        /\ waiting_read_' \in [Descs -> BOOLEAN]
    <3>1. CASE waiting_read_[d]
      BY <2>1, <2>2, <3>1, AddTaskType, FlagUpdate
         DEF ReadIfWaiting, IInv, TypeOK
    <3>2. CASE ~waiting_read_[d]
      BY <2>1, <2>2, <3>2, FlagUpdate DEF ReadIfWaiting, IInv, TypeOK
    <3> QED  BY <3>1, <3>2
  <2>4. events' \subseteq Descs
    BY <2>1 DEF IInv, TypeOK
  <2>5. main' \in {"collect", "events"}
    BY <1>6 DEF HandleEvents
  <2> QED
    BY <1>6, <2>3, <2>4, <2>5 DEF Main, HandleEvents, IInv, TypeOK
<1>7. CASE Main /\ Collect
  BY <1>7, Numbers, ShutdownAssumption
     DEF Main, Collect, FreeDeleted, IInv, TypeOK, TaskInv, Pool!Status,
     Pool!Phases, Places
<1>8. CASE Main /\ EndPoll
  BY <1>8, Numbers, ShutdownAssumption
     DEF Main, EndPoll, PollingOver, IInv, TypeOK, TaskInv, Pool!Status,
     Pool!Phases, Places
<1>9. CASE Main /\ WaitStopped
  BY <1>9, Numbers, ShutdownAssumption
     DEF Main, WaitStopped, StopCompleted, IInv, TypeOK, TaskInv,
     Pool!Status, Pool!Phases, Places
<1>10. CASE Main /\ DeleteAcceptors
  BY <1>10, Numbers, ShutdownAssumption
     DEF Main, DeleteAcceptors, IInv, TypeOK, TaskInv, Pool!Status,
     Pool!Phases, Places
<1>11. CASE Main /\ DeleteIOManager
  BY <1>11, Numbers, ShutdownAssumption
     DEF Main, DeleteIOManager, Pool!Destroy, IInv, TypeOK, TaskInv,
     Pool!Status, Pool!Phases, Places
<1>12. CASE OutsideStop
  BY <1>12, Numbers, ShutdownAssumption
     DEF OutsideStop, Goto, mainVars, IInv, TypeOK, TaskInv, Pool!Status,
     Pool!Phases, Places
<1>13. ASSUME NEW x \in Threads, StopSteps(x), Stop(x)
      PROVE  TypeOK'
  <2>1. pc' \in [Threads -> Places]
    BY <1>13 DEF Stop, Goto, Places, IInv, TypeOK
  <2>2. stop_requested_' \in BOOLEAN
    BY <1>13 DEF Stop, IInv, TypeOK
  <2>3. closing' \in 0..NumAcceptors
    BY <1>13, ShutdownAssumption DEF Stop, IInv, TypeOK
  <2> QED
    BY <1>13, <2>1, <2>2, <2>3 DEF StopSteps, Stop, mainVars, IInv, TypeOK
<1>14. ASSUME NEW x \in Threads, StopSteps(x), StopWait(x)
      PROVE  TypeOK'
  <2>1. PICK place \in {"idle", "return", "run", "release"} :
          /\ Goto(x, place)
          /\ x = NoTask => place = "idle"
          /\ x \in Tasks /\ place = "release" => job[x] \in Conns
    BY <1>14, StopReturnsFacts DEF StopWait, IInv
  <2> QED
    BY <1>14, <2>1, Numbers DEF StopWait, Goto, IInv, TypeOK, TaskInv,
       Pool!Status, Pool!Phases, Places, mainVars, StopSteps
<1>15. ASSUME NEW x \in Threads, StopSteps(x), CloseAcceptor(x)
      PROVE  TypeOK'
  <2>1. pc' \in [Threads -> Places]
    BY <1>15 DEF CloseAcceptor, Goto, Places, IInv, TypeOK
  <2>2. closing' \in 0..NumAcceptors
    BY <1>15, ShutdownAssumption
       DEF CloseAcceptor, MoreAcceptors, IInv, TypeOK
  <2>3. CloseFd(closing) \/ DelDescriptor(closing) \/ ClearPointer(closing)
    BY <1>15 DEF CloseAcceptor, CloseStep
  <2>4. /\ input' \in [Descs -> 0..1]
        /\ desc' \in [Descs -> {"none", "live", "deleted", "freed"}]
    BY <2>3 DEF CloseFd, DelDescriptor, ClearPointer, IInv, TypeOK
  <2>6. open' \in [Descs -> BOOLEAN] /\ edge' \in [Descs -> BOOLEAN]
    BY <2>3, Zenon DEF CloseFd, DelDescriptor, ClearPointer, IInv, TypeOK
  <2>5. io_descr_' \in [Acceptors -> BOOLEAN]
    BY <2>3, Zenon DEF CloseFd, DelDescriptor, ClearPointer, IInv, TypeOK
  <2> QED
    BY <1>15, <2>1, <2>2, <2>4, <2>5, <2>6
       DEF StopSteps, CloseAcceptor, mainVars, IInv, TypeOK
<1>16. ASSUME NEW x \in Threads, StopSteps(x), IOStop(x)
      PROVE  TypeOK'
  BY <1>16, Numbers, ShutdownAssumption
     DEF StopSteps, IOStop, Goto, mainVars, IInv, TypeOK, TaskInv,
     Pool!Status, Pool!Phases, Places
<1>17. ASSUME NEW x \in Threads, StopSteps(x), IOWait(x)
      PROVE  TypeOK'
  BY <1>17, Numbers, ShutdownAssumption
     DEF StopSteps, IOWait, Goto, PollingEnded, Pool!StopCall, mainVars,
     IInv, TypeOK, TaskInv, Pool!Status, Pool!Phases, Places
<1>18. ASSUME NEW x \in Threads, StopSteps(x), PoolStopped(x)
      PROVE  TypeOK'
  BY <1>18, Numbers, ShutdownAssumption
     DEF StopSteps, PoolStopped, Goto, Pool!StopReturn, Pool!With,
     mainVars, IInv, TypeOK, TaskInv, Pool!Status, Pool!Phases, Places
<1>19. ASSUME NEW x \in Threads, StopSteps(x), FreeRest(x)
      PROVE  TypeOK'
  BY <1>19, Numbers, ShutdownAssumption
     DEF StopSteps, FreeRest, Goto, FreeDeleted, mainVars, IInv, TypeOK,
     TaskInv, Pool!Status, Pool!Phases, Places
<1>20. ASSUME NEW x \in Threads, StopSteps(x), SetStopped(x)
      PROVE  TypeOK'
  <2>1. PICK place \in {"idle", "return", "run", "release"} :
          /\ Goto(x, place)
          /\ x = NoTask => place = "idle"
          /\ x \in Tasks /\ place = "release" => job[x] \in Conns
    BY <1>20, StopReturnsFacts DEF SetStopped, IInv
  <2> QED
    BY <1>20, <2>1, Numbers DEF SetStopped, Goto, IInv, TypeOK, TaskInv,
       Pool!Status, Pool!Phases, Places, mainVars, StopSteps
<1>21. ASSUME NEW t \in Tasks, TaskSteps(t), Start(t)
      PROVE  TypeOK'
  BY <1>21, Numbers, ShutdownAssumption
     DEF TaskSteps, Start, Goto, Pool!StartTask, mainVars, IInv, TypeOK,
     TaskInv, Pool!Status, Pool!Phases, Places
<1>22. ASSUME NEW t \in Tasks, TaskSteps(t), Accept(t)
      PROVE  TypeOK'
  BY <1>22, Numbers, ShutdownAssumption
     DEF TaskSteps, Accept, Goto, mainVars, IInv, TypeOK, TaskInv,
     Pool!Status, Pool!Phases, Places
<1>23. ASSUME NEW t \in Tasks, TaskSteps(t), AcceptConnection(t)
      PROVE  TypeOK'
  <2>1. pc' \in [Threads -> Places]
    BY <1>23, Numbers DEF AcceptConnection, Goto, Places, IInv, TypeOK
  <2>2. /\ open' \in [Descs -> BOOLEAN] /\ waiting_read_' \in [Descs -> BOOLEAN]
        /\ can_read_' = can_read_
    BY <1>23, FlagUpdate DEF AcceptConnection, IInv, TypeOK
  <2>3. desc' \in [Descs -> {"none", "live", "deleted", "freed"}]
    BY <1>23 DEF AcceptConnection, IInv, TypeOK
  <2> QED
    BY <1>23, <2>1, <2>2, <2>3
       DEF TaskSteps, AcceptConnection, mainVars, IInv, TypeOK
<1>24. ASSUME NEW t \in Tasks, TaskSteps(t), AcceptFailed(t)
      PROVE  TypeOK'
  BY <1>24, Numbers, ShutdownAssumption
     DEF TaskSteps, AcceptFailed, Goto, mainVars, IInv, TypeOK, TaskInv,
     Pool!Status, Pool!Phases, Places
<1>25. ASSUME NEW t \in Tasks, TaskSteps(t), HandleRequest(t)
      PROVE  TypeOK'
  BY <1>25, Numbers, ShutdownAssumption
     DEF TaskSteps, HandleRequest, Goto, mainVars, IInv, TypeOK, TaskInv,
     Pool!Status, Pool!Phases, Places
<1>26. ASSUME NEW t \in Tasks, TaskSteps(t), Rearm(t)
      PROVE  TypeOK'
  <2>1. job[t] \in Descs /\ TRUE \in BOOLEAN /\ FALSE \in BOOLEAN
    BY <1>26 DEF Rearm, IInv, TaskInv
  <2>2. /\ status' \in [Tasks -> Pool!Status] /\ phase' = phase
        /\ caller' = caller /\ job' \in [Tasks -> Descs \union {TimerJob, NoJob}]
        /\ can_read_' \in [Descs -> BOOLEAN]
        /\ waiting_read_' \in [Descs -> BOOLEAN]
    <3>1. CASE can_read_[job[t]]
      BY ZenonT(40), <1>26, <2>1, <3>1, AddTaskType, FlagUpdate DEF Rearm, IInv, TypeOK
    <3>2. CASE ~can_read_[job[t]]
      BY <1>26, <2>1, <3>2, FlagUpdate DEF Rearm, IInv, TypeOK
    <3> QED  BY <3>1, <3>2
  <2>3. pc' \in [Threads -> Places]
    BY <1>26, Numbers DEF Rearm, Goto, Places, IInv, TypeOK
  <2> QED
    BY <1>26, <2>2, <2>3 DEF TaskSteps, Rearm, mainVars, IInv, TypeOK
<1>27. ASSUME NEW t \in Tasks, TaskSteps(t), ReleaseConnection(t)
      PROVE  TypeOK'
  BY <1>27, Numbers, ShutdownAssumption
     DEF TaskSteps, ReleaseConnection, Goto, mainVars, IInv, TypeOK,
     TaskInv, Pool!Status, Pool!Phases, Places
<1>28. ASSUME NEW t \in Tasks, TaskSteps(t), Check(t)
      PROVE  TypeOK'
  BY <1>28, Numbers, ShutdownAssumption
     DEF TaskSteps, Check, Goto, mainVars, IInv, TypeOK, TaskInv,
     Pool!Status, Pool!Phases, Places
<1>29. ASSUME NEW t \in Tasks, TaskSteps(t), Return(t)
      PROVE  TypeOK'
  BY <1>29, Numbers, ShutdownAssumption
     DEF TaskSteps, Return, Goto, Pool!FinishTask, mainVars, IInv, TypeOK,
     TaskInv, Pool!Status, Pool!Phases, Places
<1>30. CASE Crash
  BY <1>30, Numbers, ShutdownAssumption
     DEF Crash, mainVars, IInv, TypeOK, TaskInv, Pool!Status, Pool!Phases,
     Places
<1>31. ASSUME NEW d \in Descs, Arrive(d)
      PROVE  TypeOK'
  BY <1>31, Numbers, ShutdownAssumption
     DEF Arrive, mainVars, IInv, TypeOK, TaskInv, Pool!Status, Pool!Phases,
     Places
<1>32. CASE UNCHANGED vars
  BY <1>32 DEF vars, mainVars, IInv, TypeOK
<1>33. CASE Main /\ Exit
  BY <1>33 DEF Main, Exit, IInv, TypeOK
<1> QED
  BY <1>1, <1>2, <1>3, <1>4, <1>5, <1>6, <1>7, <1>8, <1>9, <1>10, <1>11,
     <1>12, <1>13, <1>14, <1>15, <1>16, <1>17, <1>18, <1>19, <1>20, <1>21,
     <1>22, <1>23, <1>24, <1>25, <1>26, <1>27, <1>28, <1>29, <1>30, <1>31,
     <1>32, <1>33 DEF Next, Main, StopSteps, TaskSteps

(* run() starts with a pool that has no task and acceptors that listen. *)
LEMMA InitIInv == Init => IInv
<1> SUFFICES ASSUME Init PROVE IInv
  OBVIOUS
<1>1. TypeOK
  <2>1. /\ can_read_ \in [Descs -> BOOLEAN] /\ waiting_read_ \in [Descs -> BOOLEAN]
        /\ edge \in [Descs -> BOOLEAN] /\ io_descr_ \in [Acceptors -> BOOLEAN]
    BY Zenon DEF Init, InitAcceptors
  <2>2. open \in [Descs -> BOOLEAN]
    BY DEF Init, InitAcceptors
  <2>3. /\ status \in [Tasks -> Pool!Status] /\ phase \in Pool!Phases /\ caller \in Threads
        /\ job \in [Tasks -> Descs \union {TimerJob, NoJob}]
    BY Numbers DEF Init, InitIOManager, Pool!Init, Pool!Status, Pool!Phases
  <2>4. /\ desc \in [Descs -> {"none", "live", "deleted", "freed"}]
        /\ input \in [Descs -> 0..1] /\ pc \in [Threads -> Places]
    BY DEF Init, InitAcceptors, Places
  <2>5. /\ closing \in 0..NumAcceptors /\ timers \in 0..MaxTimers /\ added \in 0..MaxTimers
    BY ShutdownAssumption DEF Init, InitService, InitIOManager
  <2> QED
    BY <2>1, <2>2, <2>3, <2>4, <2>5
       DEF Init, InitService, InitIOManager, TypeOK
<1>2. /\ TaskInv
  BY <1>1, Numbers DEF Init, InitIOManager, Pool!Init, TypeOK, TaskInv
<1>3. PollInv
  BY DEF Init, InitService, InitIOManager, Pool!Init, PollInv, PollBody
<1>4. MemoryInv
  BY DEF Init, InitAcceptors, MemoryInv
<1>5. StageInv
  BY DEF Init, StageInv, Stopping
<1>6. StopInv
  BY DEF Init, InitService, InitIOManager, Pool!Init, StopInv
<1> QED
  BY <1>1, <1>2, <1>3, <1>4, <1>5, <1>6 DEF IInv

(* The invariant is inductive. *)
LEMMA NextIInv == IInv /\ [Next]_vars => IInv'
BY TypeStep, TaskStep, PollStep, MemoryStep, StageStep, StopStep DEF IInv

(* It holds in every state that can be reached. *)
LEMMA Inductive == Spec => []IInv
BY InitIInv, NextIInv, PTL DEF Spec

(* Every variable keeps its type, the numbers of timers within their       *)
(* bound.                                                                  *)
THEOREM Typing == Spec => []TypeOK
<1>1. IInv => TypeOK
  BY DEF IInv
<1> QED
  BY <1>1, Inductive, PTL

(* When run() deletes the acceptors and the IOManager, stop() has          *)
(* completed: no thread polls, no task runs but the one that issued it,    *)
(* and every acceptor is closed and its Descriptor freed.                  *)
THEOREM StoppedWhenRunReturns == Spec => []RunReturnsAfterStop
<1>1. IInv => RunReturnsAfterStop
  BY DEF IInv, PollInv, PollBody, StopInv, Freed, RunReturnsAfterStop,
     Pool!With
<1> QED
  BY <1>1, Inductive, PTL

(* The polling loop adds no callbacks once the pool is being stopped, and  *)
(* no Descriptor is freed while epoll or the loop may still name it.       *)
THEOREM FreedWhenForgotten == Spec => []PollerForgetsFirst
<1>1. IInv => PollerForgetsFirst
  BY DEF IInv, PollInv, PollBody, StopInv, MemoryInv, PollerForgetsFirst
<1> QED
  BY <1>1, Inductive, PTL
=============================================================================
