--------------------------- MODULE ServerShutdown ---------------------------
(***************************************************************************)
(* The life of the server around its requests: ServiceManager, Acceptor    *)
(* and IOManager (service_manager.cpp, acceptor.cpp, io_manager.cpp) with  *)
(* the main thread that polls, the tasks that accept connections, serve    *)
(* requests and run timers, and stop(), issued by a "quit" request, by the *)
(* ProgressMeter of the clients, after a failed accept(), or by a thread   *)
(* outside the pool (client_sync.cpp).  A step on an object that was       *)
(* deleted, or through a pointer that was cleared, ends the process.       *)
(*                                                                         *)
(* The pool is the one ThreadPool specifies, which ThreadPoolFast is shown *)
(* to implement.  What a connection does with its requests is the matter   *)
(* of Connection: here it has a Descriptor and is told of input.           *)
(***************************************************************************)
EXTENDS Naturals, FiniteSets

CONSTANTS MaxTasks,    \* bound: tasks ever handed to the pool
          Capacity,    \* number of worker threads
          NumAcceptors,\* one per service
          MaxConns,    \* bound: connections accepted
          MaxTimers,   \* bound: timers ever added
          NoTask       \* the thread outside the pool

Tasks     == 1..MaxTasks
Threads   == Tasks \union {NoTask}
Acceptors == 1..NumAcceptors
Conns     == NumAcceptors + 1 .. NumAcceptors + MaxConns
Descs     == Acceptors \union Conns
TimerJob  == 0     \* the job of a task that a timer issued
NoJob     == NumAcceptors + MaxConns + 1

ASSUME ShutdownAssumption ==
  /\ {MaxTasks, Capacity, NumAcceptors} \subseteq Nat \ {0}
  /\ {MaxConns, MaxTimers} \subseteq Nat /\ NoTask \notin Tasks

VARIABLES
  status, phase, caller,               \* the pool, see ThreadPool
  job, pc,                             \* per task: its callback, its place
  stop_requested_, stopped_, closing,  \* ServiceManager, acceptor at close()
  ioStopped, polling_, timers, added,  \* IOManager, timers ever added
  desc, can_read_, waiting_read_,      \* Descriptors
  open, edge, input,                   \* their sockets, in the kernel
  io_descr_,                           \* Acceptor: its Descriptor or NULL
  main, events,                        \* the thread in run()
  crashed

poolVars == <<status, phase, caller, job>>
smVars   == <<stop_requested_, stopped_, closing>>
ioVars   == <<ioStopped, polling_, timers, added>>
descVars == <<desc, can_read_, waiting_read_>>
sockVars == <<open, edge, input>>
mainVars == <<main, events>>
vars == <<poolVars, pc, smVars, ioVars, descVars, sockVars, io_descr_, mainVars,
          crashed>>

Pool == INSTANCE ThreadPool

Places ==
  {"idle", "run", "accepted", "failed", "rearm", "spin", "release", "return",
   "stop", "stopWait", "closeFd", "del", "null",        \* stop() of the service,
   "ioStop", "ioWait", "join", "free", "setStopped"}    \* of the IOManager

TypeOK ==
  /\ status \in [Tasks -> Pool!Status] /\ phase \in Pool!Phases
  /\ caller \in Threads /\ job \in [Tasks -> Descs \union {TimerJob, NoJob}]
  /\ pc \in [Threads -> Places]
  /\ stop_requested_ \in BOOLEAN /\ stopped_ \in BOOLEAN
  /\ ioStopped \in BOOLEAN /\ polling_ \in BOOLEAN /\ crashed \in BOOLEAN
  /\ closing \in 0..NumAcceptors
  /\ timers \in 0..MaxTimers /\ added \in 0..MaxTimers
  /\ desc \in [Descs -> {"none", "live", "deleted", "freed"}]
  /\ can_read_ \in [Descs -> BOOLEAN] /\ waiting_read_ \in [Descs -> BOOLEAN]
  /\ open \in [Descs -> BOOLEAN] /\ edge \in [Descs -> BOOLEAN]
  /\ input \in [Descs -> 0..1] /\ io_descr_ \in [Acceptors -> BOOLEAN]
  /\ main \in {"startAccept", "poll()", "stopped?", "epoll", "timers", "events",
               "collect", "endPoll", "waitStopped", "acceptors", "pool", "exit",
               "gone"}
  /\ events \subseteq Descs

-----------------------------------------------------------------------------
(* The constructors *)

InitService == stop_requested_ = FALSE /\ stopped_ = FALSE /\ closing = 0

InitIOManager ==
  /\ Pool!Init /\ job = [t \in Tasks |-> NoJob]
  /\ ioStopped = FALSE /\ polling_ = FALSE
  /\ added \in {0, 1} \cap 0..MaxTimers /\ timers = added   \* clients: a meter

(* Acceptors listen, and their sockets are in the epoll set. *)
InitAcceptors ==
  /\ desc = [d \in Descs |-> IF d \in Acceptors THEN "live" ELSE "none"]
  /\ can_read_ = [d \in Descs |-> FALSE]
  /\ waiting_read_ = [d \in Descs |-> FALSE]
  /\ open = [d \in Descs |-> d \in Acceptors]
  /\ edge = [d \in Descs |-> FALSE] /\ input = [d \in Descs |-> 0]
  /\ io_descr_ = [a \in Acceptors |-> TRUE]

Init ==
  /\ InitService /\ InitIOManager /\ InitAcceptors
  /\ pc = [x \in Threads |-> "idle"]
  /\ main = "startAccept" /\ events = {} /\ crashed = FALSE

-----------------------------------------------------------------------------
Goto(x, place) == pc' = [pc EXCEPT ![x] = place]

(* addTask() *)
AddTask(callback) ==
  \E t \in Tasks :
    /\ \A u \in Tasks : status[u] = "new" => t <= u
    /\ Pool!AddTask(t)
    /\ job' = [job EXCEPT ![t] = callback]

(* Bound: new input and timers come only while tasks are left for them and *)
(* for all that is on its way.                                             *)
Spare ==
  Cardinality(Pool!With("new"))
    > timers + Cardinality(events) + Cardinality({d \in Descs : edge[d]})
      + Cardinality({d \in Descs : can_read_[d]})

(* readIfWaiting(), by the polling thread *)
ReadIfWaiting(d) ==
  IF waiting_read_[d]
  THEN /\ waiting_read_' = [waiting_read_ EXCEPT ![d] = FALSE]
       /\ AddTask(d) /\ UNCHANGED can_read_
  ELSE /\ can_read_' = [can_read_ EXCEPT ![d] = TRUE]
       /\ UNCHANGED <<poolVars, waiting_read_>>

-----------------------------------------------------------------------------
(* The main thread *)

(* run(): startAccept() on one acceptor after the other.  Nobody polls as  *)
(* yet, so those that are done wait to read.                               *)
NextToStart(a) ==
  ~waiting_read_[a] /\ \A b \in Acceptors : b < a => waiting_read_[b]

StartAccept ==
  /\ main = "startAccept"
  /\ \E a \in Acceptors :
       /\ NextToStart(a) /\ io_descr_[a]
       /\ waiting_read_' = [waiting_read_ EXCEPT ![a] = TRUE]
       /\ main' = IF a = NumAcceptors THEN "poll()" ELSE main
  /\ UNCHANGED <<poolVars, ioVars, desc, can_read_, sockVars, events>>

Poll ==
  /\ main = "poll()"
  /\ polling_' = TRUE
  /\ main' = "stopped?"
  /\ UNCHANGED <<poolVars, ioStopped, timers, added, descVars, sockVars, events>>

CheckStopped ==
  /\ main = "stopped?"
  /\ main' = IF ioStopped THEN "endPoll" ELSE "epoll"
  /\ UNCHANGED <<poolVars, ioVars, descVars, sockVars, events>>

(* epoll_wait() returns news of some sockets, or times out. *)
EpollWait ==
  /\ main = "epoll"
  /\ events' = {d \in Descs : edge[d]}
  /\ edge' = [d \in Descs |-> FALSE]
  /\ main' = "timers"
  /\ UNCHANGED <<poolVars, ioVars, descVars, open, input>>

(* Timers that are due go to the pool, under m_timer_queue_. *)
IssueTimers ==
  /\ main = "timers"
  /\ \/ /\ timers > 0 /\ timers' = timers - 1
        /\ AddTask(TimerJob) /\ UNCHANGED main
     \/ /\ main' = IF events = {} THEN "collect" ELSE "events"
        /\ UNCHANGED <<timers, poolVars>>
  /\ UNCHANGED <<ioStopped, polling_, added, descVars, sockVars, events>>

HandleEvents ==
  /\ main = "events"
  /\ \E d \in events :
       /\ ReadIfWaiting(d)
       /\ events' = events \ {d}
       /\ main' = IF events' = {} THEN "collect" ELSE "events"
  /\ UNCHANGED <<ioVars, desc, sockVars>>

FreeDeleted ==
  desc' = [d \in Descs |-> IF desc[d] = "deleted" THEN "freed" ELSE desc[d]]

Collect ==
  /\ main = "collect"
  /\ FreeDeleted
  /\ main' = "stopped?"
  /\ UNCHANGED <<poolVars, ioVars, can_read_, waiting_read_, sockVars, events>>

(* polling_ when the loop has ended.  Mutant: it is not reset. *)
PollingOverKept == polling_
PollingOver == FALSE

EndPoll ==
  /\ main = "endPoll"
  /\ polling_' = PollingOver
  /\ main' = "waitStopped"
  /\ UNCHANGED <<poolVars, ioStopped, timers, added, descVars, sockVars, events>>

(* run() waits for stop() to complete.  Mutant: for its request only. *)
StopCompletedRequested == stop_requested_
StopCompleted == stopped_

(* It returns; the destructor calls stop(), which returns at once. *)
WaitStopped ==
  /\ main = "waitStopped" /\ StopCompleted
  /\ pc[NoTask] = "idle"          \* client_sync destroys after its own stop()
  /\ main' = "acceptors"
  /\ UNCHANGED <<poolVars, ioVars, descVars, sockVars, events>>

(* ~ServiceManager(): the acceptors, closed already, and their callbacks *)
DeleteAcceptors ==
  /\ main = "acceptors"
  /\ main' = "pool"
  /\ UNCHANGED <<poolVars, ioVars, descVars, sockVars, events>>

(* ~IOManager(): stopped already; the pool is deleted. *)
DeleteIOManager ==
  /\ main = "pool"
  /\ Pool!Destroy
  /\ main' = "exit"
  /\ UNCHANGED <<job, ioVars, descVars, sockVars, events>>

(* main() returns. *)
Exit ==
  /\ main = "exit"
  /\ main' = "gone"
  /\ UNCHANGED <<poolVars, ioVars, descVars, sockVars, events>>

Main ==
  /\ \/ StartAccept \/ Poll \/ CheckStopped \/ EpollWait \/ IssueTimers
     \/ HandleEvents \/ Collect \/ EndPoll \/ WaitStopped \/ DeleteAcceptors
     \/ DeleteIOManager \/ Exit
  /\ UNCHANGED <<pc, smVars, io_descr_, crashed>>

-----------------------------------------------------------------------------
(* ServiceManager::stop(), issued by thread x *)

(* Only the first caller goes on; the others wait for it. *)
Stop(x) ==
  /\ pc[x] = "stop"
  /\ IF stop_requested_
     THEN Goto(x, "stopWait") /\ UNCHANGED <<stop_requested_, closing>>
     ELSE Goto(x, "closeFd") /\ stop_requested_' = TRUE /\ closing' = 1
  /\ UNCHANGED <<poolVars, stopped_, ioVars, descVars, sockVars, io_descr_>>

(* Where its caller goes on: a "quit" releases its connection, a failed    *)
(* accept() is tried again.                                                *)
StopReturns(x) ==
  Goto(x, CASE x = NoTask -> "idle"
            [] x # NoTask /\ job[x] = TimerJob -> "return"
            [] x # NoTask /\ job[x] \in Acceptors -> "run"
            [] x # NoTask /\ job[x] \in Conns -> "release")

StopWait(x) ==
  /\ pc[x] = "stopWait" /\ stopped_
  /\ StopReturns(x)
  /\ UNCHANGED <<poolVars, smVars, ioVars, descVars, sockVars, io_descr_>>

(* Acceptor::close(): the socket, its Descriptor, the pointer to it.       *)
CloseFd(a) ==
  /\ open' = [open EXCEPT ![a] = FALSE] /\ edge' = [edge EXCEPT ![a] = FALSE]
  /\ input' = [input EXCEPT ![a] = 0] /\ UNCHANGED <<desc, io_descr_>>
DelDescriptor(a) ==
  desc' = [desc EXCEPT ![a] = "deleted"] /\ UNCHANGED <<sockVars, io_descr_>>
ClearPointer(a) ==
  io_descr_' = [io_descr_ EXCEPT ![a] = FALSE] /\ UNCHANGED <<desc, sockVars>>

(* The order of its steps *)
CloseStep(place, a) ==
  CASE place = "closeFd" -> CloseFd(a)
    [] place = "del" -> DelDescriptor(a) [] place = "null" -> ClearPointer(a)

(* More acceptors to close? *)
MoreAcceptors == closing < NumAcceptors

CloseAcceptor(x) ==
  /\ pc[x] \in {"closeFd", "del", "null"}
  /\ CloseStep(pc[x], closing)
  /\ IF pc[x] = "null" /\ MoreAcceptors
     THEN closing' = closing + 1 /\ Goto(x, "closeFd")
     ELSE /\ UNCHANGED closing
          /\ Goto(x, CASE pc[x] = "closeFd" -> "del"
                       [] pc[x] = "del" -> "null" [] OTHER -> "ioStop")
  /\ UNCHANGED <<poolVars, stop_requested_, stopped_, ioVars, can_read_,
                 waiting_read_>>

(* IOManager::stop(): ask the polling loop to end ... *)
IOStop(x) ==
  /\ pc[x] = "ioStop"
  /\ ioStopped' = TRUE
  /\ Goto(x, "ioWait")
  /\ UNCHANGED <<poolVars, smVars, polling_, timers, added, descVars, sockVars,
                 io_descr_>>

(* and wait until it has.  Mutant: do not wait. *)
PollingEndedUnchecked == TRUE
PollingEnded == ~polling_

IOWait(x) ==
  /\ pc[x] = "ioWait" /\ PollingEnded
  /\ Pool!StopCall(x)
  /\ Goto(x, "join")
  /\ UNCHANGED <<job, smVars, ioVars, descVars, sockVars, io_descr_>>

PoolStopped(x) ==
  /\ pc[x] = "join"
  /\ Pool!StopReturn
  /\ Goto(x, "free")
  /\ UNCHANGED <<job, smVars, ioVars, descVars, sockVars, io_descr_>>

FreeRest(x) ==
  /\ pc[x] = "free"
  /\ FreeDeleted
  /\ Goto(x, "setStopped")
  /\ UNCHANGED <<poolVars, smVars, ioVars, can_read_, waiting_read_, sockVars,
                 io_descr_>>

SetStopped(x) ==
  /\ pc[x] = "setStopped"
  /\ stopped_' = TRUE
  /\ StopReturns(x)
  /\ UNCHANGED <<poolVars, stop_requested_, closing, ioVars, descVars, sockVars, io_descr_>>

StopSteps(x) ==
  /\ \/ Stop(x) \/ StopWait(x) \/ CloseAcceptor(x) \/ IOStop(x) \/ IOWait(x)
     \/ PoolStopped(x) \/ FreeRest(x) \/ SetStopped(x)
  /\ UNCHANGED <<mainVars, crashed>>

(* A thread outside the pool, such as main() in client_sync.cpp, stops the *)
(* service, at any time: run() may not even have come to poll().           *)
OutsideStop ==
  /\ pc[NoTask] = "idle" /\ ~stop_requested_
  /\ Goto(NoTask, "stop")
  /\ UNCHANGED <<poolVars, smVars, ioVars, descVars, sockVars, io_descr_,
                 mainVars, crashed>>

-----------------------------------------------------------------------------
(* Tasks *)

(* The callback of a task belongs to a Descriptor, which may be gone.      *)
Orphan(t) == job[t] \in Descs /\ desc[job[t]] = "freed"

Start(t) ==
  /\ Pool!StartTask(t) /\ ~Orphan(t)
  /\ Goto(t, "run")
  /\ UNCHANGED <<job, smVars, ioVars, descVars, sockVars, io_descr_>>

(* What ~ServiceManager() has deleted so far.                              *)
AcceptorsGone == main \in {"pool", "exit"}
IOManagerGone == main = "exit"

(* doAccept(): one accept().  On a closed socket it fails for ever.        *)
Accept(t) ==
  LET a == job[t] IN
  /\ pc[t] = "run" /\ a \in Acceptors /\ ~AcceptorsGone
  /\ \/ open[a] /\ input[a] > 0 /\ Goto(t, "accepted")
        /\ input' = [input EXCEPT ![a] = @ - 1]
     \/ open[a] /\ input[a] = 0 /\ Goto(t, "rearm") /\ UNCHANGED input
     \/ open[a] /\ Goto(t, "failed") /\ UNCHANGED input
     \/ ~open[a] /\ Goto(t, "spin") /\ UNCHANGED input
  /\ UNCHANGED <<poolVars, smVars, ioVars, descVars, open, edge, io_descr_>>

(* acceptConnection(): nothing when stopping; else a new connection, which *)
(* asks to be told of input.                                               *)
AcceptConnection(t) ==
  /\ pc[t] = "accepted"
  /\ \/ /\ stop_requested_ \/ \A c \in Conns : desc[c] # "none"
        /\ UNCHANGED <<descVars, open>>
     \/ /\ ~stop_requested_
        /\ \E c \in Conns :
             /\ desc[c] = "none" /\ \A d \in Conns : d < c => desc[d] # "none"
             /\ desc' = [desc EXCEPT ![c] = "live"]
             /\ open' = [open EXCEPT ![c] = TRUE]
             /\ waiting_read_' = [waiting_read_ EXCEPT ![c] = TRUE]
        /\ UNCHANGED can_read_
  /\ Goto(t, "run")
  /\ UNCHANGED <<poolVars, smVars, ioVars, edge, input, io_descr_>>

(* and with the result of a failed accept(): stop the service *)
AcceptFailed(t) ==
  /\ pc[t] = "failed"
  /\ Goto(t, IF stop_requested_ THEN "run" ELSE "stop")
  /\ UNCHANGED <<poolVars, smVars, ioVars, descVars, sockVars, io_descr_>>

(* Input of a connection: a "quit", any other request, its end. *)
HandleRequest(t) ==
  LET c == job[t] IN
  /\ pc[t] = "run" /\ c \in Conns
  /\ input' = [input EXCEPT ![c] = 0]
  /\ Goto(t, "stop") \/ Goto(t, "rearm") \/ Goto(t, "release")
  /\ UNCHANGED <<poolVars, smVars, ioVars, descVars, open, edge, io_descr_>>

(* readWhenReady(); through io_descr_, if the task is doAccept() *)
Rearm(t) ==
  LET d == job[t] IN
  /\ pc[t] = "rearm" /\ (d \in Acceptors => io_descr_[d]) /\ desc[d] # "freed"
  /\ IF can_read_[d]
     THEN /\ can_read_' = [can_read_ EXCEPT ![d] = FALSE]
          /\ AddTask(d) /\ UNCHANGED waiting_read_
     ELSE /\ waiting_read_' = [waiting_read_ EXCEPT ![d] = TRUE]
          /\ UNCHANGED <<poolVars, can_read_>>
  /\ Goto(t, "return")
  /\ UNCHANGED <<smVars, ioVars, desc, sockVars, io_descr_>>

(* ~Connection(), after a "quit" once stop() returned *)
ReleaseConnection(t) ==
  LET c == job[t] IN
  /\ pc[t] = "release" /\ ~IOManagerGone
  /\ open' = [open EXCEPT ![c] = FALSE] /\ edge' = [edge EXCEPT ![c] = FALSE]
  /\ input' = [input EXCEPT ![c] = 0]
  /\ desc' = [desc EXCEPT ![c] = "deleted"]
  /\ Goto(t, "return")
  /\ UNCHANGED <<poolVars, smVars, ioVars, can_read_, waiting_read_, io_descr_>>

(* ProgressMeter::check(): stop, or look again later *)
Check(t) ==
  /\ pc[t] = "run" /\ job[t] = TimerJob
  /\ \/ Goto(t, "stop") /\ UNCHANGED <<timers, added>>
     \/ /\ added < MaxTimers /\ Spare /\ added' = added + 1 /\ timers' = timers + 1
        /\ Goto(t, "return")
  /\ UNCHANGED <<poolVars, smVars, ioStopped, polling_, descVars, sockVars, io_descr_>>

(* A task that is done is of no further interest, nor is its callback. *)
Return(t) ==
  /\ pc[t] = "return"
  /\ Pool!FinishTask(t) /\ job' = [job EXCEPT ![t] = NoJob]
  /\ Goto(t, "idle")
  /\ UNCHANGED <<smVars, ioVars, descVars, sockVars, io_descr_>>

TaskSteps(t) ==
  /\ \/ Start(t) \/ Accept(t) \/ AcceptConnection(t) \/ AcceptFailed(t)
     \/ HandleRequest(t) \/ Rearm(t) \/ ReleaseConnection(t) \/ Check(t)
     \/ Return(t)
  /\ UNCHANGED <<mainVars, crashed>>

(* What ends the process: readWhenReady() through a pointer that close()   *)
(* has cleared, or on a Descriptor that was freed; a queued callback that  *)
(* went with its Descriptor; doAccept() of an Acceptor that was deleted,   *)
(* and delDescriptor() of an IOManager that was, both by the caller of     *)
(* stop(), which nobody waited for; and startAccept() after close().       *)
CrashRearm(t) ==
  LET d == job[t] IN
  pc[t] = "rearm" /\ ((d \in Acceptors /\ ~io_descr_[d]) \/ desc[d] = "freed")
CrashCallback(t) ==
  /\ phase \in {"open", "stopping"} /\ status[t] = "pending"
  /\ Cardinality(Pool!With("running")) < Capacity
  /\ Orphan(t)
CrashAccept(t) ==
  pc[t] \in {"run", "spin"} /\ job[t] \in Acceptors /\ AcceptorsGone
CrashRelease(t) == pc[t] = "release" /\ IOManagerGone
CrashMain ==
  /\ main = "startAccept"
  /\ \E a \in Acceptors : NextToStart(a) /\ ~io_descr_[a]

Crash ==
  /\ \/ CrashMain
     \/ \E t \in Tasks : \/ CrashRearm(t) \/ CrashCallback(t)
                         \/ CrashAccept(t) \/ CrashRelease(t)
  /\ crashed' = TRUE
  /\ UNCHANGED <<poolVars, pc, smVars, ioVars, descVars, sockVars, io_descr_,
                 mainVars>>

-----------------------------------------------------------------------------
(* Connections and requests arrive, as long as there is a task for each. *)
Arrive(d) ==
  /\ open[d] /\ input[d] = 0
  /\ Spare
  /\ input' = [input EXCEPT ![d] = 1] /\ edge' = [edge EXCEPT ![d] = TRUE]
  /\ UNCHANGED <<poolVars, pc, smVars, ioVars, descVars, open, io_descr_,
                 mainVars, crashed>>

Running == ~crashed /\ main # "gone"

Next ==
  /\ Running
  /\ \/ Main \/ OutsideStop \/ Crash
     \/ \E x \in Threads : StopSteps(x)
     \/ \E t \in Tasks : TaskSteps(t)
     \/ \E d \in Descs : Arrive(d)

Spec == Init /\ [][Next]_vars

(* Threads are scheduled; connections and requests owe nothing. *)
Fairness ==
  /\ WF_vars(Main /\ Running) /\ WF_vars(Crash /\ Running)
  /\ \A x \in Threads : WF_vars(StopSteps(x) /\ Running)
  /\ \A t \in Tasks : WF_vars(TaskSteps(t) /\ Running)

FairSpec == Spec /\ Fairness

-----------------------------------------------------------------------------
(* "This call is guaranteed only to return after stop() finished running": *)
(* once run() returned, the acceptors are closed, the polling loop has     *)
(* ended and the pool has no task running but the one that issued stop(),  *)
(* which stop() cannot wait for: see StopIsSafe.                           *)
RunReturnsAfterStop ==
  main \in {"acceptors", "pool", "exit", "gone"} =>
    /\ stopped_ /\ ~polling_ /\ phase # "open"
    /\ Pool!With("running") \subseteq {caller}
    /\ \A a \in Acceptors : ~open[a] /\ desc[a] = "freed"

(* The polling loop adds no callbacks while the pool is being stopped, and *)
(* a Descriptor is freed only when epoll and the loop have forgotten it,   *)
(* whoever frees it.                                                       *)
PollerForgetsFirst ==
  /\ phase # "open" => main \notin {"epoll", "timers", "events", "collect"}
  /\ \A d \in Descs : desc[d] = "freed" => ~open[d] /\ d \notin events

(* What keeps stop() from completing: a doAccept() that met the closed     *)
(* socket and loops, or a second task that waits in stop() and is joined.  *)
Stuck == \E t \in Tasks : pc[t] \in {"spin", "stopWait"}

(* stop() completes: the polling thread hears of it, whatever it is doing, *)
(* and the tasks end, unless the process dies or one of them is stuck.     *)
StopCompletes == stop_requested_ ~> (stopped_ \/ crashed \/ Stuck)

(* "It is safe to call stop() from any thread", and "to call it more than  *)
(* once, even if from different threads": "all activity was guaranteed to  *)
(* have stopped" when "the destructor can safely tear down the request     *)
(* serving machinery", and the process comes to its regular end.           *)
StopIsSafe == stop_requested_ ~> main = "gone"

=============================================================================
