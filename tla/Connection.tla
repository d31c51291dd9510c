----------------------------- MODULE Connection -----------------------------
(***************************************************************************)
(* One server-side connection, from its constructor to the deletion of its *)
(* Descriptor: connection.cpp (reading, writing, the reference count), the *)
(* Descriptor of io_manager.cpp, the polling thread's treatment of it and  *)
(* HTTPServerConnection::readDone(), which turns each request into one     *)
(* response.  The pool runs the two upcalls on any idle worker; which one  *)
(* is the matter of ThreadPoolFast.                                        *)
(*                                                                         *)
(* Input is counted in requests, output in blocks.  Sections of m_,        *)
(* m_write_ and m_refs_, system calls and unprotected reads are steps; an  *)
(* acquire() is part of the step before it, as its thread holds a          *)
(* reference anyway.                                                       *)
(* The kernel's socket and epoll are modelled from how they are used.  A   *)
(* write() to a connection the peer has reset returns an error, or raises  *)
(* SIGPIPE, which nothing in the program ignores: the process ends.        *)
(***************************************************************************)
EXTENDS Integers, FiniteSets

CONSTANTS Workers,      \* threads of the pool
          MaxRequests,  \* bound: requests the peer ever sends
          Blocks        \* pieces of a response that a write() may part

ASSUME WorkersAssumption == Workers # {} /\ IsFiniteSet(Workers)
ASSUME RequestsAssumption == MaxRequests \in Nat /\ Blocks \in Nat \ {0}

Dirs == {"read", "write"}
MaxOut == MaxRequests * Blocks

VARIABLES
  (* the kernel and the peer *)
  peer, sent,           \* state of the peer, requests it has sent
  rcv, snd,             \* received and unread requests; the send buffer
  fd, edge,             \* the socket's state, epoll has news of it
  (* the Descriptor; can_[d] is can_read_ or can_write_ *)
  desc, can_, waiting_,
  (* the polling thread: place in pollBody(), events still to be handled *)
  poll, events, schedule_now,
  (* upcalls in the pool's queue *)
  tasks,
  (* the Connection; refused is a history variable: readDone() has said no *)
  alive, refs_, in_, out_, writing_, refused,
  (* per worker: place, doWrite() was called by readDone(), ready_now, the  *)
  (* size read from out_ and the bytes written                              *)
  pc, nested, ready_now, size, written

kernelVars == <<peer, sent, rcv, snd, fd, edge>>
flagVars   == <<can_, waiting_>>
pollVars   == <<poll, events, schedule_now>>
connVars   == <<alive, refs_, in_, out_, writing_, refused>>
callVars   == <<nested, ready_now, size, written>>
vars == <<kernelVars, desc, flagVars, pollVars, tasks, connVars, pc, callVars>>

Places ==
  {"idle", "startRead", "startCb",              \* the constructor
   "read", "handle", "startWrite",              \* doRead() and readDone()
   "waitRead", "cbRead",                        \* readWhenReady()
   "load", "write", "wrote",                    \* doWrite()
   "waitWrite", "cbWrite",                      \* writeWhenReady()
   "sigpipe",                                   \* its write() was a fatal one
   "release", "dtor1", "dtor2"}                 \* the last release()

TypeOK ==
  /\ peer \in {"open", "closed", "reset"} /\ sent \in 0..MaxRequests
  /\ rcv \in 0..MaxRequests /\ snd \in {"space", "full", "nospace"}
  /\ fd \in {"open", "closed"} /\ edge \in BOOLEAN
  /\ desc \in {"live", "deleted", "freed"}
  /\ can_ \in [Dirs -> BOOLEAN] /\ waiting_ \in [Dirs -> BOOLEAN]
  /\ poll \in {"poll", "lock", "cb", "collect"} /\ events \subseteq Dirs
  /\ schedule_now \in BOOLEAN
  /\ tasks \in [Dirs -> Nat]
  /\ alive \in BOOLEAN /\ refs_ \in Nat
  /\ in_ \in 0..MaxRequests /\ out_ \in 0..MaxOut
  /\ writing_ \in BOOLEAN /\ refused \in BOOLEAN
  /\ pc \in [Workers -> Places]
  /\ nested \in [Workers -> BOOLEAN] /\ ready_now \in [Workers -> BOOLEAN]
  /\ size \in [Workers -> 0..MaxOut]
  /\ written \in [Workers -> 0..MaxOut]

(* A worker, in acceptConnection(), has just constructed the Connection    *)
(* and its Descriptor.  Adding a writable socket to the epoll set raises   *)
(* an event.                                                               *)
Init ==
  /\ peer = "open" /\ sent = 0 /\ rcv = 0 /\ snd = "space"
  /\ fd = "open" /\ edge = TRUE
  /\ desc = "live"
  /\ can_ = [d \in Dirs |-> FALSE] /\ waiting_ = [d \in Dirs |-> FALSE]
  /\ poll = "poll" /\ events = {} /\ schedule_now = FALSE
  /\ tasks = [d \in Dirs |-> 0]
  /\ alive = TRUE /\ refs_ = 0 /\ in_ = 0 /\ out_ = 0 /\ writing_ = FALSE
  /\ refused = FALSE
  /\ \E acceptor \in Workers :
       pc = [w \in Workers |-> IF w = acceptor THEN "startRead" ELSE "idle"]
  /\ nested = [w \in Workers |-> FALSE]
  /\ ready_now = [w \in Workers |-> FALSE]
  /\ size = [w \in Workers |-> 0] /\ written = [w \in Workers |-> 0]

Goto(w, place) == pc' = [pc EXCEPT ![w] = place]

(* No write() has ended the process yet. *)
Running == \A w \in Workers : pc[w] # "sigpipe"

(* m_write_ is held across writeWhenReady(). *)
WriteLockFree == \A w \in Workers : pc[w] # "cbWrite"

-----------------------------------------------------------------------------
(* The peer and the kernel *)

PeerSends ==
  /\ peer = "open" /\ fd = "open" /\ sent < MaxRequests
  /\ sent' = sent + 1 /\ rcv' = rcv + 1 /\ edge' = TRUE
  /\ UNCHANGED <<peer, snd, fd>>

PeerCloses ==
  /\ peer = "open" /\ fd = "open"
  /\ peer' = "closed" /\ edge' = TRUE
  /\ UNCHANGED <<sent, rcv, snd, fd>>

PeerResets ==
  /\ peer # "reset" /\ fd = "open"
  /\ peer' = "reset" /\ edge' = TRUE
  /\ UNCHANGED <<sent, rcv, snd, fd>>

(* The peer takes what was sent; epoll learns of the new space only if a   *)
(* write() failed for the lack of it.                                      *)
PeerReceives ==
  /\ snd # "space" /\ fd = "open"
  /\ snd' = "space" /\ edge' = (edge \/ snd = "nospace")
  /\ UNCHANGED <<peer, sent, rcv, fd>>

Kernel ==
  /\ Running
  /\ PeerSends \/ PeerCloses \/ PeerResets \/ PeerReceives
  /\ UNCHANGED <<desc, flagVars, pollVars, tasks, connVars, pc, callVars>>

-----------------------------------------------------------------------------
(* The polling thread *)

(* Which of readIfWaiting() and writeIfWaiting() pollBody() calls: after   *)
(* an error, both.  Mutant: an error is reported to the reader alone.      *)
EventsErrorReads ==
  {d \in Dirs : IF d = "read" THEN rcv > 0 \/ peer # "open"
                ELSE snd = "space" /\ peer # "reset"}
Events ==
  {d \in Dirs : IF d = "read" THEN rcv > 0 \/ peer # "open"
                ELSE snd = "space" \/ peer = "reset"}

(* epoll_wait() reports what the socket is ready for, once per edge. *)
PollEvents ==
  /\ poll = "poll" /\ edge /\ fd = "open"
  /\ edge' = FALSE
  /\ events' = Events
  /\ poll' = IF Events = {} THEN "collect" ELSE "lock"
  /\ UNCHANGED <<peer, sent, rcv, snd, fd, desc, flagVars, schedule_now, tasks>>

(* A time-out of epoll_wait(), or events of other descriptors only. *)
PollNothing ==
  /\ poll = "poll" /\ desc = "deleted"
  /\ poll' = "collect"
  /\ UNCHANGED <<kernelVars, desc, flagVars, events, schedule_now, tasks>>

(* readIfWaiting() comes before writeIfWaiting(). *)
Current == IF "read" \in events THEN "read" ELSE "write"

(* The flags after an event.  Mutant: the request to wait stays set. *)
WaitingAfterEventKept(d) == waiting_
WaitingAfterEvent(d) == [waiting_ EXCEPT ![d] = FALSE]

(* readIfWaiting() and writeIfWaiting(), under m_ *)
IfWaiting ==
  LET d == Current IN
  /\ poll = "lock"
  /\ \/ /\ waiting_[d]
        /\ waiting_' = WaitingAfterEvent(d)
        /\ schedule_now' = TRUE
        /\ UNCHANGED can_
     \/ /\ ~waiting_[d]
        /\ can_' = [can_ EXCEPT ![d] = TRUE]
        /\ schedule_now' = FALSE
        /\ UNCHANGED waiting_
  /\ poll' = "cb"
  /\ UNCHANGED <<kernelVars, desc, events, tasks>>

(* and after it: read_cb_ or write_cb_ goes to the pool. *)
IssueUpCall ==
  LET d == Current IN
  /\ poll = "cb"
  /\ tasks' = IF schedule_now THEN [tasks EXCEPT ![d] = @ + 1] ELSE tasks
  /\ events' = events \ {d} /\ schedule_now' = FALSE
  /\ poll' = IF events' = {} THEN "collect" ELSE "lock"
  /\ UNCHANGED <<kernelVars, desc, flagVars>>

(* The end of an iteration: descriptors that were deleted are freed. *)
Collect ==
  /\ poll = "collect"
  /\ desc' = IF desc = "deleted" THEN "freed" ELSE desc
  /\ poll' = "poll"
  /\ UNCHANGED <<kernelVars, flagVars, events, schedule_now, tasks>>

Poller ==
  /\ Running
  /\ PollEvents \/ PollNothing \/ IfWaiting \/ IssueUpCall \/ Collect
  /\ UNCHANGED <<connVars, pc, callVars>>

-----------------------------------------------------------------------------
(* readWhenReady() and writeWhenReady(), under m_: the descriptor is ready *)
(* already, or the polling thread will have to say so.  Mutant: news that  *)
(* came before the request is ignored.                                     *)
ReadyNowForgetful(d) == FALSE
ReadyNow(d) == can_[d]

WhenReady(w, d) ==
  /\ ready_now' = [ready_now EXCEPT ![w] = ReadyNow(d)]
  /\ IF ReadyNow(d)
     THEN can_' = [can_ EXCEPT ![d] = FALSE] /\ UNCHANGED waiting_
     ELSE waiting_' = [waiting_ EXCEPT ![d] = TRUE] /\ UNCHANGED can_

(* Their second half reads the callback without m_. *)
UpCall(w, d) ==
  /\ tasks' = IF ready_now[w] THEN [tasks EXCEPT ![d] = @ + 1] ELSE tasks
  /\ ready_now' = [ready_now EXCEPT ![w] = FALSE]

-----------------------------------------------------------------------------
(* startRead(), issued by the constructor *)

StartRead(w) ==
  /\ pc[w] = "startRead"
  /\ refs_' = refs_ + 1
  /\ WhenReady(w, "read")
  /\ Goto(w, "startCb")
  /\ UNCHANGED <<kernelVars, desc, pollVars, tasks, alive, in_, out_, writing_,
                 refused, nested, size, written>>

StartReadCb(w) ==
  /\ pc[w] = "startCb"
  /\ UpCall(w, "read")
  /\ Goto(w, "idle")
  /\ UNCHANGED <<kernelVars, desc, flagVars, pollVars, connVars, nested,
                 size, written>>

-----------------------------------------------------------------------------
(* A worker takes an upcall: doRead() or doWrite(). *)

Run(w, d) ==
  /\ pc[w] = "idle" /\ tasks[d] > 0
  /\ tasks' = [tasks EXCEPT ![d] = @ - 1]
  /\ Goto(w, IF d = "read" THEN "read" ELSE "load")
  /\ UNCHANGED <<kernelVars, desc, flagVars, pollVars, connVars, callVars>>

(* doRead() takes a reference before it asks to be called again. *)
AcquireAgain == refs_ + 1

(* One read() of the doRead() loop: data, EAGAIN, or the end of the        *)
(* connection, orderly or not.                                             *)
Read(w) ==
  /\ pc[w] = "read"
  /\ \/ \E n \in 1..rcv :
          /\ peer # "reset"
          /\ rcv' = rcv - n /\ in_' = in_ + n
          /\ Goto(w, "handle")
          /\ UNCHANGED refs_
     \/ /\ peer = "open" /\ rcv = 0
        /\ refs_' = AcquireAgain
        /\ Goto(w, "waitRead")
        /\ UNCHANGED <<rcv, in_>>
     \/ /\ peer = "reset" \/ (peer = "closed" /\ rcv = 0)
        /\ Goto(w, "release")
        /\ UNCHANGED <<rcv, in_, refs_>>
  /\ UNCHANGED <<peer, sent, snd, fd, edge, desc, flagVars, pollVars, tasks,
                 alive, out_, writing_, refused, callVars>>

WaitRead(w) ==
  /\ pc[w] = "waitRead"
  /\ WhenReady(w, "read")
  /\ Goto(w, "cbRead")
  /\ UNCHANGED <<kernelVars, desc, pollVars, tasks, connVars, nested, size,
                 written>>

WaitReadCb(w) ==
  /\ pc[w] = "cbRead"
  /\ UpCall(w, "read")
  /\ Goto(w, "release")
  /\ UNCHANGED <<kernelVars, desc, flagVars, pollVars, connVars, nested,
                 size, written>>

(* readDone(): every request of in_ is answered into out_, under m_write_; *)
(* one that cannot be parsed, or a "quit", ends the connection.            *)
Handle(w) ==
  /\ pc[w] = "handle"
  /\ \/ /\ in_ = 0
        /\ Goto(w, "read")
        /\ UNCHANGED <<in_, out_, refused>>
     \/ /\ in_ > 0 /\ WriteLockFree
        /\ in_' = in_ - 1 /\ out_' = out_ + Blocks
        /\ Goto(w, "startWrite")
        /\ UNCHANGED refused
     \/ /\ in_ > 0
        /\ refused' = TRUE
        /\ Goto(w, "release")
        /\ UNCHANGED <<in_, out_>>
  /\ UNCHANGED <<kernelVars, desc, flagVars, pollVars, tasks, alive, refs_,
                 writing_, callVars>>

-----------------------------------------------------------------------------
(* startWrite() and doWrite() *)

(* Is there a write going on?  Mutant: startWrite() does not look. *)
WritingUnchecked == FALSE
Writing == writing_

StartWrite(w) ==
  /\ pc[w] = "startWrite" /\ WriteLockFree
  /\ \/ /\ Writing
        /\ Goto(w, "handle")
        /\ UNCHANGED <<writing_, refs_, nested>>
     \/ /\ ~Writing
        /\ writing_' = TRUE /\ refs_' = refs_ + 1
        /\ nested' = [nested EXCEPT ![w] = TRUE]
        /\ Goto(w, "load")
  /\ UNCHANGED <<kernelVars, desc, flagVars, pollVars, tasks, alive, in_, out_,
                 refused, ready_now, size, written>>

(* The contiguous part of out_. *)
Load(w) ==
  /\ pc[w] = "load" /\ WriteLockFree
  /\ \E n \in (IF out_ = 0 THEN {0} ELSE 1..out_) :
       size' = [size EXCEPT ![w] = n]
  /\ Goto(w, "write")
  /\ UNCHANGED <<kernelVars, desc, flagVars, pollVars, tasks, connVars, nested,
                 ready_now, written>>

(* One write() of the doWrite() loop.  An error, or a write() of nothing,  *)
(* which returns 0, ends the loop and leaves writing_ set.  What the       *)
(* thread knew of out_ is of no use after that.  The write() after a reset *)
(* fails with ECONNRESET, or with EPIPE and SIGPIPE if a read() has taken  *)
(* that error before.                                                      *)
Write(w) ==
  /\ pc[w] = "write"
  /\ \/ /\ peer = "reset" \/ size[w] = 0
        /\ Goto(w, "release")
        /\ size' = [size EXCEPT ![w] = 0]
        /\ UNCHANGED <<snd, refs_, written>>
     \/ /\ peer = "reset" /\ size[w] > 0
        /\ Goto(w, "sigpipe")
        /\ UNCHANGED <<snd, refs_, size, written>>
     \/ /\ peer # "reset" /\ size[w] > 0 /\ snd # "space"
        /\ snd' = "nospace" /\ refs_' = refs_ + 1
        /\ Goto(w, "waitWrite")
        /\ size' = [size EXCEPT ![w] = 0]
        /\ UNCHANGED written
     \/ /\ peer # "reset" /\ snd = "space"
        /\ \E n \in 1..size[w] :
             /\ written' = [written EXCEPT ![w] = n]
             /\ snd' \in IF n = size[w] THEN {"space", "full"} ELSE {"full"}
        /\ Goto(w, "wrote")
        /\ UNCHANGED <<refs_, size>>
  /\ UNCHANGED <<peer, sent, rcv, fd, edge, desc, flagVars, pollVars, tasks,
                 alive, in_, out_, writing_, refused, nested, ready_now>>

(* EAGAIN, under m_write_ *)
WaitWrite(w) ==
  /\ pc[w] = "waitWrite" /\ WriteLockFree
  /\ WhenReady(w, "write")
  /\ Goto(w, "cbWrite")
  /\ UNCHANGED <<kernelVars, desc, pollVars, tasks, connVars, nested, size,
                 written>>

WaitWriteCb(w) ==
  /\ pc[w] = "cbWrite"
  /\ UpCall(w, "write")
  /\ Goto(w, "release")
  /\ UNCHANGED <<kernelVars, desc, flagVars, pollVars, connVars, nested,
                 size, written>>

Wrote(w) ==
  /\ pc[w] = "wrote" /\ WriteLockFree
  /\ out_' = out_ - written[w]
  /\ \/ /\ size[w] = written[w] /\ out_' = 0
        /\ writing_' = FALSE
        /\ Goto(w, "release")
     \/ /\ ~(size[w] = written[w] /\ out_' = 0)
        /\ Goto(w, "load")
        /\ UNCHANGED writing_
  /\ size' = [size EXCEPT ![w] = 0] /\ written' = [written EXCEPT ![w] = 0]
  /\ UNCHANGED <<kernelVars, desc, flagVars, pollVars, tasks, alive, refs_, in_,
                 refused, nested, ready_now>>

-----------------------------------------------------------------------------
(* release(), at the end of doRead() and doWrite(), and the destructor *)

Release(w) ==
  /\ pc[w] = "release"
  /\ refs_' = refs_ - 1
  /\ alive' = (alive /\ refs_' # 0)
  /\ Goto(w, IF refs_' = 0 THEN "dtor1" ELSE IF nested[w] THEN "handle" ELSE "idle")
  /\ nested' = [nested EXCEPT ![w] = FALSE]
  /\ UNCHANGED <<kernelVars, desc, flagVars, pollVars, tasks, in_, out_,
                 writing_, refused, ready_now, size, written>>

(* close() takes the socket out of the epoll set; delDescriptor() hands    *)
(* the Descriptor to the polling thread.                                   *)
CloseSocket == fd' = "closed" /\ edge' = FALSE /\ UNCHANGED desc
DelDescriptor == desc' = "deleted" /\ UNCHANGED <<fd, edge>>

(* The two steps of the destructor.  Mutant: in the other order. *)
DestructorSwapped(step) == IF step = 1 THEN DelDescriptor ELSE CloseSocket
Destructor(step) == IF step = 1 THEN CloseSocket ELSE DelDescriptor

Destroy(w) ==
  /\ \/ pc[w] = "dtor1" /\ Destructor(1) /\ Goto(w, "dtor2")
     \/ pc[w] = "dtor2" /\ Destructor(2) /\ Goto(w, "idle")
  /\ UNCHANGED <<peer, sent, rcv, snd, flagVars, pollVars, tasks, connVars,
                 callVars>>

Worker(w) ==
  /\ Running
  /\ \/ StartRead(w) \/ StartReadCb(w)
     \/ \E d \in Dirs : Run(w, d)
     \/ Read(w) \/ WaitRead(w) \/ WaitReadCb(w) \/ Handle(w)
     \/ StartWrite(w) \/ Load(w) \/ Write(w) \/ Wrote(w)
     \/ WaitWrite(w) \/ WaitWriteCb(w)
     \/ Release(w) \/ Destroy(w)

(* The connection, or the process, is gone: not a deadlock. *)
Finished ==
  /\ \/ desc = "freed" /\ \A w \in Workers : pc[w] = "idle"
     \/ ~Running
  /\ UNCHANGED vars

Next == Kernel \/ Poller \/ (\E w \in Workers : Worker(w)) \/ Finished

Spec == Init /\ [][Next]_vars

(* The polling thread loops and workers are scheduled; the peer owes       *)
(* nothing.                                                                *)
Fairness == WF_vars(Poller) /\ \A w \in Workers : WF_vars(Worker(w))

FairSpec == Spec /\ Fairness

-----------------------------------------------------------------------------
(* Safety *)

DoingWrite == {"load", "write", "wrote", "waitWrite", "cbWrite", "release",
               "sigpipe"}
DoingRead  == {"read", "handle", "startWrite", "waitRead", "cbRead"}

One(condition) == IF condition THEN 1 ELSE 0

(* One reference per doRead() or doWrite() that runs, one for a doRead()   *)
(* that waits for the doWrite() it has called, and one that a worker took  *)
(* to pass it on to the upcall it asks for.                                *)
InUpCall   == {w \in Workers : pc[w] \in DoingRead \union DoingWrite}
OuterCall  == {w \in Workers : nested[w]}
PassesOn   == {w \in Workers :
                 \/ pc[w] \in {"waitRead", "waitWrite"}
                 \/ pc[w] \in {"startCb", "cbRead", "cbWrite"} /\ ready_now[w]}
Waited     == {d \in Dirs : waiting_[d]}

(* "This release() matches the acquire": the count is that of the workers  *)
(* inside doRead() and doWrite(), of the upcalls they wait for and of the  *)
(* upcalls in the pool, so that the last of all these deletes the object.  *)
RefsExact ==
  refs_ = Cardinality(InUpCall) + Cardinality(OuterCall)
          + Cardinality(PassesOn) + Cardinality(Waited)
          + One(poll = "cb" /\ schedule_now)
          + tasks["read"] + tasks["write"]

(* No thread touches what is gone.  A Connection that was deleted has no   *)
(* doRead() or doWrite() running or queued, and the polling thread never   *)
(* handles an event of a Descriptor that was freed, although epoll returns *)
(* events before and while the Connection is deleted.  "All callback state *)
(* is protected by m_", but the callback is read after m_ was released: by *)
(* then the Descriptor may be gone in startRead(), whose caller holds no   *)
(* reference, and nowhere else.                                            *)
NoUseAfterFree ==
  /\ ~alive => /\ \A w \in Workers : pc[w] \notin DoingRead \union DoingWrite
               /\ \A d \in Dirs : tasks[d] = 0 /\ ~waiting_[d]
  /\ desc = "freed" => /\ poll \in {"poll", "collect"} /\ fd = "closed"
                       /\ \A w \in Workers : pc[w] \notin {"cbRead", "cbWrite"}

(* "There's only one outstanding read operation": doRead() is running,     *)
(* waited for or queued, and never two of these.  The same for doWrite(),  *)
(* or two threads would send and consume the same bytes of out_.           *)
Outstanding(d, places) ==
  Cardinality({w \in Workers : pc[w] \in places})
    + One(waiting_[d]) + tasks[d] + One(poll = "cb" /\ Current = d /\ schedule_now)

OneReaderOneWriter ==
  /\ Outstanding("read", {"read", "handle", "startWrite", "waitRead"})
       + Cardinality({w \in Workers : nested[w]}) <= 1
  /\ Outstanding("write", {"load", "write", "wrote", "waitWrite"}) <= 1

(* "writing_: has a pending/ongoing write request": unless the connection  *)
(* broke, somebody is going to send what is in out_.                       *)
WritingHasWriter ==
  writing_ /\ peer # "reset" /\ alive =>
    \/ \E w \in Workers : pc[w] \in {"load", "write", "wrote", "waitWrite",
                                     "cbWrite"}
    \/ waiting_["write"] \/ tasks["write"] > 0
    \/ poll = "cb" /\ Current = "write" /\ schedule_now

-----------------------------------------------------------------------------
(* Liveness *)

(* Requests do not lie in the socket: the news of their arrival is never   *)
(* lost between a read() that found nothing and the wait for more.  What   *)
(* follows a request that readDone() refused is not read any more, even if *)
(* a response to an earlier one keeps the connection alive.                *)
RequestsAreRead ==
  rcv > 0 ~> (rcv = 0 \/ ~alive \/ peer = "reset" \/ refused)

(* A connection the peer resets is deleted and its Descriptor freed,       *)
(* whatever it was waiting for, unless a response that was still to be     *)
(* written ends the process.                                               *)
ResetIsCleanedUp == peer = "reset" ~> (desc = "freed" \/ ~Running)
=============================================================================
