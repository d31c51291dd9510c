-------------------------- MODULE ConnectionProofs --------------------------
(***************************************************************************)
(* What Connection.tla promises, for any number of worker threads, of      *)
(* requests and of response blocks: the count of references is exact,      *)
(* upcalls and the polling thread do not use what was freed, and at most   *)
(* one read and one write are outstanding.                                 *)
(*                                                                         *)
(* None of the three is inductive. References are only exact while each    *)
(* direction has at most one owner (AloneInv), and the last one is only    *)
(* released into the destructor once (LifeInv); the two rest on each       *)
(* other: a worker that still runs an upcall holds a reference, so nobody  *)
(* else can be the one that deletes.                                       *)
(***************************************************************************)
EXTENDS Connection, FiniteSetTheorems, TLAPS

(* A worker that is, or is about to ask for, the one doRead() there may be; *)
(* the same for doWrite(); and an upcall the polling thread has decided on. *)
Reads(w) ==
  \/ pc[w] \in {"startRead", "read", "handle", "startWrite", "waitRead"}
  \/ pc[w] \in {"startCb", "cbRead"} /\ ready_now[w]
  \/ nested[w]

Writes(w) ==
  \/ pc[w] \in {"load", "write", "wrote", "waitWrite"}
  \/ pc[w] = "cbWrite" /\ ready_now[w]

Announced(d) == poll = "cb" /\ Current = d /\ schedule_now

Busy(w, d) == IF d = "read" THEN Reads(w) ELSE Writes(w)

(* Somebody is responsible for direction d, and nobody else is. *)
Alone(d) ==
  /\ \A v, w \in Workers : Busy(v, d) /\ Busy(w, d) => v = w
  /\ \A w \in Workers :
       Busy(w, d) => ~waiting_[d] /\ tasks[d] = 0 /\ ~Announced(d)
  /\ waiting_[d] => tasks[d] = 0 /\ ~Announced(d)
  /\ Announced(d) => tasks[d] = 0
  /\ tasks[d] <= 1

AloneInv ==
  /\ Alone("read") /\ Alone("write")
  /\ \A w \in Workers : nested[w] => pc[w] \in DoingWrite
  /\ ~writing_ => /\ \A w \in Workers : ~Writes(w)
                  /\ ~waiting_["write"] /\ tasks["write"] = 0
                  /\ ~Announced("write")

(* What the buffers hold: a request is in the socket, in in_, or answered; *)
(* nobody but the writer takes from out_.                                  *)
BufferInv ==
  /\ rcv + in_ <= sent
  /\ out_ <= Blocks * (sent - rcv - in_)
  /\ \A w \in Workers : pc[w] \in {"write", "wrote"} => size[w] <= out_
  /\ \A w \in Workers : pc[w] = "wrote" => written[w] <= size[w]

(* The life of the object and of its Descriptor.                           *)
LifeInv ==
  /\ alive => fd = "open" /\ desc = "live"
  /\ ~alive => refs_ = 0
  /\ alive => refs_ > 0 \/ \E w \in Workers : pc[w] = "startRead"
  /\ \A w \in Workers :
       /\ pc[w] = "startRead" => alive /\ refs_ = 0 /\ ~writing_
       /\ pc[w] = "dtor1" => ~alive /\ fd = "open" /\ desc = "live"
       /\ pc[w] = "dtor2" => ~alive /\ fd = "closed" /\ desc = "live"
  /\ \A v, w \in Workers :
       pc[v] \in {"dtor1", "dtor2"} /\ pc[w] \in {"dtor1", "dtor2"} => v = w
  /\ desc # "live" => fd = "closed"
  /\ desc = "freed" => poll \in {"poll", "collect"}

IInv == TypeOK /\ BufferInv /\ AloneInv /\ RefsExact /\ LifeInv

(* readWhenReady() and writeWhenReady() keep the types of the flags they   *)
(* test and set under the lock of the Descriptor.                          *)
LEMMA WhenReadyType ==
  ASSUME TypeOK, NEW w \in Workers, NEW d \in Dirs, WhenReady(w, d)
  PROVE  /\ ready_now' \in [Workers -> BOOLEAN]
         /\ can_' \in [Dirs -> BOOLEAN]
         /\ waiting_' \in [Dirs -> BOOLEAN]
<1>1. can_[d] \in BOOLEAN
  BY DEF TypeOK
<1>2. ready_now' \in [Workers -> BOOLEAN]
  BY <1>1, Zenon DEF TypeOK, WhenReady, ReadyNow
<1>3. CASE can_[d]
  BY <1>2, <1>3, Zenon DEF TypeOK, WhenReady, ReadyNow
<1>4. CASE ~can_[d]
  BY <1>2, <1>4, Zenon DEF TypeOK, WhenReady, ReadyNow
<1> QED  BY <1>3, <1>4

(* There are two directions. *)
LEMMA DirsFinite == IsFiniteSet(Dirs)
<1>1. IsFiniteSet({"read"})
  BY FS_Singleton
<1>2. Dirs = {"read"} \union {"write"}
  BY DEF Dirs
<1> QED  BY <1>1, <1>2, FS_AddElement

(* Whoever holds a reference can be counted: there are finitely many       *)
(* workers, and two directions.                                            *)
LEMMA CountsFinite ==
  /\ IsFiniteSet(InUpCall) /\ Cardinality(InUpCall) \in Nat
  /\ IsFiniteSet(OuterCall) /\ Cardinality(OuterCall) \in Nat
  /\ IsFiniteSet(PassesOn) /\ Cardinality(PassesOn) \in Nat
  /\ IsFiniteSet(Waited) /\ Cardinality(Waited) \in Nat
<1>1. /\ InUpCall \subseteq Workers /\ OuterCall \subseteq Workers
      /\ PassesOn \subseteq Workers
  BY DEF InUpCall, OuterCall, PassesOn
<1>2. IsFiniteSet(Dirs)
  BY DirsFinite
<1>3. Waited \subseteq Dirs
  BY DEF Waited
<1> QED
  BY <1>1, <1>2, <1>3, WorkersAssumption, FS_Subset, FS_CardinalityType

(* A worker about to release the reference its upcall holds finds it       *)
(* counted, and two of them if it runs doWrite() inside doRead().          *)
LEMMA ReleaseHolds ==
  ASSUME TypeOK, RefsExact, NEW w \in Workers, pc[w] = "release"
  PROVE  refs_ >= 1 /\ (nested[w] => refs_ >= 2)
<1>1. w \in InUpCall /\ (nested[w] => w \in OuterCall)
  BY DEF InUpCall, OuterCall, DoingRead, DoingWrite
<1>2. Cardinality(InUpCall) >= 1 /\ (nested[w] => Cardinality(OuterCall) >= 1)
  BY <1>1, CountsFinite, FS_EmptySet
<1>3. tasks["read"] \in Nat /\ tasks["write"] \in Nat
  BY DEF TypeOK, Dirs
<1>4. One(poll = "cb" /\ schedule_now) \in Nat
  BY DEF One
<1> QED
  BY <1>2, <1>3, <1>4, CountsFinite DEF RefsExact

(* Every step keeps the types; the count of references does not go below   *)
(* zero, which needs that it is exact.                                     *)
LEMMA TypeStep ==
  ASSUME IInv, [Next]_vars
  PROVE  TypeOK'
<1> USE DEF flagVars, pollVars, connVars, callVars, IInv, TypeOK,
           BufferInv, Dirs, Places, MaxOut
<1>1. CASE Kernel /\ PeerSends
  BY <1>1, RequestsAssumption DEF Kernel, PeerSends
<1>2. CASE Kernel /\ PeerCloses
  BY <1>2, RequestsAssumption DEF Kernel, PeerCloses
<1>3. CASE Kernel /\ PeerResets
  BY <1>3, RequestsAssumption DEF Kernel, PeerResets
<1>4. CASE Kernel /\ PeerReceives
  BY <1>4, RequestsAssumption DEF Kernel, PeerReceives
<1>5. CASE Poller /\ PollEvents
  BY <1>5, RequestsAssumption DEF Poller, PollEvents, Events
<1>6. CASE Poller /\ PollNothing
  BY <1>6, RequestsAssumption DEF Poller, PollNothing, kernelVars
<1>7. CASE Poller /\ IfWaiting
  <2>1. Current \in Dirs
    BY DEF Current
  <2>2. waiting_' \in [Dirs -> BOOLEAN] /\ can_' \in [Dirs -> BOOLEAN]
    BY <1>7, <2>1, Zenon DEF IfWaiting, WaitingAfterEvent
  <2> QED
    BY ZenonT(40), <1>7, <2>2 DEF Poller, IfWaiting, kernelVars
<1>8. CASE Poller /\ IssueUpCall
  <2>1. Current \in Dirs
    BY DEF Current
  <2>2. tasks' \in [Dirs -> Nat]
    <3>1. CASE schedule_now
      BY <1>8, <2>1, <3>1 DEF IssueUpCall
    <3>2. CASE ~schedule_now
      BY <1>8, <3>2 DEF IssueUpCall
    <3> QED  BY <3>1, <3>2
  <2>3. events' \subseteq Dirs /\ poll' \in {"poll", "lock", "cb", "collect"}
    BY <1>8 DEF IssueUpCall
  <2>4. schedule_now' \in BOOLEAN
    BY <1>8 DEF IssueUpCall
  <2> QED
    BY <1>8, <2>2, <2>3, <2>4 DEF Poller, IssueUpCall, kernelVars
<1>9. CASE Poller /\ Collect
  BY <1>9, RequestsAssumption DEF Poller, Collect, kernelVars
<1>10. ASSUME NEW w \in Workers, StartRead(w) PROVE TypeOK'
  <2>1. /\ ready_now' \in [Workers -> BOOLEAN]
        /\ can_' \in [Dirs -> BOOLEAN]
        /\ waiting_' \in [Dirs -> BOOLEAN]
    BY <1>10, WhenReadyType DEF StartRead
  <2>2. pc' \in [Workers -> Places]
    BY <1>10 DEF StartRead, Goto
  <2>3. refs_' \in Nat
    BY <1>10 DEF StartRead
  <2> QED
    BY <1>10, <2>1, <2>2, <2>3 DEF StartRead, kernelVars
<1>11. ASSUME NEW w \in Workers, StartReadCb(w) PROVE TypeOK'
  BY <1>11, RequestsAssumption DEF StartReadCb, UpCall, Goto, kernelVars
<1>12. ASSUME NEW w \in Workers, NEW d \in Dirs, Run(w, d) PROVE TypeOK'
  BY <1>12, RequestsAssumption DEF Run, Goto, kernelVars
<1>13. ASSUME NEW w \in Workers, Read(w) PROVE TypeOK'
  BY <1>13, RequestsAssumption DEF Read, Goto, AcquireAgain
<1>14. ASSUME NEW w \in Workers, WaitRead(w) PROVE TypeOK'
  <2>1. /\ ready_now' \in [Workers -> BOOLEAN]
        /\ can_' \in [Dirs -> BOOLEAN]
        /\ waiting_' \in [Dirs -> BOOLEAN]
    BY <1>14, WhenReadyType DEF WaitRead
  <2>2. pc' \in [Workers -> Places]
    BY <1>14 DEF WaitRead, Goto
  <2>3. refs_' \in Nat
    BY <1>14 DEF WaitRead
  <2> QED
    BY <1>14, <2>1, <2>2, <2>3 DEF WaitRead, kernelVars
<1>15. ASSUME NEW w \in Workers, WaitReadCb(w) PROVE TypeOK'
  BY <1>15, RequestsAssumption DEF WaitReadCb, UpCall, Goto, kernelVars
<1>16. ASSUME NEW w \in Workers, Handle(w) PROVE TypeOK'
  <2>1. in_' \in 0..MaxRequests /\ out_' \in 0..MaxOut
    BY <1>16, RequestsAssumption DEF Handle, WriteLockFree, kernelVars
  <2>2. pc' \in [Workers -> Places]
    BY <1>16 DEF Handle, Goto
  <2>3. refused' \in BOOLEAN
    BY <1>16, Zenon DEF Handle
  <2> QED
    BY <1>16, <2>1, <2>2, <2>3 DEF Handle, kernelVars
<1>17. ASSUME NEW w \in Workers, StartWrite(w) PROVE TypeOK'
  <2>1. nested' \in [Workers -> BOOLEAN] /\ writing_' \in BOOLEAN
    BY <1>17, Zenon DEF StartWrite
  <2>2. pc' \in [Workers -> Places] /\ refs_' \in Nat
    BY <1>17 DEF StartWrite, Goto
  <2> QED
    BY <1>17, <2>1, <2>2 DEF StartWrite, kernelVars
<1>18. ASSUME NEW w \in Workers, Load(w) PROVE TypeOK'
  BY <1>18, RequestsAssumption DEF Load, Goto, WriteLockFree, kernelVars
<1>19. ASSUME NEW w \in Workers, Write(w) PROVE TypeOK'
  BY <1>19, RequestsAssumption DEF Write, Goto
<1>20. ASSUME NEW w \in Workers, WaitWrite(w) PROVE TypeOK'
  <2>1. /\ ready_now' \in [Workers -> BOOLEAN]
        /\ can_' \in [Dirs -> BOOLEAN]
        /\ waiting_' \in [Dirs -> BOOLEAN]
    BY <1>20, WhenReadyType DEF WaitWrite
  <2>2. pc' \in [Workers -> Places]
    BY <1>20 DEF WaitWrite, Goto
  <2>3. refs_' \in Nat
    BY <1>20 DEF WaitWrite
  <2> QED
    BY <1>20, <2>1, <2>2, <2>3 DEF WaitWrite, kernelVars
<1>21. ASSUME NEW w \in Workers, WaitWriteCb(w) PROVE TypeOK'
  BY <1>21, RequestsAssumption DEF WaitWriteCb, UpCall, Goto, kernelVars
<1>22. ASSUME NEW w \in Workers, Wrote(w) PROVE TypeOK'
  <2>1. out_' \in 0..MaxOut
    BY <1>22, RequestsAssumption DEF Wrote
  <2>2. pc' \in [Workers -> Places] /\ writing_' \in BOOLEAN
    BY <1>22 DEF Wrote, Goto
  <2>3. size' \in [Workers -> 0..MaxOut] /\ written' \in [Workers -> 0..MaxOut]
    BY <1>22, RequestsAssumption DEF Wrote
  <2> QED
    BY <1>22, <2>1, <2>2, <2>3 DEF Wrote, kernelVars
<1>23. ASSUME NEW w \in Workers, Release(w) PROVE TypeOK'
  <2>1. nested' \in [Workers -> BOOLEAN] /\ alive' \in BOOLEAN
    BY <1>23, Zenon DEF Release
  <2>2. pc' \in [Workers -> Places]
    BY <1>23 DEF Release, Goto
  <2>3. refs_' \in Nat
    BY <1>23, ReleaseHolds DEF Release
  <2> QED
    BY <1>23, <2>1, <2>2, <2>3 DEF Release, kernelVars
<1>24. ASSUME NEW w \in Workers, Destroy(w) PROVE TypeOK'
  <2>1. CASE pc[w] = "dtor1" /\ Destructor(1) /\ Goto(w, "dtor2")
    BY ZenonT(40), <1>24, <2>1 DEF Destroy, Destructor, CloseSocket, Goto
  <2>2. CASE pc[w] = "dtor2" /\ Destructor(2) /\ Goto(w, "idle")
    BY <1>24, <2>2 DEF Destroy, Destructor, DelDescriptor, Goto
  <2> QED  BY <1>24, <2>1, <2>2 DEF Destroy
<1>25. CASE UNCHANGED vars
  BY <1>25 DEF vars, kernelVars
<1> QED
  BY <1>1, <1>2, <1>3, <1>4, <1>5, <1>6, <1>7, <1>8, <1>9, <1>10, <1>11,
     <1>12, <1>13, <1>14, <1>15, <1>16, <1>17, <1>18, <1>19, <1>20, <1>21,
     <1>22, <1>23, <1>24, <1>25 DEF Next, Kernel, Poller, Worker, Finished

(* Every step keeps what the buffers hold: a request is in the socket, in  *)
(* in_, or answered, and only the writer takes from out_.                  *)
LEMMA BufferStep ==
  ASSUME IInv, TypeOK', [Next]_vars
  PROVE  BufferInv'
<1> USE DEF flagVars, pollVars, connVars, IInv, TypeOK, BufferInv,
           AloneInv, Alone, Busy, Writes
<1>1. CASE Kernel /\ PeerSends
  BY <1>1, RequestsAssumption DEF Kernel, PeerSends, callVars
<1>2. CASE Kernel /\ PeerCloses
  BY <1>2, RequestsAssumption DEF Kernel, PeerCloses, callVars
<1>3. CASE Kernel /\ PeerResets
  BY <1>3, RequestsAssumption DEF Kernel, PeerResets, callVars
<1>4. CASE Kernel /\ PeerReceives
  BY <1>4, RequestsAssumption DEF Kernel, PeerReceives, callVars
<1>5. CASE Poller /\ PollEvents
  BY <1>5, RequestsAssumption DEF Poller, PollEvents, Events, callVars
<1>6. CASE Poller /\ PollNothing
  BY <1>6, RequestsAssumption DEF Poller, PollNothing, kernelVars, callVars
<1>7. CASE Poller /\ IfWaiting
  BY <1>7, RequestsAssumption DEF Poller, IfWaiting, Current,
     WaitingAfterEvent, kernelVars, callVars
<1>8. CASE Poller /\ IssueUpCall
  BY <1>8, RequestsAssumption DEF Poller, IssueUpCall, Current, kernelVars,
     callVars
<1>9. CASE Poller /\ Collect
  BY <1>9, RequestsAssumption DEF Poller, Collect, kernelVars, callVars
<1>10. ASSUME NEW w \in Workers, StartRead(w) PROVE BufferInv'
  BY <1>10, RequestsAssumption
     DEF StartRead, WhenReady, ReadyNow, Goto, kernelVars
<1>11. ASSUME NEW w \in Workers, StartReadCb(w) PROVE BufferInv'
  BY <1>11, RequestsAssumption DEF StartReadCb, UpCall, Goto, kernelVars
<1>12. ASSUME NEW w \in Workers, NEW d \in Dirs, Run(w, d) PROVE BufferInv'
  BY <1>12, RequestsAssumption DEF Run, Goto, kernelVars, callVars
<1>13. ASSUME NEW w \in Workers, Read(w) PROVE BufferInv'
  <2>1. sent' = sent /\ out_' = out_ /\ size' = size /\ written' = written
    BY <1>13 DEF Read, callVars
  <2>2. sent \in Int /\ rcv \in Int /\ in_ \in Int
    OBVIOUS
  <2>3. /\ rcv' + in_' = rcv + in_
        /\ sent' - rcv' - in_' = sent - rcv - in_
    <3>1. CASE \E n \in 1..rcv : rcv' = rcv - n /\ in_' = in_ + n
      BY <2>1, <2>2, <3>1
    <3>2. CASE rcv' = rcv /\ in_' = in_
      BY <2>1, <3>2
    <3> QED
      BY <1>13, <3>1, <3>2 DEF Read
  <2>4. \A v \in Workers :
          pc'[v] \in {"write", "wrote"} => v # w /\ pc'[v] = pc[v]
    BY <1>13 DEF Read, Goto
  <2> QED
    BY <2>1, <2>3, <2>4
<1>14. ASSUME NEW w \in Workers, WaitRead(w) PROVE BufferInv'
  BY <1>14, RequestsAssumption
     DEF WaitRead, WhenReady, ReadyNow, Goto, kernelVars
<1>15. ASSUME NEW w \in Workers, WaitReadCb(w) PROVE BufferInv'
  BY <1>15, RequestsAssumption DEF WaitReadCb, UpCall, Goto, kernelVars
<1>16. ASSUME NEW w \in Workers, Handle(w) PROVE BufferInv'
  <2>1. \A v \in Workers :
          pc'[v] \in {"write", "wrote"} => v # w /\ pc'[v] = pc[v]
    BY <1>16 DEF Handle, Goto
  <2>2. sent' = sent /\ rcv' = rcv /\ size' = size /\ written' = written
    BY <1>16 DEF Handle, kernelVars, callVars
  <2>3. CASE in_' = in_ /\ out_' = out_
    BY <2>1, <2>2, <2>3
  <2>4. CASE in_' = in_ - 1 /\ out_' = out_ + Blocks
    <3>1. sent \in Int /\ rcv \in Int /\ in_ \in Int /\ out_ \in Int /\ Blocks \in Nat
      BY RequestsAssumption
    <3>2. sent - rcv - (in_ - 1) = (sent - rcv - in_) + 1
      BY <3>1
    <3>3. \A k \in Int : Blocks * (k + 1) = Blocks * k + Blocks
      BY <3>1
    <3>4. Blocks * (sent - rcv - (in_ - 1)) = Blocks * (sent - rcv - in_) + Blocks
      BY <3>1, <3>2, <3>3
    <3>5. Blocks * (sent - rcv - in_) \in Int
      BY <3>1
    <3>6. out_' <= Blocks * (sent' - rcv' - in_')
      BY <2>2, <2>4, <3>1, <3>4, <3>5
    <3>7. rcv' + in_' <= sent' /\ out_ <= out_'
      BY <2>2, <2>4, <3>1
    <3>8. \A v \in Workers : size[v] \in Int
      BY RequestsAssumption DEF MaxOut
    <3> QED
      BY <2>1, <2>2, <2>4, <3>1, <3>6, <3>7, <3>8
  <2> QED
    BY <1>16, <2>3, <2>4 DEF Handle
<1>17. ASSUME NEW w \in Workers, StartWrite(w) PROVE BufferInv'
  BY <1>17, RequestsAssumption
     DEF StartWrite, Goto, Writing, WriteLockFree, kernelVars
<1>18. ASSUME NEW w \in Workers, Load(w) PROVE BufferInv'
  BY <1>18, RequestsAssumption DEF Load, Goto, WriteLockFree, kernelVars
<1>19. ASSUME NEW w \in Workers, Write(w) PROVE BufferInv'
  BY <1>19, RequestsAssumption DEF Write, Goto
<1>20. ASSUME NEW w \in Workers, WaitWrite(w) PROVE BufferInv'
  BY <1>20, RequestsAssumption
     DEF WaitWrite, WhenReady, ReadyNow, Goto, WriteLockFree, kernelVars
<1>21. ASSUME NEW w \in Workers, WaitWriteCb(w) PROVE BufferInv'
  BY <1>21, RequestsAssumption DEF WaitWriteCb, UpCall, Goto, kernelVars
<1>22. ASSUME NEW w \in Workers, Wrote(w) PROVE BufferInv'
  BY <1>22, RequestsAssumption DEF Wrote, Goto, WriteLockFree, kernelVars
<1>23. ASSUME NEW w \in Workers, Release(w) PROVE BufferInv'
  BY <1>23, RequestsAssumption DEF Release, Goto, kernelVars
<1>24. ASSUME NEW w \in Workers, Destroy(w) PROVE BufferInv'
  BY <1>24, RequestsAssumption
     DEF Destroy, Goto, Destructor, CloseSocket, DelDescriptor, callVars
<1>25. CASE UNCHANGED vars
  BY <1>25 DEF vars, kernelVars, callVars
<1> QED
  BY <1>1, <1>2, <1>3, <1>4, <1>5, <1>6, <1>7, <1>8, <1>9, <1>10, <1>11,
     <1>12, <1>13, <1>14, <1>15, <1>16, <1>17, <1>18, <1>19, <1>20, <1>21,
     <1>22, <1>23, <1>24, <1>25 DEF Next, Kernel, Poller, Worker, Finished

(* Every step leaves each direction with at most one owner: a worker, a    *)
(* task in the pool, a decision of the polling thread, or a callback that  *)
(* waits in the Descriptor.                                                *)
LEMMA AloneStep ==
  ASSUME IInv, TypeOK', [Next]_vars
  PROVE  AloneInv'
<1> USE DEF flagVars, pollVars, connVars, IInv, TypeOK, AloneInv, Alone,
           Busy, Reads, Writes, Announced, Current, DoingWrite, LifeInv,
           Dirs
<1>1. CASE Kernel
  BY <1>1 DEF Kernel, callVars
<1>2. CASE Poller /\ PollEvents
  BY <1>2 DEF Poller, PollEvents, Events, callVars
<1>3. CASE Poller /\ PollNothing
  BY <1>3 DEF Poller, PollNothing, kernelVars, callVars
<1>4. CASE Poller /\ IfWaiting
  BY <1>4 DEF Poller, IfWaiting, WaitingAfterEvent, kernelVars, callVars
<1>5. CASE Poller /\ IssueUpCall
  BY <1>5 DEF Poller, IssueUpCall, kernelVars, callVars
<1>6. CASE Poller /\ Collect
  BY <1>6 DEF Poller, Collect, kernelVars, callVars
<1>7. ASSUME NEW w \in Workers, StartRead(w) PROVE AloneInv'
  BY <1>7 DEF StartRead, WhenReady, ReadyNow, Goto, kernelVars
<1>8. ASSUME NEW w \in Workers, StartReadCb(w) PROVE AloneInv'
  BY <1>8 DEF StartReadCb, UpCall, Goto, kernelVars
<1>9. ASSUME NEW w \in Workers, NEW d \in Dirs, Run(w, d) PROVE AloneInv'
  BY <1>9 DEF Run, Goto, kernelVars, callVars
<1>10. ASSUME NEW w \in Workers, Read(w) PROVE AloneInv'
  BY <1>10 DEF Read, Goto, AcquireAgain, callVars
<1>11. ASSUME NEW w \in Workers, WaitRead(w) PROVE AloneInv'
  BY <1>11 DEF WaitRead, WhenReady, ReadyNow, Goto, kernelVars
<1>12. ASSUME NEW w \in Workers, WaitReadCb(w) PROVE AloneInv'
  BY <1>12 DEF WaitReadCb, UpCall, Goto, kernelVars
<1>13. ASSUME NEW w \in Workers, Handle(w) PROVE AloneInv'
  BY <1>13 DEF Handle, Goto, WriteLockFree, kernelVars, callVars
<1>14. ASSUME NEW w \in Workers, StartWrite(w) PROVE AloneInv'
  BY <1>14 DEF StartWrite, Goto, Writing, WriteLockFree, kernelVars
<1>15. ASSUME NEW w \in Workers, Load(w) PROVE AloneInv'
  BY <1>15 DEF Load, Goto, WriteLockFree, kernelVars
<1>16. ASSUME NEW w \in Workers, Write(w) PROVE AloneInv'
  BY <1>16 DEF Write, Goto
<1>17. ASSUME NEW w \in Workers, WaitWrite(w) PROVE AloneInv'
  BY <1>17 DEF WaitWrite, WhenReady, ReadyNow, Goto, WriteLockFree,
     kernelVars
<1>18. ASSUME NEW w \in Workers, WaitWriteCb(w) PROVE AloneInv'
  BY <1>18 DEF WaitWriteCb, UpCall, Goto, kernelVars
<1>19. ASSUME NEW w \in Workers, Wrote(w) PROVE AloneInv'
  BY <1>19 DEF Wrote, Goto, WriteLockFree, kernelVars
<1>20. ASSUME NEW w \in Workers, Release(w) PROVE AloneInv'
  BY <1>20 DEF Release, Goto, kernelVars
<1>21. ASSUME NEW w \in Workers, Destroy(w) PROVE AloneInv'
  BY <1>21 DEF Destroy, Goto, Destructor, CloseSocket, DelDescriptor,
     callVars
<1>22. CASE UNCHANGED vars
  BY <1>22 DEF vars, kernelVars, callVars
<1> QED
  BY ZenonT(40), <1>1, <1>2, <1>3, <1>4, <1>5, <1>6, <1>7, <1>8,
     <1>9, <1>10, <1>11, <1>12, <1>13, <1>14, <1>15, <1>16, <1>17, <1>18,
     <1>19, <1>20, <1>21, <1>22 DEF Next, Kernel, Poller, Worker, Finished

(* One more holder of a reference. *)
LEMMA OneMore ==
  ASSUME NEW S, IsFiniteSet(S), NEW x, x \notin S
  PROVE  Cardinality(S \union {x}) = Cardinality(S) + 1
BY FS_AddElement

(* One holder of a reference less. *)
LEMMA OneLess ==
  ASSUME NEW S, IsFiniteSet(S), NEW x, x \in S
  PROVE  Cardinality(S \ {x}) = Cardinality(S) - 1 /\ IsFiniteSet(S \ {x})
BY FS_RemoveElement

(* The holders can be counted after a step, too. *)
LEMMA CountsFiniteNext ==
  Cardinality(PassesOn') \in Nat /\ Cardinality(Waited') \in Nat
<1>1. PassesOn' \subseteq Workers
  BY DEF PassesOn
<1>2. IsFiniteSet(PassesOn')
  BY <1>1, WorkersAssumption, FS_Subset
<1>3. Waited' \subseteq Dirs
  BY DEF Waited
<1>4. IsFiniteSet(Waited')
  BY <1>3, DirsFinite, FS_Subset
<1> QED
  BY <1>2, <1>4, FS_CardinalityType

(* readWhenReady() and writeWhenReady() pass the reference on exactly      *)
(* once: to the caller if the socket is ready, or to the Descriptor.       *)
LEMMA WhenReadyCounts ==
  ASSUME TypeOK, NEW w \in Workers, NEW d \in Dirs, ~waiting_[d],
         WhenReady(w, d), Goto(w, "startCb") \/ Goto(w, "cbRead") \/ Goto(w, "cbWrite")
  PROVE  Cardinality(PassesOn') + Cardinality(Waited')
           = Cardinality(PassesOn \ {w}) + Cardinality(Waited) + 1
<1>1. CASE can_[d]
  <2>1. Waited' = Waited
    BY <1>1 DEF WhenReady, ReadyNow, Waited
  <2>2. ready_now'[w] = TRUE /\ \A v \in Workers \ {w} : ready_now'[v] = ready_now[v]
    BY <1>1, Zenon DEF WhenReady, ReadyNow, TypeOK
  <2>3. pc'[w] \in {"startCb", "cbRead", "cbWrite"} /\ \A v \in Workers \ {w} : pc'[v] = pc[v]
    BY DEF Goto, TypeOK
  <2>4. PassesOn' = (PassesOn \ {w}) \union {w}
    BY <2>2, <2>3 DEF PassesOn
  <2>5. IsFiniteSet(PassesOn \ {w})
    BY CountsFinite, FS_Subset
  <2>6. Cardinality(PassesOn \ {w}) \in Nat
    BY <2>5, FS_CardinalityType
  <2>7. Cardinality(PassesOn') = Cardinality(PassesOn \ {w}) + 1
    BY <2>4, <2>5, OneMore
  <2> QED
    BY <2>1, <2>6, <2>7, CountsFinite
<1>2. CASE ~can_[d]
  <2>1. Waited' = Waited \union {d} /\ d \notin Waited
    BY <1>2 DEF WhenReady, ReadyNow, Waited, TypeOK
  <2>2. ready_now'[w] = FALSE /\ \A v \in Workers \ {w} : ready_now'[v] = ready_now[v]
    BY <1>2, Zenon DEF WhenReady, ReadyNow, TypeOK
  <2>3. pc'[w] \in {"startCb", "cbRead", "cbWrite"} /\ \A v \in Workers \ {w} : pc'[v] = pc[v]
    BY DEF Goto, TypeOK
  <2>4. PassesOn' = PassesOn \ {w}
    BY <2>2, <2>3 DEF PassesOn
  <2> QED
    BY <2>1, <2>4, OneMore, CountsFinite, FS_Subset, FS_CardinalityType
<1> QED  BY <1>1, <1>2

(* The reference of a callback that was found ready becomes the one of the *)
(* task that is added to the pool.                                         *)
LEMMA UpCallCounts ==
  ASSUME TypeOK, NEW w \in Workers, NEW d \in Dirs,
         pc[w] \in {"startCb", "cbRead", "cbWrite"},
         UpCall(w, d), Goto(w, "idle") \/ Goto(w, "release")
  PROVE  Cardinality(PassesOn') + tasks'["read"] + tasks'["write"]
           = Cardinality(PassesOn) + tasks["read"] + tasks["write"]
<1>1. pc'[w] \in {"idle", "release"} /\ \A v \in Workers \ {w} : pc'[v] = pc[v]
  BY DEF Goto, TypeOK
<1>2. \A v \in Workers \ {w} : ready_now'[v] = ready_now[v]
  BY DEF UpCall, TypeOK
<1>3. PassesOn' = PassesOn \ {w}
  BY <1>1, <1>2 DEF PassesOn
<1>4. tasks["read"] \in Nat /\ tasks["write"] \in Nat
  BY DEF TypeOK, Dirs
<1>5. CASE ready_now[w]
  <2>1. w \in PassesOn
    BY <1>5 DEF PassesOn
  <2>2. tasks'["read"] + tasks'["write"] = tasks["read"] + tasks["write"] + 1
    BY <1>4, <1>5 DEF UpCall, TypeOK, Dirs
  <2>3. tasks'["read"] \in Nat /\ tasks'["write"] \in Nat
    BY <1>4, <1>5 DEF UpCall, TypeOK, Dirs
  <2>4. Cardinality(PassesOn') = Cardinality(PassesOn) - 1
    BY <1>3, <2>1, OneLess, CountsFinite
  <2> QED
    BY <1>4, <2>2, <2>3, <2>4, CountsFinite
<1>6. CASE ~ready_now[w]
  <2>1. PassesOn \ {w} = PassesOn
    BY <1>6 DEF PassesOn
  <2> QED
    BY <1>3, <1>6, <2>1 DEF UpCall
<1> QED  BY <1>5, <1>6

(* The other terms of the count are numbers. *)
LEMMA CountTypes ==
  ASSUME TypeOK
  PROVE  /\ tasks["read"] \in Nat /\ tasks["write"] \in Nat
         /\ One(poll = "cb" /\ schedule_now) \in Nat
BY DEF TypeOK, Dirs, One

(* They are after a step, too. *)
LEMMA CountTypesNext ==
  ASSUME TypeOK'
  PROVE  tasks'["read"] \in Nat /\ tasks'["write"] \in Nat
BY DEF TypeOK, Dirs

(* Every step keeps the count exact: acquire(), release(), and the hand    *)
(* over of a reference between a worker, the Descriptor, the polling       *)
(* thread and a task.                                                      *)
LEMMA RefsStep ==
  ASSUME IInv, TypeOK', [Next]_vars
  PROVE  RefsExact'
<1> USE DEF flagVars, pollVars
<1>1. CASE Kernel
  BY <1>1 DEF Kernel, connVars, callVars, IInv, TypeOK,
     RefsExact, InUpCall, OuterCall, PassesOn, Waited, One, DoingRead,
     DoingWrite
<1>2. CASE Poller /\ PollEvents
  BY <1>2 DEF Poller, PollEvents, Events, connVars, callVars, IInv, TypeOK,
     RefsExact, InUpCall, OuterCall, PassesOn, Waited, One, DoingRead,
     DoingWrite
<1>3. CASE Poller /\ PollNothing
  BY <1>3 DEF Poller, PollNothing, kernelVars, connVars, callVars, IInv,
     TypeOK, RefsExact, InUpCall, OuterCall, PassesOn, Waited, One,
     DoingRead, DoingWrite
<1>4. CASE Poller /\ IfWaiting
  <2>1. CASE waiting_[Current]
    <3>1. Current \in Waited /\ Waited' = Waited \ {Current}
      BY <1>4, <2>1 DEF IfWaiting, WaitingAfterEvent, Waited, Current,
         Dirs, IInv, TypeOK
    <3>2. poll = "lock" /\ poll' = "cb" /\ schedule_now' = TRUE
      BY <1>4, <2>1 DEF IfWaiting
    <3>3. One(poll = "cb" /\ schedule_now) = 0 /\ One(poll' = "cb" /\ schedule_now') = 1
      BY <3>2 DEF One
    <3>4. Cardinality(Waited') = Cardinality(Waited) - 1
      BY <3>1, OneLess, CountsFinite
    <3>5. /\ InUpCall' = InUpCall /\ OuterCall' = OuterCall /\ PassesOn' = PassesOn
          /\ refs_' = refs_ /\ tasks' = tasks
      BY <1>4 DEF Poller, IfWaiting, connVars, callVars, InUpCall,
         OuterCall, PassesOn
    <3> QED
      BY <3>3, <3>4, <3>5, CountsFinite, CountTypes DEF IInv, RefsExact
  <2>2. CASE ~waiting_[Current]
    <3>1. Waited' = Waited /\ poll = "lock" /\ schedule_now' = FALSE
      BY <1>4, <2>2 DEF IfWaiting, Waited
    <3>2. One(poll = "cb" /\ schedule_now) = 0 /\ One(poll' = "cb" /\ schedule_now') = 0
      BY <3>1 DEF One
    <3>3. /\ InUpCall' = InUpCall /\ OuterCall' = OuterCall /\ PassesOn' = PassesOn
          /\ refs_' = refs_ /\ tasks' = tasks
      BY <1>4 DEF Poller, IfWaiting, connVars, callVars, InUpCall,
         OuterCall, PassesOn
    <3> QED
      BY <3>1, <3>2, <3>3 DEF IInv, RefsExact
  <2> QED  BY <2>1, <2>2
<1>5. CASE Poller /\ IssueUpCall
  <2>1. /\ InUpCall' = InUpCall /\ OuterCall' = OuterCall /\ PassesOn' = PassesOn
        /\ Waited' = Waited /\ refs_' = refs_
    BY <1>5 DEF Poller, IssueUpCall, connVars, callVars, InUpCall,
       OuterCall, PassesOn, Waited
  <2>2. poll = "cb" /\ schedule_now' = FALSE
    BY <1>5 DEF IssueUpCall
  <2>3. tasks'["read"] + tasks'["write"]
          = tasks["read"] + tasks["write"] + One(poll = "cb" /\ schedule_now)
    BY <1>5, <2>2, CountTypes DEF IssueUpCall, One, Current, IInv, TypeOK,
       Dirs
  <2>4. tasks'["read"] \in Nat /\ tasks'["write"] \in Nat
    BY DEF TypeOK, Dirs
  <2>5. One(poll' = "cb" /\ schedule_now') = 0
    BY <2>2 DEF One
  <2> QED
    BY <2>1, <2>3, <2>4, <2>5, CountsFinite, CountTypes DEF IInv, RefsExact
<1>6. CASE Poller /\ Collect
  BY <1>6 DEF Poller, Collect, kernelVars, connVars, callVars, IInv,
     TypeOK, RefsExact, InUpCall, OuterCall, PassesOn, Waited, One,
     DoingRead, DoingWrite
<1>7. ASSUME NEW w \in Workers, StartRead(w) PROVE RefsExact'
  <2>1. /\ InUpCall' = InUpCall /\ OuterCall' = OuterCall /\ PassesOn \ {w} = PassesOn
        /\ refs_' = refs_ + 1 /\ poll' = poll /\ schedule_now' = schedule_now /\ tasks' = tasks
    BY <1>7 DEF StartRead, Goto, InUpCall, OuterCall, PassesOn, DoingRead,
       DoingWrite, IInv, TypeOK
  <2>2. ~waiting_["read"]
    BY <1>7 DEF StartRead, IInv, AloneInv, Alone, Busy, Reads
  <2>3. Cardinality(PassesOn') + Cardinality(Waited')
          = Cardinality(PassesOn) + Cardinality(Waited) + 1
    BY <1>7, <2>1, <2>2, WhenReadyCounts DEF StartRead, IInv, Dirs
  <2> QED
    BY <2>1, <2>3, CountsFinite, CountsFiniteNext, CountTypes
       DEF IInv, RefsExact
<1>8. ASSUME NEW w \in Workers, StartReadCb(w) PROVE RefsExact'
  <2>1. /\ InUpCall' = InUpCall /\ OuterCall' = OuterCall /\ Waited' = Waited
        /\ refs_' = refs_ /\ poll' = poll /\ schedule_now' = schedule_now
    BY <1>8 DEF StartReadCb, Goto, connVars, InUpCall, OuterCall, Waited,
       DoingRead, DoingWrite, IInv, TypeOK
  <2>2. Cardinality(PassesOn') + tasks'["read"] + tasks'["write"]
          = Cardinality(PassesOn) + tasks["read"] + tasks["write"]
    BY <1>8, UpCallCounts DEF StartReadCb, IInv, Dirs
  <2>9. One(poll' = "cb" /\ schedule_now') = One(poll = "cb" /\ schedule_now)
    BY <2>1 DEF One
  <2>8. InUpCall' = InUpCall /\ OuterCall' = OuterCall /\ Waited' = Waited /\ refs_' = refs_
    BY <2>1
  <2> QED
    BY <2>8, <2>2, <2>9, CountsFinite, CountsFiniteNext, CountTypes,
       CountTypesNext DEF IInv, RefsExact
<1>9. ASSUME NEW w \in Workers, NEW d \in Dirs, Run(w, d) PROVE RefsExact'
  <2>1. /\ InUpCall' = InUpCall \union {w} /\ w \notin InUpCall
        /\ OuterCall' = OuterCall /\ PassesOn' = PassesOn /\ Waited' = Waited
        /\ refs_' = refs_ /\ poll' = poll /\ schedule_now' = schedule_now
    BY <1>9 DEF Run, Goto, connVars, callVars, InUpCall, OuterCall,
       PassesOn, Waited, DoingRead, DoingWrite, IInv, TypeOK
  <2>2. tasks'["read"] + tasks'["write"] = tasks["read"] + tasks["write"] - 1
    BY <1>9 DEF Run, IInv, TypeOK, Dirs
  <2>3. tasks'["read"] \in Nat /\ tasks'["write"] \in Nat
    BY DEF TypeOK, Dirs
  <2>4. Cardinality(InUpCall') = Cardinality(InUpCall) + 1
    BY <2>1, OneMore, CountsFinite
  <2>9. One(poll' = "cb" /\ schedule_now') = One(poll = "cb" /\ schedule_now)
    BY <2>1 DEF One
  <2>8. /\ OuterCall' = OuterCall /\ PassesOn' = PassesOn /\ Waited' = Waited /\ refs_' = refs_
    BY <2>1
  <2>7. /\ Cardinality(InUpCall') \in Nat
        /\ Cardinality(InUpCall') + tasks'["read"] + tasks'["write"]
             = Cardinality(InUpCall) + tasks["read"] + tasks["write"]
    BY <2>2, <2>3, <2>4, CountsFinite, CountTypes DEF IInv
  <2> QED
    BY <2>8, <2>7, <2>9, <2>3, CountsFinite, CountTypes DEF IInv, RefsExact
<1>10. ASSUME NEW w \in Workers, Read(w) PROVE RefsExact'
  <2>1. /\ InUpCall' = InUpCall /\ OuterCall' = OuterCall /\ Waited' = Waited
        /\ poll' = poll /\ schedule_now' = schedule_now /\ tasks' = tasks
    BY <1>10 DEF Read, Goto, callVars, InUpCall, OuterCall, Waited,
       DoingRead, DoingWrite, IInv, TypeOK
  <2>2. CASE refs_' = AcquireAgain /\ Goto(w, "waitRead")
    <3>1. PassesOn' = PassesOn \union {w} /\ w \notin PassesOn
      BY <1>10, <2>2 DEF Read, Goto, callVars, PassesOn, IInv, TypeOK
    <3>2. Cardinality(PassesOn') = Cardinality(PassesOn) + 1
      BY <3>1, OneMore, CountsFinite
    <3> QED
      BY <2>1, <2>2, <3>2, CountsFinite, CountTypes
         DEF AcquireAgain, IInv, RefsExact
  <2>3. CASE refs_' = refs_ /\ (Goto(w, "handle") \/ Goto(w, "release"))
    <3>1. PassesOn' = PassesOn
      BY <1>10, <2>3 DEF Read, Goto, callVars, PassesOn, IInv, TypeOK
    <3> QED
      BY <2>1, <2>3, <3>1 DEF IInv, RefsExact
  <2> QED  BY <1>10, <2>2, <2>3 DEF Read
<1>11. ASSUME NEW w \in Workers, WaitRead(w) PROVE RefsExact'
  <2>1. /\ InUpCall' = InUpCall /\ OuterCall' = OuterCall /\ w \in PassesOn
        /\ refs_' = refs_ /\ poll' = poll /\ schedule_now' = schedule_now /\ tasks' = tasks
    BY <1>11 DEF WaitRead, Goto, connVars, InUpCall, OuterCall, PassesOn,
       DoingRead, DoingWrite, IInv, TypeOK
  <2>2. ~waiting_["read"]
    BY <1>11 DEF WaitRead, IInv, AloneInv, Alone, Busy, Reads, Writes
  <2>3. Cardinality(PassesOn') + Cardinality(Waited')
          = Cardinality(PassesOn \ {w}) + Cardinality(Waited) + 1
    BY <1>11, <2>2, WhenReadyCounts DEF WaitRead, IInv, Dirs
  <2>4. Cardinality(PassesOn \ {w}) = Cardinality(PassesOn) - 1
    BY <2>1, OneLess, CountsFinite
  <2> QED
    BY <2>1, <2>3, <2>4, CountsFinite, CountsFiniteNext, CountTypes
       DEF IInv, RefsExact
<1>12. ASSUME NEW w \in Workers, WaitReadCb(w) PROVE RefsExact'
  <2>1. /\ InUpCall' = InUpCall /\ OuterCall' = OuterCall /\ Waited' = Waited
        /\ refs_' = refs_ /\ poll' = poll /\ schedule_now' = schedule_now
    BY <1>12 DEF WaitReadCb, Goto, connVars, InUpCall, OuterCall, Waited,
       DoingRead, DoingWrite, IInv, TypeOK
  <2>2. Cardinality(PassesOn') + tasks'["read"] + tasks'["write"]
          = Cardinality(PassesOn) + tasks["read"] + tasks["write"]
    BY <1>12, UpCallCounts DEF WaitReadCb, IInv, Dirs
  <2>9. One(poll' = "cb" /\ schedule_now') = One(poll = "cb" /\ schedule_now)
    BY <2>1 DEF One
  <2>8. InUpCall' = InUpCall /\ OuterCall' = OuterCall /\ Waited' = Waited /\ refs_' = refs_
    BY <2>1
  <2> QED
    BY <2>8, <2>2, <2>9, CountsFinite, CountsFiniteNext, CountTypes,
       CountTypesNext DEF IInv, RefsExact
<1>13. ASSUME NEW w \in Workers, Handle(w) PROVE RefsExact'
  BY ZenonT(40), <1>13 DEF Handle, Goto, WriteLockFree, kernelVars, callVars, IInv,
     TypeOK, RefsExact, InUpCall, OuterCall, PassesOn, Waited, One,
     DoingRead, DoingWrite
<1>14. ASSUME NEW w \in Workers, StartWrite(w) PROVE RefsExact'
  <2>1. /\ InUpCall' = InUpCall /\ PassesOn' = PassesOn /\ Waited' = Waited
        /\ poll' = poll /\ schedule_now' = schedule_now /\ tasks' = tasks
    BY <1>14 DEF StartWrite, Goto, InUpCall, PassesOn, Waited, DoingRead,
       DoingWrite, IInv, TypeOK
  <2>2. CASE Writing
    BY <1>14, <2>1, <2>2 DEF StartWrite, OuterCall, IInv, RefsExact
  <2>3. CASE ~Writing
    <3>1. ~nested[w]
      BY <1>14 DEF StartWrite, IInv, AloneInv, DoingWrite
    <3>2. OuterCall' = OuterCall \union {w} /\ w \notin OuterCall
      BY <1>14, <2>3, <3>1 DEF StartWrite, OuterCall, IInv, TypeOK
    <3>3. Cardinality(OuterCall') = Cardinality(OuterCall) + 1
      BY <3>2, OneMore, CountsFinite
    <3> QED
      BY <1>14, <2>1, <2>3, <3>3, CountsFinite, CountTypes
         DEF StartWrite, IInv, RefsExact
  <2> QED  BY <2>2, <2>3
<1>15. ASSUME NEW w \in Workers, Load(w) PROVE RefsExact'
  BY <1>15 DEF Load, Goto, WriteLockFree, kernelVars, connVars, IInv,
     TypeOK, RefsExact, InUpCall, OuterCall, PassesOn, Waited, One,
     DoingRead, DoingWrite
<1>16. ASSUME NEW w \in Workers, Write(w) PROVE RefsExact'
  <2>1. /\ InUpCall' = InUpCall /\ OuterCall' = OuterCall /\ Waited' = Waited
        /\ poll' = poll /\ schedule_now' = schedule_now /\ tasks' = tasks
    BY <1>16 DEF Write, Goto, InUpCall, OuterCall, Waited, DoingRead,
       DoingWrite, IInv, TypeOK
  <2>2. CASE refs_' = refs_ + 1 /\ Goto(w, "waitWrite")
    <3>1. PassesOn' = PassesOn \union {w} /\ w \notin PassesOn
      BY <1>16, <2>2 DEF Write, Goto, PassesOn, IInv, TypeOK
    <3>2. Cardinality(PassesOn') = Cardinality(PassesOn) + 1
      BY <3>1, OneMore, CountsFinite
    <3> QED
      BY <2>1, <2>2, <3>2, CountsFinite, CountTypes DEF IInv, RefsExact
  <2>3. CASE /\ refs_' = refs_
             /\ Goto(w, "wrote") \/ Goto(w, "release") \/ Goto(w, "sigpipe")
    <3>1. PassesOn' = PassesOn
      BY <1>16, <2>3 DEF Write, Goto, PassesOn, IInv, TypeOK
    <3> QED
      BY <2>1, <2>3, <3>1 DEF IInv, RefsExact
  <2> QED  BY <1>16, <2>2, <2>3 DEF Write
<1>17. ASSUME NEW w \in Workers, WaitWrite(w) PROVE RefsExact'
  <2>1. /\ InUpCall' = InUpCall /\ OuterCall' = OuterCall /\ w \in PassesOn
        /\ refs_' = refs_ /\ poll' = poll /\ schedule_now' = schedule_now /\ tasks' = tasks
    BY <1>17 DEF WaitWrite, Goto, connVars, InUpCall, OuterCall, PassesOn,
       DoingRead, DoingWrite, IInv, TypeOK
  <2>2. ~waiting_["write"]
    BY <1>17 DEF WaitWrite, IInv, AloneInv, Alone, Busy, Reads, Writes
  <2>3. Cardinality(PassesOn') + Cardinality(Waited')
          = Cardinality(PassesOn \ {w}) + Cardinality(Waited) + 1
    BY <1>17, <2>2, WhenReadyCounts DEF WaitWrite, IInv, Dirs
  <2>4. Cardinality(PassesOn \ {w}) = Cardinality(PassesOn) - 1
    BY <2>1, OneLess, CountsFinite
  <2> QED
    BY <2>1, <2>3, <2>4, CountsFinite, CountsFiniteNext, CountTypes
       DEF IInv, RefsExact
<1>18. ASSUME NEW w \in Workers, WaitWriteCb(w) PROVE RefsExact'
  <2>1. /\ InUpCall' = InUpCall /\ OuterCall' = OuterCall /\ Waited' = Waited
        /\ refs_' = refs_ /\ poll' = poll /\ schedule_now' = schedule_now
    BY <1>18 DEF WaitWriteCb, Goto, connVars, InUpCall, OuterCall, Waited,
       DoingRead, DoingWrite, IInv, TypeOK
  <2>2. Cardinality(PassesOn') + tasks'["read"] + tasks'["write"]
          = Cardinality(PassesOn) + tasks["read"] + tasks["write"]
    BY <1>18, UpCallCounts DEF WaitWriteCb, IInv, Dirs
  <2>9. One(poll' = "cb" /\ schedule_now') = One(poll = "cb" /\ schedule_now)
    BY <2>1 DEF One
  <2>8. InUpCall' = InUpCall /\ OuterCall' = OuterCall /\ Waited' = Waited /\ refs_' = refs_
    BY <2>1
  <2> QED
    BY <2>8, <2>2, <2>9, CountsFinite, CountsFiniteNext, CountTypes,
       CountTypesNext DEF IInv, RefsExact
<1>19. ASSUME NEW w \in Workers, Wrote(w) PROVE RefsExact'
  <2>1. pc[w] = "wrote" /\ (Goto(w, "release") \/ Goto(w, "load"))
    BY <1>19 DEF Wrote
  <2>2. InUpCall' = InUpCall /\ OuterCall' = OuterCall /\ PassesOn' = PassesOn
    BY <1>19, <2>1 DEF Wrote, Goto, InUpCall, OuterCall, PassesOn,
       DoingRead, DoingWrite, IInv, TypeOK
  <2> QED
    BY <1>19, <2>2 DEF Wrote, Waited, IInv, RefsExact
<1>20. ASSUME NEW w \in Workers, Release(w) PROVE RefsExact'
  <2>1. /\ PassesOn' = PassesOn /\ Waited' = Waited
        /\ poll' = poll /\ schedule_now' = schedule_now /\ tasks' = tasks
        /\ refs_' = refs_ - 1
    BY <1>20 DEF Release, Goto, PassesOn, Waited, IInv, TypeOK
  <2>2. OuterCall' = OuterCall \ {w}
    BY <1>20 DEF Release, OuterCall, IInv, TypeOK
  <2>3. CASE nested[w]
    <3>1. refs_' # 0
      BY <1>20, <2>3, ReleaseHolds DEF Release, IInv, TypeOK
    <3>2. w \in OuterCall /\ InUpCall' = InUpCall
      BY <1>20, <2>3, <3>1 DEF Release, Goto, OuterCall, InUpCall,
         DoingRead, DoingWrite, IInv, TypeOK
    <3>3. Cardinality(OuterCall') = Cardinality(OuterCall) - 1
      BY <2>2, <3>2, OneLess, CountsFinite
    <3> QED
      BY <2>1, <3>2, <3>3, CountsFinite, CountTypes DEF IInv, RefsExact
  <2>4. CASE ~nested[w]
    <3>1. OuterCall' = OuterCall
      BY <2>2, <2>4 DEF OuterCall
    <3>2. w \in InUpCall /\ InUpCall' = InUpCall \ {w}
      BY <1>20, <2>4 DEF Release, Goto, InUpCall, DoingRead, DoingWrite,
         IInv, TypeOK
    <3>3. Cardinality(InUpCall') = Cardinality(InUpCall) - 1
      BY <3>2, OneLess, CountsFinite
    <3> QED
      BY <2>1, <3>1, <3>3, CountsFinite, CountTypes DEF IInv, RefsExact
  <2> QED  BY <2>3, <2>4
<1>21. ASSUME NEW w \in Workers, Destroy(w) PROVE RefsExact'
  BY <1>21 DEF Destroy, Goto, Destructor, CloseSocket, DelDescriptor,
     connVars, callVars, IInv, TypeOK, RefsExact, InUpCall, OuterCall,
     PassesOn, Waited, One, DoingRead, DoingWrite
<1>22. CASE UNCHANGED vars
  BY <1>22 DEF vars, kernelVars, connVars, callVars, IInv, RefsExact,
     InUpCall, OuterCall, PassesOn, Waited, One
<1> QED
  BY <1>1, <1>2, <1>3, <1>4, <1>5, <1>6, <1>7, <1>8,
     <1>9, <1>10, <1>11, <1>12, <1>13, <1>14, <1>15, <1>16, <1>17, <1>18,
     <1>19, <1>20, <1>21, <1>22 DEF Next, Kernel, Poller, Worker, Finished

(* When the count is zero nobody is in an upcall, and nobody will be:      *)
(* nothing waits in the Descriptor, and no task is left.                   *)
LEMMA NoRefsNoCalls ==
  ASSUME TypeOK, RefsExact, refs_ = 0
  PROVE  /\ \A w \in Workers : pc[w] \notin DoingRead \union DoingWrite
         /\ \A d \in Dirs : tasks[d] = 0 /\ ~waiting_[d]
<1>1. /\ Cardinality(InUpCall) = 0 /\ Cardinality(Waited) = 0
      /\ tasks["read"] = 0 /\ tasks["write"] = 0
  <2> DEFINE c1 == Cardinality(InUpCall)
             c2 == Cardinality(OuterCall)
             c3 == Cardinality(PassesOn)
             c4 == Cardinality(Waited)
             c5 == One(poll = "cb" /\ schedule_now)
             t1 == tasks["read"]
             t2 == tasks["write"]
  <2>1. 0 = c1 + c2 + c3 + c4 + c5 + t1 + t2
    BY DEF RefsExact
  <2>2. /\ c1 \in Nat /\ c2 \in Nat /\ c3 \in Nat /\ c4 \in Nat /\ c5 \in Nat
        /\ t1 \in Nat /\ t2 \in Nat
    BY CountsFinite, CountTypes
  <2>3. c1 = 0 /\ c4 = 0 /\ t1 = 0 /\ t2 = 0
    <3> HIDE DEF c1, c2, c3, c4, c5, t1, t2
    <3> QED  BY <2>1, <2>2
  <2> QED
    BY <2>3
<1>2. InUpCall = {} /\ Waited = {}
  BY <1>1, CountsFinite, FS_EmptySet
<1>3. \A w \in Workers : pc[w] \notin DoingRead \union DoingWrite
  BY <1>2 DEF InUpCall
<1>4. \A d \in Dirs : ~waiting_[d]
  BY <1>2 DEF Waited
<1> QED
  BY <1>1, <1>3, <1>4 DEF Dirs

(* While a worker runs an upcall the count is not zero. *)
LEMMA CallerHolds ==
  ASSUME IInv, NEW w \in Workers, pc[w] \in DoingRead \union DoingWrite
  PROVE  refs_ > 0 /\ alive /\ \A v \in Workers : pc[v] # "startRead"
<1>1. refs_ # 0
  BY NoRefsNoCalls DEF IInv
<1>2. refs_ > 0
  BY <1>1 DEF IInv, TypeOK
<1> QED
  BY <1>2 DEF IInv, LifeInv

(* Every step keeps the life of the object: it is deleted once, by the     *)
(* worker that released the last reference, and its Descriptor goes after  *)
(* it.                                                                     *)
LEMMA LifeStep ==
  ASSUME IInv, TypeOK', [Next]_vars
  PROVE  LifeInv'
<1> USE DEF flagVars, pollVars, connVars, IInv, TypeOK, LifeInv
<1>1. CASE Kernel
  BY <1>1 DEF Kernel, PeerSends, PeerCloses, PeerResets, PeerReceives,
     callVars
<1>2. CASE Poller /\ PollEvents
  BY <1>2 DEF Poller, PollEvents, Events, callVars
<1>3. CASE Poller /\ PollNothing
  BY <1>3 DEF Poller, PollNothing, kernelVars, callVars
<1>4. CASE Poller /\ IfWaiting
  BY <1>4 DEF Poller, IfWaiting, Current, WaitingAfterEvent, kernelVars,
     callVars
<1>5. CASE Poller /\ IssueUpCall
  BY <1>5 DEF Poller, IssueUpCall, Current, kernelVars, callVars
<1>6. CASE Poller /\ Collect
  BY <1>6 DEF Poller, Collect, kernelVars, callVars
<1>7. ASSUME NEW w \in Workers, StartRead(w) PROVE LifeInv'
  <2>1. \A v \in Workers : v # w => pc[v] # "startRead"
    BY <1>7 DEF StartRead, AloneInv, Alone, Busy, Reads
  <2>2. /\ pc'[w] = "startCb" /\ \A v \in Workers : v # w => pc'[v] = pc[v]
        /\ refs_' = refs_ + 1 /\ alive' = alive /\ alive
        /\ fd' = fd /\ desc' = desc /\ poll' = poll
    BY <1>7 DEF StartRead, Goto, kernelVars
  <2> QED
    BY <2>1, <2>2
<1>8. ASSUME NEW w \in Workers, StartReadCb(w) PROVE LifeInv'
  BY <1>8 DEF StartReadCb, UpCall, Goto, kernelVars
<1>9. ASSUME NEW w \in Workers, NEW d \in Dirs, Run(w, d) PROVE LifeInv'
  BY <1>9 DEF Run, Goto, kernelVars, callVars
<1>10. ASSUME NEW w \in Workers, Read(w) PROVE LifeInv'
  BY <1>10, CallerHolds DEF Read, Goto, AcquireAgain, callVars, DoingRead,
     DoingWrite
<1>11. ASSUME NEW w \in Workers, WaitRead(w) PROVE LifeInv'
  BY <1>11, CallerHolds DEF WaitRead, WhenReady, ReadyNow, Goto,
     kernelVars, DoingRead, DoingWrite
<1>12. ASSUME NEW w \in Workers, WaitReadCb(w) PROVE LifeInv'
  BY <1>12, CallerHolds DEF WaitReadCb, UpCall, Goto, kernelVars,
     DoingRead, DoingWrite
<1>13. ASSUME NEW w \in Workers, Handle(w) PROVE LifeInv'
  BY <1>13, CallerHolds DEF Handle, Goto, WriteLockFree, kernelVars,
     callVars, DoingRead, DoingWrite
<1>14. ASSUME NEW w \in Workers, StartWrite(w) PROVE LifeInv'
  BY <1>14, CallerHolds DEF StartWrite, Goto, Writing, WriteLockFree,
     kernelVars, DoingRead, DoingWrite
<1>15. ASSUME NEW w \in Workers, Load(w) PROVE LifeInv'
  BY <1>15, CallerHolds DEF Load, Goto, WriteLockFree, kernelVars,
     DoingRead, DoingWrite
<1>16. ASSUME NEW w \in Workers, Write(w) PROVE LifeInv'
  BY <1>16, CallerHolds DEF Write, Goto, DoingRead, DoingWrite
<1>17. ASSUME NEW w \in Workers, WaitWrite(w) PROVE LifeInv'
  BY <1>17, CallerHolds DEF WaitWrite, WhenReady, ReadyNow, Goto,
     WriteLockFree, kernelVars, DoingRead, DoingWrite
<1>18. ASSUME NEW w \in Workers, WaitWriteCb(w) PROVE LifeInv'
  BY <1>18, CallerHolds DEF WaitWriteCb, UpCall, Goto, kernelVars,
     DoingRead, DoingWrite
<1>19. ASSUME NEW w \in Workers, Wrote(w) PROVE LifeInv'
  BY <1>19, CallerHolds DEF Wrote, Goto, WriteLockFree, kernelVars,
     DoingRead, DoingWrite
<1>20. ASSUME NEW w \in Workers, Release(w) PROVE LifeInv'
  <2>1. alive /\ refs_ > 0 /\ \A v \in Workers : pc[v] # "startRead"
    BY <1>20, CallerHolds DEF Release, DoingWrite
  <2>2. /\ refs_' = refs_ - 1 /\ fd' = fd /\ desc' = desc /\ poll' = poll
        /\ alive' <=> refs_' # 0
    BY <1>20, <2>1 DEF Release, kernelVars
  <2>3. /\ \A v \in Workers : v # w => pc'[v] = pc[v]
        /\ pc'[w] \in {"dtor1", "handle", "idle"}
        /\ pc'[w] = "dtor1" => refs_' = 0
    BY <1>20 DEF Release, Goto
  <2>4. \A v \in Workers : pc[v] \notin {"dtor1", "dtor2"}
    BY <2>1
  <2> QED
    BY <2>1, <2>2, <2>3, <2>4
<1>21. ASSUME NEW w \in Workers, Destroy(w) PROVE LifeInv'
  BY <1>21 DEF Destroy, Goto, Destructor, CloseSocket, DelDescriptor,
     callVars
<1>22. CASE UNCHANGED vars
  BY <1>22 DEF vars, kernelVars, callVars
<1> QED
  BY <1>1, <1>2, <1>3, <1>4, <1>5, <1>6, <1>7, <1>8,
     <1>9, <1>10, <1>11, <1>12, <1>13, <1>14, <1>15, <1>16, <1>17, <1>18,
     <1>19, <1>20, <1>21, <1>22 DEF Next, Kernel, Poller, Worker, Finished

(* A connection starts with a worker in startRead() and no reference. *)
LEMMA InitIInv == Init => IInv
<1> SUFFICES ASSUME Init PROVE IInv
  OBVIOUS
<1>1. PICK a \in Workers :
        pc = [w \in Workers |-> IF w = a THEN "startRead" ELSE "idle"]
  BY DEF Init
<1>2. pc \in [Workers -> Places]
  BY <1>1 DEF Places
<1>3. 0 \in 0..MaxOut /\ 0 \in 0..MaxRequests
  BY RequestsAssumption DEF MaxOut
<1>4. TypeOK
  <2>1. /\ nested \in [Workers -> BOOLEAN] /\ ready_now \in [Workers -> BOOLEAN]
        /\ can_ \in [Dirs -> BOOLEAN] /\ waiting_ \in [Dirs -> BOOLEAN]
    BY Zenon DEF Init
  <2>2. /\ size \in [Workers -> 0..MaxOut] /\ written \in [Workers -> 0..MaxOut]
        /\ tasks \in [Dirs -> Nat]
    BY <1>3 DEF Init
  <2> QED
    BY <1>2, <1>3, <2>1, <2>2 DEF Init, TypeOK
<1>5. BufferInv
  BY <1>1, RequestsAssumption DEF Init, BufferInv
<1>6. AloneInv
  BY <1>1 DEF Init, AloneInv, Alone, Busy, Reads, Writes, Announced, Dirs
<1>7. RefsExact
  <2>1. InUpCall = {} /\ OuterCall = {} /\ PassesOn = {} /\ Waited = {}
    BY <1>1 DEF Init, InUpCall, OuterCall, PassesOn, Waited, DoingRead,
       DoingWrite, Dirs
  <2>2. One(poll = "cb" /\ schedule_now) = 0
    BY DEF Init, One
  <2>3. tasks["read"] = 0 /\ tasks["write"] = 0 /\ refs_ = 0
    BY DEF Init, Dirs
  <2> QED
    BY <2>1, <2>2, <2>3, FS_EmptySet DEF RefsExact
<1>8. LifeInv
  BY <1>1 DEF Init, LifeInv
<1> QED
  BY <1>4, <1>5, <1>6, <1>7, <1>8 DEF IInv

(* The invariant is inductive. *)
LEMMA NextIInv == IInv /\ [Next]_vars => IInv'
<1> SUFFICES ASSUME IInv, [Next]_vars PROVE IInv'
  OBVIOUS
<1>1. TypeOK'
  BY TypeStep
<1>2. BufferInv' /\ AloneInv' /\ RefsExact' /\ LifeInv'
  BY <1>1, BufferStep, AloneStep, RefsStep, LifeStep
<1> QED
  BY <1>1, <1>2 DEF IInv

(* It holds in every state that can be reached. *)
LEMMA Inductive == Spec => []IInv
BY InitIInv, NextIInv, PTL DEF Spec

(* Every variable keeps its type; refs_, the unfinished blocks of out_ and *)
(* the requests in in_ never go below zero.                                *)
THEOREM Typing == Spec => []TypeOK
<1>1. IInv => TypeOK
  BY DEF IInv
<1> QED
  BY <1>1, Inductive, PTL

(* The count of connection.hpp is exact: refs_ is the number of upcalls,   *)
(* callbacks and tasks that will call release().                           *)
THEOREM ReferencesCounted == Spec => []RefsExact
<1>1. IInv => RefsExact
  BY DEF IInv
<1> QED
  BY <1>1, Inductive, PTL

(* No doRead() or doWrite() runs, waits or is queued once the Connection   *)
(* is deleted, and neither they nor the polling thread touch its           *)
(* Descriptor after IOManager freed it. The read of the callback in        *)
(* startRead(), whose caller holds no reference, is the exception          *)
(* NoUseAfterFree leaves out.                                              *)
THEOREM MemorySafe == Spec => []NoUseAfterFree
<1>1. IInv => NoUseAfterFree
  <2> SUFFICES ASSUME IInv PROVE NoUseAfterFree
    OBVIOUS
  <2>1. CASE alive
    BY <2>1 DEF IInv, LifeInv, NoUseAfterFree
  <2>2. CASE ~alive
    <3>1. refs_ = 0
      BY <2>2 DEF IInv, LifeInv
    <3>2. /\ \A w \in Workers : pc[w] \notin DoingRead \union DoingWrite
          /\ \A d \in Dirs : tasks[d] = 0 /\ ~waiting_[d]
      BY <3>1, NoRefsNoCalls DEF IInv
    <3>3. \A w \in Workers : pc[w] \notin {"cbRead", "cbWrite"}
      BY <3>2 DEF DoingRead, DoingWrite
    <3> QED
      BY <3>2, <3>3 DEF IInv, LifeInv, NoUseAfterFree
  <2> QED  BY <2>1, <2>2
<1> QED
  BY <1>1, Inductive, PTL

(* A set of workers without two different ones has at most one. *)
LEMMA AtMostOne ==
  ASSUME NEW S \in SUBSET Workers, \A v, w \in S : v = w
  PROVE  \/ S = {} /\ Cardinality(S) = 0
         \/ S # {} /\ Cardinality(S) = 1
<1>1. CASE S = {}
  BY <1>1, FS_EmptySet
<1>2. CASE S # {}
  <2>1. PICK v \in S : S = {v}
    BY <1>2
  <2> QED
    BY <1>2, <2>1, FS_Singleton
<1> QED  BY <1>1, <1>2

(* At most one read and one write are outstanding: doRead() and doWrite()  *)
(* run in one thread each, and a callback is only replaced after it was    *)
(* taken.                                                                  *)
THEOREM OneOutstanding == Spec => []OneReaderOneWriter
<1>1. IInv => OneReaderOneWriter
  <2> SUFFICES ASSUME IInv PROVE OneReaderOneWriter
    OBVIOUS
  <2>0. /\ tasks["read"] \in Nat /\ tasks["write"] \in Nat
    BY CountTypes DEF IInv
  <2>1. Outstanding("read", {"read", "handle", "startWrite", "waitRead"})
          + Cardinality({w \in Workers : nested[w]}) <= 1
    <3> DEFINE R == {w \in Workers : pc[w] \in {"read", "handle", "startWrite", "waitRead"}}
               N == {w \in Workers : nested[w]}
               c == One(poll = "cb" /\ Current = "read" /\ schedule_now)
               o == One(waiting_["read"])
    <3>1. \A v \in R, w \in R : v = w
      BY DEF IInv, AloneInv, Alone, Busy, Reads
    <3>2. \A v \in N, w \in N : v = w
      BY DEF IInv, AloneInv, Alone, Busy, Reads
    <3>3. R = {} \/ N = {}
      BY DEF IInv, AloneInv, Alone, Busy, Reads, DoingWrite
    <3>4. \/ R = {} /\ Cardinality(R) = 0
          \/ R # {} /\ Cardinality(R) = 1
      BY <3>1, AtMostOne
    <3>5. \/ N = {} /\ Cardinality(N) = 0
          \/ N # {} /\ Cardinality(N) = 1
      BY <3>2, AtMostOne
    <3>6. R # {} \/ N # {} => tasks["read"] = 0 /\ c = 0 /\ o = 0
      BY DEF IInv, AloneInv, Alone, Busy, Reads, Announced, One
    <3>7. tasks["read"] + c + o <= 1 /\ c \in Nat /\ o \in Nat
      BY <2>0 DEF IInv, AloneInv, Alone, Announced, One
    <3>8. Cardinality(R) + o + tasks["read"] + c + Cardinality(N) <= 1
      <4>1. CASE R = {} /\ N = {}
        BY <2>0, <3>4, <3>5, <3>7, <4>1
      <4>2. CASE R # {}
        BY <2>0, <3>3, <3>4, <3>5, <3>6, <4>2
      <4>3. CASE N # {}
        BY <2>0, <3>3, <3>4, <3>5, <3>6, <4>3
      <4> QED  BY <4>1, <4>2, <4>3
    <3> QED
      BY <3>8 DEF Outstanding
  <2>2. Outstanding("write", {"load", "write", "wrote", "waitWrite"}) <= 1
    <3> DEFINE R == {w \in Workers : pc[w] \in {"load", "write", "wrote", "waitWrite"}}
               c == One(poll = "cb" /\ Current = "write" /\ schedule_now)
               o == One(waiting_["write"])
    <3>1. \A v \in R, w \in R : v = w
      BY DEF IInv, AloneInv, Alone, Busy, Writes
    <3>4. \/ R = {} /\ Cardinality(R) = 0
          \/ R # {} /\ Cardinality(R) = 1
      BY <3>1, AtMostOne
    <3>6. R # {} => tasks["write"] = 0 /\ c = 0 /\ o = 0
      BY DEF IInv, AloneInv, Alone, Busy, Writes, Announced, One
    <3>7. tasks["write"] + c + o <= 1 /\ c \in Nat /\ o \in Nat
      BY <2>0 DEF IInv, AloneInv, Alone, Announced, One
    <3>8. Cardinality(R) + o + tasks["write"] + c <= 1
      <4> HIDE DEF R, c, o
      <4> QED  BY <2>0, <3>4, <3>6, <3>7
    <3> QED
      BY <3>8 DEF Outstanding
  <2> QED
    BY <2>1, <2>2 DEF OneReaderOneWriter
<1> QED
  BY <1>1, Inductive, PTL
=============================================================================
