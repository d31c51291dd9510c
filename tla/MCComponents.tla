--------------------------- MODULE MCComponents ---------------------------
(***************************************************************************)
(* The smaller components, each in an instance of its own.  A behaviour is *)
(* one of the component in `which'; the others stay as they started.       *)
(***************************************************************************)
EXTENDS Integers, Sequences, FiniteSets

CONSTANTS Testers, Increments,    \* of a lock
          Participants, Rounds,   \* of a barrier
          Users, MaxSends,        \* of a client connection
          Slots, Values           \* of a ring, of a ring and of a set

ASSUME LockAssumption ==
  IsFiniteSet(Testers) /\ Increments \in Nat
ASSUME BarrierAssumption == IsFiniteSet(Participants)
ASSUME ClientAssumption == "free" \notin Users
ASSUME ValuesAssumption == Slots \in Nat /\ Values \subseteq Int

VARIABLES
  which,
  kind, large, locked_, lpc, lleft, seen, counter, requests_,
  arrival_, departure_, counter_, bpc, arrived, bleft,
  conn, pc, sends, m_response_, response_cbs_, out_, writing_, size, wire,
  answers, got,
  use, buf, content, stamp, lastEob,
  buffer, read_position, write_position, kept, result,
  list, members,
  counts_, now, finished,
  message, input

L == INSTANCE LockTesters
       WITH pc <- lpc, left <- lleft
B == INSTANCE ThreadBarrier
       WITH pc <- bpc, left <- bleft
H == INSTANCE HTTPClient
U == INSTANCE Buffer WITH BlockSize <- 3, Room <- 2, MaxBytes <- 8, Stamps <- 5
C == INSTANCE CircularBuffer
S == INSTANCE ListBasedSet
R == INSTANCE RequestStats
       WITH Threads <- Users, kNumSlots <- 3, ticksPerSecond <- 7, MaxTick <- 15,
            MaxRequests <- 4
P == INSTANCE HTTPParser WITH MaxInput <- 10

lockVars    == <<kind, large, locked_, lpc, lleft, seen, counter, requests_>>
barrierVars == <<arrival_, departure_, counter_, bpc, arrived, bleft>>
clientVars  == <<conn, pc, sends, m_response_, response_cbs_, out_, writing_, size,
                 wire, answers, got>>
bufferVars  == <<use, buf, content, stamp, lastEob>>
ringVars    == <<buffer, read_position, write_position, kept, result>>
setVars     == <<list, members>>
statsVars   == <<counts_, now, finished>>
parserVars  == <<message, input>>
vars == <<which, lockVars, barrierVars, clientVars, bufferVars, ringVars,
          setVars, statsVars, parserVars>>

Init ==
  /\ which \in {"locks", "barrier", "client", "buffer", "ring", "set", "stats", "parser"}
  /\ L!Init /\ B!Init /\ H!Init /\ U!Init /\ C!Init /\ S!Init /\ R!Init /\ P!Init
  /\ which # "locks"  => kind = "spin" /\ ~large
  /\ which # "buffer" => use = "in"
  /\ which # "parser" => message = "request"

LocksNext ==
  /\ which = "locks" /\ L!Next
  /\ UNCHANGED <<which, barrierVars, clientVars, bufferVars,
                 ringVars, setVars, statsVars, parserVars>>
BarrierNext ==
  /\ which = "barrier" /\ B!Next
  /\ UNCHANGED <<which, lockVars, clientVars, bufferVars,
                 ringVars, setVars, statsVars, parserVars>>
ClientNext ==
  /\ which = "client" /\ H!Next
  /\ UNCHANGED <<which, lockVars, barrierVars, bufferVars,
                 ringVars, setVars, statsVars, parserVars>>
BufferNext ==
  /\ which = "buffer" /\ U!Next
  /\ UNCHANGED <<which, lockVars, barrierVars, clientVars,
                 ringVars, setVars, statsVars, parserVars>>
RingNext ==
  /\ which = "ring" /\ C!Next
  /\ UNCHANGED <<which, lockVars, barrierVars, clientVars,
                 bufferVars, setVars, statsVars, parserVars>>
SetNext ==
  /\ which = "set" /\ S!Next
  /\ UNCHANGED <<which, lockVars, barrierVars, clientVars,
                 bufferVars, ringVars, statsVars, parserVars>>
StatsNext ==
  /\ which = "stats" /\ R!Next
  /\ UNCHANGED <<which, lockVars, barrierVars, clientVars,
                 bufferVars, ringVars, setVars, parserVars>>
ParserNext ==
  /\ which = "parser" /\ P!Next
  /\ UNCHANGED <<which, lockVars, barrierVars, clientVars,
                 bufferVars, ringVars, setVars, statsVars>>

Next ==
  \/ LocksNext \/ BarrierNext \/ ClientNext \/ BufferNext
  \/ RingNext \/ SetNext \/ StatsNext \/ ParserNext

(* A thread that can step does; so do the server and the reader of a client. *)
Fairness ==
  /\ \A t \in Testers : WF_vars(LocksNext /\ L!Tester(t))
  /\ \A p \in Participants : WF_vars(BarrierNext /\ B!Participant(p))
  /\ \A u \in Users : WF_vars(ClientNext /\ H!User(u))
  /\ WF_vars(ClientNext /\ (H!DoConnect \/ H!StartConnect))
  /\ WF_vars(ClientNext /\ H!Serve) /\ WF_vars(ClientNext /\ H!HandleResponse)

Spec == Init /\ [][Next]_vars /\ Fairness

(* Spinlock and Mutex: one thread at a time between lock() and unlock(),   *)
(* and no increment of a tester's counter is lost.                         *)
LocksExclude == which = "locks" => L!CounterExact

(* Barrier::wait(): nobody leaves a round that somebody has yet to reach.  *)
RoundsApart == which = "barrier" => B!RoundsApart

(* HTTPClientConnection: send() returns the response to its own request.   *)
AnswersInOrder == which = "client" => H!AnswersInOrder

(* Buffer: the Iterator reads what was written and not consumed, to eob(). *)
BytesKept == which = "buffer" => U!BytesKept

(* CircularBuffer holds the last unread values; ListBasedSet is sorted and *)
(* holds nothing that was removed.                                         *)
ValuesKept ==
  (which = "ring" => C!LastValuesKept) /\ (which = "set" => S!SetKept)

(* RequestStats::getStats() counts the requests of the last second, within *)
(* a slot, or of two seconds where a thread's whole ring is counted.       *)
LastSecondCounted == which = "stats" => R!LastSecondCounted

(* The parser accepts a message when, and only when, all of it has come.   *)
ParsedWhenComplete == which = "parser" => P!ParsedWhenComplete

(* Nobody waits for ever: the testers of a lock come to their end, the     *)
(* participants of a barrier leave their last round, and send() returns    *)
(* unless its connection breaks or is left with writing_ set.              *)
WaitersReturn ==
  /\ which = "locks" => <>L!TestersEnd
  /\ which = "barrier" => <>(\A p \in Participants : bleft[p] = Rounds)
  /\ \A u \in Users : H!Sending(u) ~> H!Answered(u)
=============================================================================
