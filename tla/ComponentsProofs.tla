-------------------------- MODULE ComponentsProofs --------------------------
(***************************************************************************)
(* Proofs about the smaller components.  For any number of threads, the    *)
(* rounds of a barrier stay apart, a spinlock and a mutex exclude, and the *)
(* users of a client connection get their own answers; a ring of any       *)
(* length keeps its values, and a sorted list none that were removed.      *)
(* Each has an inductive invariant of its own, of the steps of its module; *)
(* the composition leaves the components it does not run as they are.      *)
(***************************************************************************)
EXTENDS MCComponents, FiniteSetTheorems, SequenceTheorems, WellFoundedInduction,
        TLAPS

-----------------------------------------------------------------------------
(* Barrier *)

(* The participants counted in counter_ *)
Counted == {p \in Participants : bpc[p] \in {"in", "departed"}}

BarrierTypeOK ==
  /\ bpc \in [Participants -> {"out", "arrived", "in", "departed"}]
  /\ arrived \in [Participants -> Nat] /\ bleft \in [Participants -> Nat]
  /\ counter_ \in Nat /\ arrival_ \in {0, 1} /\ departure_ \in {0, 1}

Nobody(place) == \A p \in Participants : bpc[p] # place
Single(place) ==
  \A p, q \in Participants : bpc[p] = place /\ bpc[q] = place => p = q

(* One token goes round: it is in arrival_ or with one who arrives, until  *)
(* all have, and then in departure_ or with one who departs.               *)
Arriving ==
  /\ departure_ = 0 /\ Nobody("departed")
  /\ arrival_ = 1 <=> Nobody("arrived")
  /\ Single("arrived")
  /\ \A p, q \in Participants : bleft[p] = bleft[q]

Departing ==
  /\ arrival_ = 0 /\ Nobody("arrived")
  /\ departure_ = 1 <=> Nobody("departed")
  /\ Single("departed")
  /\ counter_ > 0
  /\ \A p, q \in Participants : arrived[p] = arrived[q]

BarrierInv ==
  /\ BarrierTypeOK
  /\ counter_ = Cardinality(Counted)
  /\ \A p \in Participants :
       arrived[p] = IF bpc[p] = "out" THEN bleft[p] ELSE bleft[p] + 1
  /\ Arriving \/ Departing

(* A barrier as it is built. *)
LEMMA BarrierInit == B!Init => BarrierInv
<1> SUFFICES ASSUME B!Init PROVE BarrierInv
  OBVIOUS
<1> USE DEF B!Init
<1>1. BarrierTypeOK
  BY DEF BarrierTypeOK
<1>2. Counted = {}
  BY DEF Counted
<1>3. counter_ = Cardinality(Counted)
  BY <1>2, FS_EmptySet
<1> QED
  BY <1>1, <1>3 DEF BarrierInv, Arriving, Nobody, Single

(* The instance counts participants as this module does. *)
LEMMA SizesAgree == B!num_participants_ = Cardinality(Participants)
  BY Zenon DEF B!num_participants_, B!Cardinality, Cardinality

(* The token moves; the last to arrive finds everybody counted, the last   *)
(* to depart nobody.                                                       *)
LEMMA BarrierStep == BarrierInv /\ B!Next => BarrierInv'
<1> SUFFICES ASSUME BarrierInv, NEW p \in Participants, B!Participant(p)
             PROVE  BarrierInv'
  BY DEF B!Next
<1> USE DEF BarrierInv
<1>1. IsFiniteSet(Counted) /\ Counted \subseteq Participants
  BY BarrierAssumption, FS_Subset DEF Counted
<1>2. CASE B!Arrive(p)
  <2> USE <1>2 DEF B!Arrive
  <2>1. BarrierTypeOK'
    BY DEF BarrierTypeOK
  <2>2. Counted' = Counted
    BY DEF Counted, BarrierTypeOK
  <2>3. \A q \in Participants :
          arrived'[q] = IF bpc'[q] = "out" THEN bleft'[q] ELSE bleft'[q] + 1
    BY DEF BarrierTypeOK
  <2>4. Arriving'
    BY DEF Arriving, Departing, Nobody, Single, BarrierTypeOK
  <2> QED  BY <2>1, <2>2, <2>3, <2>4
<1>3. CASE B!CountArrival(p)
  <2> USE <1>3 DEF B!CountArrival
  <2>1. Counted' = Counted \union {p} /\ p \notin Counted
    BY DEF Counted, BarrierTypeOK
  <2>2. Cardinality(Counted') = counter_ + 1
    BY <1>1, <2>1, FS_AddElement
  <2>3. counter_' = Cardinality(Counted')
    BY <2>2
  <2>4. Arriving
    BY DEF Departing, Nobody
  <2>5. BarrierTypeOK'
    BY <2>4 DEF BarrierTypeOK, Arriving, Nobody
  <2>6. \A q \in Participants :
          arrived'[q] = IF bpc'[q] = "out" THEN bleft'[q] ELSE bleft'[q] + 1
    BY DEF BarrierTypeOK
  <2>7. CASE B!MoreToCome
    <3>1. Arriving'
      BY <2>4, <2>7 DEF Arriving, Nobody, Single, BarrierTypeOK
    <3> QED  BY <2>3, <2>5, <2>6, <3>1
  <2>8. CASE ~B!MoreToCome
    <3>1. Cardinality(Counted') = Cardinality(Participants)
      <4>1. /\ Counted' \subseteq Participants
            /\ Cardinality(Counted') <= Cardinality(Participants)
            /\ Cardinality(Participants) \in Nat
        BY <1>1, <2>1, BarrierAssumption, FS_Subset, FS_CardinalityType
      <4> QED
        BY <2>2, <2>8, <4>1, SizesAgree DEF B!MoreToCome, BarrierTypeOK
    <3>2. Counted' = Participants
      BY <1>1, <2>1, <3>1, BarrierAssumption, FS_Subset
    <3>3. \A q \in Participants : bpc'[q] # "arrived" /\ bpc'[q] # "out"
      BY <3>2 DEF Counted
    <3>4. \A q, r \in Participants : arrived'[q] = arrived'[r]
      BY <2>4, <2>6, <3>3 DEF Arriving
    <3>5. Departing'
      BY <2>4, <2>8, <3>3, <3>4
         DEF Arriving, Departing, Nobody, Single, BarrierTypeOK
    <3> QED  BY <2>3, <2>5, <2>6, <3>5
  <2> QED  BY <2>3, <2>5, <2>6, <2>7, <2>8
<1>4. CASE B!Depart(p)
  <2> USE <1>4 DEF B!Depart
  <2>1. BarrierTypeOK'
    BY DEF BarrierTypeOK
  <2>2. Counted' = Counted
    BY DEF Counted, BarrierTypeOK
  <2>3. \A q \in Participants :
          arrived'[q] = IF bpc'[q] = "out" THEN bleft'[q] ELSE bleft'[q] + 1
    BY DEF BarrierTypeOK
  <2>4. Departing'
    BY DEF Arriving, Departing, Nobody, Single, BarrierTypeOK
  <2> QED  BY <2>1, <2>2, <2>3, <2>4
<1>5. CASE B!CountDeparture(p)
  <2> USE <1>5 DEF B!CountDeparture
  <2>1. Counted' = Counted \ {p} /\ p \in Counted
    BY DEF Counted, BarrierTypeOK
  <2>2. Cardinality(Counted') = counter_ - 1 /\ IsFiniteSet(Counted')
    BY <1>1, <2>1, FS_RemoveElement
  <2>3. counter_' = Cardinality(Counted') /\ counter_' \in Nat
    BY <2>2, FS_CardinalityType
  <2>4. Departing
    BY DEF Arriving, Nobody
  <2>5. BarrierTypeOK'
    BY <2>3, <2>4 DEF BarrierTypeOK, Departing, Nobody
  <2>6. \A q \in Participants :
          arrived'[q] = IF bpc'[q] = "out" THEN bleft'[q] ELSE bleft'[q] + 1
    BY DEF BarrierTypeOK
  <2>7. CASE counter_' > 0
    BY <2>3, <2>4, <2>5, <2>6, <2>7
       DEF Departing, Nobody, Single, BarrierTypeOK
  <2>8. CASE counter_' = 0
    <3>1. Counted' = {}
      BY <2>2, <2>3, <2>8, FS_EmptySet
    <3>2. \A q \in Participants : bpc'[q] = "out"
      BY <2>4, <2>5, <3>1 DEF Counted, Departing, Nobody, BarrierTypeOK
    <3>3. \A q, r \in Participants : bleft'[q] = bleft'[r]
      BY <2>4, <2>6, <3>2 DEF Departing
    <3>4. Arriving'
      BY <2>4, <2>8, <3>2, <3>3
         DEF Arriving, Departing, Nobody, Single, BarrierTypeOK
    <3> QED  BY <2>3, <2>5, <2>6, <3>4
  <2> QED  BY <2>3, <2>5, <2>6, <2>7, <2>8
<1> QED
  BY <1>2, <1>3, <1>4, <1>5 DEF B!Participant

(* The invariant keeps the rounds apart. *)
LEMMA BarrierSafe == BarrierInv => B!RoundsApart
<1> SUFFICES ASSUME BarrierInv PROVE B!RoundsApart
  OBVIOUS
<1> USE DEF BarrierInv
<1>1. \A p, q \in Participants : bleft[p] <= arrived[q]
  BY DEF Arriving, Departing, BarrierTypeOK
<1>2. ASSUME \A p, q \in Participants : bpc[p] = "out" /\ bleft[p] = bleft[q]
      PROVE  arrival_ = 1 /\ departure_ = 0 /\ counter_ = 0
  <2>1. Counted = {}
    BY <1>2 DEF Counted
  <2>2. counter_ = 0
    BY <2>1, FS_EmptySet
  <2> QED
    BY <1>2, <2>2 DEF Arriving, Departing, Nobody
<1> QED  BY <1>1, <1>2 DEF B!RoundsApart

(* Nobody leaves a round of Barrier::wait() that somebody has yet to       *)
(* reach, for any number of participants.                                  *)
THEOREM BarrierRounds == Spec => []RoundsApart
<1> DEFINE BInv == which = "barrier" => BarrierInv
<1>1. Init => BInv
  BY BarrierInit DEF Init
<1>2. BInv /\ [Next]_vars => BInv'
  <2> SUFFICES ASSUME BInv, [Next]_vars PROVE BInv'
    OBVIOUS
  <2>1. CASE BarrierNext
    BY <2>1, BarrierStep DEF BarrierNext
  <2>2. CASE UNCHANGED <<which, barrierVars>>
    BY <2>2 DEF barrierVars, BarrierInv, BarrierTypeOK, Counted, Arriving,
       Departing, Nobody, Single
  <2>3. BarrierNext \/ UNCHANGED <<which, barrierVars>>
    BY DEF Next, LocksNext, ClientNext, BufferNext, RingNext, SetNext,
       StatsNext, ParserNext, vars
  <2> QED  BY <2>1, <2>2, <2>3
<1>3. BInv => RoundsApart
  BY BarrierSafe DEF RoundsApart
<1> QED  BY <1>1, <1>2, <1>3, PTL DEF Spec

-----------------------------------------------------------------------------
(* Spinlock and Mutex *)

(* Who is inside has the lock, alone, and has read the counter as it is;   *)
(* who has the lock or waits for it has increments to go.                  *)
LockInv ==
  /\ L!TypeOK
  /\ \A t \in Testers :
       /\ lpc[t] \in L!Inside => locked_
       /\ lleft[t] + requests_[t] = Increments
       /\ lpc[t] \notin {"test", "end", "unlock"} => lleft[t] > 0
       /\ lpc[t] = "add" => seen[t] = counter
  /\ \A t, u \in Testers : lpc[t] \in L!Inside /\ lpc[u] \in L!Inside => t = u
  /\ counter = Cardinality(L!Added)

(* The increments made are finitely many. *)
LEMMA AddedFinite == IsFiniteSet(L!Added)
<1>1. IsFiniteSet(Testers) /\ IsFiniteSet(1..Increments)
  BY LockAssumption, FS_Interval
<1>2. IsFiniteSet(Testers \X (1..Increments))
  BY <1>1, FS_Product
<1> QED
  BY <1>2, FS_Subset DEF L!Added

(* A free lock, and nothing counted. *)
LEMMA LockInit == L!Init => LockInv
<1> SUFFICES ASSUME L!Init PROVE LockInv
  OBVIOUS
<1> USE LockAssumption DEF L!Init
<1>1. L!TypeOK
  <2>1. 0 \in 0..Increments /\ Increments \in 0..Increments
    OBVIOUS
  <2>2. lpc \in [Testers -> L!Waiting \union L!Inside \union {"test", "end"}]
    OBVIOUS
  <2> QED  BY <2>1, <2>2 DEF L!TypeOK
<1>2. L!Added = {}
  <2>1. ASSUME NEW a \in L!Added PROVE FALSE
    <3>1. a[1] \in Testers /\ a[2] \in 1..Increments /\ a[2] <= requests_[a[1]]
      BY <2>1 DEF L!Added
    <3> QED  BY <3>1
  <2> QED  BY <2>1
<1>3. counter = Cardinality(L!Added)
  BY <1>2, FS_EmptySet
<1> QED
  BY <1>1, <1>3 DEF LockInv, L!Inside

(* Who grabs the lock found it free; who writes the counter read it as it  *)
(* still is.                                                               *)
LEMMA LockStep == LockInv /\ L!Next => LockInv'
<1> SUFFICES ASSUME LockInv, L!Next PROVE LockInv'
  OBVIOUS
<1> USE LockAssumption DEF LockInv, L!Inside, L!Goto
<1>1. ASSUME NEW t \in Testers, L!WriteCounter(t) PROVE LockInv'
  <2> USE <1>1 DEF L!WriteCounter
  <2>1. /\ lleft[t] \in 1..Increments /\ requests_[t] \in 0..(Increments - 1)
        /\ counter' = counter + 1
    BY DEF L!TypeOK
  <2>2. /\ requests_' = [requests_ EXCEPT ![t] = @ + 1]
        /\ lleft' = [lleft EXCEPT ![t] = @ - 1]
        /\ lpc' = [lpc EXCEPT ![t] = lpc'[t]] /\ lpc'[t] \in {"inc", "unlock"}
        /\ lpc'[t] = "inc" => lleft'[t] > 0
        /\ UNCHANGED <<kind, large, locked_>>
    BY DEF L!TypeOK
  <2>3. lleft'[t] \in 0..Increments /\ requests_'[t] \in 0..Increments
    BY <2>1, <2>2 DEF L!TypeOK
  <2>4. L!TypeOK'
    BY <2>1, <2>2, <2>3 DEF L!TypeOK, L!Waiting
  <2>5. counter' = Cardinality(L!Added')
    <3> DEFINE new == <<t, requests_[t] + 1>>
    <3>1. new \notin L!Added
      BY <2>1 DEF L!Added
    <3>2. L!Added' = L!Added \union {new}
      <4>1. ASSUME NEW a \in L!Added' PROVE a \in L!Added \union {new}
        <5>1. /\ a \in Testers \X (1..Increments) /\ a[2] <= requests_'[a[1]]
          BY <4>1 DEF L!Added
        <5>2. CASE a[1] = t
          <6>1. a[2] <= requests_[t] \/ a[2] = requests_[t] + 1
            BY <2>1, <2>2, <5>1, <5>2 DEF L!TypeOK
          <6>2. a = <<a[1], a[2]>>
            BY <5>1
          <6> QED  BY <5>1, <5>2, <6>1, <6>2 DEF L!Added
        <5>3. CASE a[1] # t
          BY <2>2, <5>1, <5>3 DEF L!Added, L!TypeOK
        <5> QED  BY <5>2, <5>3
      <4>2. ASSUME NEW a \in L!Added PROVE a \in L!Added'
        <5>1. a \in Testers \X (1..Increments) /\ a[2] <= requests_[a[1]]
          BY <4>2 DEF L!Added
        <5>2. a[2] <= requests_'[a[1]]
          BY <2>1, <2>2, <5>1 DEF L!TypeOK
        <5> QED  BY <5>1, <5>2 DEF L!Added
      <4>3. new \in L!Added'
        <5>1. new \in Testers \X (1..Increments)
          BY <2>1
        <5>2. new[1] = t /\ new[2] = requests_'[t]
          BY <2>2 DEF L!TypeOK
        <5>3. requests_'[t] <= requests_'[t]
          BY <2>3
        <5> HIDE DEF new
        <5> QED  BY <5>1, <5>2, <5>3 DEF L!Added
      <4> HIDE DEF new
      <4> QED  BY <4>1, <4>2, <4>3
    <3> QED
      BY <2>1, <3>1, <3>2, AddedFinite, FS_AddElement
  <2>6. \A u \in Testers : u # t => lpc'[u] = lpc[u] /\ lpc[u] \notin L!Inside
    BY DEF L!TypeOK
  <2> QED
    BY <2>1, <2>2, <2>3, <2>4, <2>5, <2>6 DEF L!TypeOK
<1>2. ASSUME UNCHANGED requests_ PROVE L!Added' = L!Added
  BY <1>2 DEF L!Added
<1>3. ASSUME NEW t \in Testers, L!TestAndSet(t) \/ L!Sleep(t) \/ L!MutexLock(t)
      PROVE  LockInv'
  <2> USE <1>3 DEF L!TestAndSet, L!Sleep, L!MutexLock, L!Grab
  <2>1. L!TypeOK'
    <3>1. CASE L!TestAndSet(t)
      BY <3>1 DEF L!TypeOK, L!Waiting
    <3>2. CASE L!Sleep(t)
      BY <3>2 DEF L!TypeOK, L!Waiting
    <3>3. CASE L!MutexLock(t)
      BY <3>3 DEF L!TypeOK, L!Waiting
    <3> QED  BY <3>1, <3>2, <3>3
  <2>2. L!Added' = L!Added
    BY <1>2
  <2> QED
    BY <2>1, <2>2 DEF L!TypeOK
<1>4. ASSUME NEW t \in Testers,
             L!Test(t) \/ L!Load(t) \/ L!Spin(t) \/ L!ReadCounter(t) \/ L!Unlock(t)
      PROVE  LockInv'
  <2> USE <1>4 DEF L!Test, L!Load, L!Spin, L!ReadCounter, L!Unlock
  <2>1. L!TypeOK'
    BY DEF L!TypeOK, L!Waiting
  <2>2. L!Added' = L!Added
    BY <1>2
  <2> QED
    BY <2>1, <2>2 DEF L!TypeOK
<1>5. CASE L!Joined
  BY <1>2, <1>5 DEF L!Joined, L!vars, L!TypeOK
<1> QED
  BY <1>1, <1>3, <1>4, <1>5 DEF L!Next, L!Tester

(* The invariant is what a tester relies on. *)
LEMMA LockSafe == LockInv => L!CounterExact
<1>1. Cardinality(L!Added) = L!Cardinality(L!Added)
  BY Zenon DEF L!Cardinality, Cardinality
<1> QED
  BY <1>1 DEF LockInv, L!CounterExact

(* Spinlock and Mutex let one thread at a time in, and no increment of a   *)
(* counter inside is lost: for any number of threads and turns.            *)
THEOREM Exclusion == Spec => []LocksExclude
<1> DEFINE I == which = "locks" => LockInv
<1>1. Init => I
  BY LockInit DEF Init
<1>2. I /\ [Next]_vars => I'
  <2> SUFFICES ASSUME I, [Next]_vars PROVE I'
    OBVIOUS
  <2>1. CASE LocksNext
    BY <2>1, LockStep DEF LocksNext
  <2>2. CASE UNCHANGED <<which, lockVars>>
    <3>1. LockInv => LockInv'
      BY <2>2 DEF lockVars, LockInv, L!TypeOK, L!Added
    <3> QED  BY <2>2, <3>1
  <2>3. LocksNext \/ UNCHANGED <<which, lockVars>>
    BY DEF Next, BarrierNext, ClientNext, BufferNext, RingNext, SetNext,
       StatsNext, ParserNext, vars
  <2> QED  BY <2>1, <2>2, <2>3
<1>3. I => LocksExclude
  BY LockSafe DEF LocksExclude
<1> QED  BY <1>1, <1>2, <1>3, PTL DEF Spec

-----------------------------------------------------------------------------
(* HTTPClientConnection *)

Requests == Users \X Nat

ClientTypeOK ==
  /\ pc \in [Users -> {"idle", "toBuffer", "startWrite", "load", "write", "wait"}]
  /\ sends \in [Users -> Nat] /\ size \in [Users -> Nat]
  /\ m_response_ \in Users \union {"free"} /\ response_cbs_ \in Seq(Users)
  /\ out_ \in Seq(Requests) /\ wire \in Seq(Requests) /\ answers \in Seq(Requests)
  /\ writing_ \in BOOLEAN
  /\ got \in [Users -> Requests \union {H!None}]

(* The requests under way, in the order of their answers *)
Pending == answers \o wire \o out_

(* The queue of callbacks names who sent them; who holds m_response_ is    *)
(* the last, and its request is to come.                                   *)
InStep ==
  /\ Len(response_cbs_) = IF m_response_ = "free" THEN Len(Pending) ELSE Len(Pending) + 1
  /\ m_response_ # "free" => response_cbs_[Len(response_cbs_)] = m_response_
  /\ \A i \in 1..Len(Pending) :
       Pending[i] = <<response_cbs_[i], sends[response_cbs_[i]]>>

(* A queued user is inside send(), once, and has no answer yet. *)
QueuedOnce ==
  /\ \A i, j \in 1..Len(response_cbs_) : response_cbs_[i] = response_cbs_[j] => i = j
  /\ \A i \in 1..Len(response_cbs_) :
       pc[response_cbs_[i]] # "idle" /\ got[response_cbs_[i]] = H!None

(* One user at a time writes, and no more than there is. *)
OneWriter ==
  /\ \A u \in Users : pc[u] \in {"load", "write"} => writing_ = TRUE
  /\ \A u, v \in Users :
       pc[u] \in {"load", "write"} /\ pc[v] \in {"load", "write"} => u = v
  /\ \A u \in Users : pc[u] = "write" => size[u] <= Len(out_)

ClientInv ==
  /\ ClientTypeOK
  /\ \A u \in Users : pc[u] = "toBuffer" <=> m_response_ = u
  /\ InStep /\ QueuedOnce /\ OneWriter
  /\ H!AnswersInOrder

(* Concatenations may be regrouped. *)
Regrouped(a, b, d, e) == a \o (b \o d) \o e = a \o b \o (d \o e)

(* Concatenation is associative, in the form WriteOrder needs. *)
LEMMA Regroup ==
  ASSUME NEW T, NEW a \in Seq(T), NEW b \in Seq(T), NEW d \in Seq(T), NEW e \in Seq(T)
  PROVE  Regrouped(a, b, d, e)
<1>1. \A f \in Seq(T) : (f \o d) \o e = f \o (d \o e)
  BY SMTT(30), ConcatAssociative
<1>2. a \o (b \o d) = (a \o b) \o d
  BY ConcatAssociative
<1>3. a \o b \in Seq(T)
  BY ConcatProperties
<1>4. ((a \o b) \o d) \o e = (a \o b) \o (d \o e)
  BY <1>1, <1>3
<1> QED  BY <1>2, <1>4 DEF Regrouped

(* Writing the first k requests of c keeps them behind those of a and b. *)
InOrder(T, a, b, c, k) ==
  LET d == SubSeq(c, 1, k)
      e == SubSeq(c, k + 1, Len(c))
  IN  d \in Seq(T) /\ e \in Seq(T) /\ a \o (b \o d) \o e = a \o b \o c

(* doWrite() moves requests from one queue to the next and keeps order. *)
LEMMA WriteOrder ==
  ASSUME NEW T, NEW a \in Seq(T), NEW b \in Seq(T), NEW c \in Seq(T),
         NEW k \in 0..Len(c)
  PROVE  InOrder(T, a, b, c, k)
<1> DEFINE d == SubSeq(c, 1, k)
           e == SubSeq(c, k + 1, Len(c))
<1>1. d \in Seq(T) /\ e \in Seq(T)
  OBVIOUS
<1>2. SubSeq(c, 1, k) \o SubSeq(c, k + 1, Len(c)) = c
  <2>1. /\ 1 \in 1..(Len(c) + 1) /\ k \in (1 - 1)..Len(c)
        /\ Len(c) \in k..Len(c)
    OBVIOUS
  <2>2. SubSeq(c, 1, k) \o SubSeq(c, k + 1, Len(c)) = SubSeq(c, 1, Len(c))
    BY <2>1, ConcatAdjacentSubSeq
  <2> QED  BY <2>2, SubSeqFull
<1>3. Regrouped(a, b, d, e)
  <2> HIDE DEF d, e
  <2> QED  BY <1>1, Regroup
<1> QED  BY <1>1, <1>2, <1>3 DEF InOrder, Regrouped

(* The server's answer to the first request keeps order. *)
LEMMA ServeOrder ==
  ASSUME NEW T, NEW a \in Seq(T), NEW b \in Seq(T), NEW c \in Seq(T), b # <<>>
  PROVE  Append(a, Head(b)) \o Tail(b) \o c = a \o b \o c
<1> DEFINE d == Append(a, Head(b))
           e == Tail(b)
<1>1. /\ e \in Seq(T) /\ Head(b) \in T /\ b = <<Head(b)>> \o e
  BY HeadTailProperties
<1>2. d = a \o <<Head(b)>> /\ <<Head(b)>> \in Seq(T)
  BY <1>1
<1>3. d \o e = a \o b
  <2> DEFINE h == <<Head(b)>>
  <2> HIDE DEF h, e
  <2>1. h \in Seq(T) /\ e \in Seq(T)
    BY <1>1, <1>2 DEF h
  <2>2. (a \o h) \o e = a \o (h \o e)
    BY SMTT(30), <2>1, ConcatAssociative
  <2> QED  BY <1>1, <1>2, <2>2 DEF h
<1> QED  BY <1>3

(* A connection before anything was sent. *)
LEMMA ClientInit == H!Init => ClientInv
<1> SUFFICES ASSUME H!Init PROVE ClientInv
  OBVIOUS
<1> USE DEF H!Init
<1>1. <<>> \in Seq(Users) /\ <<>> \in Seq(Requests)
  OBVIOUS
<1>2. ClientTypeOK
  BY <1>1 DEF ClientTypeOK
<1>3. Pending = <<>> /\ Len(Pending) = 0
  BY DEF Pending
<1>4. InStep
  BY <1>3 DEF InStep
<1> QED
  BY <1>2, <1>4, ClientAssumption
     DEF ClientInv, QueuedOnce, OneWriter, H!AnswersInOrder

(* send(), the writer, the server and the reader keep callbacks and        *)
(* requests in step.                                                       *)
LEMMA ClientStep == ClientInv /\ H!Next => ClientInv'
<1> SUFFICES ASSUME ClientInv, H!Next PROVE ClientInv'
  OBVIOUS
<1> USE ClientAssumption DEF ClientInv, H!Goto
<1>1. /\ answers \in Seq(Requests) /\ wire \in Seq(Requests) /\ out_ \in Seq(Requests)
      /\ Pending \in Seq(Requests)
      /\ Len(Pending) = Len(answers) + Len(wire) + Len(out_)
      /\ response_cbs_ \in Seq(Users)
  BY DEF ClientTypeOK, Pending
<1>2. CASE H!StartConnect \/ H!DoConnect \/ H!PeerCloses
  <2> USE DEF ClientTypeOK, InStep, QueuedOnce, OneWriter, Pending, H!AnswersInOrder,
        H!Request
  <2>1. CASE H!StartConnect
    BY <2>1 DEF H!StartConnect
  <2>2. CASE H!DoConnect
    BY <2>2 DEF H!DoConnect
  <2>3. CASE H!PeerCloses
    BY <2>3 DEF H!PeerCloses
  <2> QED  BY <1>2, <2>1, <2>2, <2>3
<1>3. ASSUME NEW u \in Users, H!PushCallback(u) PROVE ClientInv'
  <2>1. /\ pc[u] = "idle" /\ m_response_ = "free" /\ m_response_' = u
        /\ sends' = [sends EXCEPT ![u] = @ + 1]
        /\ got' = [got EXCEPT ![u] = H!None]
        /\ response_cbs_' = Append(response_cbs_, u)
        /\ pc' = [pc EXCEPT ![u] = "toBuffer"]
        /\ UNCHANGED <<out_, writing_, size, wire, answers>>
    BY <1>3 DEF H!PushCallback, H!Held
  <2> DEFINE n == Len(response_cbs_)
  <2>2. /\ response_cbs_' \in Seq(Users) /\ Len(response_cbs_') = n + 1 /\ n \in Nat
        /\ \A i \in 1..n : response_cbs_'[i] = response_cbs_[i]
        /\ response_cbs_'[n + 1] = u
    BY <1>1, <2>1, AppendProperties
  <2>3. \A i \in 1..n : response_cbs_[i] # u /\ response_cbs_[i] \in Users
    BY <1>1, <2>1 DEF QueuedOnce
  <2>4. /\ sends'[u] = sends[u] + 1 /\ got'[u] = H!None /\ pc'[u] = "toBuffer"
        /\ \A v \in Users : v # u => /\ sends'[v] = sends[v] /\ got'[v] = got[v]
                                     /\ pc'[v] = pc[v]
    BY <2>1 DEF ClientTypeOK
  <2>5. ClientTypeOK'
    BY <2>1, <2>2 DEF ClientTypeOK
  <2>6. \A v \in Users : pc'[v] = "toBuffer" <=> m_response_' = v
    BY <2>1, <2>4
  <2>7. InStep'
    <3>1. Pending' = Pending
      BY <2>1 DEF Pending
    <3>2. Len(Pending) = n
      BY <2>1 DEF InStep
    <3> QED
      BY <1>1, <2>1, <2>2, <2>3, <2>4, <3>1, <3>2 DEF InStep
  <2>8. QueuedOnce'
    <3>1. \A i, j \in 1..(n + 1) : response_cbs_'[i] = response_cbs_'[j] => i = j
      BY <2>2, <2>3 DEF QueuedOnce
    <3>2. \A i \in 1..(n + 1) : /\ pc'[response_cbs_'[i]] # "idle"
                                /\ got'[response_cbs_'[i]] = H!None
      BY <2>2, <2>3, <2>4 DEF QueuedOnce
    <3> QED  BY <2>2, <3>1, <3>2 DEF QueuedOnce
  <2>9. OneWriter'
    BY <2>1, <2>4 DEF OneWriter
  <2>10. H!AnswersInOrder'
    BY <2>4 DEF H!AnswersInOrder, H!Request
  <2> QED  BY <2>5, <2>6, <2>7, <2>8, <2>9, <2>10
<1>4. ASSUME NEW u \in Users, H!ToBuffer(u) PROVE ClientInv'
  <2>1. /\ pc[u] = "toBuffer" /\ m_response_ = u /\ m_response_' = "free"
        /\ out_' = Append(out_, <<u, sends[u]>>)
        /\ pc' = [pc EXCEPT ![u] = "startWrite"]
        /\ UNCHANGED <<sends, response_cbs_, writing_, size, wire, answers, got>>
    BY <1>4 DEF H!ToBuffer, H!Request
  <2>2. <<u, sends[u]>> \in Requests
    BY DEF Requests, ClientTypeOK
  <2> DEFINE x == <<u, sends[u]>>
             n == Len(Pending)
  <2>13. x \in Requests
    BY <2>2
  <2> HIDE DEF x
  <2>3. /\ out_' \in Seq(Requests) /\ Len(out_') = Len(out_) + 1
    BY <1>1, <2>1, <2>2, AppendProperties DEF x
  <2>4. pc'[u] = "startWrite" /\ \A v \in Users : v # u => pc'[v] = pc[v]
    BY <2>1 DEF ClientTypeOK
  <2>5. ClientTypeOK'
    BY <2>1, <2>3 DEF ClientTypeOK
  <2>6. \A v \in Users : pc'[v] = "toBuffer" <=> m_response_' = v
    BY <2>1, <2>4
  <2>7. InStep'
    <3>1. Pending' = Append(Pending, x)
      <4>1. out_' = Append(out_, x) /\ x \in Requests /\ UNCHANGED <<answers, wire>>
        BY <2>1, <2>2 DEF x
      <4> QED  BY <1>1, <4>1 DEF Pending
    <3>2. /\ Len(Pending') = n + 1 /\ n \in Nat /\ Pending'[n + 1] = x
          /\ \A i \in 1..n : Pending'[i] = Pending[i]
      BY <1>1, <2>13, <3>1, AppendProperties
    <3>3. Len(response_cbs_) = n + 1 /\ response_cbs_[n + 1] = u
      BY <2>1 DEF InStep
    <3>4. ASSUME NEW i \in 1..(n + 1)
          PROVE  Pending'[i] = <<response_cbs_[i], sends[response_cbs_[i]]>>
      <4>1. CASE i = n + 1
        BY <3>2, <3>3, <4>1 DEF x
      <4>2. CASE i \in 1..n
        BY <3>2, <4>2 DEF InStep
      <4> QED  BY <3>2, <4>1, <4>2
    <3> QED  BY <2>1, <3>2, <3>3, <3>4 DEF InStep
  <2>8. QueuedOnce'
    BY <1>1, <2>1, <2>4 DEF QueuedOnce
  <2>9. OneWriter'
    BY <1>1, <2>1, <2>3, <2>4 DEF OneWriter, ClientTypeOK
  <2>10. H!AnswersInOrder'
    BY <2>1 DEF H!AnswersInOrder, H!Request
  <2> QED  BY <2>5, <2>6, <2>7, <2>8, <2>9, <2>10
<1>5. ASSUME NEW u \in Users, H!StartWrite(u) \/ H!Load(u) \/ H!Wait(u)
      PROVE  ClientInv'
  <2> USE <1>5 DEF H!StartWrite, H!Load, H!Wait
  <2>1. /\ UNCHANGED <<sends, m_response_, response_cbs_, out_, wire, answers, got>>
        /\ pc[u] \in {"startWrite", "load", "wait"}
    OBVIOUS
  <2>2. PICK place \in {"wait", "load", "write", "idle"} : pc' = [pc EXCEPT ![u] = place]
    OBVIOUS
  <2>3. pc'[u] = place /\ \A v \in Users : v # u => pc'[v] = pc[v]
    BY <2>2 DEF ClientTypeOK
  <2>4. writing_' \in BOOLEAN
    BY DEF ClientTypeOK
  <2>10. size' \in [Users -> Nat]
    <3>1. Len(out_) \in Nat
      BY <1>1
    <3> QED  BY <3>1 DEF ClientTypeOK
  <2>5. ClientTypeOK'
    BY <2>1, <2>2, <2>4, <2>10 DEF ClientTypeOK
  <2>6. InStep' /\ H!AnswersInOrder'
    BY <2>1 DEF InStep, Pending, H!AnswersInOrder, H!Request
  <2>7. QueuedOnce'
    <3>1. place = "idle" => got[u] # H!None
      BY <2>2 DEF ClientTypeOK
    <3> QED  BY <1>1, <2>1, <2>3, <3>1 DEF QueuedOnce
  <2>8. OneWriter'
    <3>1. CASE H!StartWrite(u)
      BY <2>3, <3>1 DEF OneWriter, ClientTypeOK
    <3>2. CASE H!Load(u)
      <4>1. size'[u] = Len(out_) /\ \A v \in Users : v # u => size'[v] = size[v]
        BY <3>2 DEF ClientTypeOK
      <4>2. pc'[u] = "write" /\ pc[u] = "load" /\ writing_' = writing_
        BY <2>3, <3>2 DEF ClientTypeOK
      <4>3. Len(out_') = Len(out_) /\ Len(out_) \in Nat
        BY <1>1, <2>1
      <4>4. \A v \in Users : v # u => pc'[v] \notin {"load", "write"}
        BY <2>3, <4>2 DEF OneWriter
      <4>5. writing_' = TRUE
        BY <4>2 DEF OneWriter
      <4> QED  BY <4>1, <4>2, <4>3, <4>4, <4>5 DEF OneWriter
    <3>3. CASE H!Wait(u)
      BY <2>3, <3>3 DEF OneWriter, ClientTypeOK
    <3> QED  BY <3>1, <3>2, <3>3
  <2>9. \A v \in Users : pc'[v] = "toBuffer" <=> m_response_' = v
    BY <2>1, <2>3
  <2> QED  BY <2>5, <2>6, <2>7, <2>8, <2>9
<1>6. ASSUME NEW u \in Users, H!Write(u) PROVE ClientInv'
  <2>1. /\ pc[u] = "write" /\ size' = [size EXCEPT ![u] = 0]
        /\ UNCHANGED <<sends, m_response_, response_cbs_, answers, got>>
    BY <1>6 DEF H!Write
  <2>2. PICK k \in 0..Len(out_) : k = size[u]
    BY <1>1, <2>1 DEF OneWriter, ClientTypeOK
  <2>3. PICK place \in {"wait", "load"} :
          /\ pc' = [pc EXCEPT ![u] = place]
          /\ place = "load" => writing_' = TRUE
    BY <1>6 DEF H!Write
  <2>4. writing_' \in BOOLEAN
    BY <1>6 DEF H!Write
  <2>5. \/ wire' = wire /\ out_' = out_
        \/ /\ wire' = wire \o SubSeq(out_, 1, k)
           /\ out_' = SubSeq(out_, k + 1, Len(out_))
    BY <1>6, <2>2 DEF H!Write
  <2>6. wire' \in Seq(Requests) /\ out_' \in Seq(Requests) /\ Pending' = Pending
    <3>1. CASE wire' = wire /\ out_' = out_
      BY <1>1, <2>1, <3>1 DEF Pending
    <3>2. CASE /\ wire' = wire \o SubSeq(out_, 1, k)
               /\ out_' = SubSeq(out_, k + 1, Len(out_))
      <4>1. /\ SubSeq(out_, 1, k) \in Seq(Requests)
            /\ SubSeq(out_, k + 1, Len(out_)) \in Seq(Requests)
            /\ answers \o (wire \o SubSeq(out_, 1, k)) \o SubSeq(out_, k + 1, Len(out_))
                 = answers \o wire \o out_
        <5>1. InOrder(Requests, answers, wire, out_, k)
          BY <1>1, WriteOrder
        <5> QED  BY <5>1 DEF InOrder
      <4>2. Pending' = Pending
        BY <2>1, <3>2, <4>1 DEF Pending
      <4>3. wire' \in Seq(Requests)
        BY <1>1, <3>2, <4>1
      <4> QED  BY <3>2, <4>1, <4>2, <4>3
    <3> QED  BY <2>5, <3>1, <3>2
  <2>7. pc'[u] = place /\ \A v \in Users : v # u => pc'[v] = pc[v]
    BY <2>3 DEF ClientTypeOK
  <2>8. ClientTypeOK'
    BY <2>1, <2>3, <2>4, <2>6 DEF ClientTypeOK
  <2>9. InStep' /\ H!AnswersInOrder'
    BY <2>1, <2>6 DEF InStep, H!AnswersInOrder, H!Request
  <2>10. QueuedOnce'
    BY <1>1, <2>1, <2>7 DEF QueuedOnce
  <2>11. OneWriter'
    BY <2>1, <2>3, <2>7 DEF OneWriter
  <2>12. \A v \in Users : pc'[v] = "toBuffer" <=> m_response_' = v
    BY <2>1, <2>7
  <2> QED  BY <2>8, <2>9, <2>10, <2>11, <2>12
<1>7. CASE H!Serve
  <2>1. /\ wire # <<>> /\ wire' = Tail(wire) /\ answers' = Append(answers, Head(wire))
        /\ UNCHANGED <<pc, sends, m_response_, response_cbs_, out_, writing_, size, got>>
    BY <1>7 DEF H!Serve
  <2>2. Pending' = Pending
    BY <1>1, <2>1, ServeOrder DEF Pending
  <2>3. wire' \in Seq(Requests) /\ answers' \in Seq(Requests)
    BY <1>1, <2>1, HeadTailProperties, AppendProperties
  <2>4. ClientTypeOK'
    BY <2>1, <2>3 DEF ClientTypeOK
  <2> QED
    BY <2>1, <2>2, <2>4
       DEF InStep, QueuedOnce, OneWriter, H!AnswersInOrder, H!Request
<1>8. CASE H!HandleResponse
  <2>1. /\ answers # <<>> /\ m_response_ = "free" /\ answers' = Tail(answers)
        /\ UNCHANGED <<pc, sends, m_response_, out_, writing_, size, wire>>
    BY <1>8 DEF H!HandleResponse
  <2> DEFINE n == Len(Pending)
  <2>2. /\ Len(answers) # 0 /\ answers' \in Seq(Requests)
        /\ Len(answers') = Len(answers) - 1 /\ Head(answers) = answers[1]
        /\ \A i \in 1..Len(answers') : answers'[i] = answers[i + 1]
    BY <1>1, <2>1, HeadTailProperties
  <2>3. n \in Nat \ {0} /\ Len(response_cbs_) = n /\ response_cbs_ # <<>>
    BY <1>1, <2>1, <2>2 DEF InStep
  <2>4. /\ Len(Pending') = n - 1 /\ Pending[1] = Head(answers)
        /\ \A i \in 1..(n - 1) : Pending'[i] = Pending[i + 1]
    BY <1>1, <2>1, <2>2 DEF Pending
  <2> DEFINE u == response_cbs_[1]
  <2>5. /\ got' = [got EXCEPT ![u] = Head(answers)] /\ response_cbs_' = Tail(response_cbs_)
        /\ u \in Users
    BY <1>1, <1>8, <2>3 DEF H!HandleResponse
  <2>6. /\ response_cbs_' \in Seq(Users) /\ Len(response_cbs_') = n - 1
        /\ \A i \in 1..(n - 1) : response_cbs_'[i] = response_cbs_[i + 1]
    BY <1>1, <2>3, <2>5, HeadTailProperties
  <2>7. Head(answers) = <<u, sends[u]>> /\ Head(answers) \in Requests
    <3>1. Pending[1] = <<u, sends[u]>>
      BY <2>3 DEF InStep
    <3> QED  BY <1>1, <2>2, <2>4, <3>1
  <2>8. got'[u] = Head(answers) /\ \A v \in Users : v # u => got'[v] = got[v]
    BY <2>5 DEF ClientTypeOK
  <2>9. ClientTypeOK'
    BY <2>1, <2>2, <2>5, <2>6, <2>7 DEF ClientTypeOK
  <2>10. InStep'
    BY <2>1, <2>3, <2>4, <2>6 DEF InStep
  <2>11. QueuedOnce'
    <3>1. \A i \in 1..(n - 1) :
            response_cbs_[i + 1] \in Users /\ response_cbs_[i + 1] # u
      BY <1>1, <2>3 DEF QueuedOnce
    <3>2. \A i, j \in 1..(n - 1) : response_cbs_'[i] = response_cbs_'[j] => i = j
      BY <2>3, <2>6 DEF QueuedOnce
    <3>3. \A i \in 1..(n - 1) : /\ pc'[response_cbs_'[i]] # "idle"
                                /\ got'[response_cbs_'[i]] = H!None
      BY <2>1, <2>3, <2>6, <2>8, <3>1 DEF QueuedOnce
    <3> QED  BY <2>6, <3>2, <3>3 DEF QueuedOnce
  <2>12. H!AnswersInOrder'
    BY <2>1, <2>7, <2>8 DEF H!AnswersInOrder, H!Request
  <2>13. OneWriter' /\ \A v \in Users : pc'[v] = "toBuffer" <=> m_response_' = v
    BY <2>1 DEF OneWriter
  <2> QED  BY <2>9, <2>10, <2>11, <2>12, <2>13
<1> QED
  BY <1>2, <1>3, <1>4, <1>5, <1>6, <1>7, <1>8 DEF H!Next, H!User

(* send() returns the response to its own request, for any number of users *)
(* of one connection and however they interleave with the writer, the      *)
(* server and the reader.                                                  *)
THEOREM OwnAnswers == Spec => []AnswersInOrder
<1> DEFINE I == which = "client" => ClientInv
<1>1. Init => I
  BY ClientInit DEF Init
<1>2. I /\ [Next]_vars => I'
  <2> SUFFICES ASSUME I, [Next]_vars PROVE I'
    OBVIOUS
  <2>1. CASE ClientNext
    BY <2>1, ClientStep DEF ClientNext
  <2>2. CASE UNCHANGED <<which, clientVars>>
    BY <2>2 DEF clientVars, ClientInv, ClientTypeOK, InStep, QueuedOnce,
       OneWriter, Pending, H!AnswersInOrder, H!Request
  <2>3. ClientNext \/ UNCHANGED <<which, clientVars>>
    BY DEF Next, LocksNext, BarrierNext, BufferNext, RingNext, SetNext,
       StatsNext, ParserNext, vars
  <2> QED  BY <2>1, <2>2, <2>3
<1>3. I => AnswersInOrder
  BY DEF AnswersInOrder, ClientInv
<1> QED  BY <1>1, <1>2, <1>3, PTL DEF Spec

-----------------------------------------------------------------------------
(* CircularBuffer *)

(* The slot k places after slot i in a ring of n *)
Ahead(n, i, k) == IF i + k < n THEN i + k ELSE i + k - n

(* The ring b of n slots holds the sequence q from slot r on, unread, and  *)
(* nothing else that is unread.                                            *)
Holds(n, b, r, q) ==
  \A k \in 0..n - 1 :
    /\ k < Len(q) => b[Ahead(n, r, k)] = [value |-> q[k + 1], read |-> FALSE]
    /\ k >= Len(q) => b[Ahead(n, r, k)].read = TRUE

Slot == [value : Int, read : BOOLEAN]

RingTypeOK ==
  /\ buffer \in [0..C!length - 1 -> Slot]
  /\ read_position \in 0..C!length - 1
  /\ kept \in Seq(Int) /\ Len(kept) \in 0..C!length

(* The unread values begin at read_position and end at write_position. *)
RingInv ==
  /\ RingTypeOK
  /\ write_position = Ahead(C!length, read_position, Len(kept))
  /\ Holds(C!length, buffer, read_position, kept)

(* Going k places on is one place and then k - 1, or k - 1 and then one. *)
LEMMA AheadSteps ==
  ASSUME NEW n \in Nat \ {0}, NEW i \in 0..n - 1, NEW k \in 0..n
  PROVE  /\ Ahead(n, i, k) \in 0..n - 1
         /\ Ahead(n, i, 0) = i /\ Ahead(n, i, n) = i
         /\ k > 0 => Ahead(n, i, k) = Ahead(n, Ahead(n, i, 1), k - 1)
         /\ k < n => Ahead(n, i, k + 1) = Ahead(n, Ahead(n, i, k), 1)
  BY DEF Ahead

(* The n places of a ring are distinct. *)
LEMMA AheadOnce ==
  ASSUME NEW n \in Nat \ {0}, NEW i \in 0..n - 1, NEW k \in 0..n - 1, NEW l \in 0..n - 1,
         Ahead(n, i, k) = Ahead(n, i, l)
  PROVE  k = l
  BY DEF Ahead

(* Places are counted modulo the length. *)
LEMMA AheadIsModulo ==
  ASSUME NEW n \in Nat \ {0}, NEW i \in 0..n - 1, NEW k \in 0..n - 1
  PROVE  (i + k) % n = Ahead(n, i, k)
<1>1. CASE i + k < n
  BY <1>1 DEF Ahead
<1>2. CASE ~(i + k < n)
  <2>1. i + k \in n..2 * n - 1
    BY <1>2
  <2>2. ASSUME NEW x \in n..2 * n - 1 PROVE x % n = x - n
    OBVIOUS
  <2> QED  BY <1>2, <2>1, <2>2 DEF Ahead
<1> QED  BY <1>1, <1>2

(* A value written behind the last extends what the ring holds. *)
LEMMA RingPut ==
  ASSUME NEW n \in Nat \ {0}, NEW b \in [0..n - 1 -> Slot], NEW r \in 0..n - 1,
         NEW q \in Seq(Int), Len(q) < n, Holds(n, b, r, q), NEW v \in Int, NEW c,
         c = [b EXCEPT ![Ahead(n, r, Len(q))] = [value |-> v, read |-> FALSE]]
  PROVE  Holds(n, c, r, Append(q, v)) /\ c \in [0..n - 1 -> Slot]
<1> DEFINE w == Ahead(n, r, Len(q))  p == Append(q, v)
<1>1. Len(q) \in 0..n - 1
  OBVIOUS
<1>2. w \in 0..n - 1
  BY <1>1, AheadSteps
<1>3. /\ c[w] = [value |-> v, read |-> FALSE]
      /\ \A i \in 0..n - 1 : i # w => c[i] = b[i]
  BY <1>2
<1>4. c \in [0..n - 1 -> Slot]
  BY <1>2 DEF Slot
<1>5. /\ Len(p) = Len(q) + 1 /\ p[Len(q) + 1] = v
      /\ \A i \in 1..Len(q) : p[i] = q[i]
  BY AppendProperties
<1> HIDE DEF p
<1>6. ASSUME NEW k \in 0..n - 1
      PROVE  /\ k < Len(p) => c[Ahead(n, r, k)] = [value |-> p[k + 1], read |-> FALSE]
             /\ k >= Len(p) => c[Ahead(n, r, k)].read = TRUE
  <2>1. Ahead(n, r, k) \in 0..n - 1
    <3>1. k \in 0..n
      OBVIOUS
    <3> QED  BY <3>1, AheadSteps
  <2>2. CASE k = Len(q)
    <3>1. Ahead(n, r, k) = w /\ k < Len(p) /\ p[k + 1] = v
      BY <1>1, <1>5, <2>2
    <3> QED  BY <1>3, <1>1, <1>5, <3>1
  <2>3. CASE k # Len(q)
    <3>1. Ahead(n, r, k) # w
      BY <1>1, <2>3, AheadOnce
    <3>2. c[Ahead(n, r, k)] = b[Ahead(n, r, k)]
      BY <1>3, <2>1, <3>1
    <3>3. k < Len(p) => k < Len(q) /\ p[k + 1] = q[k + 1]
      <4>1. Len(p) = Len(q) + 1 /\ Len(q) \in Nat /\ k \in Nat
        BY <1>5
      <4>2. k < Len(p) => k < Len(q) /\ k + 1 \in 1..Len(q)
        BY <2>3, <4>1
      <4> QED  BY Zenon, <1>5, <4>2
    <3>4. k >= Len(p) => k >= Len(q)
      BY <1>1, <1>5
    <3> QED  BY <3>2, <3>3, <3>4 DEF Holds
  <2> QED  BY <2>2, <2>3
<1> QED  BY <1>4, <1>6 DEF Holds, p

(* Marking the first slot read leaves the rest. *)
LEMMA RingTake ==
  ASSUME NEW n \in Nat \ {0}, NEW b \in [0..n - 1 -> Slot], NEW r \in 0..n - 1,
         NEW q \in Seq(Int), Len(q) \in 1..n, Holds(n, b, r, q),
         NEW c \in [0..n - 1 -> Slot], c[r].read = TRUE,
         \A i \in 0..n - 1 : i # r => c[i] = b[i]
  PROVE  Holds(n, c, Ahead(n, r, 1), Tail(q)) /\ b[r].read = FALSE
<1> DEFINE p == Tail(q)  s == Ahead(n, r, 1)
<1>1. /\ c[r].read = TRUE
      /\ \A i \in 0..n - 1 : i # r => c[i] = b[i]
  OBVIOUS
<1>2. /\ Len(p) = Len(q) - 1
      /\ \A i \in 1..Len(q) - 1 : p[i] = q[i + 1]
  BY HeadTailProperties
<1>3. Ahead(n, r, 0) = r /\ Ahead(n, r, n) = r
  BY AheadSteps
<1>4. b[r] = [value |-> q[1], read |-> FALSE]
  <2>1. b[Ahead(n, r, 0)] = [value |-> q[0 + 1], read |-> FALSE]
    BY DEF Holds
  <2> QED  BY <1>3, <2>1
<1> HIDE DEF p
<1>5. ASSUME NEW k \in 0..n - 1
      PROVE  /\ k < Len(p) => c[Ahead(n, s, k)] = [value |-> p[k + 1], read |-> FALSE]
             /\ k >= Len(p) => c[Ahead(n, s, k)].read = TRUE
  <2>1. Ahead(n, r, k + 1) = Ahead(n, s, k)
    <3>1. k + 1 \in 0..n /\ k + 1 > 0 /\ (k + 1) - 1 = k
      OBVIOUS
    <3> QED  BY <3>1, AheadSteps
  <2>2. CASE k = n - 1
    BY <1>1, <1>2, <1>3, <2>1, <2>2
  <2>3. CASE k # n - 1
    <3>1. k + 1 \in 0..n - 1
      BY <2>3
    <3>2. Ahead(n, r, k + 1) # r
      <4>1. 0 \in 0..n - 1 /\ k + 1 # 0
        OBVIOUS
      <4> QED  BY <1>3, <3>1, <4>1, AheadOnce
    <3>3. Ahead(n, r, k + 1) \in 0..n - 1
      <4>1. k + 1 \in 0..n
        OBVIOUS
      <4> QED  BY <4>1, AheadSteps
    <3>4. c[Ahead(n, s, k)] = b[Ahead(n, r, k + 1)]
      BY <1>1, <2>1, <3>2, <3>3
    <3>5. k < Len(p) => k + 1 < Len(q) /\ p[k + 1] = q[(k + 1) + 1]
      <4>1. Len(p) = Len(q) - 1 /\ Len(q) \in Nat /\ k \in Nat
        BY <1>2
      <4>2. k < Len(p) => k + 1 \in 1..Len(q) - 1 /\ k + 1 < Len(q)
        BY <4>1
      <4> QED  BY Zenon, <1>2, <4>2
    <3>6. k >= Len(p) => k + 1 >= Len(q)
      BY <1>2
    <3> QED  BY <3>1, <3>4, <3>5, <3>6 DEF Holds
  <2> QED  BY <2>2, <2>3
<1>6. b[r].read = FALSE
  BY <1>4
<1> QED  BY <1>5, <1>6 DEF Holds, p

(* A ring has at least one slot, and After() is one place on. *)
LEMMA RingLength ==
  /\ C!length \in Nat \ {0}
  /\ \A i \in 0..C!length - 1 : C!After(i) = Ahead(C!length, i, 1)
<1>1. C!length \in Nat \ {0}
  BY ValuesAssumption DEF C!length
<1> QED  BY <1>1 DEF C!After, Ahead

(* The ring as it is built. *)
LEMMA RingInit == C!Init => RingInv
<1> SUFFICES ASSUME C!Init PROVE RingInv
  OBVIOUS
<1> USE RingLength DEF C!Init
<1>1. RingTypeOK
  BY DEF RingTypeOK, Slot
<1>2. Holds(C!length, buffer, read_position, kept)
  BY DEF Holds, Ahead
<1> QED  BY <1>1, <1>2 DEF RingInv, Ahead

(* write() takes the first slot that was read; a full ring first forgets   *)
(* its oldest value, in the same slot.                                     *)
LEMMA RingWrite ==
  ASSUME RingInv, NEW value \in Values, C!write(value)
  PROVE  RingInv'
<1> DEFINE n == C!length  r == read_position  w == write_position  b == buffer  q == kept
           new == [value |-> value, read |-> FALSE]
<1>1. n \in Nat \ {0} /\ value \in Int
  BY RingLength, ValuesAssumption
<1>2. /\ b \in [0..n - 1 -> Slot] /\ r \in 0..n - 1 /\ q \in Seq(Int)
      /\ Len(q) \in 0..n /\ w = Ahead(n, r, Len(q)) /\ Holds(n, b, r, q)
  BY DEF RingInv, RingTypeOK
<1>3. /\ w \in 0..n - 1 /\ C!After(w) = Ahead(n, w, 1) /\ C!After(r) = Ahead(n, r, 1)
      /\ Ahead(n, r, 1) \in 0..n - 1
  <2>1. w \in 0..n - 1 /\ Ahead(n, r, 1) \in 0..n - 1
    BY <1>1, <1>2, AheadSteps
  <2> QED  BY <1>2, <2>1, RingLength
<1>4. buffer' = [b EXCEPT ![w] = new] /\ write_position' = Ahead(n, w, 1)
  BY <1>3 DEF C!write
<1>5. CASE Len(q) = n
  <2> DEFINE c == [b EXCEPT ![r].read = TRUE]  s == Ahead(n, r, 1)
  <2>1. /\ Holds(n, c, s, Tail(q)) /\ c \in [0..n - 1 -> Slot]
        /\ b[r].read = FALSE
    <3>1. Len(q) \in 1..n
      BY <1>1, <1>5
    <3>2. /\ c \in [0..n - 1 -> Slot] /\ c[r].read = TRUE
          /\ \A i \in 0..n - 1 : i # r => c[i] = b[i]
      BY <1>2 DEF Slot
    <3> HIDE DEF n, b, r, q, c
    <3>3. Holds(n, c, Ahead(n, r, 1), Tail(q)) /\ b[r].read = FALSE
      BY <1>1, <1>2, <3>1, <3>2, RingTake
    <3> QED  BY <3>2, <3>3
  <2>2. w = r
    BY <1>1, <1>2, <1>5, AheadSteps
  <2>3. Tail(q) \in Seq(Int) /\ Len(Tail(q)) = n - 1
    BY <1>1, <1>2, <1>5, HeadTailProperties
  <2>4. Ahead(n, s, n - 1) = r
    <3>1. Ahead(n, r, n) = Ahead(n, s, n - 1) /\ Ahead(n, r, n) = r
      BY <1>1, <1>2, AheadSteps
    <3> QED  BY <3>1
  <2>5. buffer' = [c EXCEPT ![r] = new]
    BY <1>2, <1>4, <2>2
  <2>6. Holds(n, buffer', s, Append(Tail(q), value)) /\ buffer' \in [0..n - 1 -> Slot]
    BY <1>1, <1>3, <2>1, <2>3, <2>4, <2>5, RingPut
  <2>7. read_position' = s /\ kept' = Append(Tail(q), value) /\ write_position' = s
    BY <1>3, <1>4, <1>5, <2>1, <2>2 DEF C!write, C!Overwritten
  <2>8. kept' \in Seq(Int) /\ Len(kept') = n
    BY <1>1, <2>3, <2>7, AppendProperties
  <2>9. write_position' = Ahead(n, read_position', Len(kept'))
    BY <1>1, <1>3, <2>7, <2>8, AheadSteps
  <2> QED  BY <1>1, <1>3, <2>6, <2>7, <2>8, <2>9 DEF RingInv, RingTypeOK
<1>6. CASE Len(q) # n
  <2>1. Len(q) \in 0..n - 1 /\ Len(q) < n
    BY <1>1, <1>2, <1>6
  <2>2. b[w].read = TRUE
    <3>1. Len(q) >= Len(q) => b[Ahead(n, r, Len(q))].read = TRUE
      BY <1>2, <2>1 DEF Holds
    <3> QED  BY <1>2, <2>1, <3>1
  <2>3. read_position' = r /\ kept' = Append(q, value)
    BY <1>6, <2>2 DEF C!write, C!Overwritten
  <2>4. Holds(n, buffer', r, Append(q, value)) /\ buffer' \in [0..n - 1 -> Slot]
    BY <1>1, <1>2, <1>4, <2>1, RingPut
  <2>5. kept' \in Seq(Int) /\ Len(kept') = Len(q) + 1
    BY <1>1, <1>2, <2>3, AppendProperties
  <2>6. write_position' = Ahead(n, r, Len(q) + 1)
    BY <1>1, <1>2, <1>4, <2>1, AheadSteps
  <2> QED  BY <1>1, <1>2, <2>1, <2>3, <2>4, <2>5, <2>6 DEF RingInv, RingTypeOK
<1> QED  BY <1>5, <1>6

(* read() takes the oldest unread value, if there is one. *)
LEMMA RingRead ==
  ASSUME RingInv, C!read
  PROVE  RingInv'
<1> DEFINE n == C!length  r == read_position  b == buffer  q == kept
<1>1. n \in Nat \ {0}
  BY RingLength
<1>2. /\ b \in [0..n - 1 -> Slot] /\ r \in 0..n - 1 /\ q \in Seq(Int)
      /\ Len(q) \in 0..n /\ write_position = Ahead(n, r, Len(q)) /\ Holds(n, b, r, q)
  BY DEF RingInv, RingTypeOK
<1>3. C!After(r) = Ahead(n, r, 1) /\ Ahead(n, r, 1) \in 0..n - 1
  BY <1>1, <1>2, RingLength, AheadSteps
<1>4. buffer' = [b EXCEPT ![r].read = TRUE] /\ write_position' = write_position
  BY DEF C!read
<1>5. CASE Len(q) = 0
  <2>1. q = <<>>
    BY <1>2, <1>5, EmptySeq
  <2>2. b[r].read = TRUE
    <3>1. 0 \in 0..n - 1 /\ Ahead(n, r, 0) = r
      BY <1>1, <1>2, AheadSteps
    <3>2. 0 >= Len(q) => b[Ahead(n, r, 0)].read = TRUE
      BY <1>2, <3>1 DEF Holds
    <3> QED  BY <1>5, <3>1, <3>2
  <2>3. read_position' = r /\ kept' = q
    BY <2>1, <2>2 DEF C!read
  <2>4. buffer' = b
    BY <1>2, <1>4, <2>2 DEF Slot
  <2> QED  BY <1>2, <1>4, <2>3, <2>4 DEF RingInv, RingTypeOK
<1>6. CASE Len(q) # 0
  <2>1. /\ Holds(n, buffer', Ahead(n, r, 1), Tail(q)) /\ buffer' \in [0..n - 1 -> Slot]
        /\ b[r].read = FALSE
    <3>1. Len(q) \in 1..n
      BY <1>1, <1>2, <1>6
    <3>2. /\ buffer' \in [0..n - 1 -> Slot] /\ buffer'[r].read = TRUE
          /\ \A i \in 0..n - 1 : i # r => buffer'[i] = b[i]
      BY <1>2, <1>4 DEF Slot
    <3> HIDE DEF n, b, r, q
    <3>3. Holds(n, buffer', Ahead(n, r, 1), Tail(q)) /\ b[r].read = FALSE
      BY <1>1, <1>2, <3>1, <3>2, RingTake
    <3> QED  BY <3>2, <3>3
  <2>2. q # <<>>
    BY <1>6
  <2>3. read_position' = Ahead(n, r, 1) /\ kept' = Tail(q)
    BY <1>3, <2>1, <2>2 DEF C!read
  <2>4. Tail(q) \in Seq(Int) /\ Len(Tail(q)) = Len(q) - 1
    BY <1>2, <2>2, HeadTailProperties
  <2>5. Ahead(n, r, Len(q)) = Ahead(n, Ahead(n, r, 1), Len(q) - 1)
    BY <1>1, <1>2, <1>6, AheadSteps
  <2> QED
    BY <1>1, <1>2, <1>3, <1>4, <1>6, <2>1, <2>3, <2>4, <2>5 DEF RingInv, RingTypeOK
<1> QED  BY <1>5, <1>6

(* clear() leaves a ring of slots that were read. *)
LEMMA RingClear ==
  ASSUME RingInv, C!clear
  PROVE  RingInv'
<1> USE RingLength
<1>1. /\ buffer' \in [0..C!length - 1 -> Slot]
      /\ \A i \in 0..C!length - 1 : buffer'[i].read = TRUE
  BY DEF RingInv, RingTypeOK, C!clear, Slot
<1>2. \A k \in 0..C!length - 1 : Ahead(C!length, 0, k) = k
  BY DEF Ahead
<1>3. Holds(C!length, buffer', 0, <<>>)
  BY <1>1, <1>2 DEF Holds
<1>4. Ahead(C!length, 0, 0) = 0 /\ Len(<<>>) = 0
  BY <1>2
<1> QED
  BY <1>1, <1>3, <1>4 DEF RingInv, RingTypeOK, C!clear

(* The invariant says of the ring what the module says. *)
LEMMA RingSafe == RingInv => C!LastValuesKept
<1> SUFFICES ASSUME RingInv, NEW k \in 0..C!length - 1
             PROVE  LET slot == buffer[(read_position + k) % C!length]
                    IN IF k < Len(kept) THEN slot = [value |-> kept[k + 1], read |-> FALSE]
                                        ELSE slot.read
  BY DEF C!LastValuesKept
<1>1. (read_position + k) % C!length = Ahead(C!length, read_position, k)
  BY RingLength, AheadIsModulo DEF RingInv, RingTypeOK
<1>2. Len(kept) \in Nat
  BY DEF RingInv, RingTypeOK
<1> QED
  BY <1>1, <1>2 DEF RingInv, Holds

-----------------------------------------------------------------------------
(* ListBasedSet *)

(* The values of a list increase. *)
Increasing(s) == \A i, j \in 1..Len(s) : i < j => s[i] < s[j]

In(v, s) == \E i \in 1..Len(s) : s[i] = v

SetInv ==
  /\ list \in Seq(Int) /\ Increasing(list)
  /\ \A v \in Int : In(v, list) => v \in members

(* A set of natural numbers that is not empty has a least one. *)
LEMMA Least ==
  ASSUME NEW I \in SUBSET Nat, I # {}
  PROVE  \E m \in I : \A i \in I : m <= i
<1>1. PICK m \in I : \A i \in I : ~(<<i, m>> \in OpToRel(<, Nat))
  BY Zenon, NatLessThanWellFounded, WFMin
<1>2. ASSUME NEW i \in I PROVE m <= i
  <2>1. i \in Nat /\ m \in Nat
    OBVIOUS
  <2>2. i < m => <<i, m>> \in OpToRel(<, Nat)
    BY Zenon, <2>1 DEF OpToRel
  <2>3. ~(i < m)
    BY Zenon, <1>1, <2>2
  <2> QED  BY <2>1, <2>3
<1> QED  BY <1>2

(* The search loops of insert() and remove() stop at the first value that  *)
(* is not below, or is, the one they look for.                             *)
LEMMA FirstPlace ==
  ASSUME NEW I \in SUBSET Nat, I # {}
  PROVE  S!Min(I) \in I /\ \A i \in I : S!Min(I) <= i
<1> DEFINE Bound(x) == \A y \in I : x <= y
<1>1. \E x \in I : Bound(x)
  BY Least
<1>2. S!Min(I) = CHOOSE x \in I : Bound(x)
  BY DEF S!Min
<1> HIDE DEF Bound
<1>3. S!Min(I) \in I /\ Bound(S!Min(I))
  BY Zenon, <1>1, <1>2
<1> QED  BY <1>3 DEF Bound

(* Concatenation, counted from the start of each part *)
LEMMA Joined ==
  ASSUME NEW s \in Seq(Int), NEW t \in Seq(Int)
  PROVE  /\ s \o t \in Seq(Int) /\ Len(s \o t) = Len(s) + Len(t)
         /\ \A i \in 1..Len(s) : (s \o t)[i] = s[i]
         /\ \A i \in 1..Len(t) : (s \o t)[Len(s) + i] = t[i]
<1> DEFINE m == Len(s)  n == Len(t)  c == s \o t
<1>1. /\ c \in Seq(Int) /\ Len(c) = m + n /\ m \in Nat /\ n \in Nat
      /\ \A i \in 1..m + n : c[i] = IF i <= m THEN s[i] ELSE t[i - m]
  BY ConcatProperties, LenProperties
<1> HIDE DEF m, n, c
<1>2. ASSUME NEW i \in 1..m PROVE c[i] = s[i]
  <2>1. i \in 1..m + n /\ i <= m
    BY <1>1
  <2> QED  BY <1>1, <2>1
<1>3. ASSUME NEW i \in 1..n PROVE c[m + i] = t[i]
  <2>1. m + i \in 1..m + n /\ ~(m + i <= m) /\ (m + i) - m = i
    BY <1>1
  <2> QED  BY <1>1, <2>1
<1> QED  BY <1>1, <1>2, <1>3 DEF m, n, c

(* A value inserted where the smaller ones end leaves the list sorted. *)
LEMMA Inserted ==
  ASSUME NEW s \in Seq(Int), Increasing(s), NEW v \in Int, NEW p \in 1..Len(s) + 1,
         \A i \in 1..Len(s) : IF i < p THEN s[i] < v ELSE v < s[i]
  PROVE  /\ S!InsertAt(s, p, v) \in Seq(Int) /\ Increasing(S!InsertAt(s, p, v))
         /\ \A x : In(x, S!InsertAt(s, p, v)) <=> x = v \/ In(x, s)
<1> DEFINE t == S!InsertAt(s, p, v)
<1> DEFINE a == SubSeq(s, 1, p - 1)  c == SubSeq(s, p, Len(s))  b == a \o <<v>>
<1>1. /\ t \in Seq(Int) /\ Len(t) = Len(s) + 1 /\ t[p] = v
      /\ \A i \in 1..Len(s) : /\ i < p => t[i] = s[i]
                              /\ i >= p => t[i + 1] = s[i]
  <2>1. t = b \o c
    BY DEF S!InsertAt
  <2>2. /\ a \in Seq(Int) /\ Len(a) = p - 1
        /\ \A i \in 1..p - 1 : a[i] = s[i]
    BY SubSeqProperties
  <2>3. /\ c \in Seq(Int) /\ Len(c) = Len(s) - p + 1
        /\ \A i \in 1..Len(s) - p + 1 : c[i] = s[p + i - 1]
    BY SubSeqProperties
  <2> HIDE DEF a, c
  <2>4. /\ b \in Seq(Int) /\ Len(b) = p /\ b[p] = v
        /\ \A i \in 1..p - 1 : b[i] = s[i]
    <3>1. <<v>> \in Seq(Int) /\ Len(<<v>>) = 1 /\ <<v>>[1] = v /\ (p - 1) + 1 = p
      OBVIOUS
    <3> QED  BY <2>2, <3>1, Joined
  <2> HIDE DEF b, t
  <2>5. /\ t \in Seq(Int) /\ Len(t) = Len(s) + 1
        /\ \A i \in 1..p : t[i] = b[i]
        /\ \A i \in 1..Len(c) : t[p + i] = c[i]
    <3>1. Len(b) + Len(c) = Len(s) + 1
      BY <2>3, <2>4
    <3> QED  BY <2>1, <2>3, <2>4, <3>1, Joined
  <2>6. \A i \in 1..Len(s) : i < p => t[i] = s[i]
    BY <2>4, <2>5
  <2>7. ASSUME NEW i \in 1..Len(s), i >= p PROVE t[i + 1] = s[i]
    <3>1. i - p + 1 \in 1..Len(c) /\ p + (i - p + 1) = i + 1 /\ p + (i - p + 1) - 1 = i
      BY <2>3, <2>7
    <3>2. t[p + (i - p + 1)] = c[i - p + 1]
      BY <2>5, <3>1
    <3>3. c[i - p + 1] = s[p + (i - p + 1) - 1]
      BY <2>3, <3>1
    <3> QED  BY <3>1, <3>2, <3>3
  <2> QED  BY <2>4, <2>5, <2>6, <2>7
<1> HIDE DEF t, a, b, c
<1>2. ASSUME NEW i \in 1..Len(t)
      PROVE  \/ i < p /\ i \in 1..Len(s) /\ t[i] = s[i]
             \/ i = p /\ t[i] = v
             \/ i > p /\ i - 1 \in 1..Len(s) /\ t[i] = s[i - 1]
  <2>1. CASE i > p
    <3>1. i - 1 \in 1..Len(s) /\ i - 1 >= p /\ (i - 1) + 1 = i
      BY <1>1, <2>1
    <3> QED  BY <1>1, <2>1, <3>1
  <2> QED  BY <1>1, <2>1
<1>3. Increasing(t)
  <2> SUFFICES ASSUME NEW i \in 1..Len(t), NEW j \in 1..Len(t), i < j
               PROVE  t[i] < t[j]
    BY DEF Increasing
  <2>1. \A k, l \in 1..Len(s) : k < l => s[k] < s[l]
    BY DEF Increasing
  <2>2. i \in Int /\ j \in Int /\ p \in Int
    OBVIOUS
  <2>3. CASE i < p /\ j < p
    BY <1>2, <2>1, <2>3
  <2>4. CASE i < p /\ j = p
    BY <1>2, <2>4
  <2>5. CASE i < p /\ j > p
    <3>1. /\ j - 1 \in 1..Len(s) /\ i \in 1..Len(s) /\ i < j - 1
          /\ t[i] = s[i] /\ t[j] = s[j - 1]
      BY <1>2, <2>2, <2>5
    <3> QED  BY <2>1, <3>1
  <2>6. CASE i = p /\ j > p
    <3>1. j - 1 \in 1..Len(s) /\ ~(j - 1 < p) /\ t[i] = v /\ t[j] = s[j - 1]
      BY <1>2, <2>2, <2>6
    <3> QED  BY <3>1
  <2>7. CASE i > p
    <3>1. /\ j - 1 \in 1..Len(s) /\ i - 1 \in 1..Len(s) /\ i - 1 < j - 1
          /\ t[i] = s[i - 1] /\ t[j] = s[j - 1]
      BY <1>2, <2>2, <2>7
    <3> QED  BY <2>1, <3>1
  <2> QED  BY <2>2, <2>3, <2>4, <2>5, <2>6, <2>7
<1>4. ASSUME NEW x PROVE In(x, t) <=> x = v \/ In(x, s)
  <2>1. In(x, t) => x = v \/ In(x, s)
    BY <1>2 DEF In
  <2>2. t[p] = v /\ p \in 1..Len(t)
    BY <1>1
  <2>3. ASSUME NEW i \in 1..Len(s) PROVE In(s[i], t)
    <3>1. CASE i < p
      BY <1>1, <3>1 DEF In
    <3>2. CASE ~(i < p)
      <4>1. i + 1 \in 1..Len(t) /\ t[i + 1] = s[i]
        BY <1>1, <3>2
      <4> QED  BY <4>1 DEF In
    <3> QED  BY <3>1, <3>2
  <2> QED  BY <2>1, <2>2, <2>3 DEF In
<1> QED  BY <1>1, <1>3, <1>4 DEF t

(* A list without the value at one place *)
LEMMA Removed ==
  ASSUME NEW s \in Seq(Int), Increasing(s), NEW p \in 1..Len(s)
  PROVE  /\ S!RemoveAt(s, p) \in Seq(Int) /\ Increasing(S!RemoveAt(s, p))
         /\ \A x : In(x, S!RemoveAt(s, p)) <=> In(x, s) /\ x # s[p]
<1> DEFINE t == S!RemoveAt(s, p)
<1> DEFINE a == SubSeq(s, 1, p - 1)  c == SubSeq(s, p + 1, Len(s))
<1>1. /\ t \in Seq(Int) /\ Len(t) = Len(s) - 1
      /\ \A i \in 1..Len(s) - 1 : /\ i < p => t[i] = s[i]
                                  /\ i >= p => t[i] = s[i + 1]
  <2>1. t = a \o c
    BY DEF S!RemoveAt
  <2>2. /\ a \in Seq(Int) /\ Len(a) = p - 1
        /\ \A i \in 1..p - 1 : a[i] = s[i]
    BY SubSeqProperties
  <2>3. /\ c \in Seq(Int) /\ Len(c) = Len(s) - p
        /\ \A i \in 1..Len(s) - p : c[i] = s[p + i]
    BY SubSeqProperties
  <2> HIDE DEF a, c, t
  <2>4. /\ t \in Seq(Int) /\ Len(t) = Len(s) - 1
        /\ \A i \in 1..p - 1 : t[i] = a[i]
        /\ \A i \in 1..Len(c) : t[(p - 1) + i] = c[i]
    <3>1. Len(a) + Len(c) = Len(s) - 1
      BY <2>2, <2>3
    <3>2. /\ t \in Seq(Int) /\ Len(t) = Len(a) + Len(c)
          /\ \A i \in 1..Len(a) : t[i] = a[i]
          /\ \A i \in 1..Len(c) : t[Len(a) + i] = c[i]
      BY <2>1, <2>2, <2>3, Joined
    <3> QED  BY <2>2, <3>1, <3>2
  <2>5. ASSUME NEW i \in 1..Len(s) - 1, i >= p PROVE t[i] = s[i + 1]
    <3>1. i - p + 1 \in 1..Len(c) /\ (p - 1) + (i - p + 1) = i /\ p + (i - p + 1) = i + 1
      BY <2>3, <2>5
    <3>2. t[(p - 1) + (i - p + 1)] = c[i - p + 1]
      BY <2>4, <3>1
    <3>3. c[i - p + 1] = s[p + (i - p + 1)]
      BY <2>3, <3>1
    <3> QED  BY <3>1, <3>2, <3>3
  <2>6. ASSUME NEW i \in 1..Len(s) - 1, i < p PROVE t[i] = s[i]
    <3>1. i \in 1..p - 1
      BY <2>6
    <3> QED  BY Zenon, <2>2, <2>4, <3>1
  <2> QED  BY <2>4, <2>5, <2>6
<1> HIDE DEF t, a, c
<1>2. ASSUME NEW i \in 1..Len(t)
      PROVE  \E k \in 1..Len(s) : t[i] = s[k] /\ k = (IF i < p THEN i ELSE i + 1)
  <2>1. i \in 1..Len(s) - 1 /\ i \in 1..Len(s) /\ i + 1 \in 1..Len(s)
    <3>1. Len(t) = Len(s) - 1 /\ Len(s) \in Nat
      BY <1>1
    <3> QED  BY <3>1
  <2>2. CASE i < p
    BY <1>1, <2>1, <2>2
  <2>3. CASE ~(i < p)
    BY <1>1, <2>1, <2>3
  <2> QED  BY <2>2, <2>3
<1>3. Increasing(t)
  <2> SUFFICES ASSUME NEW i \in 1..Len(t), NEW j \in 1..Len(t), i < j
               PROVE  t[i] < t[j]
    BY DEF Increasing
  <2>1. \A k, l \in 1..Len(s) : k < l => s[k] < s[l]
    BY DEF Increasing
  <2>2. PICK k \in 1..Len(s) : t[i] = s[k] /\ k = (IF i < p THEN i ELSE i + 1)
    BY <1>2
  <2>3. PICK l \in 1..Len(s) : t[j] = s[l] /\ l = (IF j < p THEN j ELSE j + 1)
    BY <1>2
  <2>4. k < l
    BY <2>2, <2>3
  <2> QED  BY <2>1, <2>2, <2>3, <2>4
<1>4. ASSUME NEW x PROVE In(x, t) <=> In(x, s) /\ x # s[p]
  <2>1. ASSUME NEW i \in 1..Len(t) PROVE In(t[i], s) /\ t[i] # s[p]
    <3>1. PICK k \in 1..Len(s) : t[i] = s[k] /\ k = (IF i < p THEN i ELSE i + 1)
      BY <1>2
    <3>2. k < p \/ p < k
      BY <3>1
    <3>3. s[k] < s[p] \/ s[p] < s[k]
      BY <3>2 DEF Increasing
    <3> QED  BY <3>1, <3>3 DEF In
  <2>2. ASSUME NEW i \in 1..Len(s), s[i] # s[p] PROVE In(s[i], t)
    <3>1. CASE i < p
      <4>1. i \in 1..Len(s) - 1 /\ i \in 1..Len(t)
        BY <1>1, <3>1
      <4> QED  BY <1>1, <3>1, <4>1 DEF In
    <3>2. CASE ~(i < p)
      <4>1. i - 1 \in 1..Len(t) /\ (i - 1) + 1 = i /\ ~(i - 1 < p)
        <5>1. i # p
          BY Zenon, <2>2
        <5>2. Len(t) = Len(s) - 1 /\ Len(s) \in Nat
          BY <1>1
        <5> QED  BY <3>2, <5>1, <5>2
      <4>2. t[i - 1] = s[i]
        <5>1. i - 1 \in 1..Len(s) - 1 /\ i - 1 >= p
          <6>1. Len(t) = Len(s) - 1 /\ Len(s) \in Nat
            BY <1>1
          <6> QED  BY <4>1, <6>1
        <5>2. t[i - 1] = s[(i - 1) + 1]
          BY Zenon, <1>1, <5>1
        <5> QED  BY <4>1, <5>2
      <4> QED  BY <4>1, <4>2 DEF In
    <3> QED  BY <3>1, <3>2
  <2> QED  BY <2>1, <2>2 DEF In
<1> QED  BY <1>1, <1>3, <1>4 DEF t

(* The place of a new value parts the smaller values from the greater. *)
LEMMA InsertPlace ==
  ASSUME list \in Seq(Int), Increasing(list), NEW v \in Int, ~In(v, list)
  PROVE  /\ S!Place(v) \in 1..Len(list) + 1
         /\ \A i \in 1..Len(list) : IF i < S!Place(v) THEN list[i] < v ELSE v < list[i]
<1> DEFINE I == {i \in 1..Len(list) : list[i] >= v}
<1>1. S!Search(v) = IF I # {} THEN S!Min(I) ELSE 0
  BY Zenon DEF S!Search, S!SelectInSeq
<1>2. I \subseteq Nat
  OBVIOUS
<1>3. \A i \in 1..Len(list) : list[i] # v /\ list[i] \in Int
  BY DEF In
<1>4. CASE I = {}
  BY <1>1, <1>3, <1>4 DEF S!Place
<1>5. CASE I # {}
  <2> DEFINE p == S!Min(I)
  <2>1. p \in I /\ \A i \in I : p <= i
    BY <1>2, <1>5, FirstPlace
  <2>2. S!Place(v) = p
    BY <1>1, <1>5, <2>1 DEF S!Place
  <2> HIDE DEF p
  <2>3. p \in 1..Len(list) /\ list[p] >= v
    BY <2>1
  <2>4. ASSUME NEW i \in 1..Len(list), i < p PROVE list[i] < v
    BY <1>3, <2>1, <2>3, <2>4
  <2>5. ASSUME NEW i \in 1..Len(list), ~(i < p) PROVE v < list[i]
    <3>1. i = p \/ list[p] < list[i]
      BY <2>3, <2>5 DEF Increasing
    <3> QED  BY <1>3, <2>3, <3>1
  <2> QED  BY <2>2, <2>3, <2>4, <2>5
<1> QED  BY <1>4, <1>5

(* lookup() in terms of the list. *)
LEMMA LookupIn == ASSUME list \in Seq(Int), NEW v PROVE S!lookup(v) <=> In(v, list)
  BY DEF S!lookup, In

(* insert() *)
LEMMA SetInsert ==
  ASSUME SetInv, NEW v \in Values, S!insert(v)
  PROVE  SetInv'
<1>1. list \in Seq(Int) /\ Increasing(list) /\ v \in Int
  BY ValuesAssumption DEF SetInv
<1>2. members' = members \union {v}
  BY DEF S!insert
<1>3. list' \in Seq(Int) /\ Increasing(list') /\ \A x : In(x, list') <=> x = v \/ In(x, list)
  <2>1. CASE In(v, list)
    BY <1>1, <2>1, LookupIn DEF S!insert
  <2>2. CASE ~In(v, list)
    <3>1. list' = S!InsertAt(list, S!Place(v), v)
      BY <1>1, <2>2, LookupIn DEF S!insert
    <3>2. /\ S!Place(v) \in 1..Len(list) + 1
          /\ \A i \in 1..Len(list) : IF i < S!Place(v) THEN list[i] < v ELSE v < list[i]
      BY <1>1, <2>2, InsertPlace
    <3> QED  BY <1>1, <3>1, <3>2, Inserted
  <2> QED  BY <2>1, <2>2
<1>4. \A x \in Int : In(x, list) => x \in members
  BY DEF SetInv
<1>5. \A x \in Int : In(x, list') => x \in members'
  BY <1>2, <1>3, <1>4
<1> QED  BY <1>3, <1>5 DEF SetInv

(* remove(), which drops the whole list when the value is at its head *)
LEMMA SetRemove ==
  ASSUME SetInv, NEW v \in Values, S!remove(v)
  PROVE  SetInv'
<1> DEFINE atHead == list # <<>> /\ Head(list) = v
<1>1. list \in Seq(Int) /\ Increasing(list) /\ v \in Int
  BY ValuesAssumption DEF SetInv
<1>2. \A x \in Int : In(x, list) => x \in members
  BY DEF SetInv
<1>3. members' = members \ {v}
  BY DEF S!remove
<1>4. CASE atHead
  <2>1. list' = <<>>
    BY <1>4 DEF S!remove
  <2>2. \A x : ~In(x, list')
    BY <2>1 DEF In
  <2>3. list' \in Seq(Int) /\ Increasing(list')
    BY <2>1 DEF Increasing
  <2> QED  BY <2>2, <2>3 DEF SetInv
<1>5. CASE ~atHead
  <2>1. list' = S!RemoveFirst(list, v)
    BY <1>5 DEF S!remove
  <2> DEFINE I == {i \in 1..Len(list) : list[i] = v}
  <2>2. list' = IF In(v, list)
                THEN S!RemoveAt(list, IF I # {} THEN S!Min(I) ELSE 0) ELSE list
    BY Zenon, <2>1 DEF S!RemoveFirst, S!SelectInSeq, In
  <2>3. list' \in Seq(Int) /\ Increasing(list')
        /\ \A x : In(x, list') <=> In(x, list) /\ x # v
    <3>1. CASE In(v, list)
      <4>1. I # {} /\ I \subseteq Nat
        BY <3>1 DEF In
      <4>2. S!Min(I) \in I
        BY <4>1, FirstPlace
      <4>3. list' = S!RemoveAt(list, S!Min(I))
        BY <2>2, <3>1, <4>1
      <4>4. PICK p \in I : list' = S!RemoveAt(list, p)
        BY <4>2, <4>3
      <4>5. p \in 1..Len(list) /\ list[p] = v
        BY <4>4
      <4> QED  BY <1>1, <4>4, <4>5, Removed
    <3>2. CASE ~In(v, list)
      BY <1>1, <2>2, <3>2
    <3> QED  BY <3>1, <3>2
  <2>4. \A x \in Int : In(x, list') => x \in members'
    BY <1>2, <1>3, <2>1, <2>3
  <2> QED  BY <2>3, <2>4 DEF SetInv
<1> QED  BY <1>4, <1>5

(* The invariant says of the list what the module says. *)
LEMMA SetSafe == SetInv => S!SetKept
<1> SUFFICES ASSUME SetInv PROVE S!SetKept
  OBVIOUS
<1>1. S!checkIntegrity
  BY DEF S!checkIntegrity, SetInv, Increasing
<1>2. \A v \in Values : S!lookup(v) => v \in members
  BY ValuesAssumption, LookupIn DEF SetInv
<1> QED  BY <1>1, <1>2 DEF S!SetKept

(* A ring of any length holds the last unread values in order, whatever is *)
(* written over them, and a ListBasedSet of any integers stays sorted and  *)
(* holds nothing but what was inserted and not removed since.              *)
THEOREM RingAndSetKeepValues == Spec => []ValuesKept
<1> DEFINE I == (which = "ring" => RingInv) /\ (which = "set" => SetInv)
<1>1. Init => I
  <2>1. S!Init => SetInv
    BY DEF S!Init, SetInv, Increasing, In
  <2> QED  BY <2>1, RingInit DEF Init
<1>2. I /\ [Next]_vars => I'
  <2> SUFFICES ASSUME I, [Next]_vars PROVE I'
    OBVIOUS
  <2>1. CASE RingNext
    BY <2>1, RingWrite, RingRead, RingClear DEF RingNext, C!Next
  <2>2. CASE SetNext
    <3>1. which' = which /\ which = "set" /\ SetInv /\ S!Next
      BY <2>2 DEF SetNext
    <3>2. S!clear => SetInv'
      BY DEF S!clear, SetInv, Increasing, In
    <3> QED  BY <3>1, <3>2, SetInsert, SetRemove DEF S!Next
  <2>3. CASE UNCHANGED <<which, ringVars, setVars>>
    BY <2>3 DEF ringVars, setVars, RingInv, RingTypeOK, SetInv
  <2>4. RingNext \/ SetNext \/ UNCHANGED <<which, ringVars, setVars>>
    BY DEF Next, LocksNext, BarrierNext, ClientNext, BufferNext,
       StatsNext, ParserNext, vars
  <2> QED  BY <2>1, <2>2, <2>3, <2>4
<1>3. I => ValuesKept
  BY RingSafe, SetSafe DEF ValuesKept
<1> QED  BY <1>1, <1>2, <1>3, PTL DEF Spec
=============================================================================
