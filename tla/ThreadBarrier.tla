---------------------------- MODULE ThreadBarrier ----------------------------
(***************************************************************************)
(* thread_barrier.hpp: a Barrier of two semaphores, of which one at a time *)
(* is open, used by its participants round after round.                    *)
(***************************************************************************)
EXTENDS Naturals, FiniteSets

CONSTANTS Participants, Rounds

VARIABLES arrival_, departure_, counter_, pc,
          arrived, left         \* wait()s each participant reached and left

vars == <<arrival_, departure_, counter_, pc, arrived, left>>

num_participants_ == Cardinality(Participants)

Init ==
  /\ arrival_ = 1 /\ departure_ = 0 /\ counter_ = 0
  /\ pc = [p \in Participants |-> "out"]
  /\ arrived = [p \in Participants |-> 0] /\ left = [p \in Participants |-> 0]

(* sem_wait(arrival_) *)
Arrive(p) ==
  /\ pc[p] = "out" /\ left[p] < Rounds
  /\ arrival_ > 0 /\ arrival_' = arrival_ - 1
  /\ pc' = [pc EXCEPT ![p] = "arrived"] /\ arrived' = [arrived EXCEPT ![p] = @ + 1]
  /\ UNCHANGED <<departure_, counter_, left>>

(* Mutant: the last but one opens the departure. *)
MoreToComeOneLess == counter_ + 2 < num_participants_
MoreToCome == counter_ + 1 < num_participants_

CountArrival(p) ==
  /\ pc[p] = "arrived" /\ counter_' = counter_ + 1
  /\ arrival_' = IF MoreToCome THEN arrival_ + 1 ELSE arrival_
  /\ departure_' = IF MoreToCome THEN departure_ ELSE departure_ + 1
  /\ pc' = [pc EXCEPT ![p] = "in"]
  /\ UNCHANGED <<arrived, left>>

(* sem_wait(departure_) *)
Depart(p) ==
  /\ pc[p] = "in" /\ departure_ > 0 /\ departure_' = departure_ - 1
  /\ pc' = [pc EXCEPT ![p] = "departed"]
  /\ UNCHANGED <<arrival_, counter_, arrived, left>>

CountDeparture(p) ==
  /\ pc[p] = "departed" /\ counter_' = counter_ - 1
  /\ departure_' = IF counter_' > 0 THEN departure_ + 1 ELSE departure_
  /\ arrival_' = IF counter_' > 0 THEN arrival_ ELSE arrival_ + 1
  /\ pc' = [pc EXCEPT ![p] = "out"] /\ left' = [left EXCEPT ![p] = @ + 1]
  /\ UNCHANGED arrived

Participant(p) == Arrive(p) \/ CountArrival(p) \/ Depart(p) \/ CountDeparture(p)

Next == \E p \in Participants : Participant(p)

(* Nobody leaves a round that somebody has yet to reach, and between two   *)
(* rounds the barrier is as it was built.                                  *)
RoundsApart ==
  /\ \A p, q \in Participants : left[p] <= arrived[q]
  /\ (\A p, q \in Participants : pc[p] = "out" /\ left[p] = left[q])
       => arrival_ = 1 /\ departure_ = 0 /\ counter_ = 0
=============================================================================
