---------------------------- MODULE SpinlockMCS ----------------------------
(***************************************************************************)
(* spinlock_mcs.hpp: a queue of waiting threads, each spinning on a flag   *)
(* of its own Node, under the testers of lock_benchmark_MCS.cpp and        *)
(* spinlock_mcs_test.cpp.  Every shared access is a step; tail_, the       *)
(* expected value of the compare-and-swap in lock(), is read before it.    *)
(* A thread's Node is its ThreadLocal: nodes are named by their threads.   *)
(***************************************************************************)
EXTENDS Naturals, FiniteSets

CONSTANTS Testers, Increments, NULL

VARIABLES tail_, next, locked,  \* the lock and the fields of the nodes
          pc, left, large,      \* as in LockTesters
          expected, predecessor,
          seen, counter, requests_

callVars == <<left, large, seen, counter, requests_>>
vars == <<tail_, next, locked, pc, expected, predecessor, callVars>>

Init ==
  /\ tail_ = NULL /\ next = [t \in Testers |-> NULL]
  /\ locked = [t \in Testers |-> FALSE]
  /\ pc = [t \in Testers |-> "test"] /\ left = [t \in Testers |-> Increments]
  /\ expected = [t \in Testers |-> NULL]
  /\ predecessor = [t \in Testers |-> NULL]
  /\ large \in BOOLEAN /\ seen = [t \in Testers |-> 0]
  /\ counter = 0 /\ requests_ = [t \in Testers |-> 0]

Goto(t, place) == pc' = [pc EXCEPT ![t] = place]

(* test() and lock(): my_node->next = NULL; tail_ is read *)
Test(t) ==
  /\ pc[t] = "test"
  /\ IF left[t] = 0 THEN Goto(t, "end") /\ UNCHANGED next
     ELSE Goto(t, "tail") /\ next' = [next EXCEPT ![t] = NULL]
  /\ UNCHANGED <<tail_, locked, expected, predecessor, callVars>>

ReadTail(t) ==
  /\ pc[t] = "tail" /\ Goto(t, "cas")
  /\ expected' = [expected EXCEPT ![t] = tail_]
  /\ UNCHANGED <<tail_, next, locked, predecessor, callVars>>

(* It returns what tail_ was, whether or not it put the node there. *)
CompareAndSwap(t) ==
  /\ pc[t] = "cas"
  /\ tail_' = IF tail_ = expected[t] THEN t ELSE tail_
  /\ predecessor' = [predecessor EXCEPT ![t] = tail_]
  /\ Goto(t, IF tail_ = NULL THEN "inside" ELSE "flag")
  /\ UNCHANGED <<next, locked, expected, callVars>>

SetFlag(t) ==
  /\ pc[t] = "flag" /\ Goto(t, "link")
  /\ locked' = [locked EXCEPT ![t] = TRUE]
  /\ UNCHANGED <<tail_, next, expected, predecessor, callVars>>

Link(t) ==
  /\ pc[t] = "link" /\ Goto(t, "spin")
  /\ next' = [next EXCEPT ![predecessor[t]] = t]
  /\ UNCHANGED <<tail_, locked, expected, predecessor, callVars>>

Spin(t) ==
  /\ pc[t] = "spin" /\ ~locked[t] /\ Goto(t, "inside")
  /\ UNCHANGED <<tail_, next, locked, expected, predecessor, callVars>>

(* The increments of counter and requests_, in a small or a large region   *)
ReadCounter(t) ==
  /\ pc[t] = "inside" /\ Goto(t, "add")
  /\ seen' = [seen EXCEPT ![t] = counter]
  /\ UNCHANGED <<tail_, next, locked, expected, predecessor, left, large, counter, requests_>>

WriteCounter(t) ==
  /\ pc[t] = "add"
  /\ counter' = seen[t] + 1 /\ requests_' = [requests_ EXCEPT ![t] = @ + 1]
  /\ left' = [left EXCEPT ![t] = @ - 1]
  /\ Goto(t, IF large /\ left'[t] > 0 THEN "inside" ELSE "unlock")
  /\ UNCHANGED <<tail_, next, locked, expected, predecessor, large, seen>>

(* unlock(): pass it on, or take the node off the tail *)
Unlock(t) ==
  /\ pc[t] = "unlock"
  /\ Goto(t, IF next[t] = NULL THEN "untail" ELSE "pass")
  /\ UNCHANGED <<tail_, next, locked, expected, predecessor, callVars>>

Untail(t) ==
  /\ pc[t] = "untail"
  /\ tail_' = IF tail_ = t THEN NULL ELSE tail_
  /\ Goto(t, IF tail_ = t THEN "test" ELSE "await")
  /\ UNCHANGED <<next, locked, expected, predecessor, callVars>>

Await(t) ==
  /\ pc[t] = "await" /\ next[t] # NULL /\ Goto(t, "pass")
  /\ UNCHANGED <<tail_, next, locked, expected, predecessor, callVars>>

Pass(t) ==
  /\ pc[t] = "pass" /\ Goto(t, "test")
  /\ locked' = [locked EXCEPT ![next[t]] = FALSE]
  /\ UNCHANGED <<tail_, next, expected, predecessor, callVars>>

Next ==
  \E t \in Testers :
    \/ Test(t) \/ ReadTail(t) \/ CompareAndSwap(t) \/ SetFlag(t) \/ Link(t)
    \/ Spin(t) \/ ReadCounter(t) \/ WriteCounter(t)
    \/ Unlock(t) \/ Untail(t) \/ Await(t) \/ Pass(t)

Spec == Init /\ [][Next]_vars

(* What the test expects of its counter when the testers have been joined, *)
(* at every step: an increment that is lost does not come back.  It does   *)
(* not hold.  A thread that reads a tail_ which unlock() clears before the *)
(* compare-and-swap gets NULL for a predecessor and enters without having  *)
(* put its node there; the next thread finds tail_ NULL and enters too.    *)
Added == {a \in Testers \X (1..Increments) : a[2] <= requests_[a[1]]}
MCSCounterExact == counter = Cardinality(Added)
=============================================================================
