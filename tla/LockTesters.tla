---------------------------- MODULE LockTesters ----------------------------
(***************************************************************************)
(* Spinlock (spinlock.hpp) and Mutex (lock.hpp) under the testers of       *)
(* lock_benchmark.cpp: threads that add to a shared counter inside the     *)
(* lock, once per turn in a small critical region or all at once in a      *)
(* large one, and main(), which joins them.                                *)
(***************************************************************************)
EXTENDS Naturals, FiniteSets

CONSTANTS Testers,      \* threads
          Increments    \* of each

VARIABLES kind, large,  \* the lock under test, the critical region
          locked_,      \* the lock's state
          pc, left,     \* each tester's place and increments to go
          seen,         \* its register in ++(*counter_)
          counter, requests_

vars == <<kind, large, locked_, pc, left, seen, counter, requests_>>

Waiting == {"load", "tas", "spin", "sleep"}
Inside  == {"inc", "add", "unlock"}

TypeOK ==
  /\ kind \in {"spin", "mutex"} /\ large \in BOOLEAN /\ locked_ \in BOOLEAN
  /\ pc \in [Testers -> Waiting \union Inside \union {"test", "end"}]
  /\ left \in [Testers -> 0..Increments] /\ requests_ \in [Testers -> 0..Increments]
  /\ seen \in [Testers -> Nat] /\ counter \in Nat

Init ==
  /\ kind \in {"spin", "mutex"} /\ large \in BOOLEAN /\ locked_ = FALSE
  /\ pc = [t \in Testers |-> "test"]
  /\ left = [t \in Testers |-> Increments]
  /\ seen = [t \in Testers |-> 0]
  /\ counter = 0 /\ requests_ = [t \in Testers |-> 0]

Goto(t, place) == pc' = [pc EXCEPT ![t] = place]

(* test(): the next call of lock(), or the end of the thread *)
Test(t) ==
  /\ pc[t] = "test"
  /\ Goto(t, IF left[t] = 0 THEN "end" ELSE "load")
  /\ UNCHANGED <<kind, large, locked_, left, seen, counter, requests_>>

(* __sync_lock_test_and_set(): who finds it free has it.  Mutant: the test *)
(* and the set are two accesses.                                           *)
GrabTorn(t, otherwise) ==
  Goto(t, IF locked_ /\ pc[t] # "sleep" THEN otherwise ELSE "inc") /\ locked_' = TRUE
Grab(t, otherwise) ==
  Goto(t, IF locked_ THEN otherwise ELSE "inc") /\ locked_' = TRUE

(* Spinlock::lock(): the fast path, a while of looking, sleeping *)
Load(t) ==
  /\ pc[t] = "load" /\ kind = "spin"
  /\ Goto(t, IF locked_ THEN "spin" ELSE "tas")
  /\ UNCHANGED <<kind, large, locked_, left, seen, counter, requests_>>

TestAndSet(t) ==
  /\ pc[t] = "tas" /\ Grab(t, "spin")
  /\ UNCHANGED <<kind, large, left, seen, counter, requests_>>

(* The loop ends when the lock seems free, or after 1000 looks. *)
Spin(t) ==
  /\ pc[t] = "spin" /\ Goto(t, "sleep")
  /\ UNCHANGED <<kind, large, locked_, left, seen, counter, requests_>>

Sleep(t) ==
  /\ pc[t] = "sleep" /\ Grab(t, "sleep")
  /\ UNCHANGED <<kind, large, left, seen, counter, requests_>>

(* Mutex::lock(): pthread_mutex_lock() *)
MutexLock(t) ==
  /\ pc[t] = "load" /\ kind = "mutex" /\ ~locked_
  /\ locked_' = TRUE /\ Goto(t, "inc")
  /\ UNCHANGED <<kind, large, left, seen, counter, requests_>>

(* The increment of the counter: a read, and the write with ++requests_ *)
ReadCounter(t) ==
  /\ pc[t] = "inc"
  /\ seen' = [seen EXCEPT ![t] = counter] /\ Goto(t, "add")
  /\ UNCHANGED <<kind, large, locked_, left, counter, requests_>>

WriteCounter(t) ==
  /\ pc[t] = "add"
  /\ counter' = seen[t] + 1 /\ seen' = [seen EXCEPT ![t] = 0]
  /\ requests_' = [requests_ EXCEPT ![t] = @ + 1]
  /\ left' = [left EXCEPT ![t] = @ - 1]
  /\ Goto(t, IF large /\ left'[t] > 0 THEN "inc" ELSE "unlock")
  /\ UNCHANGED <<kind, large, locked_>>

Unlock(t) ==
  /\ pc[t] = "unlock"
  /\ locked_' = FALSE /\ Goto(t, "test")
  /\ UNCHANGED <<kind, large, left, seen, counter, requests_>>

Tester(t) ==
  \/ Test(t) \/ Load(t) \/ TestAndSet(t) \/ Spin(t) \/ Sleep(t) \/ MutexLock(t)
  \/ ReadCounter(t) \/ WriteCounter(t) \/ Unlock(t)

(* main() has joined them all. *)
Joined == (\A t \in Testers : pc[t] = "end") /\ UNCHANGED vars

Next == (\E t \in Testers : Tester(t)) \/ Joined

(* The lock excludes: no increment is lost. *)
Added == {a \in Testers \X (1..Increments) : a[2] <= requests_[a[1]]}
CounterExact ==
  /\ \A t, u \in Testers : pc[t] \in Inside /\ pc[u] \in Inside => t = u
  /\ counter = Cardinality(Added)

(* Nobody sleeps for ever: main() gets to print its results. *)
TestersEnd == \A t \in Testers : pc[t] = "end"
=============================================================================
