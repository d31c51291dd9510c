-------------------------- MODULE ThreadPoolThreads --------------------------
(***************************************************************************)
(* The threads and the tasks of a pool, the same for both implementations  *)
(* (thread_pool_fast.cpp, thread_pool_normal.cpp).                         *)
(***************************************************************************)
EXTENDS Integers

CONSTANTS NumWorkers, \* the constructor's num_workers
          Tasks,      \* the calls of addTask() with a task to run
          NULL        \* no task

ASSUME NumWorkersAssumption == NumWorkers \in Nat
ASSUME NullAssumption == NULL \notin Tasks

Workers  == 1..NumWorkers
External == 0         \* a thread that is not of the pool
NoThread == -1
=============================================================================
