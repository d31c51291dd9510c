----------------------------- MODULE ThreadPool -----------------------------
(***************************************************************************)
(* The promise of the abstract class base::ThreadPool (thread_pool.hpp):   *)
(* what a caller of addTask(), stop() and the destructor may rely on,      *)
(* whichever strategy serves the tasks.  ThreadPoolFast and                *)
(* ThreadPoolNormal are both shown to implement it.                        *)
(*                                                                         *)
(* A task is one accepted call of addTask(): a callback that is queued     *)
(* twice is two tasks.                                                     *)
(***************************************************************************)
EXTENDS Naturals, FiniteSets

CONSTANTS Tasks,      \* calls of addTask() that may ever be made
          Capacity,   \* number of worker threads
          NoTask      \* stop() was issued by a thread outside the pool

VARIABLES status,     \* what became of each task
          phase,      \* how far stop() and the destructor are
          caller      \* the task that issued stop(), or NoTask

vars == <<status, phase, caller>>

Status == {"new", "pending", "running", "done", "dropped"}
Phases == {"open", "stopping", "stopped", "destroyed"}

With(s) == {t \in Tasks : status[t] = s}

Init ==
  /\ status = [t \in Tasks |-> "new"]
  /\ phase = "open"
  /\ caller = NoTask

(* A task handed over once stop() was issued may stay pending until the    *)
(* destructor, or be turned away on the spot: both pools never promise to  *)
(* run it.                                                                 *)
AddTask(t) ==
  /\ phase # "destroyed"
  /\ status[t] = "new"
  /\ \/ status' = [status EXCEPT ![t] = "pending"]
     \/ phase # "open" /\ status' = [status EXCEPT ![t] = "dropped"]
  /\ UNCHANGED <<phase, caller>>

(* No task begins after stop() returned. *)
StartTask(t) ==
  /\ phase \in {"open", "stopping"}
  /\ status[t] = "pending"
  /\ Cardinality(With("running")) < Capacity
  /\ status' = [status EXCEPT ![t] = "running"]
  /\ UNCHANGED <<phase, caller>>

FinishTask(t) ==
  /\ status[t] = "running"
  /\ ~(phase = "stopping" /\ caller = t)
  /\ status' = [status EXCEPT ![t] = "done"]
  /\ UNCHANGED <<phase, caller>>

(* "This call may be issued from within a worker thread itself."           *)
StopCall(c) ==
  /\ phase = "open"
  /\ c # NoTask => status[c] = "running"
  /\ phase' = "stopping"
  /\ caller' = c
  /\ UNCHANGED status

(* "Waits for all the workers to finish processing the ongoing tasks": the *)
(* only task that may still be running is the one that issued the call.    *)
StopReturn ==
  /\ phase = "stopping"
  /\ With("running") \subseteq {caller}
  /\ phase' = "stopped"
  /\ UNCHANGED <<status, caller>>

(* "Cleans up any pending callbacks that weren't executed."                *)
Destroy ==
  /\ phase = "stopped"
  /\ phase' = "destroyed"
  /\ status' = [t \in Tasks |->
                  IF status[t] = "pending" THEN "dropped" ELSE status[t]]
  /\ UNCHANGED caller

Next ==
  \/ \E t \in Tasks : AddTask(t) \/ StartTask(t) \/ FinishTask(t)
  \/ \E c \in Tasks \union {NoTask} : StopCall(c)
  \/ StopReturn
  \/ Destroy

Spec == Init /\ [][Next]_vars
=============================================================================
