---------------------------- MODULE MCThreadPools ----------------------------
(***************************************************************************)
(* The two thread pools for TLC, with the same workers and tasks.  A       *)
(* behaviour is one of the pool in `pool'; the other stays as it started.  *)
(***************************************************************************)
EXTENDS ThreadPoolFast

VARIABLES pool, tasks_, flagstop_, npc, task, nphase, nstopper, nindex, again,
          nfresh, ndone, ndropped

N == INSTANCE ThreadPoolNormal
       WITH pc <- npc, phase <- nphase, stopper <- nstopper, index <- nindex,
            fresh <- nfresh, done <- ndone, dropped <- ndropped

normalVars == <<tasks_, flagstop_, npc, task, nphase, nstopper, nindex, again,
                nfresh, ndone, ndropped>>

PoolsInit == pool \in {"fast", "normal"} /\ Init /\ N!Init

Fast(A)   == pool = "fast" /\ A /\ UNCHANGED <<pool, normalVars>>
Normal(A) == pool = "normal" /\ A /\ UNCHANGED <<pool, vars>>

allVars == <<pool, vars, normalVars>>

(* Threads of the pool are scheduled and tasks return, see the pools. *)
PoolsSpec ==
  /\ PoolsInit /\ [][Fast(Next) \/ Normal(N!Next)]_allVars
  /\ \A w \in Workers : WF_allVars(Fast(Worker(w))) /\ WF_allVars(Normal(N!Dispatch(w)))
  /\ \A w \in Workers : WF_allVars(Normal(N!FinishTask(w)))
  /\ WF_allVars(Fast(Stopping)) /\ WF_allVars(Normal(N!Stopping))

(* ThreadPoolNormal: a task that is added wakes up enough workers.         *)
NormalWakeupsSuffice == N!WakeupsSuffice

(* ThreadPoolNormal does what ThreadPool promises. *)
NormalImplementsThreadPool == N!ImplementsThreadPool

(* ThreadPoolNormal: a task that was queued runs, unless the pool is       *)
(* stopped first.                                                          *)
NormalAcceptedTasksRun == N!AcceptedTasksRun
=============================================================================
