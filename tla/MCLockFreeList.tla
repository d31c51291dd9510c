--------------------------- MODULE MCLockFreeList ---------------------------
(* LockFreeList for TLC: the constants are given in the configurations.    *)
EXTENDS LockFreeList

(* The behaviours in which no scan falls into the swap of the two hazard   *)
(* pointers, in which threads are scheduled as far as that lets them.      *)
UnseenSpec ==
  /\ Init /\ [][Next /\ SwapUnseen']_vars
  /\ \A t \in Threads : WF_vars(Step(t) /\ Observe /\ SwapUnseen')
=============================================================================
