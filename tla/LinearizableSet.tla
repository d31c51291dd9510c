--------------------------- MODULE LinearizableSet ---------------------------
(***************************************************************************)
(* What the callers of a concurrent set may rely on.  An insert() or a     *)
(* remove() that answers true takes effect at one instant within the call; *)
(* any other answer was right at some instant within the call.  As these   *)
(* change nothing, the calls can be ordered by their instants: the set is  *)
(* linearizable.                                                           *)
(***************************************************************************)
CONSTANTS Threads, Keys,
          Initial   \* the keys in the set at first

VARIABLES set,      \* the keys in the set
          op, key,  \* each thread's call, "none" between calls, and its key
          was,      \* whether the key was in the set, at times of the call
          result    \* the answer, once it is settled: {TRUE} or {FALSE}

vars == <<set, op, key, was, result>>

Ops == {"insert", "remove", "lookup"}

Init ==
  /\ set = Initial
  /\ op = [t \in Threads |-> "none"]
  /\ key \in [Threads -> Keys]
  /\ was = [t \in Threads |-> {}]
  /\ result = [t \in Threads |-> {}]

(* Those whose call is open see what is in the set. *)
Observe ==
  was' = [t \in Threads |->
            IF op'[t] = "none" THEN {}
            ELSE IF result[t] # {} THEN was[t]
            ELSE was[t] \union {key'[t] \in set'}]

Call(t) ==
  /\ op[t] = "none"
  /\ \E o \in Ops : op' = [op EXCEPT ![t] = o]
  /\ \E k \in Keys : key' = [key EXCEPT ![t] = k]
  /\ UNCHANGED <<set, result>>

(* The calls that change the set *)
Effect(t) ==
  /\ \/ op[t] = "insert" /\ key[t] \notin set /\ set' = set \union {key[t]}
     \/ op[t] = "remove" /\ key[t] \in set    /\ set' = set \ {key[t]}
  /\ result[t] = {} /\ result' = [result EXCEPT ![t] = {TRUE}]
  /\ UNCHANGED <<op, key>>

(* and the ones that do not *)
Answer(t) ==
  /\ op[t] # "none" /\ result[t] = {}
  /\ \/ op[t] = "insert" /\ TRUE \in was[t]  /\ result' = [result EXCEPT ![t] = {FALSE}]
     \/ op[t] = "remove" /\ FALSE \in was[t] /\ result' = [result EXCEPT ![t] = {FALSE}]
     \/ op[t] = "lookup" /\ \E b \in was[t] : result' = [result EXCEPT ![t] = {b}]
  /\ UNCHANGED <<set, op, key>>

(* A key is of no account between calls. *)
Return(t) ==
  /\ result[t] # {}
  /\ op' = [op EXCEPT ![t] = "none"] /\ result' = [result EXCEPT ![t] = {}]
  /\ \E k \in Keys : key' = [key EXCEPT ![t] = k]
  /\ UNCHANGED set

Next ==
  /\ \E t \in Threads : Call(t) \/ Effect(t) \/ Answer(t) \/ Return(t)
  /\ Observe

Spec == Init /\ [][Next]_vars
=============================================================================
