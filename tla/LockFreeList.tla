---------------------------- MODULE LockFreeList ----------------------------
(***************************************************************************)
(* lock_free_list.hpp: a sorted list with logical deletion, shared by the  *)
(* threads of a pool without locks.  Every read of shared memory, every    *)
(* announcement of a hazard pointer and every compare-and-swap is a step.  *)
(* The calls are the ones without a start_ node, as of a plain list; the   *)
(* int that goes with a key is left out.                                   *)
(*                                                                         *)
(* The memory is sequentially consistent: the code puts a barrier after    *)
(* each announcement, and its other writes are compare-and-swaps.          *)
(***************************************************************************)
EXTENDS HazardPointers

CONSTANTS Keys,     \* a set of integers
          HEAD      \* the location of head_

ASSUME KeysAssumption == Keys \subseteq Int /\ Keys # {}
ASSUME HeadAssumption == HEAD \notin Nodes \union {NULL}

VARIABLES data, next,          \* of the nodes; next[HEAD] is head_
          pc, op, key,         \* each thread's place, call and argument
          prev, cur, succ,     \* its LookupContext; succ is the ctx's next
          new_node,
          result, was          \* its answer; history, see LinearizableSet

memVars == <<data, next>>
ctxVars == <<prev, cur, succ>>
callVars == <<op, key, new_node>>
vars == <<hpVars, memVars, pc, ctxVars, callVars, result, was>>

Places == {"idle", "try_again", "loop", "check", "next", "unlink", "compare",
           "swap0", "swap1", "link", "mark", "delete", "scan", "lastScan",
           "done"}

(* where the code reads through cur *)
DerefsCur == {"check", "next", "unlink", "compare", "mark", "delete"}

(* A Node* with its mark *)
Pointers == [to : Nodes \union {NULL}, marked : BOOLEAN]

(* MarkablePointer::mark().  Mutant: the mark gets lost. *)
markLost(n) == [to |-> n, marked |-> FALSE]
mark(n) == [to |-> n, marked |-> TRUE]
unmarked(n) == [to |-> n, marked |-> FALSE]

TypeOK ==
  /\ HPTypeOK
  /\ data \in [Nodes -> Keys] /\ next \in [Nodes \union {HEAD} -> Pointers]
  /\ pc \in [Threads -> Places]
  /\ op \in [Threads -> {"none", "insert", "remove", "lookup"}]
  /\ key \in [Threads -> Keys]
  /\ prev \in [Threads -> Nodes \union {HEAD}]
  /\ cur \in [Threads -> Nodes \union {NULL}]
  /\ succ \in [Threads -> Nodes \union {NULL}]
  /\ \A t \in Threads : cur[t] = NULL => pc[t] \notin DerefsCur
  /\ new_node \in [Threads -> Nodes \union {NULL}]
  /\ result \in [Threads -> SUBSET BOOLEAN]
  /\ was \in [Threads -> SUBSET BOOLEAN]

(* What the memory holds while there is no node in it, as nobody looks. *)
AnyKey == CHOOSE k \in Keys : TRUE

Wipe ==
  /\ data' = [n \in Nodes |-> IF n \in live' THEN data[n] ELSE AnyKey]
  /\ next' = [n \in Nodes \union {HEAD} |->
               IF n \in live' \union {HEAD} THEN next[n] ELSE unmarked(NULL)]

Init ==
  /\ HPInit
  /\ data = [n \in Nodes |-> AnyKey] /\ key = [t \in Threads |-> AnyKey]
  /\ next = [n \in Nodes \union {HEAD} |-> unmarked(NULL)]
  /\ pc = [t \in Threads |-> "idle"] /\ op = [t \in Threads |-> "none"]
  /\ prev = [t \in Threads |-> HEAD]
  /\ cur = [t \in Threads |-> NULL] /\ succ = [t \in Threads |-> NULL]
  /\ new_node = [t \in Threads |-> NULL]
  /\ result = [t \in Threads |-> {}] /\ was = [t \in Threads |-> {}]

Goto(t, place) == pc' = [pc EXCEPT ![t] = place]

(* A lookup starts over, or the call is through: the context is lost. *)
DropContext(t) ==
  /\ prev' = [prev EXCEPT ![t] = HEAD]
  /\ cur' = [cur EXCEPT ![t] = NULL] /\ succ' = [succ EXCEPT ![t] = NULL]
Leave(t, place) == Goto(t, place) /\ DropContext(t)

-----------------------------------------------------------------------------
(* A call of insert(), remove() or lookup() *)

Invoke(t) ==
  /\ pc[t] = "idle"
  /\ \E k \in Keys :
       /\ key' = [key EXCEPT ![t] = k]
       /\ \/ \E n \in Nodes \ live :
               /\ op' = [op EXCEPT ![t] = "insert"]
               /\ live' = live \union {n}
               /\ data' = [data EXCEPT ![n] = k]
               /\ next' = [next EXCEPT ![n] = unmarked(NULL)]
               /\ new_node' = [new_node EXCEPT ![t] = n]
          \/ /\ \E o \in {"remove", "lookup"} : op' = [op EXCEPT ![t] = o]
             /\ UNCHANGED <<live, memVars, new_node>>
  /\ Goto(t, "try_again")
  /\ UNCHANGED <<hazard_pointers, retired_lists_, active_list, slot, ctxVars,
                 result>>

Return(t) ==
  /\ pc[t] = "done"
  /\ Goto(t, "idle")
  /\ op' = [op EXCEPT ![t] = "none"] /\ result' = [result EXCEPT ![t] = {}]
  /\ new_node' = [new_node EXCEPT ![t] = NULL]
  /\ key' = [key EXCEPT ![t] = AnyKey]
  /\ UNCHANGED <<hpVars, memVars, ctxVars>>

-----------------------------------------------------------------------------
(* lookupInternal() *)

(* What its caller does with the answer: lookup() returns it; insert()     *)
(* deletes its node or links it; remove() marks the node it found, unless  *)
(* this was the second lookup, to have a marked node unlinked.             *)
LookupReturns(t, found) ==
  \/ /\ result[t] # {}
     /\ Leave(t, "done")
     /\ UNCHANGED <<result, live, memVars, new_node>>
  \/ /\ result[t] = {}
     /\ op[t] = "lookup" \/ (op[t] = "insert" /\ found) \/ (op[t] = "remove" /\ ~found)
     /\ result' = [result EXCEPT ![t] = {op[t] = "lookup" /\ found}]
     /\ live' = live \ {new_node[t]} /\ Wipe
     /\ new_node' = [new_node EXCEPT ![t] = NULL]
     /\ Leave(t, "done")
  \/ /\ result[t] = {}
     /\ \/ op[t] = "insert" /\ ~found /\ Goto(t, "link")
        \/ op[t] = "remove" /\ found /\ Goto(t, "mark")
     /\ UNCHANGED <<result, live, memVars, ctxVars, new_node>>

try_again(t) ==
  /\ pc[t] = "try_again"
  /\ prev' = [prev EXCEPT ![t] = HEAD]
  /\ cur' = [cur EXCEPT ![t] = next[HEAD].to]
  /\ succ' = [succ EXCEPT ![t] = NULL]
  /\ Goto(t, "loop")
  /\ UNCHANGED <<hpVars, memVars, callVars, result>>

(* while (cur != NULL) { hp[0] = cur; *)
EndReached(t) == cur[t] = NULL

Loop(t) ==
  /\ pc[t] = "loop"
  /\ \/ /\ EndReached(t)
        /\ LookupReturns(t, FALSE)
        /\ UNCHANGED hazard_pointers
     \/ /\ ~EndReached(t)
        /\ Announce(t, 0, cur[t])
        /\ Goto(t, "check")
        /\ UNCHANGED <<result, live, memVars, ctxVars, new_node>>
  /\ UNCHANGED <<retired_lists_, active_list, slot, op, key>>

(* Is *prev still cur? *)
StillNext(t) == next[prev[t]] = unmarked(cur[t])

(* After the announcement the lookup asks again.  Mutant: it does not. *)
ValidatedBlindly(t) == TRUE
Validated(t) == StillNext(t)

Check(t) ==
  /\ pc[t] = "check"
  /\ \/ Validated(t) /\ Goto(t, "next") /\ UNCHANGED ctxVars
     \/ ~Validated(t) /\ Leave(t, "try_again")
  /\ UNCHANGED <<hpVars, memVars, callVars, result>>

ReadNext(t) ==
  /\ pc[t] = "next"
  /\ succ' = [succ EXCEPT ![t] = next[cur[t]].to]
  /\ Goto(t, IF next[cur[t]].marked THEN "unlink" ELSE "compare")
  /\ UNCHANGED <<hpVars, memVars, prev, cur, callVars, result>>

(* retireNode(), with a scan or without *)
Retire(t, scan, place) ==
  /\ retireNode(t, cur[t])
  /\ Goto(t, IF MustScan(t, cur[t]) THEN scan ELSE place)
  /\ UNCHANGED <<live, hazard_pointers, active_list, slot>>

(* A marked node on the way is unlinked for the thread that marked it. *)
Unlink(t) ==
  /\ pc[t] = "unlink"
  /\ \/ /\ StillNext(t)
        /\ next' = [next EXCEPT ![prev[t]] = unmarked(succ[t])]
        /\ Retire(t, "scan", "loop")
        /\ cur' = [cur EXCEPT ![t] = succ[t]]
        /\ UNCHANGED <<prev, succ>>
     \/ /\ ~StillNext(t)
        /\ Leave(t, "try_again")
        /\ UNCHANGED <<hpVars, next>>
  /\ UNCHANGED <<data, callVars, result>>

(* Does the search end at the key of cur?  Mutant: one node too late. *)
StopsAfter(t) == data[cur[t]] > key[t]
StopsAt(t) == data[cur[t]] >= key[t]

Compare(t) ==
  /\ pc[t] = "compare"
  /\ \/ /\ ~StillNext(t)
        /\ Leave(t, "try_again")
        /\ UNCHANGED <<result, live, memVars, new_node>>
     \/ /\ StillNext(t) /\ StopsAt(t)
        /\ LookupReturns(t, data[cur[t]] = key[t])
     \/ /\ StillNext(t) /\ ~StopsAt(t)
        /\ prev' = [prev EXCEPT ![t] = cur[t]]
        /\ Goto(t, "swap0")
        /\ UNCHANGED <<result, live, memVars, new_node, cur, succ>>
  /\ UNCHANGED <<hazard_pointers, retired_lists_, active_list, slot, op, key>>

(* hp[0] = hp[1]; hp[1] = temp, in two writes *)
Swap0(t) ==
  /\ pc[t] = "swap0"
  /\ Announce(t, 0, hazard_pointers[t][1])
  /\ Goto(t, "swap1")
  /\ UNCHANGED <<live, retired_lists_, active_list, slot, memVars, ctxVars,
                 callVars, result>>

Swap1(t) ==
  /\ pc[t] = "swap1"
  /\ Announce(t, 1, cur[t])
  /\ cur' = [cur EXCEPT ![t] = succ[t]]
  /\ Goto(t, "loop")
  /\ UNCHANGED <<live, retired_lists_, active_list, slot, memVars, prev, succ,
                 callVars, result>>

-----------------------------------------------------------------------------
(* insert() and remove() after the lookup *)

Link(t) ==
  /\ pc[t] = "link"
  /\ \/ /\ StillNext(t)
        /\ next' = [next EXCEPT ![new_node[t]] = unmarked(cur[t]),
                                ![prev[t]] = unmarked(new_node[t])]
        /\ new_node' = [new_node EXCEPT ![t] = NULL]
        /\ result' = [result EXCEPT ![t] = {TRUE}]
        /\ Leave(t, "done")
     \/ /\ ~StillNext(t)
        /\ next' = [next EXCEPT ![new_node[t]] = unmarked(cur[t])]
        /\ Leave(t, "try_again")
        /\ UNCHANGED <<new_node, result>>
  /\ UNCHANGED <<hpVars, data, op, key>>

(* Another thread marked the node, or linked one behind it.  Mutant: the   *)
(* compare-and-swap is tried again.                                        *)
MarkFailedRetries(t) == UNCHANGED <<pc, ctxVars>>
MarkFailed(t) == Leave(t, "try_again")

(* The logical deletion *)
Mark(t) ==
  /\ pc[t] = "mark"
  /\ \/ /\ next[cur[t]] = unmarked(succ[t])
        /\ next' = [next EXCEPT ![cur[t]] = mark(succ[t])]
        /\ result' = [result EXCEPT ![t] = {TRUE}]
        /\ Goto(t, "delete")
        /\ UNCHANGED ctxVars
     \/ /\ next[cur[t]] # unmarked(succ[t])
        /\ MarkFailed(t)
        /\ UNCHANGED <<next, result>>
  /\ UNCHANGED <<hpVars, data, callVars>>

(* Who must unlink the node when the physical deletion fails?  Mutant: the *)
(* thread that marked it retires it all the same.                          *)
DeleteFailedRetires(t) == Retire(t, "lastScan", "done")
DeleteFailed(t) == Goto(t, "try_again") /\ UNCHANGED hpVars

Delete(t) ==
  /\ pc[t] = "delete"
  /\ \/ /\ StillNext(t)
        /\ next' = [next EXCEPT ![prev[t]] = unmarked(succ[t])]
        /\ Retire(t, "lastScan", "done")
     \/ /\ ~StillNext(t)
        /\ DeleteFailed(t)
        /\ UNCHANGED next
  /\ DropContext(t)
  /\ UNCHANGED <<data, callVars, result>>

(* maybeFreeNodes(); after it a lookup goes on, and remove() returns. *)
Scan(t) ==
  /\ pc[t] \in {"scan", "lastScan"}
  /\ \/ ScanSlot(t) /\ UNCHANGED <<pc, memVars>>
     \/ /\ FreeNodes(t) /\ Wipe
        /\ Goto(t, IF pc[t] = "scan" THEN "loop" ELSE "done")
  /\ UNCHANGED <<ctxVars, callVars, result>>

-----------------------------------------------------------------------------

(* The set: nodes that were linked and are not marked *)
Linked == live \ {new_node[t] : t \in Threads}
Members == {data[n] : n \in {m \in Linked : ~next[m].marked}}

(* History: whether the key was in the set, see LinearizableSet. *)
Observe ==
  was' = [t \in Threads |->
            IF op'[t] = "none" THEN {}
            ELSE IF result[t] # {} THEN was[t]
            ELSE was[t] \union {key'[t] \in Members'}]

Step(t) ==
  \/ try_again(t) \/ Loop(t) \/ Check(t) \/ ReadNext(t) \/ Unlink(t)
  \/ Compare(t) \/ Swap0(t) \/ Swap1(t)
  \/ Link(t) \/ Mark(t) \/ Delete(t) \/ Scan(t) \/ Return(t)

Next == (\E t \in Threads : Invoke(t) \/ Step(t)) /\ Observe

Spec == Init /\ [][Next]_vars

(* Threads are scheduled; nobody has to call. *)
FairSpec == Spec /\ \A t \in Threads : WF_vars(Step(t) /\ Observe)

-----------------------------------------------------------------------------
(* "Returns true if 'data' does not yet exist on the set and inserts it.   *)
(* Otherwise returns false", and so on, with any number of threads at      *)
(* work: every answer was right at an instant within its call.             *)
AbstractSet == INSTANCE LinearizableSet WITH set <- Members, Initial <- {}
Linearizable == AbstractSet!Spec

(* The chain of nodes from head_: the smallest set with the node head_     *)
(* points to and, with a node, the one that it points to.                  *)
ChainOf(links) ==
  {n \in Nodes :
     \A S \in SUBSET Nodes :
       (\A m \in S \union {HEAD} : links[m].to \in S \union {NULL}) => n \in S}
Chain == ChainOf(next)

(* checkIntegrity(), at any time and not only when nobody is at work: keys *)
(* ascend along the chain, marked nodes included, and no linked node that  *)
(* was not marked has fallen out of it.                                    *)
ListIntact ==
  /\ \A n, m \in Chain : next[n].to = m => data[n] < data[m]
  /\ \A n \in Linked : ~next[n].marked => n \in Chain

(* "Memory ownership is either the list's, ie. the chain of nodes started  *)
(* by head_, or the hazard pointers structures", or for a node that is not *)
(* yet linked, of the thread that allocated it: a node has one owner, or   *)
(* it would be deleted twice, and a deleted node none.                     *)
OneOwner ==
  \A n \in Nodes :
    Cardinality({t \in Threads : new_node[t] = n})
      + Cardinality({t \in Threads : n \in retired_lists_[t]})
      + Cardinality(Chain \intersect {n}) = Cardinality(live \intersect {n})

(* The nodes a thread is about to read or write *)
Touches(t) ==
  CASE pc[t] \in {"check", "unlink", "link", "delete"} -> {prev[t]}
    [] pc[t] \in {"next", "mark"} -> {cur[t]}
    [] pc[t] = "compare" -> {prev[t], cur[t]}
    [] OTHER -> {}

(* The scan of retireNode() "wouldnt reclaim a node accidentally that      *)
(* would still be used".                                                   *)
NoReclaimedNodeUsed == \A t \in Threads : Touches(t) \subseteq live \union {HEAD}

Scanning(t) == pc[t] \in {"scan", "lastScan"}

(* Between the two writes of its swap a lookup has the node it goes on     *)
(* from announced in neither slot.  No thread scans meanwhile.             *)
SwapUnseen == \A t, u \in Threads : ~(Scanning(t) /\ pc[u] = "swap1")

(* The list is lock-free: some call completes, again and again, unless     *)
(* there is none.  A thread may start over for ever, but only while the    *)
(* others get on.                                                          *)
SomeCallCompletes ==
  []<>(\A t \in Threads : pc[t] = "idle") \/ []<>(\E t \in Threads : pc[t] = "done")
=============================================================================
