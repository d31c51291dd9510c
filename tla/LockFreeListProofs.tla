------------------------- MODULE LockFreeListProofs -------------------------
(***************************************************************************)
(* Proofs about LockFreeList, for any number of threads, any memory, any   *)
(* keys and any threshold of the reclamation: the chain stays sorted and   *)
(* complete, every node has one owner, no thread uses a node that was      *)
(* reclaimed, and the list is a linearizable set.                          *)
(*                                                                         *)
(* All of it under one condition, SwapUnseen: no scan of the announcements *)
(* is under way while a thread is between the two writes of its swap.  The *)
(* run that has NoReclaimedNodeUsed violated shows that the condition is   *)
(* needed; the proofs show that nothing else is wrong.                     *)
(***************************************************************************)
EXTENDS LockFreeList, FiniteSetTheorems, TLAPS

-----------------------------------------------------------------------------
(* The inductive invariant *)

(* Where a lookup relies on cur, which it has announced and found in place *)
HoldsCur == {"next", "unlink", "compare", "swap0", "swap1", "link", "mark",
             "delete"}

(* The nodes whose memory a thread relies on *)
InUse(t) == {prev[t]} \union (IF pc[t] \in HoldsCur THEN {cur[t]} ELSE {})

(* Keys ascend along the chain, and each node is followed by the one with  *)
(* the next larger key.                                                    *)
Sorted(links, keys) ==
  LET C == ChainOf(links) IN
  /\ \A n \in C : links[n].to # NULL => keys[n] < keys[links[n].to]
  /\ \A n, m \in C : keys[n] = keys[m] => n = m
  /\ \A n, m \in C : keys[n] < keys[m] =>
       links[n].to # NULL /\ keys[links[n].to] <= keys[m]
  /\ \A m \in C : links[HEAD].to # NULL /\ keys[links[HEAD].to] <= keys[m]

(* The list: the unmarked nodes are all in the chain. *)
ListInv ==
  /\ Sorted(next, data)
  /\ Chain \subseteq Linked
  /\ ~next[HEAD].marked
  /\ \A n \in Linked : ~next[n].marked => n \in Chain

(* Nodes belong to the chain, to one thread's retired list, or to the one  *)
(* thread that allocated them.                                             *)
OwnInv ==
  /\ \A t \in Threads :
       /\ retired_lists_[t] \subseteq Linked \ Chain
       /\ new_node[t] # NULL => new_node[t] \in live
  /\ \A n \in Linked \ Chain : \E t \in Threads : n \in retired_lists_[t]
  /\ \A t, u \in Threads : t # u =>
       /\ retired_lists_[t] \intersect retired_lists_[u] = {}
       /\ new_node[t] # NULL => new_node[t] # new_node[u]

(* How far a call is *)
CallInv(t) ==
  /\ pc[t] = "idle" <=> op[t] = "none"
  /\ pc[t] = "idle" => result[t] = {}
  /\ pc[t] \in {"delete", "lastScan", "done"} => result[t] # {}
  /\ pc[t] \in {"link", "mark"} => result[t] = {}
  /\ pc[t] = "link" => op[t] = "insert"
  /\ pc[t] = "mark" => op[t] = "remove"
  /\ new_node[t] # NULL <=> op[t] = "insert" /\ result[t] = {}
  /\ new_node[t] # NULL => data[new_node[t]] = key[t]

(* What a lookup knows of the nodes it has come to *)
ContextInv(t) ==
  /\ prev[t] \in Linked \union {HEAD}
  /\ prev[t] # HEAD => data[prev[t]] < key[t]
  /\ pc[t] \in {"idle", "try_again", "lastScan", "done"} => prev[t] = HEAD
  /\ pc[t] \in HoldsCur => cur[t] \in Linked \/ (pc[t] = "link" /\ cur[t] = NULL)
  /\ pc[t] \in {"swap0", "swap1"} => prev[t] = cur[t]
  /\ pc[t] \in {"unlink", "delete"} => next[cur[t]] = mark(succ[t])
  /\ pc[t] \in {"mark", "delete"} => data[cur[t]] = key[t]
  /\ pc[t] = "link" /\ cur[t] # NULL => key[t] < data[cur[t]]

(* What a thread has announced *)
Announced(t) ==
  /\ pc[t] \in {"check"} \union (HoldsCur \ {"swap1"}) /\ cur[t] # NULL =>
       hazard_pointers[t][0] = cur[t]
  /\ pc[t] \notin {"swap0", "swap1"} /\ prev[t] # HEAD =>
       hazard_pointers[t][1] = prev[t]
  /\ ~Scanning(t) => slot[t] = 0

(* The scan of t has found, or will find, what u relies on. *)
Found(t, u) ==
  Scanning(t) =>
    \A n \in retired_lists_[t] \intersect InUse(u) :
      n \in active_list[t]
        \/ \E j \in Slots : hazard_pointers[u][j] = n /\ slot[t] <= 2 * u + j

(* What a call has seen of its key *)
SeenInv(t) ==
  /\ op[t] = "none" => was[t] = {}
  /\ op[t] # "none" /\ result[t] = {} =>
       /\ key[t] \in Members => TRUE \in was[t]
       /\ key[t] \notin Members => FALSE \in was[t]
       /\ pc[t] = "compare" /\ data[cur[t]] = key[t] => TRUE \in was[t]
       /\ \/ pc[t] = "compare" /\ succ[t] = NULL /\ data[cur[t]] < key[t]
          \/ pc[t] \in {"swap0", "swap1"} /\ succ[t] = NULL
          \/ pc[t] \in {"loop", "scan"} /\ cur[t] = NULL
          => FALSE \in was[t]

IInv ==
  /\ TypeOK /\ ListInv /\ OwnInv
  /\ \A t \in Threads : CallInv(t) /\ ContextInv(t) /\ SeenInv(t) /\ Announced(t)
  /\ \A t, u \in Threads : Found(t, u)

-----------------------------------------------------------------------------
(* The chain *)

Links == [Nodes \union {HEAD} -> Pointers]

(* The chain has with a node also its successor. *)
LEMMA ChainClosed ==
  ASSUME NEW links \in Links
  PROVE  /\ ChainOf(links) \subseteq Nodes
         /\ \A m \in ChainOf(links) \union {HEAD} :
              links[m].to \in ChainOf(links) \union {NULL}
<1>1. ASSUME NEW m \in ChainOf(links) \union {HEAD}, links[m].to # NULL,
             NEW S \in SUBSET Nodes,
             \A k \in S \union {HEAD} : links[k].to \in S \union {NULL}
      PROVE  links[m].to \in S
  <2>1. m \in S \union {HEAD}
    BY <1>1 DEF ChainOf
  <2> QED  BY <1>1, <2>1
<1>2. \A m \in Nodes \union {HEAD} : links[m].to \in Nodes \union {NULL}
  BY DEF Links, Pointers
<1> QED  BY <1>1, <1>2 DEF ChainOf

(* No smaller set has. *)
LEMMA ChainLeast ==
  ASSUME NEW links \in Links, NEW S \in SUBSET Nodes,
         \A m \in S \union {HEAD} : links[m].to \in S \union {NULL}
  PROVE  ChainOf(links) \subseteq S
BY DEF ChainOf

(* The chain does not depend on what lies beside it. *)
LEMMA ChainSame ==
  ASSUME NEW links \in Links, NEW after \in Links,
         \A m \in ChainOf(links) \union {HEAD} : after[m].to = links[m].to
  PROVE  ChainOf(after) = ChainOf(links)
<1> DEFINE C == ChainOf(links)
           D == ChainOf(after)
<1>1. /\ C \subseteq Nodes /\ D \subseteq Nodes
      /\ \A m \in C \union {HEAD} : links[m].to \in C \union {NULL}
      /\ \A m \in D \union {HEAD} : after[m].to \in D \union {NULL}
  BY ChainClosed
<1>2. D \subseteq C
  BY <1>1, ChainLeast
<1>3. C \subseteq D
  BY <1>1, <1>2, ChainLeast
<1> QED  BY <1>2, <1>3

(* A node is linked behind p. *)
LEMMA ChainInsert ==
  ASSUME NEW links \in Links, NEW after \in Links,
         NEW p \in ChainOf(links) \union {HEAD},
         NEW n \in Nodes \ ChainOf(links),
         after[p].to = n, after[n].to = links[p].to,
         \A m \in ChainOf(links) \union {HEAD} : m # p => after[m].to = links[m].to
  PROVE  ChainOf(after) = ChainOf(links) \union {n}
<1> DEFINE C == ChainOf(links)
           D == ChainOf(after)
<1>1. /\ C \subseteq Nodes /\ D \subseteq Nodes
      /\ \A m \in C \union {HEAD} : links[m].to \in C \union {NULL}
      /\ \A m \in D \union {HEAD} : after[m].to \in D \union {NULL}
  BY ChainClosed
<1> HIDE DEF C, D
<1>2. D \subseteq C \union {n}
  <2> DEFINE S == C \union {n}
  <2>1. S \in SUBSET Nodes /\ \A m \in S \union {HEAD} : after[m].to \in S \union {NULL}
    BY <1>1 DEF C
  <2> HIDE DEF S
  <2>2. ChainOf(after) \subseteq S
    BY <2>1, ChainLeast
  <2> QED  BY <2>2 DEF D, S
<1>3. C \subseteq D
  <2> DEFINE S == C \intersect D
  <2>1. S \in SUBSET Nodes
    BY <1>1
  <2>2. ASSUME NEW m \in S \union {HEAD} PROVE links[m].to \in S \union {NULL}
    <3>1. m \in C \union {HEAD} /\ m \in D \union {HEAD}
      OBVIOUS
    <3>2. CASE m # p
      BY <1>1, <3>1, <3>2 DEF C
    <3>3. CASE m = p
      <4>1. n \in D
        BY <1>1, <3>1, <3>3, NodesAssumption
      <4> QED  BY <1>1, <3>1, <3>3, <4>1
    <3> QED  BY <3>2, <3>3
  <2>3. C \subseteq S
    <3> HIDE DEF S
    <3> QED  BY <2>1, <2>2, ChainLeast DEF C
  <2> QED  BY <2>3
<1>4. n \in D
  BY <1>1, <1>3, NodesAssumption DEF C
<1> QED  BY <1>2, <1>3, <1>4 DEF C, D

(* The node behind p is taken out. *)
LEMMA ChainRemove ==
  ASSUME NEW links \in Links, NEW after \in Links,
         NEW p \in ChainOf(links) \union {HEAD},
         NEW n \in ChainOf(links),
         links[p].to = n, links[n].to # n, after[p].to = links[n].to,
         \A m \in ChainOf(links) \union {HEAD} : links[m].to = n => m = p,
         \A m \in Nodes \union {HEAD} : m # p => after[m].to = links[m].to
  PROVE  ChainOf(after) = ChainOf(links) \ {n}
<1> DEFINE C == ChainOf(links)
           D == ChainOf(after)
<1>1. /\ C \subseteq Nodes /\ D \subseteq Nodes
      /\ \A m \in C \union {HEAD} : links[m].to \in C \union {NULL}
      /\ \A m \in D \union {HEAD} : after[m].to \in D \union {NULL}
  BY ChainClosed
<1> HIDE DEF C, D
<1>2. D \subseteq C \ {n}
  <2> DEFINE S == C \ {n}
  <2>1. S \in SUBSET Nodes /\ \A m \in S \union {HEAD} : after[m].to \in S \union {NULL}
    BY <1>1 DEF C
  <2> HIDE DEF S
  <2>2. ChainOf(after) \subseteq S
    BY <2>1, ChainLeast
  <2> QED  BY <2>2 DEF D, S
<1>3. p \in D \union {HEAD}
  <2> SUFFICES ASSUME p \notin D \union {HEAD} PROVE FALSE
    OBVIOUS
  <2>1. \A m \in D \union {HEAD} : links[m].to \in D \union {NULL}
    BY <1>1
  <2>2. C \subseteq D
    BY <1>1, <2>1, ChainLeast DEF C
  <2> QED  BY <2>2 DEF C
<1>4. C \subseteq D \union {n}
  <2> DEFINE S == D \union {n}
  <2>1. S \in SUBSET Nodes
    BY <1>1 DEF C
  <2>2. links[n].to \in D \union {NULL}
    BY <1>1, <1>3
  <2>3. \A m \in S \union {HEAD} : links[m].to \in S \union {NULL}
    BY <1>1, <2>2
  <2> QED  BY <2>1, <2>3, ChainLeast DEF C
<1> QED  BY <1>2, <1>4 DEF C, D

-----------------------------------------------------------------------------
(* Types *)

(* The slot a scan reads next is some thread's. *)
LEMMA SlotFacts ==
  ASSUME NEW s \in 0 .. AllSlots - 1
  PROVE  /\ s \div NUM_PTRS \in Threads /\ s % NUM_PTRS \in Slots
         /\ s = 2 * (s \div NUM_PTRS) + (s % NUM_PTRS)
BY ThreadsAssumption DEF AllSlots, NUM_PTRS, Threads, Slots

(* What the code writes into the memory is a pointer. *)
LEMMA PointerType ==
  ASSUME NEW n \in Nodes \union {NULL}
  PROVE  unmarked(n) \in Pointers /\ mark(n) \in Pointers
BY DEF unmarked, mark, Pointers

(* There is a key. *)
LEMMA AnyKeyType == AnyKey \in Keys
BY KeysAssumption DEF AnyKey

(* Deleting nodes leaves memory of the right type. *)
LEMMA WipeType ==
  ASSUME TypeOK, Wipe
  PROVE  /\ data' \in [Nodes -> Keys]
         /\ next' \in [Nodes \union {HEAD} -> Pointers]
<1>1. unmarked(NULL) \in Pointers
  BY PointerType
<1> QED  BY <1>1, AnyKeyType DEF TypeOK, Wipe

(* The constructor starts with well-typed variables, garbage included. *)
LEMMA InitType == Init => TypeOK
<1> SUFFICES ASSUME Init PROVE TypeOK
  OBVIOUS
<1>1. unmarked(NULL) \in Pointers
  BY PointerType
<1>2. HPTypeOK
  BY ThreadsAssumption, GarbageAssumption DEF Init, HPInit, HPTypeOK, AllSlots, NUM_PTRS
<1> QED  BY <1>1, <1>2, AnyKeyType DEF Init, TypeOK, Places, DerefsCur

(* The parts of the type that an action leaves alone *)
LEMMA WasType ==
  ASSUME TypeOK, Observe
  PROVE  was' \in [Threads -> SUBSET BOOLEAN]
<1>1. \A t \in Threads : (key'[t] \in Members') \in BOOLEAN
  OBVIOUS
<1> QED  BY <1>1 DEF TypeOK, Observe

(* What lookupInternal() returns to is well-typed: remove() goes on to   *)
(* mark only a node it has found.                                        *)
LEMMA ReturnsType ==
  ASSUME TypeOK, NEW t \in Threads, NEW found \in BOOLEAN, LookupReturns(t, found),
         found => cur[t] # NULL
  PROVE  /\ live' \subseteq Nodes /\ data' \in [Nodes -> Keys]
         /\ next' \in [Nodes \union {HEAD} -> Pointers]
         /\ pc' \in [Threads -> Places]
         /\ prev' \in [Threads -> Nodes \union {HEAD}]
         /\ cur' \in [Threads -> Nodes \union {NULL}]
         /\ succ' \in [Threads -> Nodes \union {NULL}]
         /\ \A u \in Threads : cur'[u] = NULL => pc'[u] \notin DerefsCur
         /\ new_node' \in [Threads -> Nodes \union {NULL}]
         /\ result' \in [Threads -> SUBSET BOOLEAN]
<1> USE DEF TypeOK, HPTypeOK
<1>1. CASE /\ Leave(t, "done")
           /\ UNCHANGED <<result, live, memVars, new_node>>
  BY <1>1 DEF Leave, Goto, DropContext, memVars, Places, DerefsCur
<1>2. CASE /\ result' = [result EXCEPT ![t] = {op[t] = "lookup" /\ found}]
           /\ live' = live \ {new_node[t]} /\ Wipe
           /\ new_node' = [new_node EXCEPT ![t] = NULL]
           /\ Leave(t, "done")
  <2>1. data' \in [Nodes -> Keys] /\ next' \in [Nodes \union {HEAD} -> Pointers]
    BY <1>2, WipeType
  <2>2. {op[t] = "lookup" /\ found} \in SUBSET BOOLEAN
    OBVIOUS
  <2> QED  BY <1>2, <2>1, <2>2 DEF Leave, Goto, DropContext, Places, DerefsCur
<1>3. CASE /\ \/ Goto(t, "link")
              \/ found /\ Goto(t, "mark")
           /\ UNCHANGED <<result, live, memVars, ctxVars, new_node>>
  BY <1>3 DEF Goto, memVars, ctxVars, Places, DerefsCur
<1> QED  BY <1>1, <1>2, <1>3 DEF LookupReturns

(* Every step keeps the types, and dereferences cur only when there is one. *)
LEMMA TypeStep == TypeOK /\ [Next]_vars => TypeOK'
<1> SUFFICES ASSUME TypeOK, [Next]_vars PROVE TypeOK'
  OBVIOUS
<1> DEFINE Rest ==
      /\ HPTypeOK /\ data \in [Nodes -> Keys]
      /\ next \in [Nodes \union {HEAD} -> Pointers]
      /\ pc \in [Threads -> Places]
      /\ op \in [Threads -> {"none", "insert", "remove", "lookup"}]
      /\ key \in [Threads -> Keys]
      /\ prev \in [Threads -> Nodes \union {HEAD}]
      /\ cur \in [Threads -> Nodes \union {NULL}]
      /\ succ \in [Threads -> Nodes \union {NULL}]
      /\ \A t \in Threads : cur[t] = NULL => pc[t] \notin DerefsCur
      /\ new_node \in [Threads -> Nodes \union {NULL}]
      /\ result \in [Threads -> SUBSET BOOLEAN]
<1>1. Rest
  BY DEF TypeOK
<1>2. ASSUME NEW t \in Threads, Observe, Rest' PROVE TypeOK'
  BY <1>2, WasType DEF TypeOK
<1> USE DEF HPTypeOK, Places, DerefsCur, Goto, hpVars, memVars, ctxVars, callVars
<1>3. \A n \in Nodes \union {NULL} : unmarked(n) \in Pointers /\ mark(n) \in Pointers
  BY PointerType
<1>4. \A n \in Nodes \union {HEAD} : next[n].to \in Nodes \union {NULL}
  BY <1>1 DEF Pointers
<1>5. ASSUME NEW t \in Threads, Invoke(t) PROVE Rest'
  <2>1. PICK k \in Keys :
          /\ key' = [key EXCEPT ![t] = k]
          /\ \/ \E n \in Nodes \ live :
                  /\ op' = [op EXCEPT ![t] = "insert"]
                  /\ live' = live \union {n}
                  /\ data' = [data EXCEPT ![n] = k]
                  /\ next' = [next EXCEPT ![n] = unmarked(NULL)]
                  /\ new_node' = [new_node EXCEPT ![t] = n]
             \/ /\ \E o \in {"remove", "lookup"} : op' = [op EXCEPT ![t] = o]
                /\ UNCHANGED <<live, memVars, new_node>>
    BY <1>5 DEF Invoke
  <2>2. /\ live' \subseteq Nodes /\ data' \in [Nodes -> Keys]
        /\ new_node' \in [Threads -> Nodes \union {NULL}]
        /\ op' \in [Threads -> {"none", "insert", "remove", "lookup"}]
        /\ next' \in [Nodes \union {HEAD} -> Pointers]
    <3>1. ASSUME NEW n \in Nodes \ live, op' = [op EXCEPT ![t] = "insert"],
                 live' = live \union {n}, data' = [data EXCEPT ![n] = k],
                 next' = [next EXCEPT ![n] = unmarked(NULL)],
                 new_node' = [new_node EXCEPT ![t] = n]
          PROVE  /\ live' \subseteq Nodes /\ data' \in [Nodes -> Keys]
                 /\ new_node' \in [Threads -> Nodes \union {NULL}]
                 /\ op' \in [Threads -> {"none", "insert", "remove", "lookup"}]
                 /\ next' \in [Nodes \union {HEAD} -> Pointers]
      <4>1. unmarked(NULL) \in Pointers
        BY <1>3
      <4> QED  BY <1>1, <3>1, <4>1
    <3>2. CASE /\ \E o \in {"remove", "lookup"} : op' = [op EXCEPT ![t] = o]
               /\ UNCHANGED <<live, memVars, new_node>>
      BY <1>1, <3>2
    <3> HIDE DEF Rest
    <3> QED  BY <2>1, <3>1, <3>2
  <2>4. key' \in [Threads -> Keys]
    BY <1>1, <2>1
  <2> QED  BY <1>1, <1>5, <2>2, <2>4 DEF Invoke
<1>6. ASSUME NEW t \in Threads, try_again(t) PROVE Rest'
  BY <1>1, <1>4, <1>6 DEF try_again
<1>7. ASSUME NEW t \in Threads, Loop(t) PROVE Rest'
  <2>1. CASE LookupReturns(t, FALSE) /\ UNCHANGED hazard_pointers
    <3> HIDE DEF Places, DerefsCur
    <3> QED  BY <1>1, <1>7, <2>1, ReturnsType DEF Loop
  <2>2. CASE ~EndReached(t) /\ Announce(t, 0, cur[t]) /\ Goto(t, "check")
             /\ UNCHANGED <<result, live, memVars, ctxVars, new_node>>
    BY <1>1, <1>7, <2>2 DEF Loop, EndReached, Announce, Slots, NUM_PTRS
  <2> QED  BY <1>7, <2>1, <2>2 DEF Loop
<1>8. ASSUME NEW t \in Threads, Check(t) PROVE Rest'
  BY <1>1, <1>8, ZenonT(60) DEF Check, Leave, DropContext
<1>9. ASSUME NEW t \in Threads, ReadNext(t) PROVE Rest'
  BY <1>1, <1>4, <1>9 DEF ReadNext
<1>10. ASSUME NEW t \in Threads, Unlink(t) PROVE Rest'
  <2>1. cur[t] \in Nodes
    BY <1>1, <1>10 DEF Unlink
  <2>2. next' \in [Nodes \union {HEAD} -> Pointers]
    BY <1>1, <1>3, <1>10, SMTT(30) DEF Unlink
  <2>3. retired_lists_' \in [Threads -> SUBSET Nodes]
    <3>1. retired_lists_[t] \union {cur[t]} \in SUBSET Nodes
      BY <1>1, <2>1
    <3>2. \/ UNCHANGED retired_lists_
          \/ retired_lists_'
               = [retired_lists_ EXCEPT ![t] = retired_lists_[t] \union {cur[t]}]
      BY <1>10 DEF Unlink, Retire, retireNode
    <3> QED  BY <1>1, <3>1, <3>2
  <2> QED
    BY <1>1, <1>10, <2>2, <2>3, ZenonT(60) DEF Unlink, Leave, DropContext, Retire
<1>11. ASSUME NEW t \in Threads, Compare(t) PROVE Rest'
  <2>1. cur[t] \in Nodes
    BY <1>1, <1>11 DEF Compare
  <2>2. CASE LookupReturns(t, data[cur[t]] = key[t])
    <3> DEFINE found == data[cur[t]] = key[t]
    <3>1. found \in BOOLEAN /\ LookupReturns(t, found) /\ cur[t] # NULL
      BY <2>1, <2>2, NodesAssumption
    <3>2. UNCHANGED <<hazard_pointers, retired_lists_, active_list, slot, op, key>>
      BY <1>11 DEF Compare
    <3> HIDE DEF Places, DerefsCur, found
    <3> QED  BY <1>1, <3>1, <3>2, ReturnsType
  <2>3. CASE ~LookupReturns(t, data[cur[t]] = key[t])
    BY <1>1, <1>11, <2>1, <2>3, ZenonT(60) DEF Compare, Leave, DropContext
  <2> QED  BY <2>2, <2>3
<1>12. ASSUME NEW t \in Threads, Swap0(t) \/ Swap1(t) PROVE Rest'
  <2>1. hazard_pointers' \in [Threads -> [Slots -> Nodes \union {NULL}]]
    <3>1. PICK i \in Slots, n \in Nodes \union {NULL} : Announce(t, i, n)
      BY <1>1, <1>12 DEF Swap0, Swap1, Slots, NUM_PTRS
    <3> QED  BY <1>1, <3>1 DEF Announce
  <2> QED  BY <1>1, <1>12, <2>1, ZenonT(60) DEF Swap0, Swap1
<1>13. ASSUME NEW t \in Threads, Link(t) PROVE Rest'
  <2>1. next' \in [Nodes \union {HEAD} -> Pointers]
    <3>1. unmarked(cur[t]) \in Pointers /\ unmarked(new_node[t]) \in Pointers
      BY <1>1, <1>3
    <3> QED  BY <1>1, <1>13, <3>1 DEF Link
  <2>2. {TRUE} \in SUBSET BOOLEAN
    OBVIOUS
  <2>3. result' \in [Threads -> SUBSET BOOLEAN]
    BY <1>1, <1>13, <2>2 DEF Link
  <2> QED  BY <1>1, <1>13, <2>1, <2>3, ZenonT(60) DEF Link, Leave, DropContext
<1>14. ASSUME NEW t \in Threads, Mark(t) PROVE Rest'
  <2>1. next' \in [Nodes \union {HEAD} -> Pointers]
    <3>1. mark(succ[t]) \in Pointers
      BY <1>1, <1>3
    <3> QED  BY <1>1, <1>14, <3>1 DEF Mark
  <2>2. {TRUE} \in SUBSET BOOLEAN
    OBVIOUS
  <2>3. result' \in [Threads -> SUBSET BOOLEAN]
    BY <1>1, <1>14, <2>2 DEF Mark
  <2> QED  BY <1>1, <1>14, <2>1, <2>3, ZenonT(60) DEF Mark, MarkFailed, Leave, DropContext
<1>15. ASSUME NEW t \in Threads, Delete(t) PROVE Rest'
  <2>1. cur[t] \in Nodes
    BY <1>1, <1>15 DEF Delete
  <2>2. next' \in [Nodes \union {HEAD} -> Pointers]
    BY <1>1, <1>3, <1>15 DEF Delete
  <2>3. retired_lists_' \in [Threads -> SUBSET Nodes]
    BY <1>1, <1>15, <2>1 DEF Delete, DeleteFailed, Retire, retireNode
  <2> QED
    BY <1>1, <1>15, <2>2, <2>3, ZenonT(60) DEF Delete, DeleteFailed, DropContext, Retire
<1>16. ASSUME NEW t \in Threads, Scan(t) PROVE Rest'
  <2>1. CASE ScanSlot(t) /\ UNCHANGED <<pc, memVars>>
    <3>1. slot[t] \in 0 .. AllSlots - 1 /\ slot[t] + 1 \in 0 .. AllSlots
      BY <1>1, <2>1, ThreadsAssumption DEF ScanSlot, AllSlots, NUM_PTRS
    <3>2. hazard_pointers[slot[t] \div NUM_PTRS][slot[t] % NUM_PTRS]
            \in Nodes \union {NULL}
      BY <1>1, <3>1, SlotFacts
    <3> QED  BY <1>1, <1>16, <2>1, <3>1, <3>2 DEF ScanSlot, Scan
  <2>2. CASE FreeNodes(t) /\ Wipe /\ Goto(t, IF pc[t] = "scan" THEN "loop" ELSE "done")
    <3>1. data' \in [Nodes -> Keys] /\ next' \in [Nodes \union {HEAD} -> Pointers]
      BY <2>2, WipeType
    <3>2. 0 \in 0 .. AllSlots
      BY ThreadsAssumption DEF AllSlots, NUM_PTRS
    <3> QED  BY <1>1, <1>16, <2>2, <3>1, <3>2 DEF FreeNodes, Reclaimable, Scan
  <2> QED  BY <1>16, <2>1, <2>2 DEF Scan
<1>17. ASSUME NEW t \in Threads, Return(t) PROVE Rest'
  BY <1>1, <1>17, AnyKeyType DEF Return
<1>18. CASE UNCHANGED vars
  BY <1>18 DEF vars, TypeOK
<1> HIDE DEF Rest
<1> QED
  BY <1>2, <1>5, <1>6, <1>7, <1>8, <1>9, <1>10, <1>11, <1>12, <1>13, <1>14,
     <1>15, <1>16, <1>17, <1>18 DEF Next, Step

-----------------------------------------------------------------------------
(* The order of the chain *)

(* Only one node points to a node. *)
LEMMA OnePredecessor ==
  ASSUME NEW links \in Links, NEW keys \in [Nodes -> Keys], Sorted(links, keys),
         NEW m \in ChainOf(links) \union {HEAD}, NEW p \in ChainOf(links) \union {HEAD},
         links[m].to = links[p].to, links[p].to # NULL
  PROVE  m = p
<1> DEFINE C == ChainOf(links)
           n == links[p].to
<1>1. n \in C /\ C \subseteq Nodes /\ \A x \in C : keys[x] \in Int
  BY ChainClosed, KeysAssumption
<1>2. ASSUME NEW x \in C, NEW y \in C \union {HEAD}, links[x].to = n, links[y].to = n
      PROVE  x = y
  <2>1. CASE y = HEAD
    BY <1>1, <1>2, <2>1 DEF Sorted
  <2>2. CASE y \in C
    <3>1. ~(keys[x] < keys[y]) /\ ~(keys[y] < keys[x])
      BY <1>1, <1>2, <2>2 DEF Sorted
    <3>2. keys[x] = keys[y]
      BY <1>1, <2>2, <3>1
    <3> QED  BY <2>2, <3>2 DEF Sorted
  <2> QED  BY <2>1, <2>2
<1> QED  BY <1>2

(* The order is a matter of the chain only. *)
LEMMA SortedSame ==
  ASSUME NEW links \in Links, NEW after \in Links,
         NEW keys \in [Nodes -> Keys], NEW keysAfter \in [Nodes -> Keys],
         Sorted(links, keys),
         \A m \in ChainOf(links) \union {HEAD} : after[m].to = links[m].to,
         \A m \in ChainOf(links) : keysAfter[m] = keys[m]
  PROVE  Sorted(after, keysAfter)
<1>1. ChainOf(after) = ChainOf(links)
  BY ChainSame
<1>2. \A m \in ChainOf(links) \union {HEAD} :
        links[m].to \in ChainOf(links) \union {NULL}
  BY ChainClosed
<1> QED  BY <1>1, <1>2 DEF Sorted

(* A node linked where its key belongs leaves the chain in order. *)
LEMMA SortedInsert ==
  ASSUME NEW links \in Links, NEW after \in Links, NEW keys \in [Nodes -> Keys],
         Sorted(links, keys),
         NEW p \in ChainOf(links) \union {HEAD},
         NEW n \in Nodes \ ChainOf(links),
         after[p].to = n, after[n].to = links[p].to,
         \A m \in ChainOf(links) \union {HEAD} : m # p => after[m].to = links[m].to,
         p # HEAD => keys[p] < keys[n],
         links[p].to # NULL => keys[n] < keys[links[p].to]
  PROVE  Sorted(after, keys)
<1> DEFINE C == ChainOf(links)
           D == ChainOf(after)
<1>1. D = C \union {n}
  BY ChainInsert
<1>2. /\ C \subseteq Nodes /\ n # NULL /\ n # HEAD /\ HEAD \notin C
      /\ \A m \in C \union {HEAD} : links[m].to \in C \union {NULL}
      /\ \A x \in Nodes : keys[x] \in Int
  BY ChainClosed, KeysAssumption, NodesAssumption, HeadAssumption
<1>3. /\ \A x \in C : links[x].to # NULL => keys[x] < keys[links[x].to]
      /\ \A x, y \in C : keys[x] = keys[y] => x = y
      /\ \A x, y \in C : keys[x] < keys[y] =>
           links[x].to # NULL /\ keys[links[x].to] <= keys[y]
      /\ \A y \in C : links[HEAD].to # NULL /\ keys[links[HEAD].to] <= keys[y]
  BY DEF Sorted
<1> HIDE DEF C, D
<1>4. \A x \in C : x # p => IF p # HEAD /\ keys[x] < keys[p] THEN keys[x] < keys[n]
                            ELSE links[p].to # NULL /\ keys[n] < keys[x]
  <2> TAKE x \in C
  <2>1. CASE p = HEAD
    BY <1>2, <1>3, <2>1
  <2>2. CASE p # HEAD /\ x # p
    <3>1. p \in C /\ keys[x] # keys[p]
      BY <1>3, <2>2 DEF C
    <3> QED  BY <1>2, <1>3, <2>2, <3>1
  <2> QED  BY <2>1, <2>2
<1>5. \A x \in C : keys[x] # keys[n]
  BY <1>2, <1>4 DEF C
<1>6. \A x \in D : after[x].to # NULL => keys[x] < keys[after[x].to]
  BY <1>1, <1>2, <1>3 DEF C
<1>7. \A x, y \in D : keys[x] = keys[y] => x = y
  BY <1>1, <1>3, <1>5
<1>8. ASSUME NEW x \in D, NEW y \in D, keys[x] < keys[y]
      PROVE  after[x].to # NULL /\ keys[after[x].to] <= keys[y]
  <2>1. CASE x = n
    BY <1>1, <1>2, <1>3, <1>4, <1>8, <2>1 DEF C
  <2>2. CASE x = p
    BY <1>1, <1>2, <1>3, <1>4, <1>8, <2>2 DEF C
  <2>3. CASE x # n /\ x # p /\ y = n
    BY <1>1, <1>2, <1>3, <1>4, <1>8, <2>3 DEF C
  <2>4. CASE x # n /\ x # p /\ y # n
    BY <1>1, <1>2, <1>3, <1>8, <2>4 DEF C
  <2> QED  BY <2>1, <2>2, <2>3, <2>4
<1>9. ASSUME NEW y \in D
      PROVE  after[HEAD].to # NULL /\ keys[after[HEAD].to] <= keys[y]
  <2>1. CASE p = HEAD
    BY <1>1, <1>2, <1>4, <2>1
  <2>2. CASE p # HEAD /\ y = n
    BY <1>1, <1>2, <1>3, <2>2 DEF C
  <2>3. CASE p # HEAD /\ y # n
    BY <1>1, <1>2, <1>3, <2>3 DEF C
  <2> QED  BY <2>1, <2>2, <2>3
<1> QED  BY <1>6, <1>7, <1>8, <1>9 DEF Sorted, D

(* Taking the node behind p out leaves the chain in order. *)
LEMMA SortedRemove ==
  ASSUME NEW links \in Links, NEW after \in Links, NEW keys \in [Nodes -> Keys],
         Sorted(links, keys),
         NEW p \in ChainOf(links) \union {HEAD},
         NEW n \in ChainOf(links), links[p].to = n, after[p].to = links[n].to,
         \A m \in Nodes \union {HEAD} : m # p => after[m].to = links[m].to
  PROVE  /\ ChainOf(after) = ChainOf(links) \ {n}
         /\ Sorted(after, keys)
<1> DEFINE C == ChainOf(links)
           D == ChainOf(after)
<1>1. /\ C \subseteq Nodes /\ HEAD \notin C /\ NULL \notin C
      /\ \A m \in C \union {HEAD} : links[m].to \in C \union {NULL}
      /\ \A x \in Nodes : keys[x] \in Int
  BY ChainClosed, KeysAssumption, NodesAssumption, HeadAssumption
<1>2. /\ \A x \in C : links[x].to # NULL => keys[x] < keys[links[x].to]
      /\ \A x, y \in C : keys[x] = keys[y] => x = y
      /\ \A x, y \in C : keys[x] < keys[y] =>
           links[x].to # NULL /\ keys[links[x].to] <= keys[y]
      /\ \A y \in C : links[HEAD].to # NULL /\ keys[links[HEAD].to] <= keys[y]
  BY DEF Sorted
<1>3. \A m \in C \union {HEAD} : links[m].to = n => m = p
  BY <1>1, OnePredecessor
<1>4. links[n].to # n
  BY <1>1, <1>2
<1>5. D = C \ {n}
  BY <1>3, <1>4, ChainRemove
<1> HIDE DEF C, D
<1>6. p # n
  BY <1>1, <1>2, <1>4 DEF C
<1>7. \A x \in D : after[x].to # NULL => keys[x] < keys[after[x].to]
  <2>1. CASE p \in C
    BY <1>1, <1>2, <1>3, <1>5, <2>1 DEF C
  <2>2. CASE p = HEAD
    BY <1>1, <1>2, <1>3, <1>5, <2>2 DEF C
  <2> QED  BY <2>1, <2>2 DEF C
<1>8. \A x, y \in D : keys[x] = keys[y] => x = y
  BY <1>2, <1>5
<1>9. ASSUME NEW x \in D \union {HEAD}, NEW y \in D, x # HEAD => keys[x] < keys[y]
      PROVE  after[x].to # NULL /\ keys[after[x].to] <= keys[y]
  <2>1. y \in C /\ y # n /\ x \in C \union {HEAD} /\ x # n
    BY <1>1, <1>5, <1>9 DEF C
  <2>2. links[x].to # NULL /\ keys[links[x].to] <= keys[y]
    BY <1>2, <1>9, <2>1
  <2>3. CASE x = p
    <3>1. keys[n] < keys[y]
      BY <1>1, <1>2, <2>1, <2>2, <2>3 DEF C
    <3> QED  BY <1>2, <2>1, <2>3, <3>1 DEF C
  <2>4. CASE x # p
    BY <1>1, <2>1, <2>2, <2>4
  <2> QED  BY <2>3, <2>4
<1>10. Sorted(after, keys)
  <2>1. HEAD \notin D
    BY <1>1, <1>5
  <2> QED  BY <1>7, <1>8, <1>9, <2>1 DEF Sorted, D
<1> QED  BY <1>5, <1>10 DEF C, D

-----------------------------------------------------------------------------
(* What the steps do to the memory *)

(* A node that is in the list, or was, stays what it is: its key does not  *)
(* change, and once it is marked neither does its successor.               *)
Kept(n) ==
  /\ n \in Linked' /\ data'[n] = data[n]
  /\ next[n].marked => next'[n] = next[n]

(* A step of t keeps the nodes that are in use, but for those in freed. *)
Keeps(t, freed) ==
  /\ \A n \in Linked \ freed : Kept(n)
  /\ \A u \in Threads \ {t} :
       new_node[u] # NULL => data'[new_node[u]] = data[new_node[u]]

(* What the types say of the memory *)
LEMMA TypeFacts ==
  ASSUME TypeOK
  PROVE  /\ next \in Links /\ data \in [Nodes -> Keys] /\ live \subseteq Nodes
         /\ NULL \notin Nodes /\ HEAD \notin Nodes /\ HEAD # NULL
         /\ Linked \subseteq live
         /\ \A n \in Nodes : data[n] \in Int
BY NodesAssumption, HeadAssumption, KeysAssumption DEF TypeOK, HPTypeOK, Links, Linked

(* The chain is closed: ChainClosed for the present links. *)
LEMMA ChainFacts ==
  ASSUME TypeOK
  PROVE  /\ Chain \subseteq Nodes
         /\ \A m \in Chain \union {HEAD} : next[m].to \in Chain \union {NULL}
BY TypeFacts, ChainClosed DEF Chain

(* A location whose pointer is unmarked is in the chain. *)
LEMMA InPlace ==
  ASSUME TypeOK, ListInv, NEW p \in Linked \union {HEAD}, NEW c, next[p] = unmarked(c)
  PROVE  p \in Chain \union {HEAD} /\ c \in Chain \union {NULL} /\ next[p].to = c
BY ChainFacts DEF ListInv, unmarked

(* A key between two neighbours is not in the set. *)
LEMMA NotMember ==
  ASSUME TypeOK, ListInv, NEW p \in Chain \union {HEAD}, NEW k \in Keys,
         p # HEAD => data[p] < k,
         next[p].to # NULL => k < data[next[p].to]
  PROVE  k \notin Members
<1> SUFFICES ASSUME NEW m \in Chain, data[m] = k PROVE FALSE
  BY DEF Members, ListInv
<1>1. p # HEAD => p \in Chain
  OBVIOUS
<1>2. next[p].to # NULL /\ data[next[p].to] <= data[m]
  BY <1>1 DEF ListInv, Sorted, Chain
<1>3. next[p].to \in Nodes /\ data[next[p].to] \in Int /\ data[m] \in Int
  BY <1>2, ChainFacts, TypeFacts
<1> QED  BY <1>2, <1>3

(* Nor is a larger key than the last one, if the last node is marked. *)
LEMMA NotBehindLast ==
  ASSUME TypeOK, ListInv, NEW p \in Chain \union {HEAD}, NEW k \in Keys,
         NEW c \in Chain, next[p].to = c, next[c].marked, next[c].to = NULL,
         p # HEAD => data[p] < k
  PROVE  k \notin Members
<1> SUFFICES ASSUME NEW m \in Chain, ~next[m].marked, data[m] = k PROVE FALSE
  BY DEF Members, ListInv
<1>1. p # HEAD => p \in Chain
  OBVIOUS
<1>2. data[c] <= data[m] /\ ~(data[c] < data[m])
  BY <1>1 DEF ListInv, Sorted, Chain
<1>3. data[c] \in Int /\ data[m] \in Int
  BY ChainFacts, TypeFacts
<1>4. data[c] = data[m]
  BY <1>2, <1>3
<1>5. c = m
  BY <1>4 DEF ListInv, Sorted, Chain
<1> QED  BY <1>5

(* An unmarked node's key is. *)
LEMMA IsMember ==
  ASSUME NEW n \in Linked, ~next[n].marked
  PROVE  data[n] \in Members
BY DEF Members

(* Steps that write no shared memory *)
LEMMA SameMemory ==
  ASSUME ListInv, OwnInv, NEW t \in Threads,
         UNCHANGED <<live, data, next, new_node, retired_lists_>>
  PROVE  ListInv' /\ OwnInv' /\ Keeps(t, {}) /\ Members' = Members
<1>1. Linked' = Linked /\ Chain' = Chain
  BY DEF Linked, Chain
<1>2. ListInv'
  BY <1>1 DEF ListInv
<1>3. OwnInv'
  BY <1>1 DEF OwnInv
<1>4. Keeps(t, {})
  BY <1>1 DEF Keeps, Kept
<1> QED  BY <1>1, <1>2, <1>3, <1>4 DEF Members

(* Steps that write nothing but memory beside the list *)
LEMMA BesideMemory ==
  ASSUME TypeOK, TypeOK', ListInv, OwnInv, NEW t \in Threads,
         Linked' = Linked,
         \A n \in Linked \union {HEAD} : next'[n] = next[n],
         \A n \in Linked : data'[n] = data[n],
         UNCHANGED retired_lists_,
         \A u \in Threads \ {t} : /\ new_node'[u] = new_node[u]
                                  /\ new_node[u] # NULL =>
                                       /\ new_node[u] \in live'
                                       /\ data'[new_node[u]] = data[new_node[u]],
         new_node'[t] # NULL =>
           /\ new_node'[t] \in live'
           /\ \A u \in Threads \ {t} : new_node[u] # new_node'[t]
  PROVE  ListInv' /\ OwnInv' /\ Keeps(t, {}) /\ Members' = Members
<1>1. Chain \subseteq Linked
  BY DEF ListInv
<1>2. Chain' = Chain
  BY <1>1, TypeFacts, ChainSame DEF Chain, TypeOK, Links
<1>3. Sorted(next', data')
  <2>1. next' \in Links /\ data' \in [Nodes -> Keys]
    BY DEF TypeOK, Links
  <2> QED  BY <1>1, <2>1, TypeFacts, SortedSame DEF Chain, ListInv
<1>4. ListInv'
  BY <1>1, <1>2, <1>3 DEF ListInv
<1>5. OwnInv'
  BY <1>2 DEF OwnInv
<1>6. Keeps(t, {})
  BY DEF Keeps, Kept
<1>7. Members' = Members
  BY DEF Members
<1> QED  BY <1>4, <1>5, <1>6, <1>7

(* new: a node that was free *)
LEMMA Allocate ==
  ASSUME TypeOK, TypeOK', ListInv, OwnInv, NEW t \in Threads, new_node[t] = NULL,
         NEW n \in Nodes \ live, NEW k,
         live' = live \union {n}, data' = [data EXCEPT ![n] = k],
         next' = [next EXCEPT ![n] = unmarked(NULL)],
         new_node' = [new_node EXCEPT ![t] = n],
         UNCHANGED retired_lists_
  PROVE  /\ ListInv' /\ OwnInv' /\ Keeps(t, {}) /\ Members' = Members
         /\ data'[n] = k
<1>1. /\ new_node \in [Threads -> Nodes \union {NULL}] /\ live \subseteq Nodes
      /\ data \in [Nodes -> Keys] /\ next \in [Nodes \union {HEAD} -> Pointers]
  BY DEF TypeOK, HPTypeOK
<1>2. \A u \in Threads : new_node[u] # n /\ (new_node[u] # NULL => new_node[u] \in live)
  BY NodesAssumption DEF OwnInv
<1>3. Linked' = Linked /\ n \notin Linked
  <2>1. {new_node'[u] : u \in Threads} \union {NULL}
          = {new_node[u] : u \in Threads} \union {NULL, n}
    BY <1>1
  <2> QED  BY <1>1, <2>1, NodesAssumption DEF Linked
<1>4. /\ \A m \in Linked \union {HEAD} : next'[m] = next[m]
      /\ \A m \in Linked : data'[m] = data[m]
  BY <1>1, <1>3, TypeFacts
<1>5. \A u \in Threads \ {t} : /\ new_node'[u] = new_node[u]
                               /\ new_node[u] # NULL =>
                                    /\ new_node[u] \in live'
                                    /\ data'[new_node[u]] = data[new_node[u]]
  BY <1>1, <1>2
<1>6. /\ new_node'[t] = n /\ n \in live' /\ data'[n] = k
      /\ \A u \in Threads \ {t} : new_node[u] # n
  BY <1>1, <1>2
<1> QED  BY <1>3, <1>4, <1>5, <1>6, BesideMemory

(* delete new_node *)
LEMMA Discard ==
  ASSUME TypeOK, TypeOK', ListInv, OwnInv, NEW t \in Threads,
         live' = live \ {new_node[t]}, Wipe,
         new_node' = [new_node EXCEPT ![t] = NULL],
         UNCHANGED retired_lists_
  PROVE  ListInv' /\ OwnInv' /\ Keeps(t, {}) /\ Members' = Members
<1>1. /\ new_node \in [Threads -> Nodes \union {NULL}] /\ live \subseteq Nodes
      /\ NULL \notin live
  BY NodesAssumption DEF TypeOK, HPTypeOK
<1>2. \A u \in Threads \ {t} :
        new_node[u] # NULL => new_node[u] \in live /\ new_node[u] # new_node[t]
  BY DEF OwnInv
<1>3. Linked' = Linked
  BY <1>1 DEF Linked
<1>4. Linked \subseteq live'
  BY DEF Linked
<1>5. /\ \A m \in Linked \union {HEAD} : next'[m] = next[m]
      /\ \A m \in Linked : data'[m] = data[m]
  BY <1>1, <1>4 DEF Wipe
<1>6. \A u \in Threads \ {t} : /\ new_node'[u] = new_node[u]
                               /\ new_node[u] # NULL =>
                                    /\ new_node[u] \in live'
                                    /\ data'[new_node[u]] = data[new_node[u]]
  BY <1>1, <1>2 DEF Wipe
<1>7. new_node'[t] = NULL
  BY <1>1
<1> QED  BY <1>3, <1>5, <1>6, <1>7, BesideMemory

(* The new node's pointer is set, and the compare-and-swap fails. *)
LEMMA Prepare ==
  ASSUME TypeOK, TypeOK', ListInv, OwnInv, NEW t \in Threads, new_node[t] # NULL,
         next' = [next EXCEPT ![new_node[t]] = unmarked(cur[t])],
         UNCHANGED <<live, data, new_node, retired_lists_>>
  PROVE  ListInv' /\ OwnInv' /\ Keeps(t, {}) /\ Members' = Members
<1>1. Linked' = Linked /\ new_node[t] \notin Linked /\ new_node[t] \in Nodes
  BY DEF Linked, TypeOK
<1>2. \A m \in Linked \union {HEAD} : next'[m] = next[m]
  BY <1>1, TypeFacts DEF TypeOK
<1>3. \A u \in Threads : new_node[u] # NULL => new_node[u] \in live
  BY DEF OwnInv
<1>4. \A u \in Threads \ {t} : new_node[u] # new_node[t]
  BY DEF OwnInv
<1> QED  BY <1>1, <1>2, <1>3, <1>4, BesideMemory

(* The compare-and-swap that links the new node *)
LEMMA LinkNode ==
  ASSUME TypeOK, TypeOK', ListInv, OwnInv, NEW t \in Threads, new_node[t] # NULL,
         prev[t] \in Linked \union {HEAD}, StillNext(t),
         data[new_node[t]] = key[t],
         prev[t] # HEAD => data[prev[t]] < key[t],
         cur[t] # NULL => key[t] < data[cur[t]],
         next' = [next EXCEPT ![new_node[t]] = unmarked(cur[t]),
                              ![prev[t]] = unmarked(new_node[t])],
         new_node' = [new_node EXCEPT ![t] = NULL],
         UNCHANGED <<live, data, retired_lists_>>
  PROVE  /\ ListInv' /\ OwnInv' /\ Keeps(t, {})
         /\ key[t] \notin Members /\ Members' = Members \union {key[t]}
<1> DEFINE n == new_node[t]
           p == prev[t]
<1>1. /\ next \in Links /\ next' \in Links /\ data \in [Nodes -> Keys]
      /\ live \subseteq Nodes /\ new_node \in [Threads -> Nodes \union {NULL}]
      /\ n \in Nodes /\ n \in live
  BY DEF TypeOK, HPTypeOK, Links, OwnInv
<1>2. /\ p \in Chain \union {HEAD} /\ cur[t] \in Chain \union {NULL}
      /\ next[p].to = cur[t] /\ ~next[p].marked
  <2>1. next[p] = unmarked(cur[t])
    BY DEF StillNext
  <2> QED  BY <2>1, InPlace DEF unmarked
<1>3. n \notin Linked /\ n \notin Chain /\ n # HEAD /\ n # p
  BY <1>1, <1>2, TypeFacts DEF ListInv, Linked
<1>4. Linked' = Linked \union {n}
  <2>1. \A u \in Threads \ {t} : new_node[u] # n
    BY DEF OwnInv
  <2> QED  BY <1>1, <2>1, NodesAssumption DEF Linked
<1>5. /\ next'[p] = unmarked(n) /\ next'[n] = unmarked(cur[t])
      /\ \A m \in Nodes \union {HEAD} : m # n /\ m # p => next'[m] = next[m]
  BY <1>1, <1>2, <1>3, ChainFacts DEF Links
<1>6. /\ next'[p].to = n /\ ~next'[p].marked
      /\ next'[n].to = next[p].to /\ ~next'[n].marked
  BY <1>2, <1>5 DEF unmarked
<1>7. \A m \in Chain \union {HEAD} : m # p => next'[m].to = next[m].to
  BY <1>3, <1>5, ChainFacts
<1>8. Chain' = Chain \union {n} /\ Sorted(next', data')
  <2>1. Sorted(next, data)
    BY DEF ListInv
  <2>2. p # HEAD => data[p] < data[n]
    OBVIOUS
  <2>3. next[p].to # NULL => data[n] < data[next[p].to]
    BY <1>2
  <2>4. p \in ChainOf(next) \union {HEAD} /\ n \in Nodes \ ChainOf(next)
    BY <1>1, <1>2, <1>3 DEF Chain
  <2>5. \A m \in ChainOf(next) \union {HEAD} : m # p => next'[m].to = next[m].to
    BY <1>7 DEF Chain
  <2> HIDE DEF n, p
  <2>6. ChainOf(next') = ChainOf(next) \union {n}
    BY ONLY <1>1, <1>6, <2>4, <2>5, ChainInsert
  <2>7. Sorted(next', data)
    BY ONLY <1>1, <1>6, <2>1, <2>2, <2>3, <2>4, <2>5, SortedInsert
  <2> QED  BY <2>6, <2>7 DEF Chain
<1>9. ListInv'
  <2>1. ~next'[HEAD].marked
    BY <1>3, <1>5, <1>6 DEF ListInv
  <2>2. \A m \in Linked' : ~next'[m].marked => m \in Chain'
    <3> TAKE m \in Linked'
    <3>1. CASE m = n \/ m = p
      BY <1>2, <1>4, <1>8, <3>1, TypeFacts
    <3>2. CASE m # n /\ m # p
      BY <1>1, <1>4, <1>5, <1>8, <3>2, TypeFacts DEF ListInv
    <3> QED  BY <3>1, <3>2
  <2> QED  BY <1>4, <1>8, <2>1, <2>2 DEF ListInv
<1>10. OwnInv'
  <2>1. Linked' \ Chain' = Linked \ Chain
    BY <1>3, <1>4, <1>8
  <2>2. \A u \in Threads : new_node'[u] \in {NULL, new_node[u]}
    BY <1>1
  <2> QED  BY <2>1, <2>2 DEF OwnInv
<1>11. Keeps(t, {})
  BY <1>2, <1>3, <1>4, <1>5, TypeFacts DEF Keeps, Kept
<1>12. key[t] \notin Members
  <2>1. key[t] \in Keys
    BY DEF TypeOK
  <2> QED  BY <1>2, <2>1, NotMember
<1>13. Members' = Members \union {key[t]}
  <2>1. \A m \in Linked' : ~next'[m].marked <=> m = n \/ ~next[m].marked
    BY <1>1, <1>2, <1>4, <1>5, <1>6, TypeFacts
  <2> QED  BY <1>3, <1>4, <2>1 DEF Members
<1> QED  BY <1>9, <1>10, <1>11, <1>12, <1>13

(* The compare-and-swap that marks a node *)
LEMMA MarkNode ==
  ASSUME TypeOK, TypeOK', ListInv, OwnInv, NEW t \in Threads,
         cur[t] \in Linked, next[cur[t]] = unmarked(succ[t]), data[cur[t]] = key[t],
         next' = [next EXCEPT ![cur[t]] = mark(succ[t])],
         UNCHANGED <<live, data, new_node, retired_lists_>>
  PROVE  /\ ListInv' /\ OwnInv' /\ Keeps(t, {})
         /\ key[t] \in Members /\ Members' = Members \ {key[t]}
<1> DEFINE c == cur[t]
<1>1. /\ next \in Links /\ next' \in Links /\ c \in Nodes
      /\ data \in [Nodes -> Keys] /\ Linked' = Linked /\ Linked \subseteq Nodes
  BY TypeFacts DEF TypeOK, Links, Linked
<1>2. /\ next'[c] = mark(succ[t]) /\ next'[c].to = next[c].to
      /\ next'[c].marked /\ ~next[c].marked
      /\ \A m \in Nodes \union {HEAD} : m # c => next'[m] = next[m]
  BY <1>1 DEF Links, mark, unmarked
<1>3. c \in Chain /\ c # HEAD
  BY <1>1, <1>2, TypeFacts DEF ListInv
<1>4. \A m \in Nodes \union {HEAD} : next'[m].to = next[m].to
  BY <1>2
<1>5. Chain' = Chain
  BY <1>1, <1>4, ChainFacts, ChainSame DEF Chain
<1>6. Sorted(next', data')
  BY <1>1, <1>4, ChainFacts, SortedSame DEF Chain, ListInv
<1>7. ListInv'
  BY <1>1, <1>2, <1>3, <1>5, <1>6 DEF ListInv
<1>8. OwnInv'
  BY <1>1, <1>5 DEF OwnInv
<1>9. Keeps(t, {})
  BY <1>1, <1>2 DEF Keeps, Kept
<1>10. key[t] \in Members
  BY <1>2, IsMember
<1>11. Members' = Members \ {key[t]}
  <2>1. \A m \in Linked : ~next[m].marked /\ data[m] = key[t] => m = c
    BY <1>3 DEF ListInv, Sorted, Chain
  <2>2. \A m \in Linked' : ~next'[m].marked <=> m # c /\ ~next[m].marked
    BY <1>1, <1>2
  <2> QED  BY <1>1, <2>1, <2>2 DEF Members
<1> QED  BY <1>7, <1>8, <1>9, <1>10, <1>11

(* The compare-and-swap that takes a marked node out of the chain *)
LEMMA UnlinkNode ==
  ASSUME TypeOK, TypeOK', ListInv, OwnInv, NEW t \in Threads,
         prev[t] \in Linked \union {HEAD}, StillNext(t),
         cur[t] \in Linked, next[cur[t]] = mark(succ[t]),
         next' = [next EXCEPT ![prev[t]] = unmarked(succ[t])],
         retired_lists_' = [retired_lists_ EXCEPT ![t] = @ \union {cur[t]}],
         UNCHANGED <<live, data, new_node>>
  PROVE  /\ ListInv' /\ OwnInv' /\ Keeps(t, {}) /\ Members' = Members
         /\ prev[t] \in Chain \union {HEAD} /\ next'[prev[t]].to = succ[t]
         /\ prev[t] \in Chain' \union {HEAD}
<1> DEFINE c == cur[t]
           p == prev[t]
<1>1. /\ next \in Links /\ next' \in Links /\ c \in Nodes /\ c # NULL
      /\ data \in [Nodes -> Keys] /\ Linked' = Linked /\ Linked \subseteq Nodes
      /\ retired_lists_ \in [Threads -> SUBSET Nodes]
  BY TypeFacts DEF TypeOK, HPTypeOK, Links, Linked
<1>2. p \in Chain \union {HEAD} /\ c \in Chain /\ next[p].to = c /\ ~next[p].marked
  <2>1. next[p] = unmarked(c)
    BY DEF StillNext
  <2> QED  BY <1>1, <2>1, InPlace DEF unmarked
<1>3. next[c].marked /\ next[c].to = succ[t] /\ p # c
  BY <1>2 DEF mark
<1>4. /\ next'[p] = unmarked(succ[t]) /\ next'[p].to = next[c].to /\ ~next'[p].marked
      /\ \A m \in Nodes \union {HEAD} : m # p => next'[m] = next[m]
  BY <1>1, <1>2, <1>3, ChainFacts DEF Links, unmarked
<1>5. Chain' = Chain \ {c} /\ Sorted(next', data')
  <2>1. Sorted(next, data)
    BY DEF ListInv
  <2>2. \A m \in Nodes \union {HEAD} : m # p => next'[m].to = next[m].to
    BY <1>4
  <2> HIDE DEF c, p
  <2>3. p \in ChainOf(next) \union {HEAD} /\ c \in ChainOf(next)
    BY <1>2 DEF Chain
  <2>4. ChainOf(next') = ChainOf(next) \ {c} /\ Sorted(next', data)
    BY ONLY <1>1, <1>2, <1>4, <2>1, <2>2, <2>3, SortedRemove
  <2> QED  BY <2>4 DEF Chain
<1>6. \A m \in Linked \union {HEAD} : next'[m].marked <=> next[m].marked
  BY ONLY <1>1, <1>2, <1>4
<1>7. ListInv'
  BY <1>1, <1>3, <1>5, <1>6 DEF ListInv
<1>8. OwnInv'
  <2>1. \A u \in Threads : c \notin retired_lists_[u]
    BY <1>2 DEF OwnInv
  <2>2. \A u \in Threads : retired_lists_'[u]
                             = IF u = t THEN retired_lists_[u] \union {c}
                               ELSE retired_lists_[u]
    BY <1>1
  <2>3. Linked' \ Chain' = (Linked \ Chain) \union {c}
    BY <1>1, <1>5
  <2> HIDE DEF c
  <2>4. \A u \in Threads : /\ retired_lists_'[u] \subseteq Linked' \ Chain'
                           /\ new_node'[u] # NULL => new_node'[u] \in live'
    <3> TAKE u \in Threads
    <3>1. retired_lists_[u] \subseteq Linked \ Chain
      BY DEF OwnInv
    <3>2. retired_lists_'[u] \subseteq retired_lists_[u] \union {c}
      BY <2>2
    <3>3. retired_lists_'[u] \subseteq Linked' \ Chain'
      BY <2>3, <3>1, <3>2
    <3> QED  BY <3>3 DEF OwnInv
  <2>5. \A m \in Linked' \ Chain' : \E u \in Threads : m \in retired_lists_'[u]
    BY ONLY <2>2, <2>3, OwnInv, t \in Threads DEF OwnInv
  <2>6. \A u, v \in Threads : u # v =>
          /\ retired_lists_'[u] \intersect retired_lists_'[v] = {}
          /\ new_node'[u] # NULL => new_node'[u] # new_node'[v]
    <3> SUFFICES ASSUME NEW u \in Threads, NEW v \in Threads, u # v
                 PROVE  /\ retired_lists_'[u] \intersect retired_lists_'[v] = {}
                        /\ new_node'[u] # NULL => new_node'[u] # new_node'[v]
      OBVIOUS
    <3>1. /\ retired_lists_[u] \intersect retired_lists_[v] = {}
          /\ new_node[u] # NULL => new_node[u] # new_node[v]
      BY DEF OwnInv
    <3>2. c \notin retired_lists_[u] /\ c \notin retired_lists_[v]
      BY <2>1
    <3>3. /\ retired_lists_'[u] = IF u = t THEN retired_lists_[u] \union {c}
                                 ELSE retired_lists_[u]
          /\ retired_lists_'[v] = IF v = t THEN retired_lists_[v] \union {c}
                                 ELSE retired_lists_[v]
      BY <2>2
    <3> QED  BY <3>1, <3>2, <3>3
  <2> QED  BY <2>4, <2>5, <2>6 DEF OwnInv
<1>9. Keeps(t, {})
  BY <1>1, <1>2, <1>4 DEF Keeps, Kept
<1>10. Members' = Members
  BY <1>1, <1>6 DEF Members
<1> QED  BY <1>2, <1>3, <1>4, <1>5, <1>7, <1>8, <1>9, <1>10

(* delete, for the retired nodes that the scan has not found *)
LEMMA FreeRetired ==
  ASSUME TypeOK, TypeOK', ListInv, OwnInv, NEW t \in Threads,
         live' = live \ Reclaimable(t), Wipe,
         retired_lists_' = [retired_lists_ EXCEPT ![t] = @ \ Reclaimable(t)],
         UNCHANGED new_node
  PROVE  ListInv' /\ OwnInv' /\ Keeps(t, Reclaimable(t)) /\ Members' = Members
<1> DEFINE R == Reclaimable(t)
<1>1. /\ next \in Links /\ next' \in Links /\ data \in [Nodes -> Keys]
      /\ data' \in [Nodes -> Keys] /\ live \subseteq Nodes
      /\ retired_lists_ \in [Threads -> SUBSET Nodes]
  BY DEF TypeOK, HPTypeOK, Links
<1>2. R \subseteq retired_lists_[t] /\ R \subseteq Linked \ Chain
  BY DEF OwnInv, Reclaimable
<1>3. Linked' = Linked \ R
  BY DEF Linked
<1>4. /\ \A m \in (Linked \ R) \union {HEAD} : next'[m] = next[m]
      /\ \A m \in Linked \ R : data'[m] = data[m]
  BY <1>1, TypeFacts DEF Wipe, Linked
<1>5. Chain \subseteq Linked \ R
  BY <1>2 DEF ListInv
<1>6. Chain' = Chain
  BY <1>1, <1>4, <1>5, ChainSame DEF Chain
<1>7. Sorted(next', data')
  BY <1>1, <1>4, <1>5, SortedSame DEF Chain, ListInv
<1>8. ListInv'
  BY <1>3, <1>4, <1>5, <1>6, <1>7 DEF ListInv
<1>9. \A u \in Threads : new_node[u] # NULL => new_node[u] \in live' /\ new_node[u] \in live
  BY <1>2 DEF OwnInv, Linked
<1>10. OwnInv'
  <2>1. \A u \in Threads : retired_lists_'[u] = retired_lists_[u] \ R
    <3>1. \A u \in Threads \ {t} : retired_lists_[u] \intersect R = {}
      BY <1>2 DEF OwnInv
    <3> QED  BY <1>1, <3>1
  <2> HIDE DEF R
  <2> QED  BY <1>3, <1>6, <1>9, <2>1 DEF OwnInv
<1>11. Keeps(t, R)
  BY <1>1, <1>3, <1>4, <1>9 DEF Keeps, Kept, Wipe
<1>12. Members' = Members
  <2>1. \A m \in R : next[m].marked
    BY <1>2 DEF ListInv
  <2> HIDE DEF R
  <2> QED  BY <1>3, <1>4, <2>1 DEF Members
<1> QED  BY <1>8, <1>10, <1>11, <1>12

-----------------------------------------------------------------------------
(* What a step of one thread does to the others *)

(* A thread writes nobody else's variables. *)
OthersWait(t) ==
  \A u \in Threads \ {t} :
    /\ pc'[u] = pc[u] /\ op'[u] = op[u] /\ key'[u] = key[u]
    /\ prev'[u] = prev[u] /\ cur'[u] = cur[u] /\ succ'[u] = succ[u]
    /\ new_node'[u] = new_node[u] /\ result'[u] = result[u]
    /\ hazard_pointers'[u] = hazard_pointers[u] /\ slot'[u] = slot[u]
    /\ retired_lists_'[u] = retired_lists_[u] /\ active_list'[u] = active_list[u]

(* The hazard pointers' record and the retired list are the thread's own,  *)
(* and so is the LookupContext.                                            *)
LEMMA StepOthers ==
  ASSUME TypeOK, NEW t \in Threads, Invoke(t) \/ Step(t)
  PROVE  OthersWait(t)
<1> USE DEF TypeOK, HPTypeOK, OthersWait, Goto, hpVars, memVars, ctxVars, callVars,
            Leave, DropContext
<1>1. CASE Invoke(t)
  BY <1>1 DEF Invoke
<1>2. CASE try_again(t)
  BY <1>2 DEF try_again
<1>3. CASE Loop(t)
  BY <1>3 DEF Loop, LookupReturns, Announce
<1>4. CASE Check(t)
  BY <1>4 DEF Check
<1>5. CASE ReadNext(t)
  BY <1>5 DEF ReadNext
<1>6. CASE Unlink(t)
  BY <1>6 DEF Unlink, Retire, retireNode
<1>7. CASE Compare(t)
  BY <1>7 DEF Compare, LookupReturns
<1>8. CASE Swap0(t)
  BY <1>8 DEF Swap0, Announce
<1>9. CASE Swap1(t)
  BY <1>9 DEF Swap1, Announce
<1>10. CASE Link(t)
  BY <1>10, ZenonT(60) DEF Link
<1>11. CASE Mark(t)
  BY <1>11, ZenonT(60) DEF Mark, MarkFailed
<1>12. CASE Delete(t)
  BY <1>12 DEF Delete, DeleteFailed, Retire, retireNode
<1>13. CASE Scan(t)
  BY <1>13 DEF Scan, ScanSlot, FreeNodes
<1>14. CASE Return(t)
  BY <1>14 DEF Return
<1> QED
  BY <1>1, <1>2, <1>3, <1>4, <1>5, <1>6, <1>7, <1>8, <1>9, <1>10, <1>11, <1>12,
     <1>13, <1>14 DEF Step

(* What an open call has seen includes the present. *)
LEMMA Observed ==
  ASSUME NEW t \in Threads, Observe
  PROVE  /\ op'[t] = "none" => was'[t] = {}
         /\ op'[t] # "none" /\ result[t] = {} =>
              /\ was[t] \subseteq was'[t]
              /\ key'[t] \in Members' => TRUE \in was'[t]
              /\ key'[t] \notin Members' => FALSE \in was'[t]
<1>1. was'[t] = IF op'[t] = "none" THEN {}
                ELSE IF result[t] # {} THEN was[t]
                ELSE was[t] \union {key'[t] \in Members'}
  BY DEF Observe
<1>2. /\ key'[t] \in Members' => (key'[t] \in Members') = TRUE
      /\ key'[t] \notin Members' => (key'[t] \in Members') = FALSE
  OBVIOUS
<1> QED  BY <1>1, <1>2

(* The steps of t disturb nothing that another thread relies on, if they   *)
(* free nothing it has in use.                                             *)
LEMMA OtherThread ==
  ASSUME TypeOK, NEW t \in Threads, NEW u \in Threads \ {t}, OthersWait(t), Observe,
         NEW freed, Keeps(t, freed), InUse(u) \intersect freed = {},
         CallInv(u), ContextInv(u), SeenInv(u), Announced(u)
  PROVE  CallInv(u)' /\ ContextInv(u)' /\ SeenInv(u)' /\ Announced(u)'
<1>1. /\ pc'[u] = pc[u] /\ op'[u] = op[u] /\ key'[u] = key[u]
      /\ prev'[u] = prev[u] /\ cur'[u] = cur[u] /\ succ'[u] = succ[u]
      /\ new_node'[u] = new_node[u] /\ result'[u] = result[u]
      /\ hazard_pointers'[u] = hazard_pointers[u] /\ slot'[u] = slot[u]
  BY DEF OthersWait
<1>2. new_node[u] # NULL => data'[new_node[u]] = data[new_node[u]]
  BY DEF Keeps
<1>3. prev[u] # HEAD => Kept(prev[u])
  BY DEF Keeps, InUse, ContextInv
<1>4. pc[u] \in HoldsCur /\ cur[u] # NULL => cur[u] \in Linked /\ Kept(cur[u])
  BY DEF Keeps, InUse, ContextInv
<1>5. cur[u] = NULL => pc[u] \notin DerefsCur
  BY DEF TypeOK
<1>6. CallInv(u)'
  BY <1>1, <1>2 DEF CallInv
<1>7. ContextInv(u)'
  <2>1. /\ prev[u] \in Linked' \union {HEAD}
        /\ prev[u] # HEAD => data'[prev[u]] < key[u]
    BY <1>3 DEF ContextInv, Kept
  <2>2. pc[u] \in HoldsCur =>
          cur[u] \in Linked' \/ (pc[u] = "link" /\ cur[u] = NULL)
    BY <1>4, TypeFacts DEF ContextInv, Kept
  <2>3. pc[u] \in {"unlink", "delete"} => next'[cur[u]] = mark(succ[u])
    BY <1>4, <1>5 DEF ContextInv, Kept, HoldsCur, DerefsCur, mark
  <2>4. pc[u] \in {"mark", "delete"} => data'[cur[u]] = key[u]
    BY <1>4, <1>5 DEF ContextInv, Kept, HoldsCur, DerefsCur
  <2>5. pc[u] = "link" /\ cur[u] # NULL => key[u] < data'[cur[u]]
    BY <1>4 DEF ContextInv, Kept, HoldsCur
  <2> QED  BY <1>1, <2>1, <2>2, <2>3, <2>4, <2>5 DEF ContextInv, mark
<1>8. SeenInv(u)'
  <2>1. pc[u] = "compare" => data'[cur[u]] = data[cur[u]]
    BY <1>4, <1>5 DEF Kept, HoldsCur, DerefsCur
  <2> QED  BY <1>1, <2>1, Observed DEF SeenInv
<1>9. Announced(u)'
  BY <1>1 DEF Announced, Scanning
<1> QED  BY <1>6, <1>7, <1>8, <1>9

(* A thread that is not in the middle of its swap has announced all the    *)
(* nodes it relies on.                                                     *)
LEMMA AllAnnounced ==
  ASSUME NEW t \in Threads, ContextInv(t)', Announced(t)', pc'[t] # "swap1",
         NEW n \in InUse(t)' \intersect Nodes
  PROVE  \E j \in Slots : hazard_pointers'[t][j] = n
<1>1. 0 \in Slots /\ 1 \in Slots /\ n # NULL /\ n # HEAD
  BY NodesAssumption, HeadAssumption DEF Slots, NUM_PTRS
<1> QED  BY <1>1 DEF InUse, ContextInv, Announced, HoldsCur

(* So a scan that starts will find them all. *)
LEMMA ScanStarts ==
  ASSUME TypeOK', NEW t \in Threads, slot'[t] = 0, SwapUnseen',
         \A u \in Threads : ContextInv(u)' /\ Announced(u)'
  PROVE  \A u \in Threads : Found(t, u)'
<1> SUFFICES ASSUME NEW u \in Threads, Scanning(t)',
                    NEW n \in retired_lists_'[t] \intersect InUse(u)'
             PROVE  \E j \in Slots : hazard_pointers'[u][j] = n /\ slot'[t] <= 2 * u + j
  BY DEF Found
<1>1. pc'[u] # "swap1" /\ n \in Nodes
  BY DEF SwapUnseen, TypeOK, HPTypeOK
<1>2. PICK j \in Slots : hazard_pointers'[u][j] = n
  BY <1>1, AllAnnounced
<1>3. 0 <= 2 * u + j
  BY ThreadsAssumption DEF Threads, Slots, NUM_PTRS
<1> QED  BY <1>2, <1>3

(* The other threads' scans keep finding what t relies on. *)
LEMMA StillFound ==
  ASSUME TypeOK, OwnInv, NEW t \in Threads, OthersWait(t),
         \A u \in Threads : Found(u, t),
         hazard_pointers'[t] = hazard_pointers[t],
         InUse(t)' \subseteq InUse(t) \union Chain \union {HEAD, NULL}
  PROVE  \A u \in Threads \ {t} : Found(u, t)'
<1> TAKE u \in Threads \ {t}
<1>1. retired_lists_[u] \subseteq Nodes \ Chain
  BY DEF OwnInv, TypeOK, HPTypeOK
<1>2. /\ Scanning(u)' = Scanning(u) /\ retired_lists_'[u] = retired_lists_[u]
      /\ active_list'[u] = active_list[u] /\ slot'[u] = slot[u]
  BY DEF OthersWait, Scanning
<1>3. retired_lists_'[u] \intersect InUse(t)' \subseteq retired_lists_[u] \intersect InUse(t)
  BY <1>1, <1>2, NodesAssumption, HeadAssumption
<1>4. SUFFICES ASSUME Scanning(u), NEW n \in retired_lists_[u] \intersect InUse(t)
      PROVE  n \in active_list[u]
               \/ \E j \in Slots : hazard_pointers[t][j] = n /\ slot[u] <= 2 * t + j
  BY <1>2, <1>3 DEF Found
<1> QED  BY <1>4 DEF Found

-----------------------------------------------------------------------------
(* The steps, one by one *)

(* What is to be shown of a step of t that frees the nodes in freed *)
StepInv(t, freed) ==
  /\ ListInv' /\ OwnInv' /\ Keeps(t, freed)
  /\ CallInv(t)' /\ ContextInv(t)' /\ SeenInv(t)' /\ Announced(t)'
  /\ \A u \in Threads : Found(t, u)'
  /\ \A u \in Threads \ {t} : Found(u, t)'

(* A step of the abstract set, or none *)
AbstractStep(t) ==
  \/ AbstractSet!Call(t) \/ AbstractSet!Effect(t)
  \/ AbstractSet!Answer(t) \/ AbstractSet!Return(t)
  \/ UNCHANGED <<Members, op, key, result>>

(* While a thread does not scan there is nothing to find. *)
LEMMA NoScan ==
  ASSUME NEW t \in Threads, pc'[t] \notin {"scan", "lastScan"}
  PROVE  \A u \in Threads : Found(t, u)'
BY DEF Found, Scanning

(* A call that starts over, or waits to, has no node in use. *)
LEMMA FreshContext ==
  ASSUME NEW t \in Threads, prev'[t] = HEAD, pc'[t] \in Places \ (HoldsCur \union {"check"}),
         ~Scanning(t)' => slot'[t] = 0
  PROVE  ContextInv(t)' /\ Announced(t)' /\ InUse(t)' \subseteq {HEAD}
BY DEF ContextInv, Announced, InUse, HoldsCur

(* try_again: from head_ *)
LEMMA TryAgainStep ==
  ASSUME IInv, TypeOK', NEW t \in Threads, try_again(t), Observe, OthersWait(t)
  PROVE  StepInv(t, {}) /\ AbstractStep(t)
<1> USE DEF IInv
<1>1. /\ pc[t] = "try_again" /\ pc'[t] = "loop" /\ prev'[t] = HEAD
      /\ cur'[t] = next[HEAD].to
      /\ UNCHANGED <<live, data, next, new_node, retired_lists_, op, key, result,
                     hazard_pointers, slot>>
  BY DEF try_again, TypeOK, Goto, hpVars, memVars, callVars
<1>2. ListInv' /\ OwnInv' /\ Keeps(t, {}) /\ Members' = Members
  BY <1>1, SameMemory
<1>3. CallInv(t)'
  BY <1>1 DEF CallInv
<1>4. ContextInv(t)' /\ Announced(t)' /\ InUse(t)' \subseteq {HEAD}
  BY <1>1, FreshContext DEF Places, HoldsCur, Announced, Scanning
<1>5. SeenInv(t)'
  <2>1. next[HEAD].to = NULL => key[t] \notin Members
    BY NotMember DEF TypeOK
  <2> QED  BY <1>1, <1>2, <2>1, Observed DEF SeenInv
<1>6. \A u \in Threads : Found(t, u)'
  BY <1>1, NoScan
<1>7. \A u \in Threads \ {t} : Found(u, t)'
  BY <1>1, <1>4, StillFound
<1> QED  BY <1>1, <1>2, <1>3, <1>4, <1>5, <1>6, <1>7 DEF StepInv, AbstractStep

(* The lookup asks whether *prev is still cur. *)
LEMMA CheckStep ==
  ASSUME IInv, TypeOK', NEW t \in Threads, Check(t), Observe, OthersWait(t)
  PROVE  StepInv(t, {}) /\ AbstractStep(t)
<1> USE DEF IInv
<1>1. /\ pc[t] = "check" /\ key' = key
      /\ \/ pc'[t] = "next" /\ StillNext(t) /\ UNCHANGED <<prev, cur, succ>>
         \/ pc'[t] = "try_again" /\ prev'[t] = HEAD
      /\ UNCHANGED <<live, data, next, new_node, retired_lists_, op, result,
                     hazard_pointers, slot>>
  BY DEF Check, Validated, TypeOK, Goto, Leave, DropContext, hpVars, memVars,
         ctxVars, callVars
<1>2. ListInv' /\ OwnInv' /\ Keeps(t, {}) /\ Members' = Members /\ Linked' = Linked
  BY <1>1, SameMemory DEF Linked
<1>3. CallInv(t)'
  BY <1>1 DEF CallInv
<1>4. /\ ContextInv(t)' /\ Announced(t)'
      /\ InUse(t)' \subseteq InUse(t) \union Chain \union {HEAD, NULL}
  <2>1. CASE pc'[t] = "next" /\ StillNext(t) /\ UNCHANGED <<prev, cur, succ>>
    <3>1. cur[t] \in Chain
      <4>1. prev[t] \in Linked \union {HEAD} /\ cur[t] # NULL
        BY <1>1 DEF ContextInv, TypeOK, DerefsCur
      <4> QED  BY <2>1, <4>1, InPlace DEF StillNext
    <3>2. cur[t] \in Linked
      BY <3>1 DEF ListInv
    <3> QED  BY <1>1, <1>2, <2>1, <3>1, <3>2
               DEF ContextInv, Announced, InUse, HoldsCur, Scanning
  <2>2. CASE pc'[t] = "try_again" /\ prev'[t] = HEAD
    BY <1>1, <2>2, FreshContext DEF Places, HoldsCur, Announced, Scanning
  <2> QED  BY <1>1, <2>1, <2>2
<1>5. SeenInv(t)'
  BY <1>1, <1>2, Observed DEF SeenInv
<1>6. \A u \in Threads : Found(t, u)'
  BY <1>1, NoScan
<1>7. \A u \in Threads \ {t} : Found(u, t)'
  BY <1>1, <1>4, StillFound
<1> QED  BY <1>1, <1>2, <1>3, <1>4, <1>5, <1>6, <1>7 DEF StepInv, AbstractStep

(* It reads the successor and the mark of a node that cannot go away. *)
LEMMA ReadNextStep ==
  ASSUME IInv, TypeOK', NEW t \in Threads, ReadNext(t), Observe, OthersWait(t)
  PROVE  StepInv(t, {}) /\ AbstractStep(t)
<1> USE DEF IInv
<1>1. /\ pc[t] = "next" /\ succ'[t] = next[cur[t]].to
      /\ pc'[t] = IF next[cur[t]].marked THEN "unlink" ELSE "compare"
      /\ UNCHANGED <<live, data, next, new_node, retired_lists_, op, key, result,
                     hazard_pointers, slot, prev, cur>>
  BY DEF ReadNext, TypeOK, Goto, hpVars, memVars, callVars
<1>2. ListInv' /\ OwnInv' /\ Keeps(t, {}) /\ Members' = Members /\ Linked' = Linked
  BY <1>1, SameMemory DEF Linked
<1>3. CallInv(t)'
  BY <1>1 DEF CallInv
<1>4. cur[t] \in Linked /\ cur[t] # HEAD /\ next[cur[t]] \in Pointers
  BY <1>1, TypeFacts DEF ContextInv, HoldsCur, TypeOK
<1>5. ContextInv(t)'
  <2>1. next[cur[t]].marked => next[cur[t]] = mark(next[cur[t]].to)
    BY <1>4 DEF Pointers, mark
  <2> QED  BY <1>1, <1>2, <1>4, <2>1 DEF ContextInv, HoldsCur, mark
<1>6. Announced(t)' /\ InUse(t)' \subseteq InUse(t)
  BY <1>1 DEF Announced, InUse, HoldsCur, Scanning
<1>7. SeenInv(t)'
  <2>1. ~next[cur[t]].marked /\ data[cur[t]] = key[t] => key[t] \in Members
    BY <1>4, IsMember
  <2>2. /\ ~next[cur[t]].marked /\ next[cur[t]].to = NULL /\ data[cur[t]] < key[t]
        => key[t] \notin Members
    BY <1>4, NotMember DEF ListInv, TypeOK
  <2> QED  BY <1>1, <1>2, <2>1, <2>2, Observed DEF SeenInv
<1>8. \A u \in Threads : Found(t, u)'
  BY <1>1, NoScan
<1>9. \A u \in Threads \ {t} : Found(u, t)'
  BY <1>1, <1>6, StillFound
<1> QED  BY <1>1, <1>2, <1>3, <1>5, <1>6, <1>7, <1>8, <1>9 DEF StepInv, AbstractStep

(* A marked node is taken out and retired. *)
LEMMA UnlinkStep ==
  ASSUME IInv, TypeOK', NEW t \in Threads, Unlink(t), Observe, OthersWait(t),
         SwapUnseen'
  PROVE  StepInv(t, {}) /\ AbstractStep(t)
<1> USE DEF IInv
<1>1. /\ pc[t] = "unlink" /\ slot[t] = 0 /\ cur[t] \in Linked /\ cur[t] # HEAD
      /\ next[cur[t]] = mark(succ[t]) /\ prev[t] \in Linked \union {HEAD}
      /\ UNCHANGED <<live, data, new_node, op, key, result, hazard_pointers, slot>>
  BY TypeFacts DEF Unlink, Retire, Announced, Scanning, ContextInv, HoldsCur, hpVars, callVars
<1>2. CASE ~StillNext(t)
  <2>1. /\ pc'[t] = "try_again" /\ prev'[t] = HEAD
        /\ UNCHANGED <<next, retired_lists_>>
    BY <1>2 DEF Unlink, Leave, Goto, DropContext, hpVars, TypeOK
  <2>2. ListInv' /\ OwnInv' /\ Keeps(t, {}) /\ Members' = Members
    BY <1>1, <2>1, SameMemory
  <2>3. CallInv(t)'
    BY <1>1, <2>1 DEF CallInv
  <2>4. ContextInv(t)' /\ Announced(t)' /\ InUse(t)' \subseteq {HEAD}
    BY <1>1, <2>1, FreshContext DEF Places, HoldsCur
  <2>5. SeenInv(t)'
    BY <1>1, <2>1, <2>2, Observed DEF SeenInv
  <2>6. \A u \in Threads : Found(t, u)'
    BY <2>1, NoScan
  <2>7. \A u \in Threads \ {t} : Found(u, t)'
    BY <1>1, <2>4, StillFound
  <2> QED  BY <1>1, <2>2, <2>3, <2>4, <2>5, <2>6, <2>7 DEF StepInv, AbstractStep
<1>3. CASE StillNext(t)
  <2>1. /\ pc'[t] \in {"loop", "scan"} /\ cur'[t] = succ[t]
        /\ UNCHANGED <<prev, succ>>
        /\ next' = [next EXCEPT ![prev[t]] = unmarked(succ[t])]
        /\ retired_lists_' = [retired_lists_ EXCEPT ![t] = @ \union {cur[t]}]
    BY <1>3 DEF Unlink, Retire, retireNode, Goto, TypeOK
  <2>2. /\ ListInv' /\ OwnInv' /\ Keeps(t, {}) /\ Members' = Members
        /\ prev[t] \in Chain \union {HEAD}
    BY <1>1, <1>3, <2>1, UnlinkNode
  <2>3. CallInv(t)'
    BY <1>1, <2>1 DEF CallInv
  <2>4. ContextInv(t)' /\ Announced(t)' /\ InUse(t)' \subseteq InUse(t)
    <3>1. prev[t] # HEAD => Kept(prev[t])
      BY <1>1, <2>2 DEF Keeps
    <3> QED  BY <1>1, <2>1, <3>1 DEF ContextInv, Announced, InUse, HoldsCur, Kept
  <2>5. SeenInv(t)'
    <3>1. succ[t] = NULL => key[t] \notin Members
      <4>1. cur[t] \in Chain /\ next[prev[t]].to = cur[t]
        <5>1. next[prev[t]] = unmarked(cur[t])
          BY <1>3 DEF StillNext
        <5>2. cur[t] # NULL
          BY <1>1, TypeFacts
        <5> QED  BY <1>1, <5>1, <5>2, InPlace
      <4>2. next[cur[t]].marked /\ next[cur[t]].to = succ[t]
        BY <1>1 DEF mark
      <4>3. prev[t] # HEAD => data[prev[t]] < key[t]
        BY DEF ContextInv
      <4> QED  BY <2>2, <4>1, <4>2, <4>3, NotBehindLast DEF TypeOK
    <3> QED  BY <1>1, <2>1, <2>2, <3>1, Observed DEF SeenInv
  <2>6. \A u \in Threads : Found(t, u)'
    <3>1. \A u \in Threads \ {t} : ContextInv(u)' /\ Announced(u)'
      BY <2>2, OtherThread
    <3> QED  BY <1>1, <2>4, <3>1, ScanStarts
  <2>7. \A u \in Threads \ {t} : Found(u, t)'
    BY <1>1, <2>4, StillFound
  <2> QED  BY <1>1, <2>2, <2>3, <2>4, <2>5, <2>6, <2>7 DEF StepInv, AbstractStep
<1> QED  BY <1>2, <1>3

(* The first write of the swap: nobody scans before the second one. *)
LEMMA Swap0Step ==
  ASSUME IInv, TypeOK', NEW t \in Threads, Swap0(t), Observe, OthersWait(t),
         SwapUnseen'
  PROVE  StepInv(t, {}) /\ AbstractStep(t)
<1> USE DEF IInv
<1>1. /\ pc[t] = "swap0" /\ pc'[t] = "swap1"
      /\ UNCHANGED <<live, data, next, new_node, retired_lists_, op, key, result,
                     slot, prev, cur, succ>>
  BY DEF Swap0, TypeOK, Goto, memVars, ctxVars, callVars
<1>2. ListInv' /\ OwnInv' /\ Keeps(t, {}) /\ Members' = Members /\ Linked' = Linked
  BY <1>1, SameMemory DEF Linked
<1>3. CallInv(t)' /\ ContextInv(t)' /\ Announced(t)'
  BY <1>1, <1>2 DEF CallInv, ContextInv, Announced, HoldsCur, Scanning
<1>4. SeenInv(t)'
  BY <1>1, <1>2, Observed DEF SeenInv
<1>5. \A u \in Threads : Found(t, u)' /\ Found(u, t)'
  BY <1>1 DEF SwapUnseen, Found, Scanning
<1> QED  BY <1>1, <1>2, <1>3, <1>4, <1>5 DEF StepInv, AbstractStep

(* The second write, and prev is announced again. *)
LEMMA Swap1Step ==
  ASSUME IInv, TypeOK', NEW t \in Threads, Swap1(t), Observe, OthersWait(t),
         SwapUnseen
  PROVE  StepInv(t, {}) /\ AbstractStep(t)
<1> USE DEF IInv
<1>1. /\ pc[t] = "swap1" /\ pc'[t] = "loop" /\ cur'[t] = succ[t]
      /\ hazard_pointers'[t][1] = cur[t]
      /\ UNCHANGED <<live, data, next, new_node, retired_lists_, op, key, result,
                     slot, prev, succ>>
  BY DEF Swap1, Announce, TypeOK, HPTypeOK, Slots, NUM_PTRS, Goto,
         memVars, callVars
<1>2. ListInv' /\ OwnInv' /\ Keeps(t, {}) /\ Members' = Members /\ Linked' = Linked
  BY <1>1, SameMemory DEF Linked
<1>3. CallInv(t)' /\ ContextInv(t)' /\ Announced(t)'
  BY <1>1, <1>2 DEF CallInv, ContextInv, Announced, HoldsCur, Scanning
<1>4. SeenInv(t)'
  BY <1>1, <1>2, Observed DEF SeenInv
<1>5. \A u \in Threads : ~Scanning(u)'
  BY <1>1 DEF SwapUnseen, Scanning, OthersWait
<1>6. \A u \in Threads : Found(t, u)' /\ Found(u, t)'
  BY <1>5 DEF Found
<1> QED  BY <1>1, <1>2, <1>3, <1>4, <1>6 DEF StepInv, AbstractStep

(* The lookup has an answer that was right when it looked. *)
LEMMA ReturnsStep ==
  ASSUME IInv, TypeOK', NEW t \in Threads, NEW found \in BOOLEAN,
         LookupReturns(t, found), Observe, OthersWait(t),
         UNCHANGED <<hazard_pointers, retired_lists_, slot, op, key>>,
         \/ pc[t] = "loop" /\ ~found /\ cur[t] = NULL
         \/ pc[t] = "compare" /\ found /\ data[cur[t]] = key[t]
         \/ pc[t] = "compare" /\ ~found /\ key[t] < data[cur[t]],
         result[t] = {} => found \in was[t]
  PROVE  StepInv(t, {}) /\ AbstractStep(t)
<1> USE DEF IInv
<1>1. /\ slot[t] = 0 /\ op[t] # "none" /\ op[t] \in {"insert", "remove", "lookup"}
      /\ pc[t] # "idle" /\ pc[t] \notin {"swap0", "swap1"} /\ ~Scanning(t)
  BY DEF Announced, Scanning, CallInv, TypeOK
<1>2. CASE result[t] # {} /\ Leave(t, "done")
             /\ UNCHANGED <<result, live, memVars, new_node>>
  <2>1. /\ pc'[t] = "done" /\ prev'[t] = HEAD
        /\ UNCHANGED <<result, live, data, next, new_node>>
    BY <1>2 DEF Leave, Goto, DropContext, memVars, TypeOK
  <2>2. ListInv' /\ OwnInv' /\ Keeps(t, {}) /\ Members' = Members
    BY <2>1, SameMemory
  <2>3. CallInv(t)'
    BY <1>1, <1>2, <2>1 DEF CallInv
  <2>4. ContextInv(t)' /\ Announced(t)' /\ InUse(t)' \subseteq {HEAD}
    BY <1>1, <2>1, FreshContext DEF Places, HoldsCur
  <2>5. SeenInv(t)'
    BY <1>1, <1>2, <2>1 DEF SeenInv
  <2>6. \A u \in Threads : Found(t, u)'
    BY <2>1, NoScan
  <2>7. \A u \in Threads \ {t} : Found(u, t)'
    BY <2>4, StillFound
  <2> QED  BY <2>1, <2>2, <2>3, <2>4, <2>5, <2>6, <2>7 DEF StepInv, AbstractStep
<1>3. CASE /\ result[t] = {}
           /\ op[t] = "lookup" \/ (op[t] = "insert" /\ found) \/ (op[t] = "remove" /\ ~found)
           /\ result' = [result EXCEPT ![t] = {op[t] = "lookup" /\ found}]
           /\ live' = live \ {new_node[t]} /\ Wipe
           /\ new_node' = [new_node EXCEPT ![t] = NULL]
           /\ Leave(t, "done")
  <2>1. /\ pc'[t] = "done" /\ prev'[t] = HEAD /\ new_node'[t] = NULL
        /\ result'[t] # {}
    BY <1>3 DEF Leave, Goto, DropContext, TypeOK
  <2>2. ListInv' /\ OwnInv' /\ Keeps(t, {}) /\ Members' = Members
    BY <1>3, Discard
  <2>3. CallInv(t)'
    BY <1>1, <2>1 DEF CallInv
  <2>4. ContextInv(t)' /\ Announced(t)' /\ InUse(t)' \subseteq {HEAD}
    BY <1>1, <2>1, FreshContext DEF Places, HoldsCur
  <2>5. SeenInv(t)'
    BY <1>1, <2>1 DEF SeenInv
  <2>6. \A u \in Threads : Found(t, u)'
    BY <2>1, NoScan
  <2>7. \A u \in Threads \ {t} : Found(u, t)'
    BY <2>4, StillFound
  <2>8. AbstractSet!Answer(t)
    <3>1. CASE op[t] = "lookup"
      <4>1. {op[t] = "lookup" /\ found} = {found}
        BY <3>1
      <4>2. result' = [result EXCEPT ![t] = {found}] /\ found \in was[t]
        BY <1>3, <4>1
      <4> QED  BY <1>1, <1>3, <2>2, <3>1, <4>2 DEF AbstractSet!Answer
    <3>2. CASE op[t] # "lookup"
      <4>1. {op[t] = "lookup" /\ found} = {FALSE}
        BY <3>2
      <4>2. result' = [result EXCEPT ![t] = {FALSE}]
        BY <1>3, <4>1
      <4>3. \/ op[t] = "insert" /\ TRUE \in was[t]
            \/ op[t] = "remove" /\ FALSE \in was[t]
        <5>1. found \in was[t] /\ found \in {TRUE, FALSE}
          BY <1>3
        <5> QED  BY <1>3, <3>2, <5>1
      <4> QED  BY <1>1, <1>3, <2>2, <4>2, <4>3 DEF AbstractSet!Answer
    <3> QED  BY <3>1, <3>2
  <2> QED  BY <2>2, <2>3, <2>4, <2>5, <2>6, <2>7, <2>8 DEF StepInv, AbstractStep
<1>4. CASE /\ result[t] = {}
           /\ \/ op[t] = "insert" /\ ~found /\ Goto(t, "link")
              \/ op[t] = "remove" /\ found /\ Goto(t, "mark")
           /\ UNCHANGED <<result, live, memVars, ctxVars, new_node>>
  <2>1. /\ \/ op[t] = "insert" /\ ~found /\ pc'[t] = "link"
           \/ op[t] = "remove" /\ found /\ pc'[t] = "mark"
        /\ UNCHANGED <<result, live, data, next, prev, cur, succ, new_node>>
    BY <1>4 DEF Goto, memVars, ctxVars, TypeOK
  <2>2. ListInv' /\ OwnInv' /\ Keeps(t, {}) /\ Members' = Members /\ Linked' = Linked
    BY <2>1, SameMemory DEF Linked
  <2>3. CallInv(t)'
    BY <1>1, <1>4, <2>1 DEF CallInv
  <2>4. ContextInv(t)'
    BY <2>1, <2>2 DEF ContextInv, HoldsCur
  <2>5. Announced(t)' /\ InUse(t)' \subseteq InUse(t) \union {NULL}
    BY <1>1, <2>1 DEF Announced, InUse, HoldsCur, Scanning
  <2>6. SeenInv(t)'
    BY <1>1, <1>4, <2>1, <2>2, Observed DEF SeenInv
  <2>7. \A u \in Threads : Found(t, u)'
    BY <2>1, NoScan
  <2>8. \A u \in Threads \ {t} : Found(u, t)'
    BY <2>5, StillFound
  <2> QED  BY <2>1, <2>2, <2>3, <2>4, <2>5, <2>6, <2>7, <2>8 DEF StepInv, AbstractStep
<1> QED  BY <1>2, <1>3, <1>4 DEF LookupReturns

(* At the end of the list, or with the next node announced *)
LEMMA LoopStep ==
  ASSUME IInv, TypeOK', NEW t \in Threads, Loop(t), Observe, OthersWait(t)
  PROVE  StepInv(t, {}) /\ AbstractStep(t)
<1> USE DEF IInv
<1>1. pc[t] = "loop" /\ slot[t] = 0 /\ op[t] # "none"
      /\ UNCHANGED <<retired_lists_, slot, op, key>>
  BY DEF Loop, Announced, Scanning, CallInv
<1>2. CASE EndReached(t) /\ LookupReturns(t, FALSE) /\ UNCHANGED hazard_pointers
  <2>1. cur[t] = NULL
    BY <1>2 DEF EndReached
  <2>2. result[t] = {} => FALSE \in was[t]
    BY <1>1, <2>1 DEF SeenInv
  <2> QED  BY <1>1, <1>2, <2>1, <2>2, ReturnsStep
<1>3. CASE /\ ~EndReached(t) /\ Announce(t, 0, cur[t]) /\ Goto(t, "check")
           /\ UNCHANGED <<result, live, memVars, ctxVars, new_node>>
  <2>1. /\ pc'[t] = "check" /\ hazard_pointers'[t][0] = cur[t]
        /\ hazard_pointers'[t][1] = hazard_pointers[t][1]
        /\ UNCHANGED <<result, live, data, next, prev, cur, succ, new_node>>
    BY <1>3 DEF Announce, Goto, memVars, ctxVars, TypeOK, HPTypeOK, Slots, NUM_PTRS
  <2>2. ListInv' /\ OwnInv' /\ Keeps(t, {}) /\ Members' = Members /\ Linked' = Linked
    BY <1>1, <2>1, SameMemory DEF Linked
  <2>3. CallInv(t)' /\ ContextInv(t)' /\ Announced(t)'
    BY <1>1, <2>1, <2>2 DEF CallInv, ContextInv, Announced, HoldsCur, Scanning
  <2>4. SeenInv(t)'
    BY <1>1, <2>1, <2>2, Observed DEF SeenInv
  <2>5. \A u \in Threads : Found(t, u)'
    BY <2>1, NoScan
  <2>6. ASSUME NEW u \in Threads \ {t} PROVE Found(u, t)'
    <3>1. /\ Scanning(u)' = Scanning(u) /\ retired_lists_'[u] = retired_lists_[u]
          /\ active_list'[u] = active_list[u] /\ slot'[u] = slot[u]
      BY DEF OthersWait, Scanning
    <3>2. SUFFICES ASSUME Scanning(u), NEW n \in retired_lists_[u], n = prev[t],
                          n \notin active_list[u]
          PROVE  \E j \in Slots : hazard_pointers'[t][j] = n /\ slot[u] <= 2 * t + j
      BY <2>1, <3>1 DEF Found, InUse, HoldsCur
    <3>3. PICK j \in Slots : slot[u] <= 2 * t + j
      BY <3>2 DEF Found, InUse
    <3>4. 1 \in Slots /\ slot[u] <= 2 * t + 1
      BY <3>3, ThreadsAssumption DEF Slots, NUM_PTRS, Threads, TypeOK, HPTypeOK
    <3>5. n # HEAD
      BY <3>2, HeadAssumption DEF TypeOK, HPTypeOK
    <3>6. hazard_pointers'[t][1] = n
      BY <1>1, <2>1, <3>2, <3>5 DEF Announced
    <3> QED  BY <3>4, <3>6
  <2> QED  BY <1>1, <2>1, <2>2, <2>3, <2>4, <2>5, <2>6 DEF StepInv, AbstractStep
<1> QED  BY <1>2, <1>3 DEF Loop

(* The key of cur decides where the search ends. *)
LEMMA CompareStep ==
  ASSUME IInv, TypeOK', NEW t \in Threads, Compare(t), Observe, OthersWait(t)
  PROVE  StepInv(t, {}) /\ AbstractStep(t)
<1> USE DEF IInv
<1>1. /\ pc[t] = "compare" /\ slot[t] = 0 /\ op[t] # "none"
      /\ cur[t] \in Linked /\ cur[t] \in Nodes /\ cur[t] # HEAD
      /\ data[cur[t]] \in Int /\ key[t] \in Keys /\ key[t] \in Int
      /\ UNCHANGED <<hazard_pointers, retired_lists_, slot, op, key>>
  BY TypeFacts, KeysAssumption, ZenonT(60)
     DEF Compare, Announced, Scanning, CallInv, ContextInv, HoldsCur, TypeOK
<1>2. CASE /\ ~StillNext(t) /\ Leave(t, "try_again")
           /\ UNCHANGED <<result, live, memVars, new_node>>
  <2>1. /\ pc'[t] = "try_again" /\ prev'[t] = HEAD
        /\ UNCHANGED <<result, live, data, next, new_node>>
    BY <1>2 DEF Leave, Goto, DropContext, memVars, TypeOK
  <2>2. ListInv' /\ OwnInv' /\ Keeps(t, {}) /\ Members' = Members
    BY <1>1, <2>1, SameMemory
  <2>3. CallInv(t)'
    BY <1>1, <2>1 DEF CallInv
  <2>4. ContextInv(t)' /\ Announced(t)' /\ InUse(t)' \subseteq {HEAD}
    BY <1>1, <2>1, FreshContext DEF Places, HoldsCur
  <2>5. SeenInv(t)'
    BY <1>1, <2>1, <2>2, Observed DEF SeenInv
  <2>6. \A u \in Threads : Found(t, u)'
    BY <2>1, NoScan
  <2>7. \A u \in Threads \ {t} : Found(u, t)'
    BY <1>1, <2>4, StillFound
  <2> QED  BY <1>1, <2>1, <2>2, <2>3, <2>4, <2>5, <2>6, <2>7 DEF StepInv, AbstractStep
<1>3. CASE StillNext(t) /\ StopsAt(t) /\ LookupReturns(t, data[cur[t]] = key[t])
  <2>1. CASE data[cur[t]] = key[t]
    <3>1. LookupReturns(t, TRUE)
      <4>1. (data[cur[t]] = key[t]) = TRUE
        BY <2>1
      <4> QED  BY <1>3, <4>1
    <3>2. result[t] = {} => TRUE \in was[t]
      BY <1>1, <2>1 DEF SeenInv
    <3> QED  BY <1>1, <2>1, <3>1, <3>2, ReturnsStep
  <2>2. CASE data[cur[t]] # key[t]
    <3>1. LookupReturns(t, FALSE)
      <4>1. (data[cur[t]] = key[t]) = FALSE
        BY <2>2
      <4> QED  BY <1>3, <4>1
    <3>2. key[t] < data[cur[t]]
      BY <1>1, <1>3, <2>2 DEF StopsAt
    <3>3. key[t] \notin Members
      <4>1. /\ prev[t] \in Linked \union {HEAD} /\ next[prev[t]] = unmarked(cur[t])
            /\ prev[t] # HEAD => data[prev[t]] < key[t]
        BY <1>3 DEF ContextInv, StillNext
      <4>2. prev[t] \in Chain \union {HEAD} /\ next[prev[t]].to = cur[t]
        BY <4>1, InPlace
      <4> QED  BY <1>1, <3>2, <4>1, <4>2, NotMember
    <3>4. result[t] = {} => FALSE \in was[t]
      BY <1>1, <3>3 DEF SeenInv
    <3> QED  BY <1>1, <3>1, <3>2, <3>4, ReturnsStep
  <2> QED  BY <2>1, <2>2
<1>4. CASE /\ StillNext(t) /\ ~StopsAt(t)
           /\ prev' = [prev EXCEPT ![t] = cur[t]]
           /\ Goto(t, "swap0")
           /\ UNCHANGED <<result, live, memVars, new_node, cur, succ>>
  <2>1. /\ pc'[t] = "swap0" /\ prev'[t] = cur[t]
        /\ UNCHANGED <<result, live, data, next, new_node, cur, succ>>
    BY <1>4 DEF Goto, memVars, TypeOK
  <2>2. ListInv' /\ OwnInv' /\ Keeps(t, {}) /\ Members' = Members /\ Linked' = Linked
    BY <1>1, <2>1, SameMemory DEF Linked
  <2>3. data[cur[t]] < key[t]
    BY <1>1, <1>4 DEF StopsAt
  <2>4. CallInv(t)'
    BY <1>1, <2>1 DEF CallInv
  <2>5. ContextInv(t)'
    BY <1>1, <2>1, <2>2, <2>3 DEF ContextInv
  <2>6. Announced(t)' /\ InUse(t)' \subseteq InUse(t)
    BY <1>1, <2>1 DEF Announced, InUse, HoldsCur, Scanning
  <2>7. SeenInv(t)'
    BY <1>1, <2>1, <2>2, <2>3, Observed DEF SeenInv
  <2>8. \A u \in Threads : Found(t, u)'
    BY <2>1, NoScan
  <2>9. \A u \in Threads \ {t} : Found(u, t)'
    BY <1>1, <2>6, StillFound
  <2> QED  BY <1>1, <2>1, <2>2, <2>4, <2>5, <2>6, <2>7, <2>8, <2>9
             DEF StepInv, AbstractStep
<1> QED  BY <1>2, <1>3, <1>4 DEF Compare

(* The new node is linked, or the insertion starts over. *)
LEMMA LinkStep ==
  ASSUME IInv, TypeOK', NEW t \in Threads, Link(t), Observe, OthersWait(t)
  PROVE  StepInv(t, {}) /\ AbstractStep(t)
<1> USE DEF IInv
<1>1. /\ pc[t] = "link" /\ slot[t] = 0 /\ op[t] = "insert" /\ result[t] = {}
      /\ new_node[t] # NULL /\ data[new_node[t]] = key[t]
      /\ prev[t] \in Linked \union {HEAD} /\ prev'[t] = HEAD
      /\ prev[t] # HEAD => data[prev[t]] < key[t]
      /\ cur[t] # NULL => key[t] < data[cur[t]]
      /\ UNCHANGED <<live, data, op, key, hazard_pointers, retired_lists_, slot>>
  BY DEF Link, Leave, DropContext, Announced, Scanning, CallInv, ContextInv, hpVars,
         TypeOK
<1>2. CASE ~StillNext(t)
  <2>1. /\ pc'[t] = "try_again" /\ UNCHANGED <<new_node, result>>
        /\ next' = [next EXCEPT ![new_node[t]] = unmarked(cur[t])]
    BY <1>2 DEF Link, Leave, Goto, TypeOK
  <2>2. ListInv' /\ OwnInv' /\ Keeps(t, {}) /\ Members' = Members
    BY <1>1, <2>1, Prepare
  <2>3. CallInv(t)'
    BY <1>1, <2>1 DEF CallInv
  <2>4. ContextInv(t)' /\ Announced(t)' /\ InUse(t)' \subseteq {HEAD}
    BY <1>1, <2>1, FreshContext DEF Places, HoldsCur
  <2>5. SeenInv(t)'
    BY <1>1, <2>1, <2>2, Observed DEF SeenInv
  <2>6. \A u \in Threads : Found(t, u)'
    BY <2>1, NoScan
  <2>7. \A u \in Threads \ {t} : Found(u, t)'
    BY <1>1, <2>4, StillFound
  <2> QED  BY <1>1, <2>1, <2>2, <2>3, <2>4, <2>5, <2>6, <2>7 DEF StepInv, AbstractStep
<1>3. CASE StillNext(t)
  <2>1. /\ pc'[t] = "done"
        /\ next' = [next EXCEPT ![new_node[t]] = unmarked(cur[t]),
                                ![prev[t]] = unmarked(new_node[t])]
        /\ new_node' = [new_node EXCEPT ![t] = NULL]
        /\ result' = [result EXCEPT ![t] = {TRUE}]
    BY <1>3 DEF Link, Leave, Goto, TypeOK
  <2>2. new_node'[t] = NULL /\ result'[t] = {TRUE}
    BY <2>1 DEF TypeOK
  <2>3. /\ ListInv' /\ OwnInv' /\ Keeps(t, {})
        /\ key[t] \notin Members /\ Members' = Members \union {key[t]}
    BY <1>1, <1>3, <2>1, LinkNode
  <2>4. CallInv(t)'
    BY <1>1, <2>1, <2>2 DEF CallInv
  <2>5. ContextInv(t)' /\ Announced(t)' /\ InUse(t)' \subseteq {HEAD}
    BY <1>1, <2>1, FreshContext DEF Places, HoldsCur
  <2>6. SeenInv(t)'
    BY <1>1, <2>2 DEF SeenInv
  <2>7. \A u \in Threads : Found(t, u)'
    BY <2>1, NoScan
  <2>8. \A u \in Threads \ {t} : Found(u, t)'
    BY <1>1, <2>5, StillFound
  <2>9. AbstractSet!Effect(t)
    BY <1>1, <2>1, <2>3 DEF AbstractSet!Effect
  <2> QED  BY <2>3, <2>4, <2>5, <2>6, <2>7, <2>8, <2>9 DEF StepInv, AbstractStep
<1> QED  BY <1>2, <1>3

(* The node is marked, or the removal starts over. *)
LEMMA MarkStep ==
  ASSUME IInv, TypeOK', NEW t \in Threads, Mark(t), Observe, OthersWait(t)
  PROVE  StepInv(t, {}) /\ AbstractStep(t)
<1> USE DEF IInv
<1>1. /\ pc[t] = "mark" /\ slot[t] = 0 /\ op[t] = "remove" /\ result[t] = {}
      /\ cur[t] \in Linked /\ data[cur[t]] = key[t]
      /\ UNCHANGED <<live, data, op, key, new_node, hazard_pointers, retired_lists_,
                     slot>>
  BY DEF Mark, Announced, Scanning, CallInv, ContextInv, HoldsCur, hpVars, callVars
<1>2. CASE next[cur[t]] # unmarked(succ[t])
  <2>1. pc'[t] = "try_again" /\ prev'[t] = HEAD /\ UNCHANGED <<next, result>>
    BY <1>2 DEF Mark, MarkFailed, Leave, Goto, DropContext, TypeOK
  <2>2. ListInv' /\ OwnInv' /\ Keeps(t, {}) /\ Members' = Members
    BY <1>1, <2>1, SameMemory
  <2>3. CallInv(t)'
    BY <1>1, <2>1 DEF CallInv
  <2>4. ContextInv(t)' /\ Announced(t)' /\ InUse(t)' \subseteq {HEAD}
    BY <1>1, <2>1, FreshContext DEF Places, HoldsCur
  <2>5. SeenInv(t)'
    BY <1>1, <2>1, <2>2, Observed DEF SeenInv
  <2>6. \A u \in Threads : Found(t, u)'
    BY <2>1, NoScan
  <2>7. \A u \in Threads \ {t} : Found(u, t)'
    BY <1>1, <2>4, StillFound
  <2> QED  BY <1>1, <2>1, <2>2, <2>3, <2>4, <2>5, <2>6, <2>7 DEF StepInv, AbstractStep
<1>3. CASE next[cur[t]] = unmarked(succ[t])
  <2>1. /\ pc'[t] = "delete" /\ UNCHANGED <<prev, cur, succ>>
        /\ next' = [next EXCEPT ![cur[t]] = mark(succ[t])]
        /\ result' = [result EXCEPT ![t] = {TRUE}]
    BY <1>3 DEF Mark, Goto, ctxVars, TypeOK
  <2>2. result'[t] = {TRUE} /\ next'[cur[t]] = mark(succ[t])
    BY <1>1, <2>1, TypeFacts DEF TypeOK
  <2>3. /\ ListInv' /\ OwnInv' /\ Keeps(t, {})
        /\ key[t] \in Members /\ Members' = Members \ {key[t]}
    BY <1>1, <1>3, <2>1, MarkNode
  <2>4. CallInv(t)'
    BY <1>1, <2>1, <2>2 DEF CallInv
  <2>5. ContextInv(t)'
    <3>1. Linked' = Linked
      BY <1>1 DEF Linked
    <3> QED  BY <1>1, <2>1, <2>2, <3>1 DEF ContextInv, mark
  <2>6. Announced(t)' /\ InUse(t)' \subseteq InUse(t)
    BY <1>1, <2>1 DEF Announced, InUse, HoldsCur, Scanning
  <2>7. SeenInv(t)'
    BY <1>1, <2>2 DEF SeenInv
  <2>8. \A u \in Threads : Found(t, u)'
    BY <2>1, NoScan
  <2>9. \A u \in Threads \ {t} : Found(u, t)'
    BY <1>1, <2>6, StillFound
  <2>10. AbstractSet!Effect(t)
    BY <1>1, <2>1, <2>3 DEF AbstractSet!Effect
  <2> QED  BY <2>3, <2>4, <2>5, <2>6, <2>7, <2>8, <2>9, <2>10 DEF StepInv, AbstractStep
<1> QED  BY <1>2, <1>3

(* The thread that marked a node takes it out, or has a lookup do it. *)
LEMMA DeleteStep ==
  ASSUME IInv, TypeOK', NEW t \in Threads, Delete(t), Observe, OthersWait(t),
         SwapUnseen'
  PROVE  StepInv(t, {}) /\ AbstractStep(t)
<1> USE DEF IInv
<1>1. /\ pc[t] = "delete" /\ slot[t] = 0 /\ result[t] # {} /\ op[t] # "none"
      /\ cur[t] \in Linked /\ prev[t] \in Linked \union {HEAD}
      /\ next[cur[t]] = mark(succ[t]) /\ prev'[t] = HEAD
      /\ UNCHANGED <<live, data, op, key, new_node, result, hazard_pointers, slot>>
  BY DEF Delete, DeleteFailed, Retire, DropContext, Announced, Scanning, CallInv,
         ContextInv, HoldsCur, hpVars, callVars, TypeOK
<1>2. /\ pc'[t] \in {"try_again", "done", "lastScan"}
      /\ ListInv' /\ OwnInv' /\ Keeps(t, {}) /\ Members' = Members
  <2>1. CASE ~StillNext(t)
    <3>1. pc'[t] = "try_again" /\ UNCHANGED <<next, retired_lists_>>
      BY <2>1 DEF Delete, DeleteFailed, Goto, hpVars, TypeOK
    <3> QED  BY <1>1, <3>1, SameMemory
  <2>2. CASE StillNext(t)
    <3>1. /\ pc'[t] \in {"done", "lastScan"}
          /\ next' = [next EXCEPT ![prev[t]] = unmarked(succ[t])]
          /\ retired_lists_' = [retired_lists_ EXCEPT ![t] = @ \union {cur[t]}]
      BY <2>2 DEF Delete, Retire, retireNode, Goto, TypeOK
    <3> QED  BY <1>1, <2>2, <3>1, UnlinkNode
  <2> QED  BY <2>1, <2>2
<1>3. CallInv(t)'
  BY <1>1, <1>2 DEF CallInv
<1>4. ContextInv(t)' /\ Announced(t)' /\ InUse(t)' \subseteq {HEAD}
  BY <1>1, <1>2, FreshContext DEF Places, HoldsCur
<1>5. SeenInv(t)'
  BY <1>1 DEF SeenInv
<1>6. \A u \in Threads : Found(t, u)'
  <2>1. \A u \in Threads \ {t} : ContextInv(u)' /\ Announced(u)'
    BY <1>2, OtherThread
  <2> QED  BY <1>1, <1>4, <2>1, ScanStarts
<1>7. \A u \in Threads \ {t} : Found(u, t)'
  BY <1>1, <1>4, StillFound
<1> QED  BY <1>1, <1>2, <1>3, <1>4, <1>5, <1>6, <1>7 DEF StepInv, AbstractStep

(* When a scan is through, nothing that it frees is in use. *)
LEMMA FreesUnused ==
  ASSUME IInv, NEW t \in Threads, NEW u \in Threads, Scanning(t), slot[t] = AllSlots
  PROVE  InUse(u) \intersect Reclaimable(t) = {}
<1> SUFFICES ASSUME NEW n \in InUse(u) \intersect Reclaimable(t) PROVE FALSE
  OBVIOUS
<1>1. PICK j \in Slots : slot[t] <= 2 * u + j
  BY DEF IInv, Found, Reclaimable
<1> QED  BY <1>1, ThreadsAssumption DEF AllSlots, Slots, NUM_PTRS, Threads

(* A scan reads one more announcement. *)
LEMMA ScanSlotStep ==
  ASSUME IInv, TypeOK', NEW t \in Threads, Scanning(t), ScanSlot(t),
         UNCHANGED <<pc, memVars, ctxVars, callVars, result>>, Observe, OthersWait(t)
  PROVE  StepInv(t, {}) /\ AbstractStep(t)
<1> USE DEF IInv
<1>1. UNCHANGED <<pc, live, data, next, new_node, retired_lists_, op, key, result,
                  hazard_pointers, prev, cur, succ>>
  BY DEF ScanSlot, memVars, ctxVars, callVars
<1>2. ListInv' /\ OwnInv' /\ Keeps(t, {}) /\ Members' = Members /\ Linked' = Linked
  BY <1>1, SameMemory DEF Linked
<1>3. CallInv(t)' /\ ContextInv(t)' /\ Announced(t)' /\ \A u \in Threads : InUse(u)' = InUse(u)
  BY <1>1, <1>2 DEF CallInv, ContextInv, Announced, Scanning, InUse
<1>4. SeenInv(t)'
  BY <1>1, <1>2, Observed DEF SeenInv
<1>5. ASSUME NEW u \in Threads PROVE Found(t, u)'
  <2> DEFINE s == slot[t]
             p == hazard_pointers[s \div NUM_PTRS][s % NUM_PTRS]
  <2>1. /\ s \in 0 .. AllSlots - 1 /\ slot'[t] = s + 1
        /\ active_list'[t] = (active_list[t] \union {p}) \ {NULL}
    <3>1. slot[t] \in 0 .. AllSlots /\ slot[t] < AllSlots
      BY DEF ScanSlot, TypeOK, HPTypeOK
    <3>2. s \in 0 .. AllSlots - 1
      BY <3>1, ThreadsAssumption DEF AllSlots, NUM_PTRS
    <3> QED  BY <3>2 DEF ScanSlot, TypeOK, HPTypeOK
  <2>2. SUFFICES ASSUME NEW n \in retired_lists_[t] \intersect InUse(u)
        PROVE  \/ n \in active_list'[t]
               \/ \E j \in Slots : hazard_pointers[u][j] = n /\ s + 1 <= 2 * u + j
    BY <1>1, <1>3, <2>1 DEF Found
  <2>3. n # NULL
    BY NodesAssumption DEF TypeOK, HPTypeOK
  <2>4. CASE n \in active_list[t]
    BY <2>1, <2>3, <2>4
  <2>5. CASE n \notin active_list[t]
    <3>1. PICK j \in Slots : hazard_pointers[u][j] = n /\ s <= 2 * u + j
      BY <2>5 DEF Found
    <3>2. CASE s = 2 * u + j
      <4>1. s \div NUM_PTRS = u /\ s % NUM_PTRS = j
        BY <3>2, ThreadsAssumption DEF NUM_PTRS, Slots, Threads
      <4>2. p = n
        BY <3>1, <4>1
      <4> QED  BY <2>1, <2>3, <4>2
    <3>3. CASE s # 2 * u + j
      <4>1. s + 1 <= 2 * u + j
        BY <2>1, <3>1, <3>3, ThreadsAssumption DEF Slots, NUM_PTRS, Threads, AllSlots
      <4> QED  BY <3>1, <4>1
    <3> QED  BY <3>2, <3>3
  <2> QED  BY <2>4, <2>5
<1>6. \A u \in Threads \ {t} : Found(u, t)'
  BY <1>1, <1>3, StillFound
<1> QED  BY <1>1, <1>2, <1>3, <1>4, <1>5, <1>6 DEF StepInv, AbstractStep

(* A scan ends, and frees what it has not found. *)
LEMMA FreeNodesStep ==
  ASSUME IInv, TypeOK', NEW t \in Threads, Scanning(t), FreeNodes(t), Wipe,
         Goto(t, IF pc[t] = "scan" THEN "loop" ELSE "done"),
         UNCHANGED <<ctxVars, callVars, result>>, Observe, OthersWait(t)
  PROVE  StepInv(t, Reclaimable(t)) /\ AbstractStep(t)
<1> USE DEF IInv
<1>1. /\ pc'[t] = (IF pc[t] = "scan" THEN "loop" ELSE "done") /\ slot'[t] = 0
      /\ pc[t] \in {"scan", "lastScan"}
      /\ UNCHANGED <<new_node, op, key, result, hazard_pointers, prev, cur, succ>>
  BY DEF FreeNodes, Goto, Scanning, ctxVars, callVars, TypeOK, HPTypeOK
<1>2. ListInv' /\ OwnInv' /\ Keeps(t, Reclaimable(t)) /\ Members' = Members
  BY <1>1, FreeRetired DEF FreeNodes
<1>3. InUse(t) \intersect Reclaimable(t) = {}
  BY FreesUnused DEF FreeNodes
<1>4. prev[t] # HEAD => Kept(prev[t])
  BY <1>2, <1>3 DEF Keeps, InUse, ContextInv
<1>5. CallInv(t)'
  <2>1. new_node[t] # NULL => data'[new_node[t]] = data[new_node[t]]
    <3>1. new_node[t] # NULL => new_node[t] \in live /\ new_node[t] \notin Reclaimable(t)
      BY DEF OwnInv, Reclaimable, Linked
    <3> QED  BY <3>1 DEF FreeNodes, Wipe, TypeOK
  <2> QED  BY <1>1, <2>1 DEF CallInv
<1>6. ContextInv(t)'
  BY <1>1, <1>4 DEF ContextInv, Kept, HoldsCur
<1>7. Announced(t)' /\ InUse(t)' \subseteq InUse(t)
  BY <1>1 DEF Announced, InUse, HoldsCur
<1>8. SeenInv(t)'
  BY <1>1, <1>2, Observed DEF SeenInv, CallInv
<1>9. \A u \in Threads : Found(t, u)'
  BY <1>1, NoScan
<1>10. \A u \in Threads \ {t} : Found(u, t)'
  BY <1>1, <1>7, StillFound
<1> QED  BY <1>1, <1>2, <1>5, <1>6, <1>7, <1>8, <1>9, <1>10 DEF StepInv, AbstractStep

(* The call returns. *)
LEMMA ReturnStep ==
  ASSUME IInv, TypeOK', NEW t \in Threads, Return(t), Observe, OthersWait(t)
  PROVE  StepInv(t, {}) /\ AbstractStep(t)
<1> USE DEF IInv
<1>1. /\ pc[t] = "done" /\ pc'[t] = "idle" /\ op'[t] = "none" /\ result'[t] = {}
      /\ new_node[t] = NULL /\ new_node'[t] = NULL /\ slot[t] = 0 /\ prev[t] = HEAD
      /\ result[t] # {}
      /\ UNCHANGED <<live, data, next, retired_lists_, hazard_pointers, slot, prev>>
  BY DEF Return, Goto, CallInv, ContextInv, Announced, Scanning, hpVars, memVars,
         ctxVars, TypeOK
<1>2. new_node' = new_node
  BY <1>1 DEF Return, TypeOK
<1>3. ListInv' /\ OwnInv' /\ Keeps(t, {}) /\ Members' = Members
  BY <1>1, <1>2, SameMemory
<1>4. CallInv(t)'
  BY <1>1 DEF CallInv
<1>5. ContextInv(t)' /\ Announced(t)' /\ InUse(t)' \subseteq {HEAD}
  BY <1>1, FreshContext DEF Places, HoldsCur
<1>6. SeenInv(t)'
  BY <1>1, Observed DEF SeenInv
<1>7. \A u \in Threads : Found(t, u)'
  BY <1>1, NoScan
<1>8. \A u \in Threads \ {t} : Found(u, t)'
  BY <1>1, <1>5, StillFound
<1>9. AbstractSet!Return(t)
  BY <1>1, <1>3, AnyKeyType DEF Return, AbstractSet!Return
<1> QED  BY <1>3, <1>4, <1>5, <1>6, <1>7, <1>8, <1>9 DEF StepInv, AbstractStep

(* A call: an insertion with a node of its own *)
LEMMA InvokeStep ==
  ASSUME IInv, TypeOK', NEW t \in Threads, Invoke(t), Observe, OthersWait(t)
  PROVE  StepInv(t, {}) /\ AbstractStep(t)
<1> USE DEF IInv
<1>1. /\ pc[t] = "idle" /\ pc'[t] = "try_again" /\ slot[t] = 0 /\ prev[t] = HEAD
      /\ op[t] = "none" /\ result[t] = {} /\ new_node[t] = NULL
      /\ UNCHANGED <<retired_lists_, hazard_pointers, slot, prev, result>>
  BY DEF Invoke, Goto, CallInv, ContextInv, Announced, Scanning, ctxVars, TypeOK
<1>2. PICK k \in Keys :
        /\ key' = [key EXCEPT ![t] = k]
        /\ \/ \E n \in Nodes \ live :
                /\ op' = [op EXCEPT ![t] = "insert"]
                /\ live' = live \union {n}
                /\ data' = [data EXCEPT ![n] = k]
                /\ next' = [next EXCEPT ![n] = unmarked(NULL)]
                /\ new_node' = [new_node EXCEPT ![t] = n]
           \/ /\ \E o \in {"remove", "lookup"} : op' = [op EXCEPT ![t] = o]
              /\ UNCHANGED <<live, memVars, new_node>>
  BY DEF Invoke
<1>3. /\ ListInv' /\ OwnInv' /\ Keeps(t, {}) /\ Members' = Members
      /\ op' \in {[op EXCEPT ![t] = o] : o \in {"insert", "remove", "lookup"}}
      /\ new_node'[t] # NULL <=> op'[t] = "insert"
      /\ new_node'[t] # NULL => data'[new_node'[t]] = k
  <2>1. ASSUME NEW n \in Nodes \ live, op' = [op EXCEPT ![t] = "insert"],
               live' = live \union {n}, data' = [data EXCEPT ![n] = k],
               next' = [next EXCEPT ![n] = unmarked(NULL)],
               new_node' = [new_node EXCEPT ![t] = n]
        PROVE  /\ ListInv' /\ OwnInv' /\ Keeps(t, {}) /\ Members' = Members
               /\ op' \in {[op EXCEPT ![t] = o] : o \in {"insert", "remove", "lookup"}}
               /\ new_node'[t] # NULL <=> op'[t] = "insert"
               /\ new_node'[t] # NULL => data'[new_node'[t]] = k
    <3>1. new_node'[t] = n /\ n # NULL /\ op'[t] = "insert"
      BY <2>1, NodesAssumption DEF TypeOK
    <3>2. /\ ListInv' /\ OwnInv' /\ Keeps(t, {}) /\ Members' = Members
          /\ data'[n] = k
      BY <1>1, <2>1, Allocate
    <3>3. op' \in {[op EXCEPT ![t] = o] : o \in {"insert", "remove", "lookup"}}
      BY <2>1
    <3> QED  BY <3>1, <3>2, <3>3
  <2>2. CASE /\ \E o \in {"remove", "lookup"} : op' = [op EXCEPT ![t] = o]
             /\ UNCHANGED <<live, memVars, new_node>>
    <3>1. UNCHANGED <<live, data, next, new_node>> /\ op'[t] # "insert"
      BY <2>2 DEF memVars, TypeOK
    <3>2. op' \in {[op EXCEPT ![t] = o] : o \in {"insert", "remove", "lookup"}}
      BY <2>2
    <3> QED  BY <1>1, <3>1, <3>2, SameMemory
  <2> QED  BY <1>2, <2>1, <2>2
<1>4. op'[t] # "none" /\ key'[t] = k
  BY <1>2, <1>3 DEF TypeOK
<1>5. CallInv(t)'
  BY <1>1, <1>3, <1>4 DEF CallInv
<1>6. ContextInv(t)' /\ Announced(t)' /\ InUse(t)' \subseteq {HEAD}
  BY <1>1, FreshContext DEF Places, HoldsCur
<1>7. SeenInv(t)'
  BY <1>1, <1>3, <1>4, Observed DEF SeenInv
<1>8. \A u \in Threads : Found(t, u)'
  BY <1>1, NoScan
<1>9. \A u \in Threads \ {t} : Found(u, t)'
  BY <1>1, <1>6, StillFound
<1>10. AbstractSet!Call(t)
  BY <1>1, <1>2, <1>3 DEF AbstractSet!Call, AbstractSet!Ops
<1> QED  BY <1>3, <1>5, <1>6, <1>7, <1>8, <1>9, <1>10 DEF StepInv, AbstractStep

-----------------------------------------------------------------------------
(* The invariant *)

(* Every step of one thread, whatever the others are at *)
LEMMA OneStep ==
  ASSUME IInv, TypeOK', NEW t \in Threads, Invoke(t) \/ Step(t), Observe,
         SwapUnseen, SwapUnseen'
  PROVE  /\ AbstractStep(t) /\ OthersWait(t)
         /\ \E freed \in SUBSET Nodes :
              /\ StepInv(t, freed)
              /\ \A u \in Threads : InUse(u) \intersect freed = {}
<1>1. OthersWait(t)
  BY StepOthers DEF IInv
<1>2. CASE Scan(t) /\ ~ScanSlot(t)
  <2>1. /\ Scanning(t) /\ FreeNodes(t) /\ Wipe
        /\ Goto(t, IF pc[t] = "scan" THEN "loop" ELSE "done")
        /\ UNCHANGED <<ctxVars, callVars, result>>
    BY <1>2 DEF Scan, Scanning
  <2>2. StepInv(t, Reclaimable(t)) /\ AbstractStep(t)
    BY <1>1, <2>1, FreeNodesStep
  <2>3. \A u \in Threads : InUse(u) \intersect Reclaimable(t) = {}
    BY <2>1, FreesUnused DEF FreeNodes
  <2>4. Reclaimable(t) \in SUBSET Nodes
    BY DEF IInv, TypeOK, HPTypeOK, Reclaimable
  <2> QED  BY <1>1, <2>2, <2>3, <2>4
<1>3. CASE ~(Scan(t) /\ ~ScanSlot(t))
  <2>1. StepInv(t, {}) /\ AbstractStep(t)
    <3>1. CASE Scan(t)
      <4>1. /\ Scanning(t) /\ ScanSlot(t)
            /\ UNCHANGED <<pc, memVars, ctxVars, callVars, result>>
        <5>1. slot[t] < AllSlots /\ slot[t] # AllSlots
          BY <1>3, <3>1, ThreadsAssumption
             DEF ScanSlot, IInv, TypeOK, HPTypeOK, AllSlots, NUM_PTRS
        <5> QED  BY <1>3, <3>1, <5>1 DEF Scan, Scanning, FreeNodes
      <4> QED  BY <1>1, <4>1, ScanSlotStep
    <3>2. CASE ~Scan(t)
      BY <1>1, <3>2, InvokeStep, TryAgainStep, LoopStep, CheckStep, ReadNextStep,
         UnlinkStep, CompareStep, Swap0Step, Swap1Step, LinkStep, MarkStep, DeleteStep,
         ReturnStep DEF Step
    <3> QED  BY <3>1, <3>2
  <2> QED  BY <1>1, <2>1
<1> QED  BY <1>2, <1>3

(* IInv holds at first: the list is empty and nobody is at work. *)
LEMMA InitInv == Init => IInv
<1> SUFFICES ASSUME Init PROVE IInv
  OBVIOUS
<1>1. TypeOK
  BY InitType
<1>2. Linked = {} /\ \A n \in Nodes \union {HEAD} : next[n] = unmarked(NULL)
  BY DEF Init, HPInit, Linked
<1>3. Chain = {}
  <2>1. next \in Links /\ next[HEAD].to = NULL
    BY <1>2, TypeFacts, <1>1 DEF unmarked
  <2>2. {} \in SUBSET Nodes /\ \A m \in {} \union {HEAD} : next[m].to \in {} \union {NULL}
    BY <2>1
  <2>3. ChainOf(next) \subseteq {}
    BY <2>1, <2>2, ChainLeast
  <2> QED  BY <2>3 DEF Chain
<1>4. ListInv
  BY <1>2, <1>3 DEF ListInv, Sorted, Chain, unmarked
<1>5. OwnInv
  BY <1>2, <1>3 DEF OwnInv, Init, HPInit
<1>6. \A t \in Threads : CallInv(t) /\ ContextInv(t) /\ SeenInv(t) /\ Announced(t)
  BY DEF Init, HPInit, CallInv, ContextInv, SeenInv, Announced, HoldsCur, Scanning
<1>7. \A t, u \in Threads : Found(t, u)
  BY DEF Init, Found, Scanning
<1> QED  BY <1>1, <1>4, <1>5, <1>6, <1>7 DEF IInv

(* IInv is inductive as long as no scan meets a swap. *)
LEMMA StepKeepsInv ==
  ASSUME IInv, [Next]_vars, SwapUnseen, SwapUnseen'
  PROVE  IInv'
<1>1. CASE UNCHANGED vars
  <2>1. /\ Linked' = Linked /\ Chain' = Chain /\ Members' = Members
        /\ \A t \in Threads : InUse(t)' = InUse(t) /\ Scanning(t)' = Scanning(t)
    BY <1>1 DEF vars, hpVars, memVars, ctxVars, callVars, Linked, Chain, Members,
                InUse, Scanning
  <2>2. TypeOK'
    BY <1>1, TypeStep DEF IInv
  <2>3. ListInv' /\ OwnInv'
    BY <1>1, <2>1
       DEF IInv, vars, hpVars, memVars, ctxVars, callVars, ListInv, OwnInv
  <2>4. \A t \in Threads : CallInv(t)' /\ ContextInv(t)' /\ SeenInv(t)' /\ Announced(t)'
    <3> TAKE t \in Threads
    <3>1. CallInv(t)'
      BY <1>1 DEF IInv, vars, memVars, callVars, CallInv
    <3>2. ContextInv(t)'
      BY <1>1, <2>1 DEF IInv, vars, memVars, ctxVars, callVars, ContextInv, mark
    <3>3. SeenInv(t)'
      BY <1>1, <2>1 DEF IInv, vars, memVars, ctxVars, callVars, SeenInv
    <3>4. Announced(t)'
      BY <1>1, <2>1 DEF IInv, vars, hpVars, ctxVars, Announced
    <3> QED  BY <3>1, <3>2, <3>3, <3>4
  <2>5. \A t, u \in Threads : Found(t, u)'
    BY <1>1, <2>1 DEF IInv, vars, hpVars, memVars, ctxVars, callVars, Found
  <2> QED  BY <2>2, <2>3, <2>4, <2>5 DEF IInv
<1>2. CASE Next
  <2>1. PICK t \in Threads : Invoke(t) \/ Step(t)
    BY <1>2 DEF Next
  <2>2. Observe
    BY <1>2 DEF Next
  <2>3. TypeOK'
    BY TypeStep DEF IInv
  <2>4. OthersWait(t)
    BY <2>1, StepOthers DEF IInv
  <2>5. PICK freed \in SUBSET Nodes :
          /\ StepInv(t, freed)
          /\ \A u \in Threads : InUse(u) \intersect freed = {}
    BY <2>1, <2>2, <2>3, OneStep
  <2>6. ListInv' /\ OwnInv'
    BY <2>5 DEF StepInv
  <2>7. ASSUME NEW u \in Threads
        PROVE  CallInv(u)' /\ ContextInv(u)' /\ SeenInv(u)' /\ Announced(u)'
    <3>1. CASE u = t
      BY <2>5, <3>1 DEF StepInv
    <3>2. CASE u # t
      <4>1. /\ TypeOK /\ Keeps(t, freed) /\ u \in Threads \ {t}
            /\ InUse(u) \intersect freed = {}
            /\ CallInv(u) /\ ContextInv(u) /\ SeenInv(u) /\ Announced(u)
        BY <2>5, <3>2 DEF StepInv, IInv
      <4> QED  BY <2>2, <2>4, <4>1, OtherThread
    <3> QED  BY <3>1, <3>2
  <2>8. ASSUME NEW v \in Threads, NEW u \in Threads PROVE Found(v, u)'
    <3>1. CASE v = t \/ u = t
      BY <2>5, <3>1 DEF StepInv
    <3>2. CASE v # t /\ u # t
      <4>1. /\ pc'[v] = pc[v] /\ pc'[u] = pc[u] /\ prev'[u] = prev[u] /\ cur'[u] = cur[u]
            /\ hazard_pointers'[u] = hazard_pointers[u] /\ slot'[v] = slot[v]
            /\ retired_lists_'[v] = retired_lists_[v] /\ active_list'[v] = active_list[v]
        BY <2>4, <3>2 DEF OthersWait
      <4>2. Scanning(v)' = Scanning(v) /\ InUse(u)' = InUse(u)
        BY <4>1 DEF Scanning, InUse
      <4>3. Found(v, u)
        BY DEF IInv
      <4> QED  BY <4>1, <4>2, <4>3 DEF Found
    <3> QED  BY <3>1, <3>2
  <2> QED  BY <2>3, <2>6, <2>7, <2>8 DEF IInv
<1> QED  BY <1>1, <1>2

-----------------------------------------------------------------------------
(* The theorems *)

(* The types, with no condition: cur is not NULL where the code reads      *)
(* through it.                                                             *)
THEOREM Typing == Spec => []TypeOK
<1>1. Init => TypeOK
  BY InitType
<1> QED  BY <1>1, TypeStep, PTL DEF Spec

(* The invariant, while no scan meets a swap *)
THEOREM Invariance == Spec /\ []SwapUnseen => []IInv
<1>1. Init => IInv
  BY InitInv
<1>2. IInv /\ [Next]_vars /\ SwapUnseen /\ SwapUnseen' => IInv'
  BY StepKeepsInv
<1> QED  BY <1>1, <1>2, PTL DEF Spec

(* While no scan meets a swap, checkIntegrity() holds at every instant:    *)
(* the keys ascend along the chain from head_, and no node that is linked  *)
(* and not marked has fallen out of it.                                    *)
THEOREM ChainSortedAndComplete == Spec /\ []SwapUnseen => []ListIntact
<1>1. IInv => ListIntact
  <2> SUFFICES ASSUME IInv PROVE ListIntact
    OBVIOUS
  <2>1. ASSUME NEW n \in Chain, NEW m \in Chain, next[n].to = m PROVE data[n] < data[m]
    <3>1. m # NULL
      BY ChainFacts, NodesAssumption DEF IInv
    <3> QED  BY <2>1, <3>1 DEF IInv, ListInv, Sorted, Chain
  <2> QED  BY <2>1 DEF IInv, ListInv, ListIntact
<1> QED  BY <1>1, Invariance, PTL

(* A set with at most one element counts as 1 or 0. *)
LEMMA CountOne ==
  ASSUME NEW S, \A x, y \in S : x = y
  PROVE  Cardinality(S) = IF S = {} THEN 0 ELSE 1
<1>1. CASE S = {}
  BY <1>1, FS_EmptySet
<1>2. CASE S # {}
  <2>1. PICK x \in S : TRUE
    BY <1>2
  <2>2. S = {x}
    BY <2>1
  <2> QED  BY <1>2, <2>2, FS_Singleton
<1> QED  BY <1>1, <1>2

(* While no scan meets a swap, a node belongs to the chain, to one retired *)
(* list or to the one thread that allocated it, and only as long as it has *)
(* not been deleted: retireNode() is called for it once.                   *)
THEOREM NodesHaveOneOwner == Spec /\ []SwapUnseen => []OneOwner
<1>1. IInv => OneOwner
  <2> SUFFICES ASSUME IInv, NEW n \in Nodes
               PROVE  Cardinality({t \in Threads : new_node[t] = n})
                        + Cardinality({t \in Threads : n \in retired_lists_[t]})
                        + Cardinality(Chain \intersect {n})
                        = Cardinality(live \intersect {n})
    BY DEF OneOwner
  <2> DEFINE A == {t \in Threads : new_node[t] = n}
             R == {t \in Threads : n \in retired_lists_[t]}
             C == Chain \intersect {n}
             L == live \intersect {n}
  <2>1. n # NULL
    BY NodesAssumption
  <2>2. (\A x, y \in A : x = y) /\ (\A x, y \in R : x = y)
    BY <2>1 DEF IInv, OwnInv
  <2>3. (\A x, y \in C : x = y) /\ (\A x, y \in L : x = y)
    OBVIOUS
  <2>4. /\ Cardinality(A) = (IF A = {} THEN 0 ELSE 1)
        /\ Cardinality(R) = (IF R = {} THEN 0 ELSE 1)
        /\ Cardinality(C) = (IF C = {} THEN 0 ELSE 1)
        /\ Cardinality(L) = (IF L = {} THEN 0 ELSE 1)
    <3> HIDE DEF A, R, C, L
    <3> QED  BY <2>2, <2>3, CountOne
  <2>5. /\ A # {} => n \in live /\ n \notin Linked
        /\ n \in live /\ n \notin Linked => A # {}
    BY <2>1 DEF IInv, OwnInv, Linked
  <2>6. R # {} <=> n \in Linked /\ n \notin Chain
    BY DEF IInv, OwnInv
  <2>7. (C # {} <=> n \in Chain) /\ (L # {} <=> n \in live)
    OBVIOUS
  <2>8. (n \in Chain => n \in Linked) /\ (n \in Linked => n \in live)
    BY DEF IInv, ListInv, Linked
  <2> HIDE DEF A, R, C, L
  <2>9. Cardinality(A) + Cardinality(R) + Cardinality(C) = Cardinality(L)
    BY <2>4, <2>5, <2>6, <2>7, <2>8
  <2> QED  BY <2>9 DEF A, R, C, L
<1> QED  BY <1>1, Invariance, PTL

(* While no scan meets a swap, no thread reads or writes a node that a     *)
(* scan has deleted.                                                       *)
THEOREM NoUseAfterFree == Spec /\ []SwapUnseen => []NoReclaimedNodeUsed
<1>1. IInv => NoReclaimedNodeUsed
  <2> SUFFICES ASSUME IInv, NEW t \in Threads
               PROVE  Touches(t) \subseteq live \union {HEAD}
    BY DEF NoReclaimedNodeUsed
  <2>1. prev[t] \in live \union {HEAD}
    BY DEF IInv, ContextInv, Linked
  <2>2. pc[t] \in {"next", "mark", "compare"} => cur[t] \in live
    BY DEF IInv, ContextInv, HoldsCur, Linked
  <2> QED  BY <2>1, <2>2 DEF Touches
<1> QED  BY <1>1, Invariance, PTL

(* While no scan meets a swap, insert(), remove() and lookup() are those   *)
(* of a set: each takes effect, or looks, at one instant within its call.  *)
THEOREM ListIsLinearizable == Spec /\ []SwapUnseen => Linearizable
<1>1. Init => AbstractSet!Init
  <2> SUFFICES ASSUME Init PROVE AbstractSet!Init
    OBVIOUS
  <2>1. Members = {}
    BY DEF Init, HPInit, Members, Linked
  <2> QED  BY <2>1, AnyKeyType DEF Init, AbstractSet!Init
<1>2. ASSUME IInv, SwapUnseen, SwapUnseen', [Next]_vars
      PROVE  [AbstractSet!Next]_(AbstractSet!vars)
  <2>1. CASE UNCHANGED vars
    <3>1. Members' = Members
      BY <2>1 DEF vars, hpVars, memVars, callVars, Members, Linked
    <3> QED  BY <2>1, <3>1 DEF vars, callVars, AbstractSet!vars
  <2>2. CASE Next
    <3>1. PICK t \in Threads : Invoke(t) \/ Step(t)
      BY <2>2 DEF Next
    <3>2. Observe
      BY <2>2 DEF Next
    <3>3. TypeOK /\ TypeOK'
      BY <1>2, TypeStep DEF IInv
    <3>4. AbstractStep(t)
      BY <1>2, <3>1, <3>2, <3>3, OneStep
    <3>5. AbstractSet!Observe
      BY <3>2 DEF Observe, AbstractSet!Observe
    <3>6. CASE UNCHANGED <<Members, op, key, result>>
      <4>1. was' = was
        <5>1. ASSUME NEW u \in Threads PROVE was'[u] = was[u]
          <6>1. was'[u] = IF op[u] = "none" THEN {}
                          ELSE IF result[u] # {} THEN was[u]
                          ELSE was[u] \union {key[u] \in Members}
            BY <3>2, <3>6 DEF Observe
          <6>2. op[u] = "none" => was[u] = {}
            BY <1>2 DEF IInv, SeenInv
          <6>3. op[u] # "none" /\ result[u] = {} => (key[u] \in Members) \in was[u]
            <7>1. CASE key[u] \in Members
              <8>1. (key[u] \in Members) = TRUE
                BY <7>1
              <8> QED  BY <1>2, <7>1, <8>1 DEF IInv, SeenInv
            <7>2. CASE key[u] \notin Members
              <8>1. (key[u] \in Members) = FALSE
                BY <7>2
              <8> QED  BY <1>2, <7>2, <8>1 DEF IInv, SeenInv
            <7> QED  BY <7>1, <7>2
          <6> QED  BY <6>1, <6>2, <6>3
        <5> QED  BY <3>3, <5>1 DEF TypeOK
      <4> QED  BY <3>6, <4>1 DEF AbstractSet!vars
    <3>7. CASE ~UNCHANGED <<Members, op, key, result>>
      BY <3>4, <3>5, <3>7 DEF AbstractStep, AbstractSet!Next
    <3> QED  BY <3>6, <3>7
  <2> QED  BY <1>2, <2>1, <2>2
<1> QED  BY <1>1, <1>2, Invariance, PTL DEF Spec, Linearizable, AbstractSet!Spec

-----------------------------------------------------------------------------
(* When no scan meets a swap *)

(* The bounds that rule it out, each for a reason of its own: there is one *)
(* thread; there is one key, and no lookup goes past a node; or there are  *)
(* not enough nodes for retireNode() to start a scan.                      *)
NeverMeet ==
  \/ num_threads = 1
  \/ \A k, l \in Keys : k = l
  \/ Cardinality(Nodes) <= MAX_RETIRED_NODES_PER_THREAD

(* Without two keys a lookup never goes on behind a node. *)
LEMMA OneKeyNoSwap ==
  ASSUME \A k, l \in Keys : k = l, TypeOK, [Next]_vars,
         \A t \in Threads : pc[t] \notin {"swap0", "swap1"}
  PROVE  \A t \in Threads : pc'[t] \notin {"swap0", "swap1"}
<1> USE DEF TypeOK, Goto, Leave
<1>1. CASE UNCHANGED vars
  BY <1>1 DEF vars
<1>2. ASSUME NEW t \in Threads, Invoke(t) \/ Step(t)
      PROVE  pc'[t] \notin {"swap0", "swap1"}
  <2>1. CASE Compare(t)
    <3>1. StopsAt(t)
      <4>1. cur[t] \in Nodes /\ pc[t] = "compare"
        BY <2>1 DEF Compare, DerefsCur
      <4>2. data[cur[t]] = key[t] /\ key[t] \in Int
        BY <4>1, KeysAssumption
      <4> QED  BY <4>2 DEF StopsAt
    <3> QED  BY <2>1, <3>1 DEF Compare, LookupReturns
  <2>2. CASE Loop(t)
    BY <2>2 DEF Loop, LookupReturns
  <2>3. CASE Unlink(t)
    BY <2>3 DEF Unlink, Retire
  <2>4. CASE Delete(t)
    BY <2>4 DEF Delete, DeleteFailed, Retire
  <2>5. CASE Scan(t)
    BY <2>5 DEF Scan
  <2>6. CASE Invoke(t) \/ try_again(t) \/ Check(t) \/ ReadNext(t) \/ Return(t)
    BY <2>6 DEF Invoke, try_again, Check, ReadNext, Return
  <2>7. CASE Swap0(t) \/ Swap1(t) \/ Link(t) \/ Mark(t)
    BY <2>7, ZenonT(60) DEF Swap0, Swap1, Link, Mark, MarkFailed
  <2> QED  BY <1>2, <2>1, <2>2, <2>3, <2>4, <2>5, <2>6, <2>7 DEF Step
<1>3. CASE Next
  BY <1>2, <1>3, StepOthers DEF Next, OthersWait
<1> QED  BY <1>1, <1>3

(* Where retireNode() never has too many nodes, it never scans. *)
LEMMA FewNodesNoScan ==
  ASSUME Cardinality(Nodes) <= MAX_RETIRED_NODES_PER_THREAD, TypeOK, [Next]_vars,
         \A t \in Threads : ~Scanning(t)
  PROVE  \A t \in Threads : ~Scanning(t)'
<1> USE DEF TypeOK, Goto, Leave, Scanning
<1>1. CASE UNCHANGED vars
  BY <1>1 DEF vars
<1>2. ASSUME NEW t \in Threads, cur[t] \in Nodes PROVE ~MustScan(t, cur[t])
  <2> DEFINE S == retired_lists_[t] \union {cur[t]}
  <2>1. S \subseteq Nodes
    BY <1>2 DEF HPTypeOK
  <2>2. Cardinality(S) <= Cardinality(Nodes) /\ Cardinality(S) \in Nat
        /\ Cardinality(Nodes) \in Nat
    BY <2>1, NodesAssumption, FS_Subset, FS_CardinalityType
  <2> HIDE DEF S
  <2>3. ~(Cardinality(S) > MAX_RETIRED_NODES_PER_THREAD)
    BY <2>2, RetiredAssumption
  <2> QED  BY <2>3 DEF MustScan, S
<1>3. ASSUME NEW t \in Threads, Invoke(t) \/ Step(t) PROVE ~Scanning(t)'
  <2>1. CASE Unlink(t) \/ Delete(t)
    <3>1. cur[t] \in Nodes
      BY <2>1 DEF Unlink, Delete, DerefsCur
    <3>2. ~MustScan(t, cur[t])
      BY <1>2, <3>1
    <3> QED  BY <2>1, <3>2 DEF Unlink, Delete, DeleteFailed, Retire
  <2>2. CASE Loop(t) \/ Compare(t)
    BY <2>2 DEF Loop, Compare, LookupReturns
  <2>3. CASE Invoke(t) \/ try_again(t) \/ Check(t) \/ ReadNext(t) \/ Return(t)
    BY <2>3 DEF Invoke, try_again, Check, ReadNext, Return
  <2>4. CASE Swap0(t) \/ Swap1(t) \/ Scan(t)
    BY <2>4 DEF Swap0, Swap1, Scan
  <2>5. CASE Link(t) \/ Mark(t)
    BY <2>5, ZenonT(60) DEF Link, Mark, MarkFailed
  <2> QED  BY <1>3, <2>1, <2>2, <2>3, <2>4, <2>5 DEF Step
<1>4. CASE Next
  BY <1>3, <1>4, StepOthers DEF Next, OthersWait
<1> QED  BY <1>1, <1>4

(* Under such a bound no scan meets a swap. *)
THEOREM SwapsUnseen ==
  ASSUME NeverMeet
  PROVE  Spec => []SwapUnseen
<1>1. CASE num_threads = 1
  <2>1. SwapUnseen
    BY <1>1 DEF SwapUnseen, Scanning, Threads
  <2> QED  BY <2>1, PTL
<1>2. CASE \A k, l \in Keys : k = l
  <2> DEFINE NoSwap == \A t \in Threads : pc[t] \notin {"swap0", "swap1"}
  <2>1. Init => NoSwap
    BY DEF Init
  <2>2. TypeOK /\ NoSwap /\ [Next]_vars => NoSwap'
    BY <1>2, OneKeyNoSwap
  <2>3. NoSwap => SwapUnseen
    BY DEF SwapUnseen
  <2> QED  BY <2>1, <2>2, <2>3, Typing, PTL DEF Spec
<1>3. CASE Cardinality(Nodes) <= MAX_RETIRED_NODES_PER_THREAD
  <2> DEFINE NobodyScans == \A t \in Threads : ~Scanning(t)
  <2>1. Init => NobodyScans
    BY DEF Init, Scanning
  <2>2. TypeOK /\ NobodyScans /\ [Next]_vars => NobodyScans'
    BY <1>3, FewNodesNoScan
  <2>3. NobodyScans => SwapUnseen
    BY DEF SwapUnseen
  <2> QED  BY <2>1, <2>2, <2>3, Typing, PTL DEF Spec
<1> QED  BY <1>1, <1>2, <1>3 DEF NeverMeet

(* Under such a bound the list is right, with no other condition. *)
THEOREM RightWithoutSwaps ==
  ASSUME NeverMeet
  PROVE  Spec => [](ListIntact /\ OneOwner /\ NoReclaimedNodeUsed) /\ Linearizable
BY SwapsUnseen, ChainSortedAndComplete, NodesHaveOneOwner, NoUseAfterFree,
   ListIsLinearizable, PTL

=============================================================================
