--------------------------- MODULE HazardPointers ---------------------------
(***************************************************************************)
(* hazard_pointers.hpp with NUM_PTRS = 2: which nodes the threads announce *)
(* to be using, which ones wait to be reclaimed, and the scan that frees   *)
(* them.  A thread reads the others' announcements one by one, without     *)
(* synchronisation.  The module that uses it decides when a thread         *)
(* announces and retires, and where it goes after a scan.                  *)
(***************************************************************************)
EXTENDS Integers, FiniteSets

CONSTANTS num_threads,                   \* threads are 0..num_threads - 1
          Nodes,                         \* bound: the memory there is
          NULL,
          MAX_RETIRED_NODES_PER_THREAD,
          Garbage                        \* bound: what fresh memory holds

ASSUME ThreadsAssumption == num_threads \in Nat \ {0}
ASSUME NodesAssumption == NULL \notin Nodes /\ IsFiniteSet(Nodes)
ASSUME GarbageAssumption == Garbage # {} /\ Garbage \subseteq Nodes \union {NULL}
ASSUME RetiredAssumption == MAX_RETIRED_NODES_PER_THREAD \in Nat

Threads == 0 .. num_threads - 1
NUM_PTRS == 2
Slots == 0 .. NUM_PTRS - 1
AllSlots == num_threads * NUM_PTRS

VARIABLES live,              \* nodes allocated and not deleted
          hazard_pointers,   \* by thread and slot
          retired_lists_,    \* by thread
          active_list,       \* by thread: what its scan found
          slot               \* by thread: the scan's next slot

hpVars == <<live, hazard_pointers, retired_lists_, active_list, slot>>

HPTypeOK ==
  /\ live \subseteq Nodes
  /\ hazard_pointers \in [Threads -> [Slots -> Nodes \union {NULL}]]
  /\ retired_lists_ \in [Threads -> SUBSET Nodes]
  /\ active_list \in [Threads -> SUBSET Nodes]
  /\ slot \in [Threads -> 0 .. AllSlots]

(* The constructor does not initialise the records: a slot may hold NULL,  *)
(* or the address of memory that later becomes a node.                     *)
HPInit ==
  /\ live = {}
  /\ hazard_pointers \in [Threads -> [Slots -> Garbage]]
  /\ retired_lists_ = [t \in Threads |-> {}]
  /\ active_list = [t \in Threads |-> {}]
  /\ slot = [t \in Threads |-> 0]

(* hp[i] = n, for a thread's own record *)
Announce(t, i, n) == hazard_pointers' = [hazard_pointers EXCEPT ![t][i] = n]

(* retireNode(), and whether it goes on to maybeFreeNodes() *)
retireNode(t, n) == retired_lists_' = [retired_lists_ EXCEPT ![t] = @ \union {n}]
MustScan(t, n) ==
  Cardinality(retired_lists_[t] \union {n}) > MAX_RETIRED_NODES_PER_THREAD

(* maybeFreeNodes(): the snapshot, slot by slot *)
ScanSlot(t) ==
  /\ slot[t] < AllSlots
  /\ LET p == hazard_pointers[slot[t] \div NUM_PTRS][slot[t] % NUM_PTRS] IN
       active_list' = [active_list EXCEPT ![t] = (@ \union {p}) \ {NULL}]
  /\ slot' = [slot EXCEPT ![t] = @ + 1]
  /\ UNCHANGED <<live, hazard_pointers, retired_lists_>>

(* What may be deleted after it *)
Reclaimable(t) == retired_lists_[t] \ active_list[t]

(* and the reclamation *)
FreeNodes(t) ==
  /\ slot[t] = AllSlots
  /\ live' = live \ Reclaimable(t)
  /\ retired_lists_' = [retired_lists_ EXCEPT ![t] = @ \ Reclaimable(t)]
  /\ active_list' = [active_list EXCEPT ![t] = {}]
  /\ slot' = [slot EXCEPT ![t] = 0]
  /\ UNCHANGED hazard_pointers
=============================================================================
