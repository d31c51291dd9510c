------------------------------ MODULE FileCache ------------------------------
(***************************************************************************)
(* file_cache.cpp: the map from file names to buffers, shared by the       *)
(* worker threads of the server.                                           *)
(*                                                                         *)
(* A section of CacheLock_ is one step, except the eviction loop, which    *)
(* keeps the write lock over several: the pin count of a hit is            *)
(* incremented without any lock and may fall between them.  A Node is      *)
(* never freed, so a thread may keep a pointer to one that has left the    *)
(* map: node[p] is "live" while p's Node is the one in the map, "evicted"  *)
(* from then on.                                                           *)
(*                                                                         *)
(* pins_total_, hits_total_ and failed_total_ are statistics that no code  *)
(* of the cache reads; they are left out.  A file does not change while it *)
(* is being read.                                                          *)
(***************************************************************************)
EXTENDS Integers, Sequences, FiniteSets

CONSTANTS Threads, Files,
          Size,         \* st_size of each file
          BlockSize,    \* Buffer::BlockSize
          CacheSize_,   \* the constructor's max_size
          MaxUnpinned,  \* bound on bytes_unpinned_files_
          MaxPins,      \* no new hit on a file with that many pins
          None          \* no thread, no file

ASSUME SizeAssumption == Size \in [Files -> Nat]
ASSUME LimitAssumption ==
  CacheSize_ \in Nat /\ BlockSize \in Nat /\ MaxUnpinned \in Nat /\ MaxPins \in Nat
ASSUME NoneAssumption == None \notin Threads \union Files

VARIABLES
  cached,                 \* the files cache_map_ has a Node for
  count_unpin,            \* pin count of that Node, 0 for other files
  PinnedFiles_,           \* the FIFO list
  bytes_used_, bytes_unpinned_files_,
  writer, pos,            \* thread in the eviction loop, its list iterator
  pc, file, node,         \* per thread: place in pin(), argument, its Node
  exited                  \* the process is gone: FATAL, or a broken iterator,
                          \* after which nothing is said of it

mapVars == <<cached, count_unpin, PinnedFiles_, bytes_used_>>
vars == <<mapVars, bytes_unpinned_files_, writer, pos, pc, file, node, exited>>

(* "failed" is a pin() about to return 0; a thread that "kept" the write   *)
(* lock has called unpin(0).                                               *)
Places == {"idle", "hit", "open", "read", "insert", "evict", "store",
           "failed", "held", "kept"}

TypeOK ==
  /\ cached \subseteq Files
  /\ count_unpin \in [Files -> Nat]
  /\ PinnedFiles_ \in Seq(Files)
  /\ bytes_used_ \in Int
  /\ bytes_unpinned_files_ \in 0..MaxUnpinned
  /\ writer \in Threads \union {None}
  /\ pos \in Nat
  /\ pc \in [Threads -> Places]
  /\ file \in [Threads -> Files \union {None}]
  /\ node \in [Threads -> {"none", "live", "evicted"}]
  /\ exited \in BOOLEAN

Init ==
  /\ cached = {} /\ count_unpin = [f \in Files |-> 0]
  /\ PinnedFiles_ = <<>>
  /\ bytes_used_ = 0 /\ bytes_unpinned_files_ = 0
  /\ writer = None /\ pos = 1
  /\ pc = [p \in Threads |-> "idle"]
  /\ file = [p \in Threads |-> None]
  /\ node = [p \in Threads |-> "none"]
  /\ exited = FALSE

(* The bytes a file's Buffer counts.  The read loop never advances the     *)
(* buffer, and the one advance() after it refuses more than the single     *)
(* block that was reserved: a longer file is cached as an empty one.       *)
byteCount(f) == IF Size[f] <= BlockSize THEN Size[f] ELSE 0

free_space == CacheSize_ - bytes_used_

(* Is there space for the file?  Mutant: off by one. *)
FitsOffByOne(f) == free_space + 1 >= Size[f]
Fits(f) == free_space >= Size[f]

(* What the buffer of a file adds to bytes_used_.  Mutant: the file size.  *)
ChargeFileSize(f) == Size[f]
Charge(f) == byteCount(f)

(* What unpin() adds to bytes_unpinned_files_.  Mutant: nothing. *)
CreditNothing(f) == 0
Credit(f) == byteCount(f)

(* The list without the element at i.  Mutant: the element stays. *)
NotErased(list, i) == list
Erased(list, i) ==
  [k \in 1..(Len(list) - 1) |-> list[IF k < i THEN k ELSE k + 1]]

(* Does unpin() find a pin to give back?  Mutant: the count is not tested. *)
HasPinUnchecked(f) == f \in cached
HasPin(f) == f \in cached /\ count_unpin[f] > 0

(* The end of the eviction loop's write lock *)
unlock == writer' = None

At(p, place)   == ~exited /\ pc[p] = place
Goto(p, place) == pc' = [pc EXCEPT ![p] = place]

-----------------------------------------------------------------------------
(* pin(), the hit *)

Lookup(p, f) ==
  /\ At(p, "idle") /\ writer = None
  /\ file' = [file EXCEPT ![p] = f]
  /\ \/ /\ f \in cached /\ count_unpin[f] < MaxPins
        /\ node' = [node EXCEPT ![p] = "live"]
        /\ Goto(p, "hit")
     \/ /\ f \notin cached
        /\ node' = [node EXCEPT ![p] = "none"]
        /\ Goto(p, "open")
  /\ UNCHANGED <<mapVars, bytes_unpinned_files_, writer, pos, exited>>

(* fetch_and_add on the Node found before the read lock was released. *)
CountHit(p) ==
  /\ At(p, "hit")
  /\ count_unpin' = IF node[p] = "live"
                    THEN [count_unpin EXCEPT ![file[p]] = @ + 1]
                    ELSE count_unpin
  /\ Goto(p, "held")
  /\ UNCHANGED <<cached, PinnedFiles_, bytes_used_, bytes_unpinned_files_,
                 writer, pos, file, node, exited>>

-----------------------------------------------------------------------------
(* pin(), the miss: open, read, then insert under the write lock *)

Open(p) ==
  /\ At(p, "open")
  /\ Goto(p, "read") \/ Goto(p, "failed")
  /\ UNCHANGED <<mapVars, bytes_unpinned_files_, writer, pos, file, node,
                 exited>>

Read(p) ==
  /\ At(p, "read")
  /\ Goto(p, "insert") \/ Goto(p, "failed")
  /\ UNCHANGED <<mapVars, bytes_unpinned_files_, writer, pos, file, node,
                 exited>>

(* The new Node goes to the map and to the end of the list, pinned once;   *)
(* if another thread inserted the file meanwhile, the new buffer is        *)
(* deleted and pin() returns 0.                                            *)
InsertNode(p) ==
  \/ /\ file[p] \notin cached
     /\ cached' = cached \union {file[p]}
     /\ count_unpin' = [count_unpin EXCEPT ![file[p]] = 1]
     /\ PinnedFiles_' = Append(PinnedFiles_, file[p])
     /\ bytes_used_' = bytes_used_ + Charge(file[p])
     /\ node' = [node EXCEPT ![p] = "live"]
     /\ Goto(p, "held")
  \/ /\ file[p] \in cached
     /\ Goto(p, "failed")
     /\ UNCHANGED <<mapVars, node>>

Insert(p) ==
  /\ At(p, "insert") /\ writer = None
  /\ \/ /\ Fits(file[p])
        /\ InsertNode(p)
        /\ UNCHANGED <<writer, pos>>
     \/ /\ ~Fits(file[p])
        /\ free_space + bytes_unpinned_files_ < Size[file[p]]
        /\ Goto(p, "failed")
        /\ UNCHANGED <<mapVars, node, writer, pos>>
     \/ /\ ~Fits(file[p])
        /\ free_space + bytes_unpinned_files_ >= Size[file[p]]
        /\ writer' = p /\ pos' = 1
        /\ Goto(p, "evict")
        /\ UNCHANGED <<mapVars, node>>
  /\ UNCHANGED <<bytes_unpinned_files_, file, exited>>

(* One turn of the eviction loop, at the list iterator.  The loop ends as  *)
(* soon as there is space; otherwise it advances the iterator, which is    *)
(* undefined once the element was erased: the freed element still leads to *)
(* the next one, or the iterator is broken and the process with it.        *)
Evict(p) ==
  LET f == PinnedFiles_[pos]
      spaceAfter == free_space + byteCount(f)
  IN
  /\ At(p, "evict") /\ pos <= Len(PinnedFiles_)
  /\ \/ /\ count_unpin[f] = 0
        /\ bytes_used_' = bytes_used_ - byteCount(f)
        /\ cached' = cached \ {f}
        /\ PinnedFiles_' = Erased(PinnedFiles_, pos)
        /\ node' = [q \in Threads |->
                      IF file[q] = f /\ node[q] = "live" THEN "evicted"
                      ELSE node[q]]
        /\ \/ /\ spaceAfter >= Size[file[p]]
              /\ Goto(p, "store")
              /\ UNCHANGED exited
           \/ /\ spaceAfter < Size[file[p]]
              /\ exited' \in BOOLEAN
              /\ UNCHANGED pc
        /\ UNCHANGED pos
     \/ /\ count_unpin[f] # 0
        /\ pos' = pos + 1
        /\ UNCHANGED <<cached, PinnedFiles_, bytes_used_, node, pc, exited>>
  /\ UNCHANGED <<count_unpin, bytes_unpinned_files_, writer, file>>

(* After the loop, with the space it made. *)
Store(p) ==
  /\ At(p, "store")
  /\ InsertNode(p)
  /\ unlock
  /\ UNCHANGED <<bytes_unpinned_files_, pos, file, exited>>

(* "Still no space" *)
EvictedInVain(p) ==
  /\ At(p, "evict") /\ pos > Len(PinnedFiles_)
  /\ Goto(p, "failed")
  /\ unlock
  /\ UNCHANGED <<mapVars, bytes_unpinned_files_, pos, file, node, exited>>

Return0(p) ==
  /\ At(p, "failed")
  /\ Goto(p, "idle")
  /\ file' = [file EXCEPT ![p] = None]
  /\ node' = [node EXCEPT ![p] = "none"]
  /\ UNCHANGED <<mapVars, bytes_unpinned_files_, writer, pos, exited>>

-----------------------------------------------------------------------------
(* The holder of a handle unpins it, or, as                                *)
(* HTTPServerConnection::handleRequest() does, forgets it.                 *)

(* unpin() finds the Node anew, by name; no Node, or one without pins, is  *)
(* FATAL.                                                                  *)
Unpin(p) ==
  LET f == file[p] IN
  /\ At(p, "held") /\ writer = None
  /\ \/ /\ HasPin(f)
        /\ bytes_unpinned_files_ + Credit(f) <= MaxUnpinned
        /\ count_unpin' = [count_unpin EXCEPT ![f] = @ - 1]
        /\ bytes_unpinned_files_' = bytes_unpinned_files_ + Credit(f)
        /\ UNCHANGED exited
     \/ /\ ~HasPin(f)
        /\ exited' = TRUE
        /\ UNCHANGED <<count_unpin, bytes_unpinned_files_>>
  /\ Goto(p, "idle")
  /\ file' = [file EXCEPT ![p] = None]
  /\ node' = [node EXCEPT ![p] = "none"]
  /\ UNCHANGED <<cached, PinnedFiles_, bytes_used_, writer, pos>>

Forget(p) ==
  /\ At(p, "held")
  /\ Goto(p, "idle")
  /\ file' = [file EXCEPT ![p] = None]
  /\ node' = [node EXCEPT ![p] = "none"]
  /\ UNCHANGED <<mapVars, bytes_unpinned_files_, writer, pos, exited>>

(* unpin(0), with what a failed pin() returned: it leaves with the lock.   *)
UnpinNull(p) ==
  /\ At(p, "idle") /\ writer = None
  /\ writer' = p /\ Goto(p, "kept")
  /\ UNCHANGED <<mapVars, bytes_unpinned_files_, pos, file, node, exited>>

(* The process is gone, or in time all its threads wait for that lock. *)
Stopped == (exited \/ \E p \in Threads : pc[p] = "kept") /\ UNCHANGED vars

Pin(p) ==
  \/ CountHit(p) \/ Open(p) \/ Read(p) \/ Insert(p)
  \/ Evict(p) \/ Store(p) \/ EvictedInVain(p) \/ Return0(p)

Next ==
  \/ \E p \in Threads, f \in Files : Lookup(p, f)
  \/ \E p \in Threads : Pin(p) \/ Unpin(p) \/ Forget(p) \/ UnpinNull(p)
  \/ Stopped

Spec == Init /\ [][Next]_vars

(* A thread inside pin() is scheduled; nobody has to pin or to unpin, and  *)
(* the lock need not be granted to anyone in particular.                   *)
Fairness == \A p \in Threads : WF_vars(Pin(p))

FairSpec == Spec /\ Fairness

-----------------------------------------------------------------------------
(* The sum of the bytes of the files of S, counted one by one *)
BytesOf(S) == UNION {{f} \X (1..byteCount(f)) : f \in S}
Bytes(S)   == Cardinality(BytesOf(S))
Unpinned == {f \in cached : count_unpin[f] = 0}

(* "The sum of all Buffer's stored in the map never exceeds the size       *)
(* determined for the cache": evictions and inserts of several threads     *)
(* keep bytes_used_ equal to that sum, and within the limit.               *)
UsedIsSum == bytes_used_ = Bytes(cached)
BytesWithinLimit == bytes_used_ <= CacheSize_

(* The FIFO list names exactly the files of the map, each once: the        *)
(* eviction loop dereferences what find() returns for a name of the list   *)
(* without a test.                                                         *)
ListMatchesMap ==
  /\ cached = {PinnedFiles_[i] : i \in 1..Len(PinnedFiles_)}
  /\ \A i, j \in 1..Len(PinnedFiles_) :
       PinnedFiles_[i] = PinnedFiles_[j] => i = j

(* "a pinned file never gets evicted from the cache, only unpinned ones".  *)
PinnedNotEvicted ==
  \A p \in Threads : pc[p] = "held" => node[p] = "live"

(* A pin fails for lack of space only if evicting every unpinned file      *)
(* would not have made enough: bytes_unpinned_files_, which only grows,    *)
(* never underestimates what is unpinned.                                  *)
NoSpuriousFailure ==
  [][\A p \in Threads :
       /\ pc[p] \in {"insert", "evict"} /\ pc'[p] = "failed"
       /\ file[p] \notin cached
       => free_space + Bytes(Unpinned) < Size[file[p]]]_vars

=============================================================================
