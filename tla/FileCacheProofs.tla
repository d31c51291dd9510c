-------------------------- MODULE FileCacheProofs --------------------------
(***************************************************************************)
(* Proofs about FileCache, for any set of threads and files, any file      *)
(* sizes and any limit: the cache never holds more than it was given, its  *)
(* FIFO list always names exactly the files of its map, bytes_used_ is the *)
(* sum of the buffers, and a pin fails for lack of space only when nothing *)
(* that could be evicted would have made enough.                           *)
(***************************************************************************)
EXTENDS FileCache, SequenceTheorems, FiniteSetTheorems, TLAPS

(* The write lock belongs to the one thread in the eviction loop, a thread *)
(* inside pin() has a file, and the space that the loop made for it stays. *)
LockInv ==
  /\ pos \in Nat \ {0}
  /\ \A p \in Threads :
       /\ pc[p] \notin {"idle", "kept"} => file[p] \in Files
       /\ writer = p <=> pc[p] \in {"evict", "store", "kept"}
       /\ pc[p] = "store" => Fits(file[p])

Inv == TypeOK /\ LockInv /\ BytesWithinLimit /\ ListMatchesMap

(* What the provers need of a file's size. *)
LEMMA SizeFacts ==
  ASSUME NEW f \in Files
  PROVE  Size[f] \in Nat /\ byteCount(f) \in Nat /\ byteCount(f) <= Size[f]
  BY SizeAssumption, LimitAssumption DEF byteCount

(* What erasing one element does to a list without repetitions. *)
LEMMA ErasedFacts ==
  ASSUME NEW S, NEW list \in Seq(S), NEW i \in 1..Len(list),
         \A a, b \in 1..Len(list) : list[a] = list[b] => a = b
  PROVE  LET e == Erased(list, i) IN
         /\ e \in Seq(S)
         /\ {e[k] : k \in 1..Len(e)} = {list[k] : k \in 1..Len(list)} \ {list[i]}
         /\ \A a, b \in 1..Len(e) : e[a] = e[b] => a = b
<1> DEFINE e == Erased(list, i)
           n == Len(list)
           Old(k) == IF k < i THEN k ELSE k + 1
<1>1. n \in Nat /\ n - 1 \in Nat
  BY DEF Erased
<1>2. \A k \in 1..(n - 1) : Old(k) \in 1..n /\ Old(k) # i /\ e[k] = list[Old(k)]
  BY <1>1 DEF Erased
<1>3. e \in [1..(n - 1) -> S]
  BY <1>1, <1>2 DEF Erased
<1>4. e \in Seq(S) /\ Len(e) = n - 1
  BY <1>1, <1>3
<1>5. \A k \in 1..n : k # i => \E m \in 1..(n - 1) : Old(m) = k
  <2> SUFFICES ASSUME NEW k \in 1..n, k # i
               PROVE  \E m \in 1..(n - 1) : Old(m) = k
    OBVIOUS
  <2>1. CASE k < i
    <3>1. k \in 1..(n - 1) /\ Old(k) = k  BY <1>1, <2>1
    <3> QED  BY <3>1
  <2>2. CASE k > i
    <3>1. k - 1 \in 1..(n - 1) /\ Old(k - 1) = k  BY <1>1, <2>2
    <3> QED  BY <3>1
  <2> QED  BY <1>1, <2>1, <2>2
<1>6. {e[k] : k \in 1..(n - 1)} = {list[k] : k \in 1..n} \ {list[i]}
  <2>1. ASSUME NEW x \in {e[k] : k \in 1..(n - 1)}
        PROVE  x \in {list[m] : m \in 1..n} /\ x # list[i]
    <3>1. PICK k \in 1..(n - 1) : x = e[k]
      BY <2>1
    <3> QED  BY <1>2, <3>1
  <2>2. ASSUME NEW x \in {list[k] : k \in 1..n}, x # list[i]
        PROVE  x \in {e[m] : m \in 1..(n - 1)}
    <3>1. PICK k \in 1..n : x = list[k]
      BY <2>2
    <3>2. PICK m \in 1..(n - 1) : Old(m) = k
      BY <1>5, <2>2, <3>1
    <3> QED  BY <1>2, <3>1, <3>2
  <2> QED  BY <2>1, <2>2, Zenon
<1>7. \A a, b \in 1..(n - 1) : e[a] = e[b] => a = b
  <2> SUFFICES ASSUME NEW a \in 1..(n - 1), NEW b \in 1..(n - 1), e[a] = e[b]
               PROVE  a = b
    OBVIOUS
  <2>1. Old(a) = Old(b)
    BY <1>2
  <2> QED  BY <1>1, <2>1
<1> QED  BY <1>4, <1>6, <1>7

(* The empty cache. *)
LEMMA InitInv == Init => Inv
<1> SUFFICES ASSUME Init PROVE Inv
  OBVIOUS
<1>1. TypeOK
  <2>1. PinnedFiles_ \in Seq(Files) /\ pos \in Nat /\ bytes_used_ \in Int
    BY DEF Init
  <2>2. bytes_unpinned_files_ \in 0..MaxUnpinned
    BY LimitAssumption DEF Init
  <2>3. pc \in [Threads -> Places] /\ file \in [Threads -> Files \union {None}]
    BY DEF Init, Places
  <2> QED  BY <2>1, <2>2, <2>3 DEF Init, TypeOK
<1>2. LockInv
  BY NoneAssumption DEF Init, LockInv
<1>3. BytesWithinLimit /\ ListMatchesMap
  BY LimitAssumption DEF Init, BytesWithinLimit, ListMatchesMap
<1> QED  BY <1>1, <1>2, <1>3 DEF Inv

(* The insertion, whether there was space at once or it was made. *)
LEMMA InsertNodeInv ==
  ASSUME Inv, NEW p \in Threads, pc[p] \in {"insert", "store"},
         Fits(file[p]), InsertNode(p)
  PROVE  /\ cached' \subseteq Files
         /\ count_unpin' \in [Files -> Nat]
         /\ PinnedFiles_' \in Seq(Files)
         /\ bytes_used_' \in Int
         /\ node' \in [Threads -> {"none", "live", "evicted"}]
         /\ pc' \in [Threads -> Places]
         /\ pc' = [pc EXCEPT ![p] = pc'[p]] /\ pc'[p] \in {"held", "failed"}
         /\ BytesWithinLimit'
         /\ ListMatchesMap'
<1> DEFINE f == file[p]
<1>1. f \in Files /\ Size[f] \in Nat /\ byteCount(f) \in Nat
      /\ byteCount(f) <= Size[f]
  BY SizeFacts DEF Inv, LockInv
<1>2. CASE f \notin cached
  <2>1. /\ cached' = cached \union {f}
        /\ count_unpin' = [count_unpin EXCEPT ![f] = 1]
        /\ PinnedFiles_' = Append(PinnedFiles_, f)
        /\ bytes_used_' = bytes_used_ + byteCount(f)
        /\ node' = [node EXCEPT ![p] = "live"]
        /\ pc' = [pc EXCEPT ![p] = "held"]
    BY <1>2 DEF InsertNode, Charge, Goto
  <2>2. BytesWithinLimit'
    BY <1>1, <2>1, LimitAssumption
       DEF Inv, TypeOK, Fits, free_space, BytesWithinLimit
  <2>3. /\ PinnedFiles_ \in Seq(Files)
        /\ cached = {PinnedFiles_[i] : i \in 1..Len(PinnedFiles_)}
        /\ \A i, j \in 1..Len(PinnedFiles_) :
             PinnedFiles_[i] = PinnedFiles_[j] => i = j
    BY DEF Inv, TypeOK, ListMatchesMap
  <2>4. /\ Len(PinnedFiles_) \in Nat
        /\ Len(PinnedFiles_') = Len(PinnedFiles_) + 1
        /\ \A i \in 1..Len(PinnedFiles_) : PinnedFiles_'[i] = PinnedFiles_[i]
        /\ PinnedFiles_'[Len(PinnedFiles_) + 1] = f
        /\ PinnedFiles_' \in Seq(Files)
    BY <1>1, <2>1, <2>3, AppendProperties
  <2>5. ListMatchesMap'
    BY <1>2, <2>1, <2>3, <2>4 DEF ListMatchesMap
  <2> QED
    BY <1>1, <2>1, <2>2, <2>4, <2>5, LimitAssumption DEF Inv, TypeOK, Places
<1>3. CASE f \in cached
  <2>1. UNCHANGED <<mapVars, node>> /\ pc' = [pc EXCEPT ![p] = "failed"]
    BY <1>3 DEF InsertNode, Goto
  <2>2. BytesWithinLimit' /\ ListMatchesMap'
    BY <2>1 DEF mapVars, Inv, BytesWithinLimit, ListMatchesMap
  <2> QED  BY <2>1, <2>2 DEF mapVars, Inv, TypeOK, Places
<1> QED  BY <1>2, <1>3

(* A step of a thread that ends outside the eviction loop and leaves the   *)
(* map, the list and the bytes alone.                                      *)
LEMMA LocalStepInv ==
  ASSUME Inv, NEW p \in Threads, NEW place \in Places \ {"evict", "store", "kept"},
         pc[p] # "kept",
         pc' = [pc EXCEPT ![p] = place],
         UNCHANGED <<cached, PinnedFiles_, bytes_used_, pos>>,
         count_unpin' \in [Files -> Nat],
         bytes_unpinned_files_' \in 0..MaxUnpinned,
         writer' = IF pc[p] \in {"evict", "store"} THEN None ELSE writer,
         file' \in [Threads -> Files \union {None}],
         \A q \in Threads : q # p => file'[q] = file[q],
         place # "idle" => file'[p] \in Files,
         node' \in [Threads -> {"none", "live", "evicted"}],
         exited' \in BOOLEAN
  PROVE  Inv'
<1>1. TypeOK'
  BY DEF Inv, TypeOK
<1>2. pc'[p] = place /\ \A q \in Threads : q # p => pc'[q] = pc[q]
  BY DEF Inv, TypeOK
<1>3. LockInv'
  <2> SUFFICES ASSUME NEW q \in Threads
               PROVE  /\ pc'[q] \notin {"idle", "kept"} => file'[q] \in Files
                      /\ writer' = q <=> pc'[q] \in {"evict", "store", "kept"}
                      /\ pc'[q] = "store" => Fits(file[q])'
    BY DEF Inv, LockInv
  <2>1. CASE q = p
    BY <1>2, <2>1, NoneAssumption DEF Inv, LockInv
  <2>2. CASE q # p
    <3>1. pc'[q] = pc[q] /\ file'[q] = file[q] /\ (Fits(file[q])' <=> Fits(file[q]))
      BY <1>2, <2>2 DEF Fits, free_space
    <3>2. writer' = q <=> writer = q
      BY <2>2, NoneAssumption DEF Inv, LockInv
    <3> QED  BY <3>1, <3>2 DEF Inv, LockInv
  <2> QED  BY <2>1, <2>2
<1>4. BytesWithinLimit' /\ ListMatchesMap'
  BY DEF Inv, BytesWithinLimit, ListMatchesMap
<1> QED  BY <1>1, <1>3, <1>4 DEF Inv

(* Every action keeps the types, the lock, the limit and the list. *)
LEMMA StepInv == Inv /\ [Next]_vars => Inv'
<1> SUFFICES ASSUME Inv, [Next]_vars PROVE Inv'
  OBVIOUS
<1> USE LimitAssumption, NoneAssumption
<1>1. ASSUME NEW p \in Threads, NEW f \in Files, Lookup(p, f) PROVE Inv'
  <2>1. PICK place \in {"hit", "open"} : pc' = [pc EXCEPT ![p] = place]
    BY <1>1 DEF Lookup, Goto
  <2>2. /\ pc[p] = "idle" /\ file' = [file EXCEPT ![p] = f]
        /\ UNCHANGED <<mapVars, bytes_unpinned_files_, writer, pos, exited>>
    BY <1>1 DEF Lookup, At
  <2>3. node' \in [Threads -> {"none", "live", "evicted"}]
    BY <1>1 DEF Lookup, Inv, TypeOK
  <2> QED
    BY <2>1, <2>2, <2>3, LocalStepInv DEF mapVars, Inv, TypeOK, Places
<1>2. ASSUME NEW p \in Threads, CountHit(p) PROVE Inv'
  <2>1. file[p] \in Files
    BY <1>2 DEF CountHit, At, Inv, LockInv
  <2>2. count_unpin' \in [Files -> Nat]
    <3>1. count_unpin[file[p]] + 1 \in Nat
      BY <2>1 DEF Inv, TypeOK
    <3> QED  BY <1>2, <3>1 DEF CountHit, Inv, TypeOK
  <2> QED
    BY <1>2, <2>1, <2>2, LocalStepInv
       DEF CountHit, At, Goto, Inv, TypeOK, Places
<1>3. ASSUME NEW p \in Threads, Open(p) \/ Read(p) \/ EvictedInVain(p)
      PROVE  Inv'
  <2>1. PICK place \in {"read", "insert", "failed"} :
          pc' = [pc EXCEPT ![p] = place]
    BY <1>3 DEF Open, Read, EvictedInVain, Goto
  <2>2. /\ pc[p] \in {"open", "read", "evict"}
        /\ writer' = IF pc[p] \in {"evict", "store"} THEN None ELSE writer
        /\ UNCHANGED <<mapVars, bytes_unpinned_files_, pos, file, node, exited>>
    BY <1>3 DEF Open, Read, EvictedInVain, At, unlock
  <2>3. file[p] \in Files
    BY <2>2 DEF Inv, LockInv
  <2> QED
    BY <2>1, <2>2, <2>3, LocalStepInv DEF mapVars, Inv, TypeOK, Places
<1>4. ASSUME NEW p \in Threads, Return0(p) \/ Forget(p) PROVE Inv'
  <2>1. /\ pc[p] \in {"failed", "held"} /\ pc' = [pc EXCEPT ![p] = "idle"]
        /\ file' = [file EXCEPT ![p] = None]
        /\ node' = [node EXCEPT ![p] = "none"]
        /\ UNCHANGED <<mapVars, bytes_unpinned_files_, writer, pos, exited>>
    BY <1>4 DEF Return0, Forget, At, Goto
  <2> QED  BY <2>1, LocalStepInv DEF mapVars, Inv, TypeOK, Places
<1>5. ASSUME NEW p \in Threads, Insert(p) PROVE Inv'
  <2>1. /\ pc[p] = "insert" /\ writer = None
        /\ UNCHANGED <<bytes_unpinned_files_, file, exited>>
    BY <1>5 DEF Insert, At
  <2>2. CASE Fits(file[p]) /\ InsertNode(p) /\ UNCHANGED <<writer, pos>>
    <3>1. \A q \in Threads : pc'[q] \notin {"evict", "store", "kept"}
      BY <2>1, <2>2, InsertNodeInv DEF Inv, TypeOK, LockInv
    <3>2. LockInv'
      BY <2>1, <2>2, <3>1, InsertNodeInv DEF Inv, TypeOK, LockInv
    <3> QED
      BY <2>1, <2>2, <3>2, InsertNodeInv DEF Inv, TypeOK
  <2>3. CASE /\ UNCHANGED <<mapVars, node, writer, pos>>
             /\ pc' = [pc EXCEPT ![p] = "failed"]
    BY <2>1, <2>3 DEF mapVars, Inv, TypeOK, LockInv, Places, Fits,
       free_space, BytesWithinLimit, ListMatchesMap
  <2>4. CASE /\ UNCHANGED <<mapVars, node>> /\ writer' = p /\ pos' = 1
             /\ pc' = [pc EXCEPT ![p] = "evict"]
    BY <2>1, <2>4 DEF mapVars, Inv, TypeOK, LockInv, Places, Fits,
       free_space, BytesWithinLimit, ListMatchesMap
  <2> QED  BY <1>5, <2>2, <2>3, <2>4 DEF Insert, Goto
<1>6. ASSUME NEW p \in Threads, Evict(p) PROVE Inv'
  <2> DEFINE f == PinnedFiles_[pos]
  <2>1. /\ pc[p] = "evict" /\ writer = p /\ pos \in 1..Len(PinnedFiles_)
        /\ f \in Files
        /\ UNCHANGED <<count_unpin, bytes_unpinned_files_, writer, file>>
    BY <1>6 DEF Evict, At, Inv, TypeOK, LockInv
  <2>2. CASE count_unpin[f] = 0
    <3>1. /\ bytes_used_' = bytes_used_ - byteCount(f)
          /\ cached' = cached \ {f}
          /\ PinnedFiles_' = Erased(PinnedFiles_, pos)
          /\ pos' = pos
          /\ node' = [q \in Threads |->
                        IF file[q] = f /\ node[q] = "live" THEN "evicted"
                        ELSE node[q]]
      BY <1>6, <2>2 DEF Evict
    <3>2. byteCount(f) \in Nat
      BY <2>1, SizeFacts
    <3>3. \/ /\ free_space + byteCount(f) >= Size[file[p]]
             /\ pc' = [pc EXCEPT ![p] = "store"] /\ exited' = exited
          \/ pc' = pc /\ exited' \in BOOLEAN
      BY <1>6, <2>2 DEF Evict, Goto
    <3>4. PinnedFiles_' \in Seq(Files) /\ ListMatchesMap'
      <4>1. /\ PinnedFiles_ \in Seq(Files)
            /\ \A a, b \in 1..Len(PinnedFiles_) :
                 PinnedFiles_[a] = PinnedFiles_[b] => a = b
            /\ cached = {PinnedFiles_[k] : k \in 1..Len(PinnedFiles_)}
        BY DEF Inv, TypeOK, ListMatchesMap
      <4> DEFINE e == Erased(PinnedFiles_, pos)
      <4>2. /\ e \in Seq(Files)
            /\ {e[k] : k \in 1..Len(e)}
                 = {PinnedFiles_[k] : k \in 1..Len(PinnedFiles_)} \ {f}
            /\ \A a, b \in 1..Len(e) : e[a] = e[b] => a = b
        <5> HIDE DEF e
        <5> QED  BY <2>1, <4>1, ErasedFacts DEF e
      <4>3. PinnedFiles_' = e /\ cached' = {e[k] : k \in 1..Len(e)}
        BY <3>1, <4>1, <4>2
      <4> HIDE DEF e
      <4> QED  BY <4>2, <4>3 DEF ListMatchesMap
    <3>5. BytesWithinLimit' /\ bytes_used_' \in Int
      BY <3>1, <3>2 DEF Inv, TypeOK, BytesWithinLimit
    <3>6. LockInv'
      <4>1. \A q \in Threads : pc[q] # "store"
        BY <2>1 DEF Inv, LockInv
      <4>2. pc'[p] = "store" => Fits(file[p])'
        BY <2>1, <3>1, <3>2, <3>3, <4>1
           DEF Inv, TypeOK, Fits, free_space
      <4>3. \A q \in Threads : q # p => pc'[q] = pc[q]
        BY <3>3 DEF Inv, TypeOK
      <4>4. pc'[p] \in {"evict", "store"}
        BY <2>1, <3>3 DEF Inv, TypeOK
      <4> QED
        BY <2>1, <3>1, <4>1, <4>2, <4>3, <4>4 DEF Inv, LockInv
    <3>7. node' \in [Threads -> {"none", "live", "evicted"}]
          /\ pc' \in [Threads -> Places] /\ exited' \in BOOLEAN
      BY <3>1, <3>3 DEF Inv, TypeOK, Places
    <3>8. TypeOK'
      BY <2>1, <3>1, <3>4, <3>5, <3>7 DEF Inv, TypeOK
    <3> QED  BY <3>4, <3>5, <3>6, <3>8 DEF Inv
  <2>3. CASE count_unpin[f] # 0
    <3>1. /\ pos' = pos + 1
          /\ UNCHANGED <<cached, PinnedFiles_, bytes_used_, node, pc, exited>>
      BY <1>6, <2>3 DEF Evict
    <3>2. pos' \in Nat \ {0}
      BY <2>1, <3>1 DEF Inv, LockInv
    <3>3. LockInv'
      BY <2>1, <3>1, <3>2 DEF Inv, LockInv, Fits, free_space
    <3>4. TypeOK'
      BY <2>1, <3>1, <3>2 DEF Inv, TypeOK
    <3> QED
      BY <3>1, <3>3, <3>4 DEF Inv, BytesWithinLimit, ListMatchesMap
  <2> QED  BY <2>2, <2>3
<1>7. ASSUME NEW p \in Threads, Store(p) PROVE Inv'
  <2>1. /\ pc[p] = "store" /\ writer = p /\ writer' = None /\ InsertNode(p)
        /\ Fits(file[p])
        /\ UNCHANGED <<bytes_unpinned_files_, pos, file, exited>>
    BY <1>7 DEF Store, At, unlock, Inv, LockInv
  <2>2. \A q \in Threads : pc'[q] \notin {"evict", "store"}
    BY <2>1, InsertNodeInv DEF Inv, TypeOK, LockInv
  <2>3. LockInv'
    BY <2>1, <2>2, InsertNodeInv DEF Inv, TypeOK, LockInv
  <2> QED
    BY <2>1, <2>3, InsertNodeInv DEF Inv, TypeOK
<1>8. ASSUME NEW p \in Threads, Unpin(p) PROVE Inv'
  <2>1. /\ pc[p] = "held" /\ writer = None
        /\ pc' = [pc EXCEPT ![p] = "idle"]
        /\ file' = [file EXCEPT ![p] = None]
        /\ node' = [node EXCEPT ![p] = "none"]
        /\ UNCHANGED <<cached, PinnedFiles_, bytes_used_, writer, pos>>
    BY <1>8 DEF Unpin, At, Goto
  <2>2. file[p] \in Files /\ byteCount(file[p]) \in Nat
    BY <2>1, SizeFacts DEF Inv, LockInv
  <2>3. /\ count_unpin' \in [Files -> Nat] /\ exited' \in BOOLEAN
        /\ bytes_unpinned_files_' \in 0..MaxUnpinned
    <3>1. CASE HasPin(file[p])
      <4>1. /\ count_unpin' = [count_unpin EXCEPT ![file[p]] = @ - 1]
            /\ bytes_unpinned_files_ + byteCount(file[p]) <= MaxUnpinned
            /\ bytes_unpinned_files_' = bytes_unpinned_files_ + byteCount(file[p])
            /\ exited' = exited
        BY <1>8, <3>1 DEF Unpin, Credit
      <4>2. count_unpin[file[p]] - 1 \in Nat
        BY <2>2, <3>1 DEF HasPin, Inv, TypeOK
      <4>3. bytes_unpinned_files_' \in 0..MaxUnpinned
        BY <2>2, <4>1 DEF Inv, TypeOK
      <4> QED  BY <4>1, <4>2, <4>3 DEF Inv, TypeOK
    <3>2. CASE ~HasPin(file[p])
      BY <1>8, <3>2 DEF Unpin, Inv, TypeOK
    <3> QED  BY <3>1, <3>2
  <2> QED
    BY <2>1, <2>3, LocalStepInv DEF Inv, TypeOK, Places
<1>9. CASE UNCHANGED vars
  BY <1>9 DEF vars, mapVars, Inv, TypeOK, LockInv, Fits, free_space,
     BytesWithinLimit, ListMatchesMap
<1>10. ASSUME NEW p \in Threads, UnpinNull(p) PROVE Inv'
  <2>1. /\ pc[p] = "idle" /\ writer = None /\ writer' = p
        /\ pc' = [pc EXCEPT ![p] = "kept"]
        /\ UNCHANGED <<mapVars, bytes_unpinned_files_, pos, file, node, exited>>
    BY <1>10 DEF UnpinNull, At, Goto
  <2>2. \A q \in Threads : pc[q] \notin {"evict", "store", "kept"}
    BY <2>1, NoneAssumption DEF Inv, LockInv
  <2>3. LockInv'
    BY <2>1, <2>2 DEF Inv, TypeOK, LockInv, mapVars, Fits, free_space
  <2>4. TypeOK'
    BY <2>1 DEF Inv, TypeOK, Places, mapVars
  <2>5. BytesWithinLimit' /\ ListMatchesMap'
    BY <2>1 DEF Inv, mapVars, BytesWithinLimit, ListMatchesMap
  <2> QED  BY <2>3, <2>4, <2>5 DEF Inv
<1> QED
  BY <1>1, <1>2, <1>3, <1>4, <1>5, <1>6, <1>7, <1>8, <1>9, <1>10
     DEF Next, Pin, Stopped

(* The first inductive invariant holds throughout. *)
LEMMA Invariance == Spec => []Inv
  BY InitInv, StepInv, PTL DEF Spec

(* Every variable of the cache keeps its type. *)
THEOREM Typing == Spec => []TypeOK
<1>1. Inv => TypeOK
  BY DEF Inv
<1> QED  BY Invariance, <1>1, PTL

(* The cache never holds more bytes than it was given, whatever the sizes  *)
(* of the files and however pins, unpins and evictions interleave.         *)
THEOREM WithinLimit == Spec => []BytesWithinLimit
<1>1. Inv => BytesWithinLimit
  BY DEF Inv
<1> QED  BY Invariance, <1>1, PTL

(* The eviction loop only meets names that are in the map. *)
THEOREM ListCorrect == Spec => []ListMatchesMap
<1>1. Inv => ListMatchesMap
  BY DEF Inv
<1> QED  BY Invariance, <1>1, PTL

-----------------------------------------------------------------------------
(* The bytes of a file. *)
LEMMA FileBytes ==
  ASSUME NEW f \in Files
  PROVE  /\ IsFiniteSet({f} \X (1..byteCount(f)))
         /\ Cardinality({f} \X (1..byteCount(f))) = byteCount(f)
<1>1. byteCount(f) \in Nat
  BY SizeFacts
<1>2. /\ IsFiniteSet(1..byteCount(f))
      /\ Cardinality(1..byteCount(f)) = byteCount(f)
  BY <1>1, FS_Interval
<1>3. IsFiniteSet({f}) /\ Cardinality({f}) = 1
  BY FS_Singleton
<1> QED
  BY <1>1, <1>2, <1>3, FS_Product

(* A file more. *)
LEMMA BytesAdded ==
  ASSUME NEW S \in SUBSET Files, IsFiniteSet(BytesOf(S)),
         NEW f \in Files, f \notin S
  PROVE  /\ IsFiniteSet(BytesOf(S \union {f}))
         /\ Bytes(S \union {f}) = Bytes(S) + byteCount(f)
<1> DEFINE A == BytesOf(S)
           B == {f} \X (1..byteCount(f))
<1>1. BytesOf(S \union {f}) = A \union B
  BY DEF BytesOf
<1>2. A \cap B = {}
  <2>1. ASSUME NEW x \in A, x \in B PROVE FALSE
    <3>1. PICK g \in S : x \in {g} \X (1..byteCount(g))
      BY <2>1 DEF BytesOf
    <3>2. x[1] = g /\ x[1] = f
      BY <2>1, <3>1
    <3> QED  BY <3>2
  <2> QED  BY <2>1
<1>3. IsFiniteSet(B) /\ Cardinality(B) = byteCount(f)
  BY FileBytes
<1>4. byteCount(f) \in Nat
  BY SizeFacts
<1> HIDE DEF A, B
<1>5. IsFiniteSet(A)
  BY DEF A
<1>6. /\ IsFiniteSet(A \union B)
      /\ Cardinality(A \union B) = Cardinality(A) + Cardinality(B) - Cardinality(A \cap B)
  BY <1>3, <1>5, FS_Union
<1>7. Cardinality(A \cap B) = 0
  BY <1>2, FS_EmptySet
<1>8. Bytes(S) = Cardinality(A) /\ Cardinality(A) \in Nat
  BY <1>5, FS_CardinalityType DEF Bytes, A
<1>9. Bytes(S \union {f}) = Cardinality(A \union B)
  BY <1>1 DEF Bytes
<1>10. Bytes(S \union {f}) = Bytes(S) + byteCount(f)
  BY <1>3, <1>4, <1>6, <1>7, <1>8, <1>9
<1>11. IsFiniteSet(BytesOf(S \union {f}))
  BY <1>1, <1>6
<1> QED
  BY <1>10, <1>11

(* Fewer files have fewer bytes. *)
LEMMA BytesFewer ==
  ASSUME NEW S \in SUBSET Files, IsFiniteSet(BytesOf(S)), NEW T \in SUBSET S
  PROVE  /\ IsFiniteSet(BytesOf(T))
         /\ Bytes(T) \in Nat /\ Bytes(S) \in Nat /\ Bytes(T) <= Bytes(S)
<1>1. BytesOf(T) \subseteq BytesOf(S)
  BY DEF BytesOf
<1> QED
  BY <1>1, FS_Subset, FS_CardinalityType DEF Bytes

(* A file less. *)
LEMMA BytesRemoved ==
  ASSUME NEW S \in SUBSET Files, IsFiniteSet(BytesOf(S)), NEW f \in S
  PROVE  /\ IsFiniteSet(BytesOf(S \ {f}))
         /\ Bytes(S \ {f}) = Bytes(S) - byteCount(f)
<1>1. /\ IsFiniteSet(BytesOf(S \ {f}))
      /\ Bytes(S \ {f}) \in Nat /\ Bytes(S) \in Nat
  BY BytesFewer
<1>2. S = (S \ {f}) \union {f} /\ S \ {f} \in SUBSET Files
  OBVIOUS
<1>3. Bytes(S) = Bytes(S \ {f}) + byteCount(f)
  BY <1>1, <1>2, BytesAdded
<1> QED
  BY <1>1, <1>3, SizeFacts

(* bytes_used_ is the sum, bytes_unpinned_files_ no less than the sum of   *)
(* what is unpinned, and in the eviction loop there is no space yet and    *)
(* the files it has passed are pinned.                                     *)
SumInv == UsedIsSum /\ IsFiniteSet(BytesOf(cached))

CreditInv == Bytes(Unpinned) <= bytes_unpinned_files_

EvictInv ==
  \A p \in Threads : pc[p] = "evict" =>
    /\ ~Fits(file[p])
    /\ \A i \in 1..Len(PinnedFiles_) :
         i < pos => count_unpin[PinnedFiles_[i]] # 0

BytesInv == Inv /\ SumInv /\ CreditInv /\ EvictInv

(* The new Node is pinned: it adds to the sum, and not to what is unpinned.*)
LEMMA InsertNodeBytes ==
  ASSUME BytesInv, NEW p \in Threads, file[p] \in Files, InsertNode(p),
         UNCHANGED bytes_unpinned_files_
  PROVE  SumInv' /\ CreditInv'
<1> USE DEF BytesInv, Inv
<1>1. CASE file[p] \notin cached
  <2>1. /\ cached' = cached \union {file[p]}
        /\ count_unpin' = [count_unpin EXCEPT ![file[p]] = 1]
        /\ bytes_used_' = bytes_used_ + byteCount(file[p])
    BY <1>1 DEF InsertNode, Charge
  <2>2. SumInv'
    BY <1>1, <2>1, BytesAdded DEF SumInv, UsedIsSum, TypeOK
  <2>3. Unpinned' = Unpinned
    BY <1>1, <2>1 DEF Unpinned, TypeOK
  <2> QED
    BY <2>2, <2>3 DEF CreditInv
<1>2. CASE file[p] \in cached
  BY <1>2 DEF InsertNode, mapVars, SumInv, UsedIsSum, CreditInv, Unpinned
<1> QED  BY <1>1, <1>2

(* A step that leaves the map alone and takes no pin off. *)
LEMMA QuietBytes ==
  ASSUME BytesInv, TypeOK', UNCHANGED <<cached, bytes_used_, bytes_unpinned_files_>>,
         \A f \in Files : count_unpin'[f] >= count_unpin[f]
  PROVE  SumInv' /\ CreditInv'
<1>1. SumInv'
  BY DEF BytesInv, SumInv, UsedIsSum
<1>2. Unpinned' \subseteq Unpinned /\ Unpinned \subseteq cached /\ cached \subseteq Files
  BY DEF Unpinned, BytesInv, Inv, TypeOK
<1>3. IsFiniteSet(BytesOf(Unpinned))
  BY <1>2, BytesFewer DEF BytesInv, SumInv
<1>4. Bytes(Unpinned') <= Bytes(Unpinned) /\ Bytes(Unpinned') \in Nat /\ Bytes(Unpinned) \in Nat
  BY <1>2, <1>3, BytesFewer
<1>5. CreditInv'
  BY <1>4 DEF CreditInv, BytesInv, Inv, TypeOK
<1> QED  BY <1>1, <1>5

(* The sum and the estimate, action by action. *)
LEMMA BytesStep ==
  ASSUME BytesInv, TypeOK', [Next]_vars
  PROVE  SumInv' /\ CreditInv'
<1>1. ASSUME NEW p \in Threads, NEW f \in Files, Lookup(p, f)
      PROVE  SumInv' /\ CreditInv'
  BY <1>1, QuietBytes DEF Lookup, mapVars, BytesInv, Inv, TypeOK
<1>2. ASSUME NEW p \in Threads, CountHit(p) PROVE SumInv' /\ CreditInv'
  <2>1. \A f \in Files : count_unpin'[f] >= count_unpin[f]
    BY <1>2 DEF CountHit, BytesInv, Inv, TypeOK
  <2> QED
    BY <1>2, <2>1, QuietBytes DEF CountHit
<1>3. ASSUME NEW p \in Threads,
             \/ Open(p) \/ Read(p) \/ EvictedInVain(p) \/ Return0(p) \/ Forget(p)
             \/ UnpinNull(p)
      PROVE  SumInv' /\ CreditInv'
  BY <1>3, QuietBytes
     DEF Open, Read, EvictedInVain, Return0, Forget, UnpinNull, mapVars, BytesInv, Inv, TypeOK
<1>4. ASSUME NEW p \in Threads, Insert(p) \/ Store(p)
      PROVE  SumInv' /\ CreditInv'
  <2>1. file[p] \in Files /\ UNCHANGED bytes_unpinned_files_
    BY <1>4 DEF Insert, Store, At, BytesInv, Inv, LockInv
  <2>2. CASE InsertNode(p)
    BY <2>1, <2>2, InsertNodeBytes
  <2>3. CASE UNCHANGED mapVars
    BY <2>1, <2>3, QuietBytes DEF mapVars, BytesInv, Inv, TypeOK
  <2> QED
    BY <1>4, <2>2, <2>3 DEF Insert, Store, mapVars
<1>5. ASSUME NEW p \in Threads, Evict(p) PROVE SumInv' /\ CreditInv'
  <2> DEFINE f == PinnedFiles_[pos]
  <2>1. /\ pos \in 1..Len(PinnedFiles_)
        /\ UNCHANGED <<count_unpin, bytes_unpinned_files_>>
    BY <1>5 DEF Evict, At, BytesInv, Inv, TypeOK, LockInv
  <2>2. CASE count_unpin[f] = 0
    <3>1. /\ bytes_used_' = bytes_used_ - byteCount(f)
          /\ cached' = cached \ {f}
      BY <1>5, <2>2 DEF Evict
    <3>2. f \in cached /\ cached \subseteq Files
      BY <2>1 DEF BytesInv, Inv, ListMatchesMap, TypeOK
    <3>3. SumInv'
      BY <3>1, <3>2, BytesRemoved DEF BytesInv, SumInv, UsedIsSum
    <3>4. Unpinned' \subseteq Unpinned /\ Unpinned \in SUBSET cached
      BY <2>1, <3>1 DEF Unpinned
    <3>5. IsFiniteSet(BytesOf(Unpinned))
      BY <3>2, <3>4, BytesFewer DEF BytesInv, SumInv
    <3>6. /\ Bytes(Unpinned') <= Bytes(Unpinned)
          /\ Bytes(Unpinned') \in Nat /\ Bytes(Unpinned) \in Nat
      BY <3>2, <3>4, <3>5, BytesFewer
    <3>7. CreditInv'
      BY <2>1, <3>6 DEF CreditInv, BytesInv, Inv, TypeOK
    <3> QED  BY <3>3, <3>7
  <2>3. CASE count_unpin[f] # 0
    BY <1>5, <2>1, <2>3, QuietBytes DEF Evict, BytesInv, Inv, TypeOK
  <2> QED  BY <2>2, <2>3
<1>6. ASSUME NEW p \in Threads, Unpin(p) PROVE SumInv' /\ CreditInv'
  <2> DEFINE f == file[p]
  <2>1. /\ f \in Files /\ UNCHANGED <<cached, bytes_used_>>
    BY <1>6 DEF Unpin, At, BytesInv, Inv, LockInv
  <2>2. CASE HasPin(f)
    <3>1. /\ f \in cached /\ count_unpin[f] > 0
          /\ count_unpin' = [count_unpin EXCEPT ![f] = @ - 1]
          /\ bytes_unpinned_files_' = bytes_unpinned_files_ + byteCount(f)
      BY <1>6, <2>2 DEF Unpin, Credit, HasPin
    <3>2. Unpinned \in SUBSET cached /\ cached \in SUBSET Files /\ f \notin Unpinned
      BY <3>1 DEF Unpinned, BytesInv, Inv, TypeOK
    <3>3. Unpinned' \subseteq Unpinned \union {f}
      BY <2>1, <3>1 DEF Unpinned, BytesInv, Inv, TypeOK
    <3>4. IsFiniteSet(BytesOf(Unpinned)) /\ Bytes(Unpinned) \in Nat
      BY <3>2, BytesFewer DEF BytesInv, SumInv
    <3>5. /\ IsFiniteSet(BytesOf(Unpinned \union {f}))
          /\ Bytes(Unpinned \union {f}) = Bytes(Unpinned) + byteCount(f)
      BY <2>1, <3>2, <3>4, BytesAdded
    <3>6. /\ Bytes(Unpinned') <= Bytes(Unpinned) + byteCount(f)
          /\ Bytes(Unpinned') \in Nat
      <4>1. Unpinned \union {f} \in SUBSET Files
        BY <2>1, <3>2
      <4> QED  BY <3>3, <3>5, <4>1, BytesFewer
    <3>7. CreditInv'
      BY <2>1, <3>1, <3>4, <3>6, SizeFacts DEF CreditInv, BytesInv, Inv, TypeOK
    <3> QED
      BY <2>1, <3>7 DEF BytesInv, SumInv, UsedIsSum
  <2>3. CASE ~HasPin(f)
    BY <1>6, <2>1, <2>3, QuietBytes DEF Unpin, BytesInv, Inv, TypeOK
  <2> QED  BY <2>2, <2>3
<1>7. CASE UNCHANGED vars
  BY <1>7, QuietBytes DEF vars, mapVars, BytesInv, Inv, TypeOK
<1> QED
  BY <1>1, <1>2, <1>3, <1>4, <1>5, <1>6, <1>7 DEF Next, Pin, Stopped

(* No file loses a pin while the loop runs, so what it has passed stays    *)
(* pinned, and what it erases is not before its iterator.                  *)
LEMMA EvictStep ==
  ASSUME BytesInv, [Next]_vars
  PROVE  EvictInv'
<1> USE DEF BytesInv, Inv
<1>1. ASSUME NEW q \in Threads, pc'[q] = "evict", pc[q] = "evict",
             UNCHANGED <<PinnedFiles_, bytes_used_, pos>>, file'[q] = file[q],
             \A f \in Files : count_unpin'[f] >= count_unpin[f],
             count_unpin' \in [Files -> Nat]
      PROVE  /\ ~Fits(file[q])'
             /\ \A i \in 1..Len(PinnedFiles_') :
                  i < pos' => count_unpin'[PinnedFiles_'[i]] # 0
  <2>1. ~Fits(file[q])'
    BY <1>1 DEF EvictInv, Fits, free_space
  <2>2. ASSUME NEW i \in 1..Len(PinnedFiles_), i < pos
        PROVE  count_unpin'[PinnedFiles_[i]] # 0
    <3>1. PinnedFiles_[i] \in Files /\ count_unpin[PinnedFiles_[i]] # 0
      BY <1>1, <2>2 DEF EvictInv, TypeOK
    <3> QED
      BY <1>1, <3>1 DEF TypeOK
  <2> QED  BY <1>1, <2>1, <2>2
<1>2. ASSUME NEW p \in Threads, NEW f \in Files, Lookup(p, f) PROVE EvictInv'
  <2>1. \A q \in Threads : pc'[q] # "evict"
    BY <1>2, NoneAssumption DEF Lookup, At, Goto, TypeOK, LockInv
  <2> QED  BY <2>1 DEF EvictInv
<1>3. ASSUME NEW p \in Threads, CountHit(p) PROVE EvictInv'
  <2>1. \A g \in Files : count_unpin'[g] >= count_unpin[g]
    BY <1>3 DEF CountHit, TypeOK
  <2>2. count_unpin' \in [Files -> Nat]
    BY <1>3, StepInv DEF TypeOK
  <2>3. \A q \in Threads : pc'[q] = "evict" => pc[q] = "evict"
    BY <1>3 DEF CountHit, Goto, TypeOK
  <2>4. UNCHANGED <<PinnedFiles_, bytes_used_, pos, file>>
    BY <1>3 DEF CountHit
  <2>5. ASSUME NEW q \in Threads, pc'[q] = "evict"
        PROVE  /\ ~Fits(file[q])'
               /\ \A i \in 1..Len(PinnedFiles_') :
                    i < pos' => count_unpin'[PinnedFiles_'[i]] # 0
    BY <1>1, <2>1, <2>2, <2>3, <2>4, <2>5
  <2> QED  BY <2>5 DEF EvictInv
<1>4. ASSUME NEW p \in Threads,
             Open(p) \/ Read(p) \/ Return0(p) \/ Forget(p) \/ UnpinNull(p)
      PROVE  EvictInv'
  <2>1. \A q \in Threads : pc'[q] = "evict" => pc[q] = "evict" /\ file'[q] = file[q]
    BY <1>4 DEF Open, Read, Return0, Forget, UnpinNull, At, Goto, TypeOK
  <2>2. /\ UNCHANGED <<PinnedFiles_, bytes_used_, pos, count_unpin>>
        /\ count_unpin' \in [Files -> Nat]
        /\ \A f \in Files : count_unpin'[f] >= count_unpin[f]
    BY <1>4 DEF Open, Read, Return0, Forget, UnpinNull, mapVars, TypeOK
  <2>3. ASSUME NEW q \in Threads, pc'[q] = "evict"
        PROVE  /\ ~Fits(file[q])'
               /\ \A i \in 1..Len(PinnedFiles_') :
                    i < pos' => count_unpin'[PinnedFiles_'[i]] # 0
    BY <1>1, <2>1, <2>2, <2>3
  <2> QED  BY <2>3 DEF EvictInv
<1>5. ASSUME NEW p \in Threads, Insert(p) PROVE EvictInv'
  <2>1. \A q \in Threads : pc[q] # "evict"
    BY <1>5, NoneAssumption DEF Insert, At, LockInv
  <2>2. CASE UNCHANGED mapVars /\ pos' = 1 /\ ~Fits(file[p])
             /\ pc' = [pc EXCEPT ![p] = "evict"]
    <3>1. \A q \in Threads : pc'[q] = "evict" => q = p
      BY <2>1, <2>2 DEF TypeOK
    <3>2. ~Fits(file[p])'
      BY <1>5, <2>2 DEF Insert, mapVars, Fits, free_space
    <3> QED  BY <2>2, <3>1, <3>2 DEF EvictInv
  <2>3. CASE pc'[p] # "evict"
    <3>1. \A q \in Threads : pc'[q] # "evict"
      BY <1>5, <2>1, <2>3 DEF Insert, InsertNode, Goto, TypeOK
    <3> QED  BY <3>1 DEF EvictInv
  <2>4. \/ UNCHANGED mapVars /\ pos' = 1 /\ ~Fits(file[p])
           /\ pc' = [pc EXCEPT ![p] = "evict"]
        \/ pc'[p] # "evict"
    BY <1>5 DEF Insert, InsertNode, Goto, TypeOK
  <2> QED  BY <2>2, <2>3, <2>4
<1>6. ASSUME NEW p \in Threads, Store(p) \/ EvictedInVain(p) PROVE EvictInv'
  <2>1. \A q \in Threads : q # p => pc[q] # "evict"
    BY <1>6 DEF Store, EvictedInVain, At, LockInv
  <2>2. \A q \in Threads : pc'[q] # "evict"
    BY <1>6, <2>1 DEF Store, InsertNode, EvictedInVain, Goto, TypeOK
  <2> QED  BY <2>2 DEF EvictInv
<1>7. ASSUME NEW p \in Threads, Unpin(p) PROVE EvictInv'
  <2>1. \A q \in Threads : pc'[q] # "evict"
    BY <1>7, NoneAssumption DEF Unpin, At, Goto, TypeOK, LockInv
  <2> QED  BY <2>1 DEF EvictInv
<1>8. ASSUME NEW p \in Threads, Evict(p) PROVE EvictInv'
  <2> DEFINE f == PinnedFiles_[pos]
  <2>1. /\ pc[p] = "evict" /\ pos \in 1..Len(PinnedFiles_) /\ f \in Files
        /\ \A q \in Threads : q # p => pc[q] # "evict"
        /\ UNCHANGED <<count_unpin, file>>
    BY <1>8 DEF Evict, At, TypeOK, LockInv
  <2>2. \A i \in 1..Len(PinnedFiles_) : i < pos => count_unpin[PinnedFiles_[i]] # 0
    BY <2>1 DEF EvictInv
  <2>3. \A q \in Threads : pc'[q] = "evict" => q = p
    BY <1>8, <2>1 DEF Evict, Goto, TypeOK
  <2>4. CASE count_unpin[f] = 0 /\ pc'[p] = "evict"
    <3>1. /\ PinnedFiles_' = Erased(PinnedFiles_, pos) /\ pos' = pos
          /\ bytes_used_' = bytes_used_ - byteCount(f)
          /\ free_space + byteCount(f) < Size[file[p]]
      BY <1>8, <2>4 DEF Evict, Goto, TypeOK
    <3>2. Len(PinnedFiles_) \in Nat /\ Len(PinnedFiles_') = Len(PinnedFiles_) - 1
      BY <2>1, <3>1 DEF Erased, TypeOK
    <3>3. \A i \in 1..Len(PinnedFiles_') :
            i < pos => PinnedFiles_'[i] = PinnedFiles_[i]
      BY <2>1, <3>1, <3>2 DEF Erased
    <3>4. ~Fits(file[p])'
      <4>1. byteCount(f) \in Nat /\ Size[file[p]] \in Nat /\ bytes_used_ \in Int
        BY <2>1, SizeFacts DEF LockInv, TypeOK
      <4> QED
        BY <2>1, <3>1, <4>1, LimitAssumption DEF Fits, free_space
    <3>5. ASSUME NEW i \in 1..Len(PinnedFiles_'), i < pos'
          PROVE  count_unpin'[PinnedFiles_'[i]] # 0
      <4>1. i \in 1..Len(PinnedFiles_) /\ i < pos
        BY <2>1, <3>1, <3>2, <3>5
      <4> QED  BY <2>1, <2>2, <3>3, <3>5, <4>1
    <3> QED  BY <2>3, <3>4, <3>5 DEF EvictInv
  <2>5. CASE count_unpin[f] # 0
    <3>1. pos' = pos + 1 /\ UNCHANGED <<PinnedFiles_, bytes_used_>>
      BY <1>8, <2>5 DEF Evict
    <3>2. ~Fits(file[p])'
      BY <2>1, <3>1 DEF EvictInv, Fits, free_space
    <3>3. ASSUME NEW i \in 1..Len(PinnedFiles_'), i < pos'
          PROVE  count_unpin'[PinnedFiles_'[i]] # 0
      <4>1. i \in 1..Len(PinnedFiles_) /\ (i < pos \/ i = pos)
        BY <2>1, <3>1, <3>3
      <4> QED  BY <2>1, <2>2, <2>5, <3>1, <4>1
    <3> QED  BY <2>3, <3>2, <3>3 DEF EvictInv
  <2>6. CASE pc'[p] # "evict"
    BY <2>3, <2>6 DEF EvictInv
  <2> QED  BY <2>4, <2>5, <2>6
<1>9. CASE UNCHANGED vars
  BY <1>9 DEF vars, mapVars, EvictInv, Fits, free_space
<1> QED
  BY <1>2, <1>3, <1>4, <1>5, <1>6, <1>7, <1>8, <1>9 DEF Next, Pin, Stopped

(* The accounting is an invariant. *)
LEMMA BytesInvariance == Spec => []BytesInv
<1>1. Init => BytesInv
  <2> SUFFICES ASSUME Init PROVE BytesInv
    OBVIOUS
  <2>1. BytesOf({}) = {}
    BY DEF BytesOf
  <2>2. IsFiniteSet(BytesOf({})) /\ Bytes({}) = 0
    BY <2>1, FS_EmptySet DEF Bytes
  <2>3. cached = {} /\ Unpinned = {}
    BY DEF Init, Unpinned
  <2>4. SumInv /\ CreditInv
    BY <2>2, <2>3 DEF Init, SumInv, UsedIsSum, CreditInv
  <2> QED
    BY <2>4, InitInv DEF Init, EvictInv, BytesInv
<1>2. BytesInv /\ [Next]_vars => BytesInv'
  <2> SUFFICES ASSUME BytesInv, [Next]_vars PROVE BytesInv'
    OBVIOUS
  <2>1. Inv'
    BY StepInv DEF BytesInv
  <2>2. SumInv' /\ CreditInv'
    BY <2>1, BytesStep DEF Inv
  <2> QED
    BY <2>1, <2>2, EvictStep DEF BytesInv
<1> QED  BY <1>1, <1>2, PTL DEF Spec

(* bytes_used_ is the sum of the buffers in the map. *)
THEOREM Accounting == Spec => []UsedIsSum
<1>1. BytesInv => UsedIsSum
  BY DEF BytesInv, SumInv
<1> QED  BY BytesInvariance, <1>1, PTL

(* A pin that fails for lack of space could not have been served by any    *)
(* eviction: the early return never gives up on too small an estimate, and *)
(* the loop has seen every file when it gives up.                          *)
THEOREM FailsOnlyWhenFull == Spec => NoSpuriousFailure
<1> DEFINE Honest ==
      \A p \in Threads :
        /\ pc[p] \in {"insert", "evict"} /\ pc'[p] = "failed"
        /\ file[p] \notin cached
        => free_space + Bytes(Unpinned) < Size[file[p]]
<1>1. BytesInv /\ [Next]_vars => [Honest]_vars
  <2> SUFFICES ASSUME BytesInv, Next,
                      NEW p \in Threads, pc[p] \in {"insert", "evict"},
                      pc'[p] = "failed", file[p] \notin cached
               PROVE  free_space + Bytes(Unpinned) < Size[file[p]]
    BY DEF vars
  <2> USE DEF BytesInv, Inv
  <2>1. Unpinned \in SUBSET cached /\ cached \in SUBSET Files
    BY DEF Unpinned, TypeOK
  <2>2. Bytes(Unpinned) \in Nat
    BY <2>1, BytesFewer DEF SumInv
  <2>3. Size[file[p]] \in Nat /\ free_space \in Int
    BY SizeFacts, LimitAssumption DEF LockInv, TypeOK, free_space
  <2>4. CASE Insert(p)
    <3>1. free_space + bytes_unpinned_files_ < Size[file[p]]
      BY <2>4 DEF Insert, InsertNode, Goto, TypeOK
    <3> QED
      BY <2>2, <2>3, <3>1 DEF CreditInv, TypeOK
  <2>5. CASE EvictedInVain(p)
    <3>1. pc[p] = "evict" /\ pos > Len(PinnedFiles_)
      BY <2>5 DEF EvictedInVain, At
    <3>2. \A i \in 1..Len(PinnedFiles_) : count_unpin[PinnedFiles_[i]] # 0
      BY <3>1 DEF EvictInv, TypeOK
    <3>3. Unpinned = {}
      BY <3>2 DEF Unpinned, ListMatchesMap
    <3>4. Bytes(Unpinned) = 0
      <4>1. BytesOf({}) = {}
        BY DEF BytesOf
      <4> QED  BY <3>3, <4>1, FS_EmptySet DEF Bytes
    <3> QED
      BY <2>3, <3>1, <3>4 DEF EvictInv, Fits
  <2>6. Insert(p) \/ EvictedInVain(p)
    <3>1. ASSUME NEW q \in Threads, q # p,
                 Pin(q) \/ Unpin(q) \/ Forget(q) \/ UnpinNull(q)
          PROVE  FALSE
      <4>1. pc'[p] = pc[p]
        BY <3>1 DEF Pin, CountHit, Open, Read, Insert, InsertNode, Evict,
           Store, EvictedInVain, Return0, Unpin, Forget, UnpinNull, Goto, TypeOK
      <4> QED  BY <4>1
    <3>2. ASSUME NEW q \in Threads, NEW f \in Files, Lookup(q, f) PROVE FALSE
      BY <3>2 DEF Lookup, At, Goto, TypeOK
    <3>3. ~Stopped
      BY DEF Stopped, vars
    <3>4. Pin(p) \/ Unpin(p) \/ Forget(p) \/ UnpinNull(p)
      BY <3>1, <3>2, <3>3 DEF Next
    <3> QED
      BY <3>4 DEF Pin, CountHit, Open, Read, Evict, Store, Return0, Unpin,
         Forget, UnpinNull, At, Goto, TypeOK
  <2> QED  BY <2>4, <2>5, <2>6
<1> QED
  BY BytesInvariance, <1>1, PTL DEF Spec, NoSpuriousFailure
=============================================================================
