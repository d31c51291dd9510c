-------------------------- MODULE LockFreeHashTable --------------------------
(***************************************************************************)
(* lock_free_hash_table.cpp: a split-ordered hash table over one           *)
(* LockFreeList.  Keys lie in the list in the order of their reversed      *)
(* bits, each bucket holds a pointer to a dummy node in front of its keys, *)
(* and the table grows without moving a key.                               *)
(*                                                                         *)
(* A call on the list is one step, as LockFreeList is shown linearizable;  *)
(* a node is named by its key in the list.  The accesses to count_, size_  *)
(* and buckets_ are steps of their own.  push_back() on the vector while   *)
(* another thread is about to use it is a data race: torn, and nothing is  *)
(* said of what follows.                                                   *)
(***************************************************************************)
EXTENDS Integers, Sequences, FiniteSets, FiniteSetsExt

CONSTANTS Threads,
          Keys,        \* as passed by callers, less the top bit: see Seen
          Width,       \* bits of a key, 32 in the code
          LoadFactor   \* loadFactor_, 10 in the code

(* pow2[n] is 2^n. *)
pow2[n \in 0 .. Width] == IF n = 0 THEN 1 ELSE 2 * pow2[n - 1]

ASSUME TableAssumption ==
  /\ Width \in Nat \ {0, 1} /\ Keys \subseteq 0 .. pow2[Width - 1] - 1 /\ 0 \in Keys
  /\ LoadFactor \in Nat \ {0} /\ IsFiniteSet(Threads)

VARIABLES list,                        \* keys in lockfreelist_
          buckets_, count_, size_,
          pc, op, key, bucket,         \* each thread's call
          stack,                       \* calls of initialize_bucket()
          csize, i,                    \* locals of insertKey()
          result, was,                 \* answer, history: LinearizableSet
          torn

tableVars == <<list, buckets_, count_, size_>>
localVars == <<bucket, stack, csize, i>>
callVars  == <<op, key, result>>
vars == <<tableVars, localVars, callVars, was, pc, torn>>

NULL == -1
Word == pow2[Width]   \* count_ is unsigned, and a remove may be counted before its insert
at(b) == buckets_[b + 1]

-----------------------------------------------------------------------------
(* Keys of the list *)

bit(x, n) == (x \div pow2[n]) % 2

(* The bits of x are shifted in from the lowest on. *)
reverse(x) ==
  LET shifted[n \in 0 .. Width] ==
        IF n = 0 THEN 0 ELSE 2 * shifted[n - 1] + bit(x, n - 1)
  IN shifted[Width]

(* Mutant: dummies have the top bit too. *)
reverseDummyKeyRegular(b) == reverse(b + pow2[Width - 1])
reverseDummyKey(b) == reverse(b)
reverseRegularKey(k) ==
  reverse(IF bit(k, Width - 1) = 1 THEN k ELSE k + pow2[Width - 1])

(* What a call sees of the number it was passed.  The top bit is lost: it  *)
(* is set in the key of the list whether it was or not, and no bucket has  *)
(* it in its number.                                                       *)
Seen(n) == n % pow2[Width - 1]

(* The bucket without its highest bit; that of 0 is 0. *)
getParent(b) ==
  LET powers == {pow2[n] : n \in 0 .. Width - 1}
  IN IF b = 0 THEN 0 ELSE b - Max({p \in powers : p <= b})

Members == {k \in Keys : reverseRegularKey(k) \in list}

(* The list's calls start at a node, or at the head: what lies before it   *)
(* is not seen, and a node linked before it is lost.                       *)
Found(k, start) == k \in list /\ start <= k
Linked(k, start) == IF start <= k THEN list \union {k} ELSE list

TypeOK ==
  /\ list \subseteq 0 .. Word - 1
  /\ buckets_ \in Seq({NULL} \union 0 .. Word - 1)
  /\ count_ \in 0 .. Word - 1 /\ size_ \in {pow2[n] : n \in 1 .. Width - 1}
  /\ pc \in [Threads -> {"idle", "check", "init", "dummy", "store", "op", "csize",
                         "count", "test", "push", "cas", "uncount", "done"}]
  /\ op \in [Threads -> {"none", "insert", "remove", "lookup"}]
  /\ key \in [Threads -> Keys] /\ bucket \in [Threads -> Nat]
  /\ stack \in [Threads -> Seq(Nat)]
  /\ csize \in [Threads -> Nat] /\ i \in [Threads -> Nat]
  /\ result \in [Threads -> SUBSET BOOLEAN] /\ was \in [Threads -> SUBSET BOOLEAN]
  /\ torn \in BOOLEAN

(* The constructor, which inserts key 0 and so the first dummy *)
Init ==
  /\ list = {reverseDummyKey(0), reverseRegularKey(0)}
  /\ buckets_ = <<reverseDummyKey(0), NULL>> /\ count_ = 1 /\ size_ = 2
  /\ pc = [t \in Threads |-> "idle"] /\ op = [t \in Threads |-> "none"]
  /\ key = [t \in Threads |-> 0] /\ bucket = [t \in Threads |-> 0]
  /\ stack = [t \in Threads |-> <<>>]
  /\ csize = [t \in Threads |-> 0] /\ i = [t \in Threads |-> 0]
  /\ result = [t \in Threads |-> {}] /\ was = [t \in Threads |-> {}]
  /\ torn = FALSE

Goto(t, place) == pc' = [pc EXCEPT ![t] = place]
Answer(t, b) == result' = [result EXCEPT ![t] = {b}]

-----------------------------------------------------------------------------
Call(t, o, k) ==
  /\ pc[t] = "idle"
  /\ op' = [op EXCEPT ![t] = o] /\ key' = [key EXCEPT ![t] = k]
  /\ bucket' = [bucket EXCEPT ![t] = k % size_]
  /\ Goto(t, "check")
  /\ UNCHANGED <<tableVars, stack, csize, i, result>>

Check(t) ==
  /\ pc[t] = "check"
  /\ IF at(bucket[t]) = NULL
     THEN Goto(t, "init") /\ stack' = [stack EXCEPT ![t] = <<bucket[t]>>]
     ELSE Goto(t, "op") /\ UNCHANGED stack
  /\ UNCHANGED <<tableVars, bucket, csize, i, callVars>>

(* initialize_bucket(), of the bucket on top of the stack: the parent goes *)
(* first.                                                                  *)
ParentMissing(b) == b # 0 /\ at(getParent(b)) = NULL

CheckParent(t) ==
  LET b == Head(stack[t]) IN
  /\ pc[t] = "init"
  /\ IF ParentMissing(b)
     THEN stack' = [stack EXCEPT ![t] = <<getParent(b)>> \o @] /\ UNCHANGED pc
     ELSE Goto(t, "dummy") /\ UNCHANGED stack
  /\ UNCHANGED <<tableVars, bucket, csize, i, callVars>>

(* Whoever comes second gets the dummy that is there. *)
InsertDummy(t) ==
  LET b == Head(stack[t]) IN
  /\ pc[t] = "dummy"
  /\ list' = Linked(reverseDummyKey(b), at(getParent(b)))
  /\ Goto(t, "store")
  /\ UNCHANGED <<buckets_, count_, size_, localVars, callVars>>

StoreDummy(t) ==
  LET b == Head(stack[t]) IN
  /\ pc[t] = "store"
  /\ buckets_' = [buckets_ EXCEPT ![b + 1] = reverseDummyKey(b)]
  /\ stack' = [stack EXCEPT ![t] = Tail(@)]
  /\ Goto(t, IF stack'[t] = <<>> THEN "op" ELSE "dummy")
  /\ UNCHANGED <<list, count_, size_, bucket, csize, i, callVars>>

(* The call on the list *)
ListCall(t) ==
  LET k == reverseRegularKey(key[t])
      found == Found(k, at(bucket[t])) IN
  /\ pc[t] = "op"
  /\ \/ /\ op[t] = "insert" /\ Answer(t, ~found)
        /\ list' = IF found THEN list ELSE Linked(k, at(bucket[t]))
        /\ Goto(t, IF found THEN "done" ELSE "csize")
     \/ /\ op[t] = "remove" /\ Answer(t, found)
        /\ list' = IF found THEN list \ {k} ELSE list
        /\ Goto(t, IF found THEN "uncount" ELSE "done")
     \/ /\ op[t] = "lookup" /\ Answer(t, found)
        /\ Goto(t, "done") /\ UNCHANGED list
  /\ UNCHANGED <<buckets_, count_, size_, localVars, op, key>>

(* The rest of insertKey() *)
ReadSize(t) ==
  /\ pc[t] = "csize"
  /\ csize' = [csize EXCEPT ![t] = size_]
  /\ Goto(t, "count")
  /\ UNCHANGED <<tableVars, bucket, stack, i, callVars>>

Count(t) ==
  /\ pc[t] = "count"
  /\ count_' = (count_ + 1) % Word
  /\ Goto(t, "test")
  /\ UNCHANGED <<list, buckets_, size_, localVars, callVars>>

TestLoad(t) ==
  /\ pc[t] = "test"
  /\ Goto(t, IF count_ \div csize[t] > LoadFactor THEN "push" ELSE "done")
  /\ UNCHANGED <<tableVars, localVars, callVars>>

PushBack(t) ==
  /\ pc[t] = "push"
  /\ IF i[t] < size_
     THEN /\ buckets_' = Append(buckets_, NULL)
          /\ i' = [i EXCEPT ![t] = @ + 1] /\ UNCHANGED pc
     ELSE Goto(t, "cas") /\ UNCHANGED <<buckets_, i>>
  /\ UNCHANGED <<list, count_, size_, bucket, stack, csize, callVars>>

(* The compare-and-swap.  Mutant: the new size is stored regardless. *)
NewSizeUnchecked(t) == 2 * size_
NewSize(t) == IF size_ = csize[t] THEN 2 * csize[t] ELSE size_

SwapSize(t) ==
  /\ pc[t] = "cas"
  /\ size_' = NewSize(t)
  /\ Goto(t, "done")
  /\ UNCHANGED <<list, buckets_, count_, localVars, callVars>>

(* The rest of removeKey().  Mutant: the count is left alone. *)
CountAfterRemoveKept == count_
CountAfterRemove == (count_ + Word - 1) % Word

Uncount(t) ==
  /\ pc[t] = "uncount"
  /\ count_' = CountAfterRemove
  /\ Goto(t, "done")
  /\ UNCHANGED <<list, buckets_, size_, localVars, callVars>>

(* Locals are of no account between calls. *)
Return(t) ==
  /\ pc[t] = "done"
  /\ Goto(t, "idle")
  /\ op' = [op EXCEPT ![t] = "none"] /\ result' = [result EXCEPT ![t] = {}]
  /\ key' = [key EXCEPT ![t] = 0] /\ bucket' = [bucket EXCEPT ![t] = 0]
  /\ csize' = [csize EXCEPT ![t] = 0] /\ i' = [i EXCEPT ![t] = 0]
  /\ UNCHANGED <<tableVars, stack>>

UsesBuckets == {"check", "init", "dummy", "store", "op", "push"}

Race(t) ==
  torn' = (pc[t] = "push" /\ i[t] < size_
             /\ \E u \in Threads \ {t} : pc[u] \in UsesBuckets)

(* History: whether the key was in the set, see LinearizableSet. *)
Observe ==
  was' = [t \in Threads |->
            IF op'[t] = "none" THEN {}
            ELSE IF result[t] # {} THEN was[t]
            ELSE was[t] \union {key'[t] \in Members'}]

(* The steps of a call, after the first *)
Step(t) ==
  /\ ~torn
  /\ \/ Check(t) \/ CheckParent(t) \/ InsertDummy(t) \/ StoreDummy(t)
     \/ ListCall(t) \/ ReadSize(t) \/ Count(t) \/ TestLoad(t) \/ PushBack(t)
     \/ SwapSize(t) \/ Uncount(t) \/ Return(t)
  /\ Observe /\ Race(t)

Begin(t, o, k) == ~torn /\ Call(t, o, k) /\ Observe /\ UNCHANGED torn

-----------------------------------------------------------------------------
(* insertKey(), removeKey() and findKey() of all threads can be put in an  *)
(* order in which each answer is that of a set, whichever thread           *)
(* initialises which bucket, and while the table grows.                    *)
AbstractSet == INSTANCE LinearizableSet WITH set <- Members, Initial <- {0}
Linearizable == AbstractSet!Spec

(* Every key in the list is found from the bucket it has now and from the  *)
(* buckets it had when the table was smaller, whose callers may be on      *)
(* their way; a bucket in use exists and leads to its own dummy.           *)
KeysReachable ==
  ~torn =>
    /\ Len(buckets_) >= size_
    /\ \A b \in 0 .. Len(buckets_) - 1 :
         at(b) # NULL => at(b) = reverseDummyKey(b) /\ at(b) \in list
                         /\ at(getParent(b)) # NULL
    /\ \A k \in Members, n \in 1 .. Width - 1 :
         LET b == k % pow2[n] IN
         pow2[n] <= size_ /\ at(b) # NULL => Found(reverseRegularKey(k), at(b))

(* count_ is the number of keys, but for the calls that are about to count *)
(* theirs; it wraps where their order makes it negative.                   *)
CountExact ==
  (count_ + Cardinality({t \in Threads : pc[t] \in {"csize", "count"}})) % Word
    = (Cardinality(Members) + Cardinality({t \in Threads : pc[t] = "uncount"})) % Word
=============================================================================
