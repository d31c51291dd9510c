---------------------------- MODULE ListBasedSet ----------------------------
(***************************************************************************)
(* list_set.cpp: a set in a sorted list under one lock, so that a call is  *)
(* one step; lookup() and checkIntegrity() change nothing.  The list is    *)
(* the sequence of its values.                                             *)
(***************************************************************************)
EXTENDS Integers, Sequences, SequencesExt

CONSTANTS Values

VARIABLES list,                 \* the values, from head
          members               \* inserted and not removed since

vars == <<list, members>>

Init == list = <<>> /\ members = {}

(* The place of a new value: before the node where the search stopped, or  *)
(* at the end.                                                             *)
Search(value) == SelectInSeq(list, LAMBDA data : data >= value)
Place(value) == IF Search(value) = 0 THEN Len(list) + 1 ELSE Search(value)

lookup(value) == \E i \in DOMAIN list : list[i] = value

insert(value) ==
  /\ list' = IF lookup(value) THEN list ELSE InsertAt(list, Place(value), value)
  /\ members' = members \union {value}

(* The head takes the rest of the list with it. *)
remove(value) ==
  /\ list' = IF list # <<>> /\ Head(list) = value THEN <<>> ELSE RemoveFirst(list, value)
  /\ members' = members \ {value}

clear == list' = <<>> /\ members' = {}

checkIntegrity == \A i \in 1..Len(list) - 1 : list[i] < list[i + 1]

Next == (\E v \in Values : insert(v) \/ remove(v)) \/ clear

(* The list stays sorted, and lookup() finds nothing that was removed.     *)
(* That it finds all that was inserted and not removed, which one expects  *)
(* of a set, is not so: remove() of the first value loses the others.      *)
SetKept ==
  checkIntegrity /\ \A v \in Values : lookup(v) => v \in members
=============================================================================
