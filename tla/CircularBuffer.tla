--------------------------- MODULE CircularBuffer ---------------------------
(***************************************************************************)
(* circular_buffer.cpp: the last unread values of those written, in a ring *)
(* whose slots know whether they were read.                                *)
(***************************************************************************)
EXTENDS Integers, Sequences

CONSTANTS Slots,        \* the constructor's argument; 0 stands for 10
          Values

VARIABLES buffer, read_position, write_position,
          kept, result  \* the values that should be there, read()'s answer

vars == <<buffer, read_position, write_position, kept, result>>

length == IF Slots = 0 THEN 10 ELSE Slots

Init ==
  /\ buffer = [i \in 0..length - 1 |-> [value |-> 0, read |-> TRUE]]
  /\ read_position = 0 /\ write_position = 0 /\ kept = <<>> /\ result = -1

After(i) == IF i + 1 = length THEN 0 ELSE i + 1

(* Mutant: the reader is not moved past the value that is overwritten. *)
OverwrittenKept == read_position
Overwritten == IF buffer[write_position].read THEN read_position ELSE After(read_position)

write(value) ==
  /\ read_position' = Overwritten
  /\ buffer' = [buffer EXCEPT ![write_position] = [value |-> value, read |-> FALSE]]
  /\ write_position' = After(write_position)
  /\ kept' = Append(IF Len(kept) = length THEN Tail(kept) ELSE kept, value)
  /\ UNCHANGED result

read ==
  LET slot == buffer[read_position]
  IN /\ result' = IF slot.read THEN -1 ELSE slot.value
     /\ read_position' = IF slot.read THEN read_position ELSE After(read_position)
     /\ buffer' = [buffer EXCEPT ![read_position].read = TRUE]
     /\ kept' = IF kept = <<>> THEN kept ELSE Tail(kept)
     /\ UNCHANGED write_position

clear ==
  /\ buffer' = [i \in DOMAIN buffer |-> [buffer[i] EXCEPT !.read = TRUE]]
  /\ read_position' = 0 /\ write_position' = 0 /\ kept' = <<>>
  /\ UNCHANGED result

Next == (\E value \in Values : write(value)) \/ read \/ clear

(* From read_position on the ring holds the last unread values, and a slot *)
(* is marked unread exactly when it holds one of them.                     *)
LastValuesKept ==
  \A k \in 0..length - 1 :
    LET slot == buffer[(read_position + k) % length]
    IN IF k < Len(kept) THEN slot = [value |-> kept[k + 1], read |-> FALSE] ELSE slot.read
=============================================================================
