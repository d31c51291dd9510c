------------------------------- MODULE Buffer -------------------------------
(***************************************************************************)
(* buffer.cpp: a queue of bytes in chunks of BlockSize, its Iterator, and  *)
(* the two ways a Connection uses it.  in_ is filled from the socket       *)
(* (reserve(), advance()), parsed through an Iterator and consumed by what *)
(* that read; out_ is given a header (write()) and a file (copyFrom()) and *)
(* consumed by what the socket took.  A chunk is the sequence of its       *)
(* filled bytes, so that sizes_ are lengths; positions count from 0.       *)
(***************************************************************************)
EXTENDS Naturals, Sequences, SequencesExt

CONSTANTS BlockSize, Room,      \* reserve()'s argument in doRead()
          MaxBytes, Stamps      \* bounds: unread bytes, distinct bytes

VARIABLES use,                  \* "in" or "out"
          buf,
          content, stamp,       \* the bytes it should hold, the next one
          lastEob               \* what eob() told the last parser

vars == <<use, buf, content, stamp, lastEob>>

Position(i, o) == [idx |-> i, off |-> o]
Empty == [chunks |-> << <<>> >>, wpos |-> Position(0, 0), rpos |-> Position(0, 0)]

chunk(b, pos) == b.chunks[pos.idx + 1]
writeSize(b)  == BlockSize - b.wpos.off
readSize(b)   == Len(chunk(b, b.rpos)) - b.rpos.off
byteCount(b) ==
  readSize(b) + FoldLeft(LAMBDA sum, c : sum + Len(c), 0, Tail(b.chunks))

addChunk(b) ==
  [b EXCEPT !.chunks = Append(@, <<>>), !.wpos = Position(Len(b.chunks), 0)]

dropChunks(b, n) ==
  [chunks |-> SubSeq(b.chunks, n + 1, Len(b.chunks)),
   wpos |-> Position(b.wpos.idx - n, b.wpos.off),
   rpos |-> Position(b.rpos.idx - n, b.rpos.off)]

(* Bytes written at writePtr(), then advance() or the like *)
advance(b, bytes) ==
  [b EXCEPT !.chunks[b.wpos.idx + 1] = @ \o bytes, !.wpos.off = @ + Len(bytes)]

should_advance(b) == b.rpos = b.wpos

reserve(b, bytes) ==
  IF writeSize(b) >= bytes THEN b
  ELSE LET more == addChunk(b)
       IN IF should_advance(b) THEN dropChunks([more EXCEPT !.rpos = more.wpos], 1)
          ELSE more

writeByte(b, byte) ==
  LET space == IF writeSize(b) = 0 THEN addChunk(b) ELSE b
      done  == advance(space, <<byte>>)
  IN IF writeSize(done) = 0 THEN addChunk(done) ELSE done

write(b, bytes) == FoldLeft(writeByte, b, bytes)

isConsumed(b) == b.rpos # Position(0, 0)

copyFrom(b, other) ==
  LET copy(to, i) ==
        LET bytes == other.chunks[i]
        IN advance(IF i # 1 \/ Len(bytes) > writeSize(to) THEN addChunk(to) ELSE to, bytes)
      all == FoldLeft(copy, b, [i \in 1..Len(other.chunks) |-> i])
  IN IF readSize(other) = 0 THEN b
     ELSE IF writeSize(all) = 0 THEN addChunk(all) ELSE all

(* The loop of consume(), a byte at a time *)
consumeByte(b, i) ==
  LET read == [b EXCEPT !.rpos.off = @ + 1]
  IN IF readSize(read) = 0 /\ b.rpos.idx < b.wpos.idx
     THEN dropChunks([read EXCEPT !.rpos = Position(b.rpos.idx + 1, 0)], 1)
     ELSE read

consume(b, bytes) == FoldLeft(consumeByte, b, [i \in 1..bytes |-> i])

(* The Iterator *)
getBudget(b, pos) == Len(chunk(b, pos)) - pos.off

begin(b) == [pos |-> b.rpos, read |-> 0, budget |-> getBudget(b, b.rpos)]

(* Mutant: the budget, which is what tells a position of the past from the *)
(* end, is not looked at.                                                  *)
eobNoBudget(b, it) == it.pos = b.wpos
eob(b, it) == it.budget = 0 /\ it.pos = b.wpos

slowNext(b, it) ==
  LET moved == Position(it.pos.idx, it.pos.off + 1)
      pos   == IF getBudget(b, moved) = 0 /\ moved.idx < b.wpos.idx
               THEN Position(moved.idx + 1, 0) ELSE moved
  IN IF getBudget(b, it.pos) = 0 THEN it
     ELSE [pos |-> pos, read |-> it.read + 1, budget |-> getBudget(b, pos)]

next(b, it) ==
  IF it.budget > 1
  THEN [pos |-> Position(it.pos.idx, it.pos.off + 1), read |-> it.read + 1,
        budget |-> it.budget - 1]
  ELSE slowNext(b, it)

getChar(b, it) == chunk(b, it.pos)[it.pos.off + 1]

Walked(b, n) == FoldLeft(LAMBDA it, i : next(b, it), begin(b), [i \in 1..n |-> i])

Init ==
  /\ use \in {"in", "out"} /\ buf = Empty
  /\ content = <<>> /\ stamp = 0 /\ lastEob = FALSE

Bytes(n) == [i \in 1..n |-> (stamp + i) % Stamps]

Filled(n) ==
  /\ Len(content) + n <= MaxBytes
  /\ content' = content \o Bytes(n) /\ stamp' = (stamp + n) % Stamps
  /\ lastEob' = FALSE /\ UNCHANGED use

(* doRead(): n bytes have come, or none, after the space was reserved *)
Receive(n) ==
  /\ use = "in"
  /\ LET room == reserve(buf, Room)
     IN n <= writeSize(room) /\ buf' = advance(room, Bytes(n))
  /\ Filled(n)

(* handleRequest(): h bytes of header, and a file of n bytes *)
Respond(h, n) ==
  /\ use = "out"
  /\ LET file == advance(Empty, SubSeq(Bytes(h + n), h + 1, h + n))
     IN /\ ~isConsumed(file)      \* copyFrom() ends the process
        /\ buf' = copyFrom(write(buf, Bytes(h)), file)
  /\ Filled(h + n)

Consumed(n) == content' = SubSeq(content, n + 1, Len(content)) /\ UNCHANGED <<use, stamp>>

(* readDone(): a request of n bytes is parsed and consumed, and the old    *)
(* Iterator asked whether it was the last.                                 *)
Parse(n) ==
  /\ use = "in" /\ n <= byteCount(buf)
  /\ buf' = consume(buf, Walked(buf, n).read)
  /\ lastEob' = eob(buf', Walked(buf, n))
  /\ Consumed(n)

(* doWrite(): the socket took n of the readSize() bytes. *)
Send(n) ==
  /\ use = "out" /\ n <= readSize(buf)
  /\ buf' = consume(buf, n) /\ lastEob' = FALSE
  /\ Consumed(n)

Next ==
  \/ \E n \in 0..BlockSize : Receive(n)
  \/ \E h \in 1..BlockSize + 1, n \in 0..BlockSize : Respond(h, n)
  \/ \E n \in 1..MaxBytes : Parse(n)
  \/ \E n \in 1..BlockSize : Send(n)

(* An Iterator reads the bytes that were written and not consumed, in      *)
(* order, to eob() and no further; byteCount() counts them; a writer to    *)
(* the socket finds some when there are any; and a parser that stops       *)
(* because of eob() leaves no request behind.                              *)
BytesKept ==
  LET n == byteCount(buf)
  IN /\ [k \in 1..n |-> getChar(buf, Walked(buf, k - 1))] = content
     /\ \A k \in 0..n : eob(buf, Walked(buf, k)) <=> k = n
     /\ content # <<>> => readSize(buf) > 0
     /\ lastEob => content = <<>>
=============================================================================
