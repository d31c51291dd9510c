----------------------------- MODULE HTTPParser -----------------------------
(***************************************************************************)
(* http_parser.cpp: the parser starts over with the whole input each time  *)
(* more of it has come.  A character is one of five kinds; for responses   *)
(* "L" stands for a text "Content-Length: 1" that begins a line and "K"    *)
(* for a line that is "Content-Length:" and no more.  A position is the    *)
(* number of characters read; an exception is a position of its own kind.  *)
(***************************************************************************)
EXTENDS Integers, Sequences

CONSTANTS MaxInput      \* bound: length of the input

VARIABLES message,      \* what is expected: "request" or "response"
          input

vars == <<message, input>>

Characters == {"c", "sp", "slash", "cr", "lf", "L", "K"}
Incomplete == -1        \* IncompleteInput
Error      == -2        \* ErrorInRequest
OutOfRange == -3        \* std::out_of_range, which nobody catches

Eob(p) == p = Len(input)
Thrown(p) == p < 0
Then(p, op(_)) == IF Thrown(p) THEN p ELSE op(p)

(* The first place from p on with one of these characters, or the end *)
Find(p, chars) ==
  CHOOSE q \in p..Len(input) :
    /\ \A r \in p..q - 1 : input[r + 1] \notin chars
    /\ Eob(q) \/ input[q + 1] \in chars

parseString(p) ==
  LET q == Find(p, {"sp", "cr"}) IN IF Eob(q) THEN Incomplete ELSE q

(* After a "\r" the next character is read without a look at eob(): at the *)
(* end of the input it is whatever the chunk holds there.  `after' is that *)
(* character.  Mutant: the "\n" is not checked.                            *)
LineEndsAny(q, after) == TRUE
LineEnds(q, after) == after = "lf"

parseLine(p, stale) ==
  LET q == Find(p, {"cr"})
      after == IF Eob(q + 1) THEN stale ELSE input[q + 2]
  IN IF Eob(q) THEN Incomplete
     ELSE IF LineEnds(q, after) THEN (IF Eob(q + 1) THEN q + 1 ELSE q + 2)
     ELSE Error

skipChar(p, skip) ==
  IF Eob(p) THEN Incomplete ELSE IF input[p + 1] # skip THEN Error ELSE p + 1

skipNewLine(p) ==
  IF Eob(p) \/ Eob(p + 1) THEN Incomplete
  ELSE IF input[p + 1] # "cr" \/ input[p + 2] # "lf" THEN Error ELSE p + 2

(* A line of the headers: string(line, 16) of one that ends before that throws. *)
HeaderLine(p, stale) ==
  LET end == parseLine(p, stale)
  IN IF ~Thrown(end) /\ input[p + 1] = "K" THEN OutOfRange ELSE end

(* Lines up to an empty one; there are fewer lines than characters. *)
Headers(p, stale) ==
  LET after[n \in 0..Len(input)] ==     \* <<end of the n-th line, no more of them>>
        IF n = 0 THEN <<p, Thrown(p)>>
        ELSE LET line == after[n - 1]
                 end  == HeaderLine(line[1], stale)
             IN IF line[2] THEN line
                ELSE <<end, Thrown(end) \/ input[line[1] + 1] = "cr">>
  IN after[Len(input)][1]

parseRequest(stale) ==
  LET address(p) == parseString(p)
      space(p)   == skipChar(p, "sp")
      slash(p)   == skipChar(p, "slash")
      lines(p)   == Headers(p, stale)
  IN Then(Then(Then(Then(Then(Then(Then(
       parseString(0), space), slash), address), space), parseString), skipNewLine), lines)

(* The status line, the headers and contentSize characters *)
parseResponse(stale) ==
  LET lines(p) == Headers(p, stale)
      contentSize(p, q) == IF \E r \in p + 1..q : input[r] = "L" THEN 1 ELSE 0
      status  == parseLine(0, stale)
      headers == Then(status, lines)
      body(q) == IF Len(input) - q < contentSize(status, q) THEN Incomplete
                 ELSE q + contentSize(status, q)
  IN Then(headers, body)

Parsed(stale) == IF message = "request" THEN parseRequest(stale) ELSE parseResponse(stale)

Init == message \in {"request", "response"} /\ input = <<>>

(* More input for a parser that found it insufficient: a character, or a   *)
(* "\r" and what follows it.  A "/" or "\n" is left out where the parser     *)
(* does not tell it from other characters.                                 *)
Pieces == {<<x>> : x \in Characters} \union {<<"cr", x>> : x \in Characters}

After(last) == input # <<>> /\ input[Len(input)] = last

Feed(piece) ==
  /\ Len(input) + Len(piece) <= MaxInput
  /\ \E stale \in {"lf", "c"} : Parsed(stale) = Incomplete
  /\ piece[Len(piece)] \in (IF message = "request" THEN Characters \ {"L", "K"}
                             ELSE Characters \ {"sp", "slash"})
  /\ piece[1] \in {"L", "K"} => After("lf")
  /\ After("K") => piece[1] = "cr"
  /\ piece = <<"slash">> => After("sp")
  /\ piece = <<"lf">> => After("cr")
  /\ input' = input \o piece /\ UNCHANGED message

Next == \E piece \in Pieces : Feed(piece)

(* The grammar: what a message of n characters is.  NewLine(p) is a line's *)
(* end after p characters.                                                 *)
Pair(p, x, y) == p + 2 <= Len(input) /\ input[p + 1] = x /\ input[p + 2] = y
NewLine(p) == Pair(p, "cr", "lf")
Text(p, q, barred) == p <= q /\ \A r \in p + 1..q : input[r] \notin barred

HeaderLines(p, q) ==    \* lines, of which the last and no other is empty
  LET blank(r) == NewLine(r) /\ (r = p \/ (r >= p + 2 /\ NewLine(r - 2)))
  IN /\ Text(p, q, {"K"})
     /\ p <= q - 2 /\ \A r \in p..q - 2 : blank(r) <=> r = q - 2
     /\ \A r \in p..q - 1 : input[r + 1] = "cr" => NewLine(r)

Complete(n) ==
  IF message = "request"
  THEN \E i \in 0..n : /\ Text(0, i, {"sp", "cr"}) /\ Pair(i, "sp", "slash")
         /\ \E j \in i + 2..n - 1 : /\ Text(i + 2, j, {"sp", "cr"}) /\ input[j + 1] = "sp"
              /\ \E k \in j + 1..n : /\ Text(j + 1, k, {"sp", "cr"}) /\ NewLine(k)
                                     /\ HeaderLines(k + 2, n)
  ELSE \E i \in 0..n : /\ Text(0, i, {"cr"}) /\ NewLine(i)
         /\ \E j \in i + 2..n : /\ HeaderLines(i + 2, j)
              /\ n - j = IF \E r \in i + 3..j : input[r] = "L" THEN 1 ELSE 0

(* However the input is cut into reads, a message is parsed when its last  *)
(* character has come, not earlier, and just its characters are read;      *)
(* unless a read ends between the two characters of a line's end, where    *)
(* the outcome hangs on what memory holds.                                 *)
ParsedWhenComplete ==
  ~After("cr")
    => LET messages == {n \in 0..Len(input) : Complete(n)}
       IN \A stale \in {"lf", "c"} :
            LET p == Parsed(stale) IN messages = IF Thrown(p) THEN {} ELSE {p}
=============================================================================
