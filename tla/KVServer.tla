------------------------------ MODULE KVServer ------------------------------
(***************************************************************************)
(* The table in use: by the key-value service, which fills it before it    *)
(* serves anything (kv_service.cpp) and then looks up the key of every     *)
(* request (kv_connection.cpp), or by threads that insert, remove and find *)
(* concurrently (lock_free_hash_table_test.cpp).  Reading requests and     *)
(* sending responses is the same as in Connection and left out; a response *)
(* is what handleRequest() puts into out_.                                 *)
(***************************************************************************)
EXTENDS LockFreeHashTable

CONSTANTS MaxCalls,    \* bound: calls per thread
          Built        \* keys that buildHashTable() inserts, 500 in the code

ASSUME KVAssumption == MaxCalls \in Nat /\ Built \in Nat \ {0} /\ 0 .. Built - 1 \subseteq Keys

VARIABLES server,      \* the program is the server
          built,       \* its progress in buildHashTable()
          builder,     \* the thread in KVService's constructor
          value,       \* the int that goes with a key
          response, calls

kvVars == <<server, built, builder, value, response, calls>>

None == [key |-> 0, code |-> 0, length |-> 0, body |-> 0]

KVTypeOK ==
  /\ TypeOK
  /\ server \in BOOLEAN /\ built \in 0..Built /\ builder \in Threads
  /\ value \in [Keys -> 0..99]
  /\ response \in [Threads ->
       [key : 0 .. Word - 1, code : {0, 200, 503}, length : {0, 2}, body : 0..3]]
  /\ calls \in [Threads -> 0..MaxCalls]

KVInit ==
  /\ Init
  /\ server \in BOOLEAN /\ built = 0 /\ builder \in Threads
  /\ value = [k \in Keys |-> 0]
  /\ response = [t \in Threads |-> None] /\ calls = [t \in Threads |-> 0]

(* The value of key k in buildHashTable(): two digits *)
ValueOf(k) ==
  LET v == (k * 10) % 100 IN IF v < 10 THEN v + 10 ELSE v

(* The bytes sprintf() leaves in temp[2], up to the next NUL.  That of a   *)
(* number of two digits is written behind temp, where it may not last.  (A *)
(* build that checks the size of temp ends here.)                          *)
Printed(v) == IF v < 10 THEN {1} ELSE {2, 3}

BuildHashTable ==
  /\ server /\ built < Built
  /\ Begin(builder, "insert", built)
  /\ UNCHANGED kvVars

(* insertKey() links a node that has the value, if it links one. *)
BuilderStep ==
  /\ server /\ built < Built
  /\ Step(builder)
  /\ value' = IF pc[builder] = "op" /\ result'[builder] = {TRUE}
              THEN [value EXCEPT ![built] = ValueOf(built)] ELSE value
  /\ built' = IF pc[builder] = "done" THEN built + 1 ELSE built
  /\ UNCHANGED <<server, builder, response, calls>>

(* handleRequest(): findKey() of the int in the address, which may be any: *)
(* it is not initialised if there is none.                                 *)
Requests == {n \in 0 .. Word - 1 : Seen(n) \in Keys}

HandleRequest(t, n) ==
  /\ server /\ built = Built /\ calls[t] < MaxCalls
  /\ Begin(t, "lookup", Seen(n))
  /\ response' = [response EXCEPT ![t] = [None EXCEPT !.key = n]]
  /\ calls' = [calls EXCEPT ![t] = @ + 1]
  /\ UNCHANGED <<server, built, builder, value>>

(* and what it may answer: the size of temp and what is in it, or 503.     *)
(* Mutant: the value is not looked at.                                     *)
RespondBlank(t) ==
  {[key |-> response[t].key, code |-> 200, length |-> 2, body |-> 2]}
Respond(t) ==
  IF result[t] = {TRUE}
  THEN {[key |-> response[t].key, code |-> 200, length |-> 2, body |-> b] :
          b \in Printed(value[key[t]])}
  ELSE {[key |-> response[t].key, code |-> 503, length |-> 0, body |-> 0]}

WorkerStep(t) ==
  /\ server => built = Built
  /\ Step(t)
  /\ IF server /\ pc[t] = "done"
     THEN \E r \in Respond(t) : response' = [response EXCEPT ![t] = r]
     ELSE UNCHANGED response
  /\ UNCHANGED <<server, built, builder, value, calls>>

(* The threads of the test *)
TestCall(t, o, k) ==
  /\ ~server /\ calls[t] < MaxCalls
  /\ Begin(t, o, k)
  /\ calls' = [calls EXCEPT ![t] = @ + 1]
  /\ UNCHANGED <<server, built, builder, value, response>>

(* All calls were made, or the memory is corrupt. *)
Finished ==
  /\ torn \/ \A t \in Threads : pc[t] = "idle" /\ calls[t] = MaxCalls
  /\ UNCHANGED <<vars, kvVars>>

KVNext ==
  \/ BuildHashTable \/ BuilderStep
  \/ \E t \in Threads : WorkerStep(t)
  \/ \E t \in Threads, n \in Requests : HandleRequest(t, n)
  \/ \E t \in Threads, o \in AbstractSet!Ops, k \in Keys : TestCall(t, o, k)
  \/ Finished

KVSpec == KVInit /\ [][KVNext]_<<vars, kvVars>>

(* The server answers 200 for the keys it was built with, and for the      *)
(* numbers that differ from one of these in the sign bit (GET -2147483647  *)
(* finds key 1), and 503 for any other number, whichever buckets its       *)
(* threads initialise meanwhile; and it never pushes onto buckets_ while   *)
(* it serves.  The client gets at least the bytes that were announced,     *)
(* but for key 0, which the table's constructor inserted with a value of   *)
(* one digit.                                                              *)
AnswersRight ==
  server =>
    /\ ~torn
    /\ \A t \in Threads :
         LET r == response[t] IN
         r.code # 0 => /\ (r.code = 200) = (Seen(r.key) < Built)
                       /\ r.code = 200 /\ Seen(r.key) # 0 => r.body >= r.length
=============================================================================
