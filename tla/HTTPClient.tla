----------------------------- MODULE HTTPClient -----------------------------
(***************************************************************************)
(* The client side of a connection: HTTPClientConnection (and              *)
(* KVClientConnection, the same code), the connecting half of Connection,  *)
(* HTTPService::connect().  Threads share one connection and call send(),  *)
(* which waits for its own response; a worker reads the responses and the  *)
(* server answers in order.  Requests are units; partial writes, EAGAIN    *)
(* and the reference count are the matter of module Connection.            *)
(***************************************************************************)
EXTENDS Naturals, Sequences

CONSTANTS Users, MaxSends

VARIABLES conn,                       \* what became of the connection
          pc, sends,                  \* each user's place and calls of send()
          m_response_, response_cbs_, \* holder of the lock, queue of users
          out_, writing_, size,       \* Connection's; size is doWrite()'s
          wire, answers,              \* requests and responses under way
          got                         \* *response of each user

vars == <<conn, pc, sends, m_response_, response_cbs_, out_, writing_, size,
          wire, answers, got>>

Request(u) == <<u, sends[u]>>
None == <<>>

Init ==
  /\ conn = "new" /\ pc = [u \in Users |-> "idle"] /\ sends = [u \in Users |-> 0]
  /\ m_response_ = "free" /\ response_cbs_ = <<>>
  /\ out_ = <<>> /\ writing_ = FALSE /\ size = [u \in Users |-> 0]
  /\ wire = <<>> /\ answers = <<>> /\ got = [u \in Users |-> None]

Goto(u, place) == pc' = [pc EXCEPT ![u] = place]

(* connect(): a stopped service or a failed socket() call nobody back, an  *)
(* immediate success uses a Descriptor that is NULL; else the outcome is   *)
(* known at once ("failed") or to doConnect() later.                       *)
StartConnect ==
  /\ conn = "new" /\ conn' \in {"silent", "crash", "failed", "connecting"}
  /\ UNCHANGED <<pc, sends, m_response_, response_cbs_, out_, writing_, size,
                 wire, answers, got>>

(* doConnect(): startRead() and the user's callback, or the callback and   *)
(* the release() that deletes what connect() returns.                      *)
DoConnect ==
  /\ conn = "connecting" /\ conn' \in {"up", "failed"}
  /\ UNCHANGED <<pc, sends, m_response_, response_cbs_, out_, writing_, size,
                 wire, answers, got>>

(* asyncSend() in send(): the callback is queued under m_response_ ...     *)
(* Mutant: the lock is released before the request is written.             *)
HeldUnlocked(u) == "free"
Held(u) == u

PushCallback(u) ==
  /\ pc[u] = "idle" /\ sends[u] < MaxSends /\ conn = "up"
  /\ m_response_ = "free" /\ m_response_' = Held(u)
  /\ sends' = [sends EXCEPT ![u] = @ + 1] /\ got' = [got EXCEPT ![u] = None]
  /\ response_cbs_' = Append(response_cbs_, u) /\ Goto(u, "toBuffer")
  /\ UNCHANGED <<conn, out_, writing_, size, wire, answers>>

(* ... and so is the request. *)
ToBuffer(u) ==
  /\ pc[u] = "toBuffer"
  /\ out_' = Append(out_, Request(u)) /\ m_response_' = "free"
  /\ Goto(u, "startWrite")
  /\ UNCHANGED <<conn, sends, response_cbs_, writing_, size, wire, answers, got>>

StartWrite(u) ==
  /\ pc[u] = "startWrite"
  /\ Goto(u, IF writing_ THEN "wait" ELSE "load") /\ writing_' = TRUE
  /\ UNCHANGED <<conn, sends, m_response_, response_cbs_, out_, size, wire, answers, got>>

Load(u) ==
  /\ pc[u] = "load" /\ size' = [size EXCEPT ![u] = Len(out_)] /\ Goto(u, "write")
  /\ UNCHANGED <<conn, sends, m_response_, response_cbs_, out_, writing_, wire, answers, got>>

(* Another request may have come in, or an earlier writer taken this one:  *)
(* a write of nothing is taken for a closed socket and leaves writing_ set.*)
(* Mutant: the requests that came in are left to their own startWrite().   *)
WriteAgainNever(u) == FALSE
WriteAgain(u) == size[u] < Len(out_)

Write(u) ==
  /\ pc[u] = "write"
  /\ LET ok == conn = "up" /\ size[u] > 0
     IN /\ wire' = IF ok THEN wire \o SubSeq(out_, 1, size[u]) ELSE wire
        /\ out_' = IF ok THEN SubSeq(out_, size[u] + 1, Len(out_)) ELSE out_
        /\ writing_' = (~ok \/ WriteAgain(u))
        /\ Goto(u, IF ok /\ WriteAgain(u) THEN "load" ELSE "wait")
  /\ size' = [size EXCEPT ![u] = 0]
  /\ UNCHANGED <<conn, sends, m_response_, response_cbs_, answers, got>>

(* The server *)
Serve ==
  /\ conn = "up" /\ wire # <<>>
  /\ wire' = Tail(wire) /\ answers' = Append(answers, Head(wire))
  /\ UNCHANGED <<conn, pc, sends, m_response_, response_cbs_, out_, writing_, size, got>>

(* doRead(), readDone() and handleResponse(): the first callback has it;   *)
(* receiveInternal() hands it over.  A response nobody waits for is lost.  *)
HandleResponse ==
  /\ conn = "up" /\ answers # <<>> /\ m_response_ = "free"
  /\ answers' = Tail(answers)
  /\ IF response_cbs_ = <<>> THEN UNCHANGED <<response_cbs_, got>>
     ELSE /\ got' = [got EXCEPT ![Head(response_cbs_)] = Head(answers)]
          /\ response_cbs_' = Tail(response_cbs_)
  /\ UNCHANGED <<conn, pc, sends, m_response_, out_, writing_, size, wire>>

(* Notification::wait() *)
Wait(u) ==
  /\ pc[u] = "wait" /\ got[u] # None /\ Goto(u, "idle")
  /\ UNCHANGED <<conn, sends, m_response_, response_cbs_, out_, writing_, size,
                 wire, answers, got>>

(* The server closes: the reader releases the connection, nobody is called *)
PeerCloses ==
  /\ conn = "up" /\ conn' = "closed"
  /\ UNCHANGED <<pc, sends, m_response_, response_cbs_, out_, writing_, size,
                 wire, answers, got>>

User(u) ==
  PushCallback(u) \/ ToBuffer(u) \/ StartWrite(u) \/ Load(u) \/ Write(u) \/ Wait(u)

Next ==
  \/ StartConnect \/ DoConnect \/ Serve \/ HandleResponse \/ PeerCloses
  \/ \E u \in Users : User(u)

(* A user gets the response to its own request, however the calls of       *)
(* send() interleave.                                                      *)
AnswersInOrder == \A u \in Users : got[u] \in {None, Request(u)}

(* A write of nothing has left writing_ set. *)
Stuck == writing_ /\ \A u \in Users : pc[u] \notin {"load", "write"}

(* send() returns, if the connection stays up and writing. *)
Sending(u)  == pc[u] \notin {"idle"}
Answered(u) == pc[u] = "idle" \/ conn # "up" \/ Stuck
=============================================================================
