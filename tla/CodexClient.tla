---------------------------- MODULE CodexClient ----------------------------
(***************************************************************************)
(* The client of the Codex App Server: a reader thread puts what the       *)
(* server writes into a queue, from which one caller takes messages.  A    *)
(* request in progress sets other messages aside and puts them back into   *)
(* a second, private queue, which is served first.                         *)
(***************************************************************************)
EXTENDS CodexMessages

CONSTANTS MaxRequests, MaxWaiting   \* bounds on requests, and on messages not taken

ASSUME BoundAssumption == MaxRequests \in Nat /\ MaxWaiting \in Nat

VARIABLES
    queue,      \* _messages
    pending,    \* _pending
    deferred,   \* deferred, of the request in progress
    requestId,  \* _request_id
    call,       \* the call in progress: "idle", "request" or "next"
    result,     \* how the last call ended
    closed      \* has the reader seen the end of the stream?
client == <<queue, pending, deferred, requestId, call, result, closed>>

ClientInit ==
    /\ queue = <<>> /\ pending = <<>> /\ deferred = <<>>
    /\ requestId = 0 /\ call = "idle" /\ result = Raised /\ closed = FALSE

Waiting == deferred \o pending \o queue

\* _read_stdout: a line is queued, and at last the end of the stream.
Receive(m) ==
    /\ ~closed /\ Len(Waiting) < MaxWaiting
    /\ queue' = Append(queue, m)
    /\ closed' = (m = EndOfStream)
    /\ UNCHANGED <<pending, deferred, requestId, call, result>>

\* request up to its loop: send raises when the server is gone.
Request ==
    /\ call = "idle" /\ requestId < MaxRequests
    /\ requestId' = requestId + 1
    /\ \/ call' = "request" /\ UNCHANGED result
       \/ call' = "idle" /\ result' = Raised
    /\ UNCHANGED <<queue, pending, deferred, closed>>

NextMessage ==
    /\ call = "idle"
    /\ call' = "next"
    /\ UNCHANGED <<queue, pending, deferred, requestId, result, closed>>

\* The end of a call: the finally clause of request puts back what was set
\* aside (next_message has set nothing aside).
PutBack_Reversed(left) == [i \in DOMAIN deferred |-> deferred[Len(deferred) + 1 - i]] \o left
PutBack(left) == deferred \o left
End(outcome, left) ==
    /\ pending' = PutBack(left)
    /\ deferred' = <<>>
    /\ call' = "idle" /\ result' = outcome

\* _next serves _pending first; left is what remains of it.
Take ==
    /\ pending # <<>> \/ queue # <<>>
    /\ LET m == IF pending # <<>> THEN Head(pending) ELSE Head(queue)
           left == IF pending # <<>> THEN Tail(pending) ELSE <<>>
       IN  /\ queue' = IF pending # <<>> THEN queue ELSE Tail(queue)
           /\ \/ call = "next" /\ End(Delivered(m), left)
              \/ /\ call = "request" /\ (Broken(m) \/ Answers(m, requestId))
                 /\ End(Returned(m), left)
              \/ /\ call = "request" /\ ~Broken(m) /\ ~Answers(m, requestId)
                 /\ deferred' = Append(deferred, m) /\ pending' = left
                 /\ UNCHANGED <<call, result>>
    /\ UNCHANGED <<requestId, closed>>

TimeOut ==
    /\ call # "idle" /\ pending = <<>> /\ queue = <<>>
    /\ End(Raised, <<>>)
    /\ UNCHANGED <<queue, requestId, closed>>

ClientNext == (\E m \in Messages(requestId) : Receive(m)) \/ Request \/ NextMessage \/ Take \/ TimeOut

ClientSpec == ClientInit /\ [][ClientNext]_client

\* The two queues and the messages set aside are one inbox: no message is
\* lost, delivered twice or out of order by requests that are answered,
\* refused, time out or meet the end of the stream.
Abstract == INSTANCE Inbox WITH inbox <- Waiting, asked <- requestId
ClientIsInbox == Abstract!Spec
=============================================================================
