----------------------------- MODULE Collector -----------------------------
(***************************************************************************)
(* LocalOtelCollector: one handler thread per telemetry request.  A        *)
(* handler checks the limits and reserves the announced bytes under the    *)
(* lock, reads the body without it, and takes it again to store the        *)
(* payload or to note the error; then it answers the client.               *)
(***************************************************************************)
EXTENDS Naturals, Sequences

CONSTANTS
    Requests,       \* the requests clients may make, one handler each
    Contents,       \* what a telemetry payload may say
    Messages,       \* the requests clients make
    NoMessage,
    MaxRequestBytes, MaxTotalBytes, MaxPayloads, MaxErrors

ASSUME LimitAssumption ==
    /\ MaxRequestBytes \in Nat /\ MaxTotalBytes \in Nat
    /\ MaxPayloads \in Nat /\ MaxErrors \in Nat \ {0}

VARIABLES
    message,    \* what each client sent
    handler,    \* where the handler of each request is
    bytes,      \* LocalOtelCollector._bytes
    payloads,   \* _payloads
    errors      \* _errors
collector == <<message, handler, bytes, payloads, errors>>

\* "object" is a whole JSON object; "garbage" any other whole text; "short"
\* ends before its length; a "silent" client keeps the connection open.
Bodies == {"object", "garbage", "short", "silent"}
Message == [to_logs : BOOLEAN, length : Nat, body : Bodies, content : Contents]

ASSUME MessageAssumption == Messages \subseteq Message /\ NoMessage \notin Message

Payload == [from : Requests, content : Contents]

Answered == {"ok", "bad", "stray"}
Stages == {"none", "received", "reading", "parsed", "stored", "refused", "rejected"}
              \cup Answered

CollectorInit ==
    /\ message = [r \in Requests |-> NoMessage]
    /\ handler = [r \in Requests |-> "none"]
    /\ bytes = 0
    /\ payloads = <<>>
    /\ errors = <<>>

Goto(r, stage) == handler' = [handler EXCEPT ![r] = stage]

\* do_POST starts on a new connection, in a thread of its own.
Receive(r, m) ==
    /\ handler[r] = "none"
    /\ Goto(r, "received")
    /\ message' = [message EXCEPT ![r] = m]
    /\ UNCHANGED <<bytes, payloads, errors>>

\* Another path than the secret one is answered 404 and leaves no trace.
Stray(r) ==
    /\ handler[r] = "received" /\ ~message[r].to_logs
    /\ Goto(r, "stray")
    /\ UNCHANGED <<message, bytes, payloads, errors>>

Fits_Strict(r) ==
    /\ 0 < message[r].length /\ message[r].length <= MaxRequestBytes
    /\ bytes + message[r].length < MaxTotalBytes
    /\ Len(payloads) < MaxPayloads
Fits(r) ==
    /\ 0 < message[r].length /\ message[r].length <= MaxRequestBytes
    /\ bytes + message[r].length <= MaxTotalBytes
    /\ Len(payloads) < MaxPayloads

\* The reserved bytes are never given back, whatever becomes of the request.
Reserve(r) ==
    /\ handler[r] = "received" /\ message[r].to_logs
    /\ IF Fits(r)
       THEN Goto(r, "reading") /\ bytes' = bytes + message[r].length
       ELSE Goto(r, "refused") /\ UNCHANGED bytes
    /\ UNCHANGED <<message, payloads, errors>>

Read_NoTimeout(r) ==
    /\ handler[r] = "reading" /\ message[r].body # "silent"
    /\ Goto(r, IF message[r].body = "object" THEN "parsed" ELSE "refused")
    /\ UNCHANGED <<message, bytes, payloads, errors>>

\* rfile.read returns, or gives up after the three seconds of the socket.
Read(r) ==
    /\ handler[r] = "reading"
    /\ Goto(r, IF message[r].body = "object" THEN "parsed" ELSE "refused")
    /\ UNCHANGED <<message, bytes, payloads, errors>>

Store_NoRecheck(r) ==
    /\ handler[r] = "parsed"
    /\ Goto(r, "stored")
    /\ payloads' = Append(payloads, [from |-> r, content |-> message[r].content])
    /\ UNCHANGED <<message, bytes, errors>>
Store_DropWhenFull(r) ==
    /\ handler[r] = "parsed"
    /\ Goto(r, "stored")
    /\ payloads' = IF Len(payloads) < MaxPayloads
                   THEN Append(payloads, [from |-> r, content |-> message[r].content])
                   ELSE payloads
    /\ UNCHANGED <<message, bytes, errors>>

\* Other handlers may have stored since Reserve: the count is checked again.
Store(r) ==
    /\ handler[r] = "parsed"
    /\ IF Len(payloads) < MaxPayloads
       THEN /\ Goto(r, "stored")
            /\ payloads' = Append(payloads, [from |-> r, content |-> message[r].content])
       ELSE Goto(r, "refused") /\ UNCHANGED payloads
    /\ UNCHANGED <<message, bytes, errors>>

Refuse_Unbounded(r) ==
    /\ handler[r] = "refused"
    /\ Goto(r, "rejected")
    /\ errors' = Append(errors, r)
    /\ UNCHANGED <<message, bytes, payloads>>

\* The except clause: the first MaxErrors errors are kept.
Refuse(r) ==
    /\ handler[r] = "refused"
    /\ Goto(r, "rejected")
    /\ errors' = IF Len(errors) < MaxErrors THEN Append(errors, r) ELSE errors
    /\ UNCHANGED <<message, bytes, payloads>>

\* Status 200 or 400 reaches the client.
Answer(r) ==
    /\ handler[r] \in {"stored", "rejected"}
    /\ Goto(r, IF handler[r] = "stored" THEN "ok" ELSE "bad")
    /\ UNCHANGED <<message, bytes, payloads, errors>>

Handle(r) ==
    Stray(r) \/ Reserve(r) \/ Read(r) \/ Store(r) \/ Refuse(r) \/ Answer(r)
=============================================================================
