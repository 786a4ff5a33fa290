--------------------------- MODULE CodexMessages ---------------------------
(***************************************************************************)
(* What the Codex App Server writes, one message per line, as its client   *)
(* sees it: responses to numbered requests, other messages, lines that are *)
(* no JSON object, and the end of the stream.                              *)
(***************************************************************************)
EXTENDS Integers, Sequences

CONSTANTS Ordinary,     \* notifications and the server's own requests
          Bodies        \* what a response may say

\* Responses to the first n requests.
Responses(n) == [kind : {"result", "error", "invalid"}, id : 1..n, body : Bodies]
Garbage == [kind |-> "garbage"]
EndOfStream == [kind |-> "end"]

ASSUME MessageAssumption ==
    \A m \in Ordinary : m.kind \notin {"result", "error", "invalid", "garbage", "end"}

\* All that may be written when n requests were made.
Messages(n) == Responses(n) \cup Ordinary \cup {Garbage, EndOfStream}

Broken(m) == m.kind \in {"garbage", "end"}
Answers(m, r) == m.kind \in {"result", "error", "invalid"} /\ m.id = r

\* What a call ends with when message m decides it.
Raised == [kind |-> "raised", message |-> Garbage]
Returned(m) == IF m.kind = "result" THEN [kind |-> "response", message |-> m] ELSE Raised
Delivered(m) == IF Broken(m) THEN Raised ELSE [kind |-> "message", message |-> m]
=============================================================================
