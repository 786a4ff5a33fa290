------------------------------- MODULE MCLive ------------------------------
(***************************************************************************)
(* Two probes, the first to be accepted and the second rejected, and the   *)
(* telemetry of an agent that retries, contradicts itself or is cut off.   *)
(***************************************************************************)
EXTENDS LiveProps, TLC

CONSTANTS u1, u2

TheWanted == u1 :> "accept" @@ u2 :> "reject"

Accept(u) == [use |-> u, verdict |-> "accept"]
Reject(u) == [use |-> u, verdict |-> "reject"]
Asked == {Accept(u1), Reject(u2)}
TheContents == {Asked, {Accept(u1)}, {Reject(u2)}, Malformed}

\* The denial held, or was bypassed.
TheOutcomes == {{u1}, {u1, u2}}

\* A batch of four bytes; three fit in twelve, unless a longer one is reserved.
Batch(content) == [to_logs |-> TRUE, length |-> 4, body |-> "object", content |-> content]
Oversize == [Batch(Asked) EXCEPT !.length = 6]
Silent == [Batch(Asked) EXCEPT !.body = "silent", !.length = 5]
Short == [Batch(Asked) EXCEPT !.body = "short"]
Elsewhere == [Batch(Asked) EXCEPT !.to_logs = FALSE]

AllBatches == {Batch(Asked), Batch(Malformed), Silent, Oversize, Elsewhere}
FewBatches == {Batch({Accept(u1)}), Batch({Reject(u2)}), Short}
=============================================================================
