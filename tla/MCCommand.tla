----------------------------- MODULE MCCommand -----------------------------
(***************************************************************************)
(* A recording started afresh, two recorders that may append to it, the    *)
(* second of them for another session, and two commands.                   *)
(***************************************************************************)
EXTENDS CommandLine

CONSTANTS r1, r2, r3, s1, s2, q1, q2

Sessions == [r \in Recorders |-> IF r = r3 THEN s2 ELSE s1]
Sizes == [r \in Recorders |-> IF r = r1 THEN 3 ELSE 2]

\* One command may ask for any of these.
Orders == {{}, {"json", "sarif"}, {"trace", "json"}}
NoReports == {{}}

\* Two situations in one run.  A trace that is recorded, by recorders one after
\* another or by fewer events of two that overlap, and checked once; and two
\* commands, the second of any kind, that write reports when the recording of
\* one line is over.
Recording ==
    /\ cmd[q2] = NotBegun /\ cmd[q1].kind \in {"none", "check"} /\ cmd[q1].wants = {}
    /\ cmd[q1].at # "gone" /\ cmd[q1].status # "FAIL"
    /\ met => tried[r1] + tried[r2] <= 2 /\ tried[r3] = 0
Reporting ==
    /\ \A r \in Recorders \ {r1} : state[r] = "idle"
    /\ tried[r1] <= 1 /\ (latest # Nobody => state[r1] = "gone" /\ Len(file) = 3)
    /\ cmd[q1].kind \in {"none", "test"}
    /\ cmd[q2].kind # "none" => cmd[q1].kind # "none"
    /\ cmd[q1].kind = "test" => cmd[q1].wants = {"json", "sarif"}
InOneSituation == Recording \/ Reporting
=============================================================================
