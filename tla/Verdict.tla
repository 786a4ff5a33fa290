------------------------------ MODULE Verdict ------------------------------
(***************************************************************************)
(* What the verdicts on one growing session promise, with no rule in       *)
(* sight: the verdict concerns the events judged so far, a failure is      *)
(* never taken back, and a session that passed is finished, so whatever    *)
(* is recorded after it makes it fail.  Only an incomplete session is      *)
(* still open.                                                             *)
(***************************************************************************)
EXTENDS Naturals

VARIABLES
    events,    \* how many events have been recorded
    judged,    \* how many of them the verdict is about
    verdict    \* "NONE" until the first judgement

Init == events \in Nat /\ judged = 0 /\ verdict = "NONE"

Grow ==
    /\ judged = events
    /\ events' = events + 1
    /\ UNCHANGED <<judged, verdict>>

Judge ==
    /\ judged # events
    /\ judged' = events
    /\ verdict' \in CASE verdict \in {"PASS", "FAIL"} -> {"FAIL"}
                      [] OTHER -> {"PASS", "FAIL", "INCOMPLETE"}
    /\ UNCHANGED events

Next == Grow \/ Judge

Spec == Init /\ [][Next]_<<events, judged, verdict>>
=============================================================================
