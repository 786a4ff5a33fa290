---------------------------- MODULE EngineProps ----------------------------
(***************************************************************************)
(* What the evaluator promises of a report, stated over the recorded trace *)
(* alone: none of the definitions below uses the evaluator's indexes or    *)
(* accumulators, except LoopInv, which says what the accumulators hold.    *)
(***************************************************************************)
EXTENDS Engine, Provenance

\* The latest report is about the whole recorded trace.
Settled == phase = "idle" /\ trace # <<>> /\ report.events = Len(trace)

Executed == {k \in DOMAIN trace : trace[k].type = "action_executed"}
Denials  == {n \in DOMAIN trace : trace[n].decision = "deny"}

Reported(rule, k) == <<rule, k>> \in report.findings

SameAction(k, l) == trace[k].action_id = trace[l].action_id
SameApproval(k, l) ==
    trace[k].approval_id = trace[l].approval_id /\ trace[k].approval_id # None

\* Line d allows the execution at line k as it was presented at line r.
Approves(r, d, k) ==
    /\ r < d /\ d < k
    /\ trace[r].type = "approval_requested"
    /\ trace[d].decision = "allow"
    /\ SameApproval(r, d) /\ SameApproval(d, k)
    /\ SameAction(r, d) /\ SameAction(d, k)
    /\ policy.exact_binding => trace[r].action = trace[k].action
    /\ trace[d].ts <= trace[k].ts
    /\ trace[k].ts <= (IF trace[d].expires_at # None THEN trace[d].expires_at
                       ELSE trace[d].ts + policy.max_age)

\* The execution at k rests on an approval decided after line n.
ApprovedAfter(n, k) ==
    \E r, d \in DOMAIN trace : n < d /\ Approves(r, d, k)

\* By line k the trace has linked the action of line k to intent x.
Intended(k, x) == \E m \in 1..k : SameAction(m, k) /\ trace[m].intent_id = x

\* Another action with the intent of the execution at k was denied at n.
DeniedPath(n, k) ==
    /\ n < k /\ ~SameAction(n, k)
    /\ \E x \in Intents : Intended(n, x) /\ Intended(k, x)

TypeOK ==
    /\ policy \in Policies
    /\ trace \in Seq(Event)
    /\ phase \in {"idle", "loop"}
    /\ i \in 1..(Len(trace) + 1)
    /\ consumed \subseteq ApprovalIds
    /\ latestDenials \in [ActionIds -> 0..Len(trace)]
    /\ observedIntents \in [ActionIds -> SUBSET Intents]
    /\ deniedIntents \in [ActionIds -> [Intents -> 0..Len(trace)]]
    /\ findings \subseteq Rules \X (1..Len(trace))
    /\ report.status \in {"NONE", "PASS", "FAIL", "INCOMPLETE"}
    /\ report.events \in 0..Len(trace)
    /\ report.findings \subseteq Rules \X (1..Len(trace))

\* What the four accumulators of the main loop hold when line i is next.
DenialsBefore(a) == {n \in Denials : n < i /\ trace[n].action_id = a}

LatestDenialInv ==
    \A a \in ActionIds :
      /\ latestDenials[a] \in DenialsBefore(a) \cup {0}
      /\ \A n \in DenialsBefore(a) : n <= latestDenials[a]

ObservedInv ==
    \A a \in ActionIds, x \in Intents :
      x \in observedIntents[a] <=>
        \E m \in 1..(i - 1) : trace[m].action_id = a /\ trace[m].intent_id = x

DeniedIntentInv ==
    \A a \in ActionIds, x \in Intents :
      /\ deniedIntents[a][x] # 0 =>
           deniedIntents[a][x] \in DenialsBefore(a) /\ Intended(deniedIntents[a][x], x)
      /\ \A n \in DenialsBefore(a) : Intended(n, x) => n <= deniedIntents[a][x]

ConsumedInv ==
    \A p \in ApprovalIds :
      p \in consumed <=>
        /\ policy.single_use
        /\ \E k \in Executed : k < i /\ trace[k].approval_id = p /\ Referenced(k)

\* The loop's memory is faithful: the latest denial of each action before i,
\* every intent its evidence has named, the last denial that happened once an
\* intent was known (an intent named only after the denial is not denied), and
\* the approvals that an execution after their allow decision referred to.  A
\* reset forgotten between evaluations, or an update out of order, breaks it.
LoopInv ==
    phase = "loop" => LatestDenialInv /\ ObservedInv /\ DeniedIntentInv /\ ConsumedInv

\* The execution at k had leave to run when it ran: no interrupt came before,
\* and where policy covers the action, or the execution names an approval, a
\* proposal, a presentation and an allow decision for that very action did, the
\* allow within its lifetime and after every denial of the action or of another
\* path to its intent; an execution that needs no approval follows no denial.
Authorised(k) ==
    /\ policy.stop_is_terminal => \A s \in Interrupts(trace) : k < s
    /\ \E p \in DOMAIN trace :
         /\ p < k /\ trace[p].type = "action_proposed" /\ SameAction(p, k)
         /\ trace[k].action \in Covered \/ trace[k].approval_id # None =>
              \E r, d \in DOMAIN trace :
                /\ p < r /\ Approves(r, d, k)
                /\ policy.exact_binding => trace[p].action = trace[r].action
                /\ \A n \in Denials :
                     (n < k /\ SameAction(n, k)) \/ DeniedPath(n, k) => n < d
    /\ trace[k].action \notin Covered /\ trace[k].approval_id = None =>
         \A n \in Denials : ~(n < k /\ SameAction(n, k)) /\ ~DeniedPath(n, k)

\* A PASS verdict is a proof of authorisation: every execution had leave to run
\* and its action was not blocked, no two used one approval, and the session
\* was closed once, at its end.
PassIsAuthorised ==
    Settled /\ report.status = "PASS" =>
      /\ Ends(trace) = {Len(trace)}
      /\ \A k \in Executed : Authorised(k) /\ Blocks(trace, trace[k].action_id) = {}
      /\ policy.single_use => \A j, k \in Executed : SameApproval(j, k) => j = k

\* PassIsAuthorised with what the running loop has established so far: until
\* there is a finding, every execution visited is in order.
InOrder(k) ==
    /\ Authorised(k)
    /\ \A b \in Blocks(trace, trace[k].action_id) : k < b
    /\ trace[k].approval_id # None => Referenced(k)

CleanInv ==
    /\ phase = "loop" =>
         /\ EndFindings \cup LinkFindings \subseteq findings
         /\ findings = {} =>
              /\ \A k \in Executed : k < i => InOrder(k)
              /\ policy.single_use =>
                   \A j, k \in Executed : j < k /\ k < i => ~SameApproval(j, k)
    /\ PassIsAuthorised

\* What a set of findings F must hold of the execution at line k.
DenialReported(F, k) ==
    \A n \in Denials :
      n < k /\ SameAction(n, k) /\ ~ApprovedAfter(n, k) => <<"ACK002", k>> \in F

RouteReported(F, k) ==
    \A n \in Denials : DeniedPath(n, k) /\ ~ApprovedAfter(n, k) => <<"ACK007", k>> \in F

\* Line d is the first decision on an approval, an allow that j < k follow.
UsedBefore(d, j, k) ==
    /\ d < j /\ j < k
    /\ trace[d].decision = "allow"
    /\ SameApproval(d, j) /\ SameApproval(j, k)
    /\ \A c \in 1..(d - 1) : trace[c].type = "approval_decision" => ~SameApproval(c, d)

ReplayReported(F, k) ==
    policy.single_use =>
      \A d \in DOMAIN trace, j \in Executed : UsedBefore(d, j, k) => <<"ACK004", k>> \in F

\* A denial cannot be erased: an execution after a denial of its action, with
\* no valid allow decided in between that it refers to, is reported as ACK002,
\* whichever approval it names and whatever else is recorded.
DenialSticks == Settled => \A k \in Executed : DenialReported(report.findings, k)

\* A denied intent cannot be routed around: an execution of another action
\* linked to it, without a later valid approval, is reported as ACK007.
RouteAroundCaught == Settled => \A k \in Executed : RouteReported(report.findings, k)

\* An approval is spent by the first execution after its allow decision: any
\* later execution that names it is reported as ACK004.
ReplayCaught == Settled => \A k \in Executed : ReplayReported(report.findings, k)

\* The three with what the running loop has established so far.
Judged(F, k) == DenialReported(F, k) /\ RouteReported(F, k) /\ ReplayReported(F, k)

JudgedInv ==
    /\ phase = "loop" => \A k \in Executed : k < i => Judged(findings, k)
    /\ Settled => \A k \in Executed : Judged(report.findings, k)

\* The summaries agree with the findings.  An execution that the evaluator
\* clears, of an action that needs approval, is shown with that approval's
\* allow decision and presentation; one that names no approval is shown with
\* none, though other events may name one; no approval shown is an other
\* action's; and PASS shows no action both executed and blocked.
Cleared(k) == \A f \in report.findings : f[2] # k
SummariesAgree ==
    Settled => \A a \in ActionIds :
        LET s == Summary(trace, a)
            k == First(Executions(trace, a))
        IN  /\ k # 0 /\ Cleared(k) /\ trace[k].approval_id # None =>
                 /\ s.approval_id = trace[k].approval_id /\ s.decision = "allow"
                 /\ policy.exact_binding => s.presented = s.executed
            /\ k # 0 /\ trace[k].approval_id = None => s.decision = None /\ s.presented = None
            /\ s.decision # None => \E d \in Decisions(trace, s.approval_id) : trace[d].action_id = a
            /\ report.status = "PASS" => ~(s.blocked /\ s.executed # None)

\* Each violation in F names a line whose trace holds what it complains of.
Demonstrated(F) ==
    \A k \in DOMAIN trace :
      /\ <<"ACK001", k>> \in F =>
           trace[k].action \in Covered /\ trace[k].approval_id = None
      /\ <<"ACK002", k>> \in F =>
           \E n \in Denials : n < k /\ (SameAction(n, k) \/ SameApproval(n, k))
      /\ <<"ACK004", k>> \in F => \E j \in Executed : j < k /\ SameApproval(j, k)
      /\ <<"ACK005", k>> \in F => \E d \in DOMAIN trace :
           /\ d < k /\ SameApproval(d, k) /\ trace[d].decision = "allow"
           /\ \/ trace[d].expires_at # None /\ trace[d].expires_at < trace[k].ts
              \/ trace[d].expires_at = None /\ trace[d].ts + policy.max_age < trace[k].ts
      /\ <<"ACK007", k>> \in F => \E n \in Denials : DeniedPath(n, k)
      /\ <<"ACK008", k>> \in F => \E s \in Interrupts(trace) : s < k

\* A violation is demonstrated, never presumed: each one reported names a line
\* whose trace holds the denial, the earlier use, the lapse, the denied path or
\* the interrupt it complains of.
ViolationsAreDemonstrated == Settled => Demonstrated(report.findings)

\* Recording more evidence never withdraws a violation: the later report
\* holds every finding but ACK009 of the one before it, at the same line.
ViolationsStand ==
    [][Violations(report.findings) \subseteq Violations(report'.findings)]_vars

\* The verdicts on a growing session are those of the Verdict ladder: FAIL is
\* final, PASS is final for its trace, INCOMPLETE is open.
Ladder == INSTANCE Verdict WITH
    events <- Len(trace), judged <- report.events, verdict <- report.status
VerdictLadder == Ladder!Spec

\* docs/method.md, "Denial route-around": "Future events do not retroactively
\* change a prior denial or execution."  Read of the reports: an event recorded
\* later adds no denial violation to an execution already reported on.
NoRetroactiveDenial ==
    [][\A k \in 1..report.events, rule \in {"ACK002", "ACK007"} :
         <<rule, k>> \in report'.findings => <<rule, k>> \in report.findings]_vars
=============================================================================
