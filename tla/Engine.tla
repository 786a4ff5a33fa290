------------------------------- MODULE Engine ------------------------------
(***************************************************************************)
(* The deterministic evaluator of engine.py over a growing trace.          *)
(*                                                                         *)
(* Record(e) appends an event to the session's trace.  Each time, the      *)
(* whole trace is evaluated again from the start: Begin builds the indexes *)
(* and applies the rules on requests and decisions, one Visit step is one  *)
(* turn of the main loop with its four accumulators, and Conclude applies  *)
(* the rules on blocks and unresolved proposals and publishes the report.  *)
(* Evaluation changes no event, so evaluating after every event loses no   *)
(* behaviour and lets a property compare the reports of two traces.        *)
(*                                                                         *)
(* A finding is <<rule, line>>; its wording and severity are left out.     *)
(***************************************************************************)
EXTENDS Trace

(* A definition named X_Fault is X with a fault in it.  Nothing uses it: it *)
(* is put in the place of X to show that a property notices the fault.      *)

CONSTANTS
    Policies,   \* policies an evaluation may be given
    Preludes,   \* traces a session may already hold when the model starts
    Alphabet,   \* the events that may be recorded next
    Follows(_, _),  \* bound: after which traces which of them may come
    MaxLen      \* bound on the length of a trace

ASSUME BoundAssumption ==
    /\ Policies \subseteq Policy
    /\ Preludes \subseteq Seq(Event)
    /\ Alphabet \subseteq Event
    /\ MaxLen \in Nat

VARIABLES
    policy,           \* the policy of this session's evaluations
    trace,            \* the recorded events
    phase,            \* "idle", or "loop" while an evaluation runs
    i,                \* the loop's index
    consumed,         \* approval_ids an execution has already used
    latestDenials,    \* action_id -> index of its latest denial, or 0
    observedIntents,  \* action_id -> intent_ids seen so far
    deniedIntents,    \* action_id -> intent_id -> index of the denial, or 0
    findings,         \* findings of the running evaluation
    report            \* the EvaluationReport published last

loopVars == <<i, consumed, latestDenials, observedIntents, deniedIntents>>
vars == <<policy, trace, phase, loopVars, findings, report>>

Rules == {"ACK001", "ACK002", "ACK003", "ACK004", "ACK005", "ACK006",
          "ACK007", "ACK008", "ACK009"}

Flag(condition, rule, k) == IF condition THEN {<<rule, k>>} ELSE {}

Violations(F) == {f \in F : f[1] # "ACK009"}

StatusOf_IncompleteFirst(F) ==
    IF F = {} THEN "PASS" ELSE IF F = Violations(F) THEN "FAIL" ELSE "INCOMPLETE"

StatusOf(F) ==
    IF Violations(F) # {} THEN "FAIL" ELSE IF F # {} THEN "INCOMPLETE" ELSE "PASS"

\* Two optional identifiers conflict when both are present and differ.
Conflict(x, y) == x # None /\ y # None /\ x # y

Presented(r, k) == policy.exact_binding => trace[r].action = trace[k].action
-----------------------------------------------------------------------------
(* Rules that do not depend on the loop.                                   *)

ClockFindings ==
    {<<"ACK009", k>> : k \in {n \in 2..Len(trace) : trace[n].ts < trace[n-1].ts}}

EndFindings_OneTooMany ==
    IF Ends(trace) = {}
    THEN {<<"ACK009", Len(trace)>>}
    ELSE {<<"ACK006", k>> : k \in (First(Ends(trace)) + 1)..(Len(trace) + 1)}

EndFindings_LastEnd ==
    IF Ends(trace) = {}
    THEN {<<"ACK009", Len(trace)>>}
    ELSE {<<"ACK006", k>> : k \in {n \in DOMAIN trace : \A e \in Ends(trace) : e < n}}

EndFindings ==
    IF Ends(trace) = {}
    THEN {<<"ACK009", Len(trace)>>}
    ELSE {<<"ACK006", k>> : k \in (First(Ends(trace)) + 1)..Len(trace)}

Duplicates(S, rule) == {<<rule, k>> : k \in S \ {First(S)}}

DuplicateFindings ==
    (UNION {Duplicates(Proposals(trace, a), "ACK009") \cup
            Duplicates(Blocks(trace, a), "ACK006") : a \in ActionIds}) \cup
    (UNION {Duplicates(Requests(trace, p), "ACK009") \cup
            Duplicates(Decisions(trace, p), "ACK009") : p \in ApprovalIds})

\* The first request of an approval, at r, against the first proposal.
RequestFindings(r) ==
    LET request == trace[r]
        p == First(Proposals(trace, request.action_id))
    IN  Flag(p = 0, "ACK009", r) \cup
        Flag(p > r, "ACK006", r) \cup
        Flag(p # 0 /\ ~Presented(p, r), "ACK003", r) \cup
        Flag(p # 0 /\ Conflict(trace[p].intent_id, request.intent_id), "ACK009", r) \cup
        Flag(Decisions(trace, request.approval_id) = {}, "ACK009", r)

\* The first decision on an approval, at d, against its first request.
DecisionFindings(d) ==
    LET decision == trace[d]
        r == First(Requests(trace, decision.approval_id))
        p == First(Proposals(trace, trace[r].action_id))
    IN  IF r = 0
        THEN {<<"ACK009", d>>}
        ELSE Flag(r > d, "ACK006", d) \cup
             Flag(trace[r].action_id # decision.action_id, "ACK003", d) \cup
             Flag(Conflict(trace[r].intent_id, decision.intent_id), "ACK009", d) \cup
             Flag(p # 0 /\ Conflict(trace[p].intent_id, decision.intent_id), "ACK009", d)

LinkFindings ==
    (UNION {RequestFindings(First(Requests(trace, p))) :
              p \in {q \in ApprovalIds : Requests(trace, q) # {}}}) \cup
    (UNION {DecisionFindings(First(Decisions(trace, p))) :
              p \in {q \in ApprovalIds : Decisions(trace, q) # {}}})
-----------------------------------------------------------------------------
(* Rules on the execution at line k, as the loop reaches it.  p, r and d   *)
(* are the first proposal, request and decision it refers to.              *)

ProposalOf(k) == First(Proposals(trace, trace[k].action_id))
RequestOf(k)  == First(Requests(trace, trace[k].approval_id))
DecisionOf(k) == First(Decisions(trace, trace[k].approval_id))

OrderFindings(k) ==
    LET p == ProposalOf(k)
    IN  Flag(policy.stop_is_terminal /\ \E s \in Interrupts(trace) : s < k, "ACK008", k) \cup
        Flag(p = 0, "ACK009", k) \cup
        Flag(p > k, "ACK006", k) \cup
        Flag(p # 0 /\ Conflict(trace[p].intent_id, trace[k].intent_id), "ACK009", k) \cup
        Flag(\E b \in Blocks(trace, trace[k].action_id) : b < k, "ACK006", k)

Unambiguous(S) == \A x, y \in S : x = y

Expiry_AgeOnly(d) == trace[d].ts + policy.max_age

Expiry_Later(d) ==
    IF trace[d].expires_at # None /\ trace[d].expires_at > trace[d].ts + policy.max_age
    THEN trace[d].expires_at
    ELSE trace[d].ts + policy.max_age

Expiry(d) ==
    IF trace[d].expires_at # None THEN trace[d].expires_at ELSE trace[d].ts + policy.max_age

\* The execution comes after a decision on its approval that is not a denial.
Referenced(k) ==
    LET d == DecisionOf(k) IN d # 0 /\ d < k /\ trace[d].decision = "allow"
RefersToDenial(k) ==
    LET d == DecisionOf(k) IN d # 0 /\ d < k /\ trace[d].decision = "deny"

InTime(k) == LET d == DecisionOf(k) IN trace[d].ts <= trace[k].ts /\ trace[k].ts <= Expiry(d)

\* valid_allow, given the intents seen for the action and the spent approvals.
ValidAllow(k, intents, spent) ==
    LET p == ProposalOf(k)
        r == RequestOf(k)
        d == DecisionOf(k)
    IN  /\ Referenced(k)
        /\ r # 0 /\ r < d
        /\ {trace[r].action_id, trace[d].action_id} = {trace[k].action_id}
        /\ Unambiguous(intents)
        /\ Presented(r, k)
        /\ p # 0 => Presented(p, r)
        /\ InTime(k)
        /\ trace[k].approval_id \notin spent

ApprovalFindings(k, spent) ==
    LET e == trace[k]
        r == RequestOf(k)
        d == DecisionOf(k)
    IN  Flag(e.action \in Covered /\ e.approval_id = None, "ACK001", k) \cup
        IF e.approval_id = None
        THEN {}
        ELSE Flag(r = 0 \/ d = 0, "ACK009", k) \cup
             Flag(r # 0 /\ trace[r].action_id # e.action_id, "ACK003", k) \cup
             Flag(r # 0 /\ ~Presented(r, k), "ACK003", k) \cup
             Flag(r > k \/ d > k, "ACK006", k) \cup
             Flag(d # 0 /\ trace[d].action_id # e.action_id, "ACK003", k) \cup
             Flag(RefersToDenial(k), "ACK002", k) \cup
             Flag(Referenced(k) /\ e.ts < trace[d].ts, "ACK009", k) \cup
             Flag(Referenced(k) /\ e.ts > Expiry(d), "ACK005", k) \cup
             Flag(Referenced(k) /\ e.approval_id \in spent, "ACK004", k)

Overrides_AnyAllow(k, valid, n) == valid

\* A valid allow decided after the denial at line n.
Overrides(k, valid, n) == valid /\ DecisionOf(k) > n

DenialFindings(k, valid) ==
    LET e == trace[k]
        n == latestDenials[e.action_id]
    IN  IF n # 0 /\ ~Overrides(k, valid, n)
        THEN {<<"ACK002", k>>}
        ELSE Flag(/\ e.action \notin Covered
                  /\ e.approval_id = None
                  /\ \E l \in ApprovalEvents(trace, e.action_id) : l < k, "ACK009", k)

RouteAroundFindings(k, valid, intents) ==
    Flag(\E a \in ActionIds \ {trace[k].action_id}, x \in intents :
            LET n == deniedIntents[a][x] IN n # 0 /\ ~Overrides(k, valid, n),
         "ACK007", k)

ExecutionFindings(k, intents) ==
    LET valid == ValidAllow(k, intents, consumed)
    IN  OrderFindings(k) \cup
        Flag(~Unambiguous(intents), "ACK009", k) \cup
        ApprovalFindings(k, consumed) \cup
        DenialFindings(k, valid) \cup
        RouteAroundFindings(k, valid, intents)
-----------------------------------------------------------------------------
(* Rules on blocks and unresolved proposals, after the loop.               *)

\* The block at line k.
BlockFindings(k) ==
    LET e == trace[k]
        p == ProposalOf(k)
        r == RequestOf(k)
        d == DecisionOf(k)
    IN  Flag(p = 0, "ACK009", k) \cup
        Flag(p > k, "ACK006", k) \cup
        Flag(\E x \in Executions(trace, e.action_id) : x < k, "ACK006", k) \cup
        IF e.approval_id = None
        THEN Flag(p # 0 /\ trace[p].action \in Covered, "ACK009", k)
        ELSE Flag(r = 0 \/ d = 0, "ACK009", k) \cup
             Flag(\E l \in {r, d} \ {0} : trace[l].action_id # e.action_id, "ACK003", k) \cup
             Flag(r > k \/ d > k \/ (d # 0 /\ r > d), "ACK006", k)

UnresolvedFindings(a) ==
    LET p == First(Proposals(trace, a))
        terminal == Executions(trace, a) \cup Blocks(trace, a)
    IN  Flag(p # 0 /\ ~\E k \in terminal : k > p, "ACK009", p)

ClosingFindings ==
    (UNION {BlockFindings(k) :
              k \in {n \in DOMAIN trace : trace[n].type = "action_blocked"}}) \cup
    (UNION {UnresolvedFindings(a) : a \in ActionIds})
-----------------------------------------------------------------------------
Init ==
    /\ policy \in Policies
    /\ trace \in Preludes
    /\ phase = "idle"
    /\ i = 1
    /\ consumed = {}
    /\ latestDenials = [a \in ActionIds |-> 0]
    /\ observedIntents = [a \in ActionIds |-> {}]
    /\ deniedIntents = [a \in ActionIds |-> [x \in Intents |-> 0]]
    /\ findings = {}
    /\ report = [status |-> "NONE", events |-> 0, findings |-> {}]

\* TraceRecorder appends an event; the trace it extends has been evaluated.
Record(e) ==
    /\ phase = "idle"
    /\ report.events = Len(trace)
    /\ Len(trace) < MaxLen /\ Follows(trace, e)
    /\ trace' = Append(trace, e)
    /\ UNCHANGED <<policy, phase, loopVars, findings, report>>

\* evaluate_events up to the loop; validate_events refuses an empty trace.
Begin ==
    /\ phase = "idle"
    /\ report.events # Len(trace)
    /\ phase' = "loop"
    /\ i' = 1
    /\ consumed' = {}
    /\ latestDenials' = [a \in ActionIds |-> 0]
    /\ observedIntents' = [a \in ActionIds |-> {}]
    /\ deniedIntents' = [a \in ActionIds |-> [x \in Intents |-> 0]]
    /\ findings' = ClockFindings \cup EndFindings \cup DuplicateFindings \cup LinkFindings
    /\ UNCHANGED <<policy, trace, report>>

Seen_LatestOnly(k) ==
    IF trace[k].intent_id = None
    THEN observedIntents
    ELSE [observedIntents EXCEPT ![trace[k].action_id] = {trace[k].intent_id}]

\* What every turn of the loop does: remember the event's intent.
Seen(k) ==
    IF trace[k].intent_id = None
    THEN observedIntents
    ELSE [observedIntents EXCEPT ![trace[k].action_id] = @ \cup {trace[k].intent_id}]

IntentFindings(k) ==
    LET e == trace[k]
    IN  Flag(/\ e.intent_id # None
             /\ observedIntents[e.action_id] # {}
             /\ e.intent_id \notin observedIntents[e.action_id], "ACK009", k)

Turn ==
    /\ phase = "loop"
    /\ i <= Len(trace)
    /\ i' = i + 1
    /\ observedIntents' = Seen(i)
    /\ UNCHANGED <<policy, trace, phase, report>>

VisitDenial_OwnIntent ==
    /\ Turn
    /\ trace[i].decision = "deny"
    /\ LET a == trace[i].action_id
       IN  /\ latestDenials' = [latestDenials EXCEPT ![a] = i]
           /\ deniedIntents' = [deniedIntents EXCEPT ![a] =
                  [x \in Intents |-> IF x = trace[i].intent_id THEN i ELSE @[x]]]
    /\ findings' = findings \cup IntentFindings(i)
    /\ UNCHANGED consumed

VisitDenial ==
    /\ Turn
    /\ trace[i].decision = "deny"
    /\ LET a == trace[i].action_id
       IN  /\ latestDenials' = [latestDenials EXCEPT ![a] = i]
           /\ deniedIntents' = [deniedIntents EXCEPT ![a] =
                  [x \in Intents |-> IF x \in Seen(i)[a] THEN i ELSE @[x]]]
    /\ findings' = findings \cup IntentFindings(i)
    /\ UNCHANGED consumed

VisitExecution_SpendIfValid ==
    /\ Turn
    /\ trace[i].type = "action_executed"
    /\ LET intents == Seen(i)[trace[i].action_id]
       IN  /\ findings' = findings \cup IntentFindings(i) \cup
                            ExecutionFindings(i, intents)
           /\ consumed' = IF policy.single_use /\ ValidAllow(i, intents, consumed)
                          THEN consumed \cup {trace[i].approval_id}
                          ELSE consumed
    /\ UNCHANGED <<latestDenials, deniedIntents>>

VisitExecution ==
    /\ Turn
    /\ trace[i].type = "action_executed"
    /\ findings' = findings \cup IntentFindings(i) \cup
                     ExecutionFindings(i, Seen(i)[trace[i].action_id])
    /\ consumed' = IF policy.single_use /\ Referenced(i)
                   THEN consumed \cup {trace[i].approval_id}
                   ELSE consumed
    /\ UNCHANGED <<latestDenials, deniedIntents>>

VisitOther ==
    /\ Turn
    /\ trace[i].decision # "deny"
    /\ trace[i].type # "action_executed"
    /\ findings' = findings \cup IntentFindings(i)
    /\ UNCHANGED <<consumed, latestDenials, deniedIntents>>

Conclude ==
    /\ phase = "loop"
    /\ i = Len(trace) + 1
    /\ phase' = "idle"
    /\ LET all == findings \cup ClosingFindings
       IN  /\ findings' = all
           /\ report' = [status   |-> StatusOf(all),
                         events   |-> Len(trace),
                         findings |-> all]
    /\ UNCHANGED <<policy, trace, loopVars>>

Evaluate == Begin \/ VisitDenial \/ VisitExecution \/ VisitOther \/ Conclude

Next == Evaluate \/ \E e \in Alphabet : Record(e)

Spec == Init /\ [][Next]_vars
=============================================================================
