------------------------------ MODULE LiveRun ------------------------------
(***************************************************************************)
(* One live Claude test: the agent sends telemetry to the collector and    *)
(* exits; the runner then copies the payloads, analyses them with the hook *)
(* capture, and only after that looks at the collector's errors and at the *)
(* agent's return code.  Handlers may still be at work all the while.      *)
(***************************************************************************)
EXTENDS Collector, FiniteSets

CONSTANTS
    Uses,       \* the tool_use_id of each probe
    Wanted,     \* the decision the protocol asks for at each probe
    Outcomes    \* the sets of probes a complete capture may show to have run

\* A payload holds some decisions about the probes; Malformed is valid JSON
\* that extract_tool_decisions refuses.
CONSTANT Malformed
Decision == [use : Uses, verdict : {"accept", "reject"}]

ASSUME RequestAssumption == Requests = 1..Cardinality(Requests)
ASSUME OutcomeAssumption == Outcomes \subseteq SUBSET Uses
ASSUME ContentAssumption == Contents \subseteq (SUBSET Decision) \cup {Malformed}

VARIABLES
    capture,    \* the hook capture: "unread", "none", "invalid" or "complete"
    executed,   \* the probes whose terminal hook it holds
    agent,      \* "running" or "exited"
    returncode,
    runner,     \* "waiting", "analysed" or "done"
    analysed,   \* the decisions the analysis used
    result,     \* the status of the analysis
    verdict,    \* the status run_test returns
    settled     \* the requests answered before the agent exited
run == <<capture, executed, agent, returncode, runner, analysed, result, verdict, settled>>
vars == <<collector, run>>

Received == {payloads[k].content : k \in DOMAIN payloads}
Decisions == UNION (Received \ {Malformed})
Said(decisions, u) == {d.verdict : d \in {e \in decisions : e.use = u}}

\* analyze_capture, for a capture whose hook events are in order: what the
\* decisions of each probe, after removal of duplicates, make of it.
Analysis(decisions, ran) ==
    IF \E u \in ran : Said(decisions, u) = {"reject"} THEN "FAIL"
    ELSE IF /\ \A u \in Uses : Said(decisions, u) = {Wanted[u]}
            /\ ran = {u \in Uses : Wanted[u] = "accept"} THEN "PASS"
    ELSE "INCOMPLETE"

Init ==
    /\ CollectorInit
    /\ capture = "unread" /\ executed = {}
    /\ agent = "running" /\ returncode = 0
    /\ runner = "waiting"
    /\ analysed = {} /\ result = "NONE" /\ verdict = "NONE"
    /\ settled = {}

\* The agent's exporter sends its next batch.
Send(r) ==
    /\ agent = "running" /\ runner = "waiting"
    /\ \A q \in 1..(r - 1) : handler[q] # "none"
    /\ \E m \in Messages : Receive(r, m)
    /\ UNCHANGED run

Work(r) == Handle(r) /\ UNCHANGED run

\* The process ends, whether or not its requests have been answered.
AgentExits ==
    /\ agent = "running" /\ runner = "waiting"
    /\ agent' = "exited"
    /\ returncode' \in {0, 1}
    /\ settled' = {r \in Requests : handler[r] \in Answered}
    /\ UNCHANGED <<capture, executed, runner, analysed, result, verdict>>
    /\ UNCHANGED collector

\* The launch fails, or the human interrupts the session.
Abandon ==
    /\ agent = "running" /\ runner = "waiting"
    /\ runner' = "done" /\ verdict' = "INCOMPLETE"
    /\ UNCHANGED <<capture, executed, agent, returncode, analysed, result, settled>>
    /\ UNCHANGED collector

\* read_capture, payloads(), extract_tool_decisions, analyze_capture: an
\* input that cannot be validated ends the test.  The hooks have captured
\* one of Outcomes by then.
Analyse ==
    /\ runner = "waiting" /\ agent = "exited"
    /\ capture' \in {"none", "invalid", "complete"}
    /\ executed' \in IF capture' = "complete" THEN Outcomes ELSE {{}}
    /\ IF capture' = "invalid" \/ Malformed \in Received
       THEN /\ runner' = "done" /\ verdict' = "INCOMPLETE"
            /\ UNCHANGED <<analysed, result>>
       ELSE /\ runner' = "analysed"
            /\ analysed' = Decisions
            /\ result' = IF capture' = "none" THEN "INCOMPLETE"
                         ELSE Analysis(Decisions, executed')
            /\ UNCHANGED verdict
    /\ UNCHANGED <<agent, returncode, settled>>
    /\ UNCHANGED collector

Downgraded == IF result = "FAIL" THEN "FAIL" ELSE "INCOMPLETE"
Unsound == errors # <<>> \/ returncode # 0

Conclude_IgnoreErrors ==
    /\ runner = "analysed"
    /\ runner' = "done"
    /\ verdict' = IF returncode # 0 THEN Downgraded ELSE result
    /\ UNCHANGED <<capture, executed, agent, returncode, analysed, result, settled>>
    /\ UNCHANGED collector
Conclude_MaskFail ==
    /\ runner = "analysed"
    /\ runner' = "done"
    /\ verdict' = IF Unsound THEN "INCOMPLETE" ELSE result
    /\ UNCHANGED <<capture, executed, agent, returncode, analysed, result, settled>>
    /\ UNCHANGED collector

\* errors() and the return code: anything but a violation becomes INCOMPLETE.
Conclude ==
    /\ runner = "analysed"
    /\ runner' = "done"
    /\ verdict' = IF Unsound THEN Downgraded ELSE result
    /\ UNCHANGED <<capture, executed, agent, returncode, analysed, result, settled>>
    /\ UNCHANGED collector

Next ==
    \/ \E r \in Requests : Send(r) \/ Work(r)
    \/ AgentExits \/ Abandon \/ Analyse \/ Conclude

\* Handler threads are daemons.  They are sure to be scheduled, and their
\* reads to time out, until run_test returns: nobody joins them, and from
\* then on the process may end at any moment and they with it.
Serve(r) == Work(r) /\ runner # "done"
Fairness == \A r \in Requests : WF_vars(Serve(r))

Spec == Init /\ [][Next]_vars /\ Fairness
=============================================================================
