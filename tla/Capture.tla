------------------------------ MODULE Capture ------------------------------
(***************************************************************************)
(* One supervised Claude session and the evidence of it.  The agent        *)
(* proposes tool calls, the human answers native prompts, calls run.  Each *)
(* of these starts a hook process, which appends one record to the capture *)
(* file: at once, later, or never.  Decisions travel as telemetry.  When   *)
(* the agent is gone the evidence is judged.                               *)
(*                                                                         *)
(* Call u of the agent is u in 1..MaxCalls; its tool_use_id is id[u].      *)
(* Whatever departs from the protocol, of the agent, the human or the      *)
(* evidence, costs one of MaxOddities.                                     *)
(***************************************************************************)
EXTENDS ClaudeAnalysis

CONSTANTS MaxCalls, MaxOddities

ASSUME CallAssumption == MaxCalls \in Nat /\ MaxCalls >= Len(Expected)
ASSUME OddityAssumption == MaxOddities \in Nat
ASSUME IdAssumption == NoId \notin 1..MaxCalls
ASSUME CommandAssumption == NoCommand \notin {"approve", "routeA", "routeB", "other"}

Calls == 1..MaxCalls
Commands == {"approve", "routeA", "routeB", "other"}
Origins == {"probe", "other"}
Events == {"PreToolUse", "PermissionRequest", "PostToolUse", "PostToolUseFailure", "SessionEnd"}
Record == [event : Events, id : Calls \cup {NoId}, origin : Origins,
           command : Commands \cup {NoCommand}, time : Nat]
Decision == [id : Calls, origin : Origins, verdict : {"accept", "reject", "cancelled"},
             source : HumanAccepts \cup HumanRejects \cup {"config"}]

VARIABLES
    stage,      \* of each call: "none", "proposed", "presented", "decided", "over"
    id, origin, command,    \* of each call, as proposed
    shown,      \* the command each call was presented with, or NoCommand
    ruling,     \* what was decided about each call, or NoDecision
    ran,        \* the command each call executed, or NoCommand
    session,    \* "open", "closed" or "judged"
    clock,
    hooks,      \* the records of hook processes that have not appended yet
    records,    \* the capture file
    decisions,  \* the telemetry received
    late,       \* has a hook process been overtaken by a later one?
    oddities,
    verdict
world == <<stage, id, origin, command, shown, ruling, ran, session>>
evidence == <<clock, hooks, records, decisions, late>>
vars == <<world, evidence, oddities, verdict>>

Init ==
    /\ stage = [u \in Calls |-> "none"]
    /\ id = [u \in Calls |-> u]
    /\ origin = [u \in Calls |-> "probe"]
    /\ command = [u \in Calls |-> NoCommand]
    /\ shown = [u \in Calls |-> NoCommand]
    /\ ruling = [u \in Calls |-> NoDecision]
    /\ ran = [u \in Calls |-> NoCommand]
    /\ session = "open"
    /\ clock = 0 /\ hooks = {} /\ records = <<>> /\ decisions = {} /\ late = FALSE
    /\ oddities = 0 /\ verdict = "NONE"

\* A step that departs from the protocol in n ways.
Odd(n) == oddities' = oddities + n /\ oddities' <= MaxOddities
Cost(b) == IF b THEN 0 ELSE 1

\* A hook process starts: it takes the time and appends, or is delayed.  One
\* that dies, or exits with an error, is delayed for ever.
Hook(event, i, o, c, n) ==
    LET r == [event |-> event, id |-> i, origin |-> o, command |-> c, time |-> clock]
    IN  /\ clock' = clock + 1
        /\ \/ records' = Append(records, r) /\ UNCHANGED hooks /\ Odd(n)
           \/ hooks' = hooks \cup {r} /\ UNCHANGED records /\ Odd(n + 1)
        /\ UNCHANGED late

\* A delayed hook process appends, with the time it took before or after
\* the delay.
Overtaken(r) ==
    /\ session # "judged" /\ r \in hooks
    /\ \E t \in {r.time, clock} : records' = Append(records, [r EXCEPT !.time = t])
    /\ hooks' = hooks \ {r}
    /\ late' = TRUE
    /\ UNCHANGED <<world, clock, decisions, oddities, verdict>>

Busy == {u \in Calls : stage[u] \notin {"none", "over"}}
\* The agent attempts its next command; odd are another command, a fifth
\* one, one of another tool or session, a reused id and an overlap.
Propose(u) ==
    /\ session = "open" /\ stage[u] = "none"
    /\ \A w \in 1..(u - 1) : stage[w] # "none"
    /\ \E c \in Commands, o \in Origins, i \in 1..u :
          /\ stage' = [stage EXCEPT ![u] = "proposed"]
          /\ command' = [command EXCEPT ![u] = c]
          /\ origin' = [origin EXCEPT ![u] = o]
          /\ id' = [id EXCEPT ![u] = i]
          /\ Hook("PreToolUse", i, o, c,
                  Cost(u \in Probes /\ c = Expected[u]) + Cost(o = "probe")
                  + Cost(i = u) + Cost(Busy = {}))
    /\ UNCHANGED <<shown, ruling, ran, session, decisions, verdict>>

\* The native prompt is shown; the hook contract names no tool_use_id.
Present(u) ==
    /\ session = "open" /\ stage[u] = "proposed"
    /\ \E c \in Commands :
          /\ stage' = [stage EXCEPT ![u] = "presented"]
          /\ shown' = [shown EXCEPT ![u] = c]
          /\ Hook("PermissionRequest", NoId, origin[u], c, Cost(c = command[u]))
    /\ UNCHANGED <<id, origin, command, ruling, ran, session, decisions, verdict>>

\* The telemetry of a decision: delivered, lost, attributed to another
\* session or tool, or contradicted.
Deliver(d, n) ==
    LET elsewhere == [d EXCEPT !.origin = IF d.origin = "probe" THEN "other" ELSE "probe"]
        contrary == [d EXCEPT !.verdict = IF d.verdict = "accept" THEN "reject" ELSE "accept"]
    IN  /\ \/ decisions' = decisions \cup {d} /\ Odd(n)
           \/ UNCHANGED decisions /\ Odd(n + 1)
           \/ decisions' = decisions \cup {elsewhere} /\ Odd(n + 1)
           \/ decisions' = decisions \cup {d, contrary} /\ Odd(n + 1)
        /\ UNCHANGED <<clock, hooks, records, late>>

Asked(u) == IF u = 1 THEN "accept" ELSE "reject"
Decide(u, v, s, n) ==
    LET d == [id |-> id[u], origin |-> origin[u], verdict |-> v, source |-> s]
    IN  /\ stage' = [stage EXCEPT ![u] = "decided"]
        /\ ruling' = [ruling EXCEPT ![u] = d]
        /\ Deliver(d, n)
        /\ UNCHANGED <<id, origin, command, shown, ran, session, verdict>>

\* The human answers the prompt, as asked by the protocol or not.
Answer(u) ==
    /\ session = "open" /\ stage[u] = "presented"
    /\ \/ \E s \in {"user_temporary", "user_permanent"} :
              Decide(u, "accept", s, Cost(Asked(u) = "accept") + Cost(s = "user_temporary"))
       \/ Decide(u, "reject", "user_reject", Cost(Asked(u) = "reject"))
       \/ Decide(u, "cancelled", "user_abort", 1)

\* Settings or an earlier approval decide, without a prompt.
Automatic(u) ==
    /\ session = "open" /\ stage[u] = "proposed"
    /\ \E v \in {"accept", "reject"} : Decide(u, v, "config", 1)

\* The call executes, and succeeds or fails: odd unless it was accepted.
Run(u) ==
    /\ session = "open" /\ stage[u] \in {"proposed", "presented", "decided"}
    /\ \E c \in Commands, e \in {"PostToolUse", "PostToolUseFailure"} :
          /\ stage' = [stage EXCEPT ![u] = "over"]
          /\ ran' = [ran EXCEPT ![u] = c]
          /\ Hook(e, id[u], origin[u], c,
                  Cost(ruling[u].verdict = "accept") + Cost(c = command[u]) + Cost(e = "PostToolUse"))
    /\ UNCHANGED <<id, origin, command, shown, ruling, session, decisions, verdict>>

\* The call does not execute: odd unless it was rejected.
Skip(u) ==
    /\ session = "open" /\ stage[u] = "decided"
    /\ stage' = [stage EXCEPT ![u] = "over"]
    /\ Odd(Cost(ruling[u].verdict = "reject"))
    /\ UNCHANGED <<id, origin, command, shown, ruling, ran, session>>
    /\ UNCHANGED <<evidence, verdict>>

EndSession ==
    /\ session = "open"
    /\ session' = "closed"
    /\ Hook("SessionEnd", NoId, "probe", NoCommand, Cost(\A k \in Probes : stage[k] = "over"))
    /\ UNCHANGED <<stage, id, origin, command, shown, ruling, ran, decisions, verdict>>

\* read_capture, extract_tool_decisions and analyze_capture.
Judge ==
    /\ session = "closed"
    /\ session' = "judged"
    /\ verdict' = StatusOf(records, decisions)
    /\ UNCHANGED <<stage, id, origin, command, shown, ruling, ran>>
    /\ UNCHANGED <<evidence, oddities>>

Next ==
    \/ \E u \in Calls : Propose(u) \/ Present(u) \/ Answer(u) \/ Automatic(u) \/ Run(u) \/ Skip(u)
    \/ \E r \in hooks : Overtaken(r)
    \/ EndSession \/ Judge

Spec == Init /\ [][Next]_vars
=============================================================================
