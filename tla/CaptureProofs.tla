--------------------------- MODULE CaptureProofs ---------------------------
(***************************************************************************)
(* A verdict of PASS is the truth about every call whose proposal is on    *)
(* record, a report that a rejected call ran is true of some call, and a   *)
(* rejected call on record to have run makes the session fail: for any     *)
(* number of calls and of departures from the protocol.  And PASS is       *)
(* earned, the probes being on record and asked for as they should, for    *)
(* any number of calls and no more than two departures.                    *)
(***************************************************************************)
EXTENDS CaptureProps, FiniteSetTheorems, FunctionTheorems, TLAPS

\* All that hooks have to say, in the file or not yet.
Traces == {records[i] : i \in DOMAIN records} \cup hooks

IsTerminal(r) == r.event \in {"PostToolUse", "PostToolUseFailure"}

\* A proposal or an outcome on record is that of a call; an execution has
\* left an outcome.
ProposalsAreReal ==
    \A r \in Traces : r.event = "PreToolUse" =>
        \E u \in Calls : /\ stage[u] # "none" /\ id[u] = r.id /\ origin[u] = r.origin
                         /\ command[u] = r.command
OutcomesAreReal ==
    \A r \in Traces : IsTerminal(r) =>
        \E u \in Calls : /\ stage[u] # "none" /\ id[u] = r.id /\ origin[u] = r.origin
                         /\ ran[u] # NoCommand /\ ran[u] = r.command
ExecutionsLeaveOutcomes ==
    \A u \in Calls : ran[u] # NoCommand =>
        /\ stage[u] = "over"
        /\ \E r \in Traces : IsTerminal(r) /\ r.id = id[u] /\ r.origin = origin[u]
\* Telemetry that names a call's id and origin comes with the truth.
DecisionsAreReal ==
    \A d \in decisions :
        \E u \in Calls : /\ stage[u] # "none" /\ id[u] = d.id
                         /\ ruling[u] # NoDecision
                         /\ d.origin = origin[u] => ruling[u] \in decisions
RulingsMatch ==
    \A u \in Calls : ruling[u] # NoDecision =>
        /\ stage[u] \in {"decided", "over"}
        /\ ruling[u].id = id[u] /\ ruling[u].origin = origin[u]
\* The verdict is that of the evidence.
VerdictStands ==
    /\ verdict # "NONE" => session = "judged"
    /\ session = "judged" => verdict = StatusOf(records, decisions)

Link ==
    /\ ProposalsAreReal /\ OutcomesAreReal /\ ExecutionsLeaveOutcomes
    /\ DecisionsAreReal /\ RulingsMatch

(***************************************************************************)
(* Types.                                                                  *)
(***************************************************************************)
LEMMA CostIs == \A b : Cost(b) \in {0, 1}
BY DEF Cost

LEMMA OddTyped ==
    ASSUME oddities \in 0..MaxOddities, NEW n \in Nat, Odd(n)
    PROVE  oddities' \in 0..MaxOddities
BY OddityAssumption DEF Odd

LEMMA CommandsApart == NoCommand \notin Commands
BY CommandAssumption DEF Commands

\* A hook adds one record to the traces.
LEMMA HookAdds ==
    ASSUME TypeOK, NEW e \in Events, NEW i \in Calls \cup {NoId}, NEW o \in Origins,
           NEW c \in Commands \cup {NoCommand}, NEW n \in Nat, Hook(e, i, o, c, n)
    PROVE  /\ clock' \in Nat /\ hooks' \subseteq Record /\ records' \in Seq(Record)
           /\ late' \in BOOLEAN /\ oddities' \in 0..MaxOddities
           /\ \E r \in Record : /\ r.event = e /\ r.id = i /\ r.origin = o /\ r.command = c
                                /\ Traces' = Traces \cup {r}
<1> DEFINE r == [event |-> e, id |-> i, origin |-> o, command |-> c, time |-> clock]
<1>1. r \in Record
  BY DEF TypeOK, Record
<1>2. clock' \in Nat /\ late' \in BOOLEAN
  BY DEF Hook, TypeOK
<1>3. CASE records' = Append(records, r) /\ UNCHANGED hooks /\ Odd(n)
  <2>1. records' \in Seq(Record) /\ hooks' \subseteq Record
    BY <1>1, <1>3 DEF TypeOK
  <2>2. {records'[j] : j \in DOMAIN records'} = {records[j] : j \in DOMAIN records} \cup {r}
    <3>1. DOMAIN records' = 1..(Len(records) + 1) /\ Len(records) \in Nat
          /\ DOMAIN records = 1..Len(records)
      BY <1>1, <1>3 DEF TypeOK
    <3>2. \A j \in DOMAIN records : records'[j] = records[j]
      BY <1>1, <1>3 DEF TypeOK
    <3>3. records'[Len(records) + 1] = r
      BY <1>1, <1>3 DEF TypeOK
    <3>4. DOMAIN records' = DOMAIN records \cup {Len(records) + 1}
      BY <3>1
    <3> QED BY <3>2, <3>3, <3>4
  <2>3. Traces' = Traces \cup {r}
    BY <1>3, <2>2 DEF Traces
  <2>4. oddities' \in 0..MaxOddities
    BY <1>3, OddTyped DEF TypeOK
  <2> QED BY <1>1, <1>2, <2>1, <2>3, <2>4
<1>4. CASE hooks' = hooks \cup {r} /\ UNCHANGED records /\ Odd(n + 1)
  <2>1. Traces' = Traces \cup {r}
    BY <1>4 DEF Traces
  <2>2. oddities' \in 0..MaxOddities
    <3>1. n + 1 \in Nat
      OBVIOUS
    <3> QED BY <1>4, <3>1, OddTyped DEF TypeOK
  <2> QED BY <1>1, <1>2, <1>4, <2>1, <2>2 DEF TypeOK
<1> QED BY <1>3, <1>4 DEF Hook

\* One that was delayed keeps its place among the traces, but for its time.
LEMMA OvertakenKeeps ==
    ASSUME TypeOK, NEW r \in hooks, Overtaken(r)
    PROVE  /\ hooks' \subseteq Record /\ records' \in Seq(Record)
           /\ \A q \in Traces : \E s \in Traces' :
                  s.event = q.event /\ s.id = q.id /\ s.origin = q.origin /\ s.command = q.command
           /\ \A s \in Traces' : \E q \in Traces :
                  s.event = q.event /\ s.id = q.id /\ s.origin = q.origin /\ s.command = q.command
<1>1. PICK t \in {r.time, clock} : records' = Append(records, [r EXCEPT !.time = t])
  BY DEF Overtaken
<1> DEFINE late_r == [r EXCEPT !.time = t]
<1>2. r \in Record /\ t \in Nat
  BY DEF TypeOK, Record
<1>3. /\ late_r \in Record /\ late_r.event = r.event /\ late_r.id = r.id
      /\ late_r.origin = r.origin /\ late_r.command = r.command
  BY <1>2 DEF Record
<1>4. records' \in Seq(Record) /\ hooks' = hooks \ {r}
  BY <1>1, <1>3 DEF Overtaken, TypeOK
<1>5. {records'[j] : j \in DOMAIN records'} = {records[j] : j \in DOMAIN records} \cup {late_r}
  <2>1. DOMAIN records' = 1..(Len(records) + 1) /\ Len(records) \in Nat
        /\ DOMAIN records = 1..Len(records)
    BY <1>1, <1>3 DEF TypeOK
  <2>2. \A j \in DOMAIN records : records'[j] = records[j]
    BY <1>1, <1>3 DEF TypeOK
  <2>3. records'[Len(records) + 1] = late_r
    BY <1>1, <1>3 DEF TypeOK
  <2>4. DOMAIN records' = DOMAIN records \cup {Len(records) + 1}
    BY <2>1
  <2> QED BY <2>2, <2>3, <2>4
<1>6. Traces' = (Traces \ {r}) \cup {late_r} \/ Traces' = Traces \cup {late_r}
  BY <1>4, <1>5 DEF Traces
<1>7. r \in Traces
  BY DEF Traces
<1>8. hooks' \subseteq Record
  BY <1>4 DEF TypeOK
<1> QED BY <1>3, <1>4, <1>6, <1>7, <1>8

LEMMA InitTyped == Init => TypeOK
<1> SUFFICES ASSUME Init PROVE TypeOK
  OBVIOUS
<1>1. 0 \in 0..MaxOddities
  BY OddityAssumption
<1>2. <<>> \in Seq(Record)
  OBVIOUS
<1> QED BY <1>1, <1>2 DEF Init, TypeOK, Origins

\* What a decision writes has its type.
LEMMA DecideTyped ==
    ASSUME TypeOK, NEW u \in Calls, NEW v \in {"accept", "reject", "cancelled"},
           NEW s \in HumanAccepts \cup HumanRejects \cup {"config"},
           NEW n \in Nat, Decide(u, v, s, n)
    PROVE  TypeOK'
<1> DEFINE d == [id |-> id[u], origin |-> origin[u], verdict |-> v, source |-> s]
           elsewhere == [d EXCEPT !.origin = IF d.origin = "probe" THEN "other" ELSE "probe"]
           contrary == [d EXCEPT !.verdict = IF d.verdict = "accept" THEN "reject" ELSE "accept"]
<1>1. d \in Decision /\ elsewhere \in Decision /\ contrary \in Decision
  BY DEF TypeOK, Decision, Origins
<1>2. Deliver(d, n) /\ ruling' = [ruling EXCEPT ![u] = d] /\ stage' = [stage EXCEPT ![u] = "decided"]
      /\ UNCHANGED <<id, origin, command, shown, ran, session, verdict>>
  BY DEF Decide
<1>3. n + 1 \in Nat
  OBVIOUS
<1>4. oddities' \in 0..MaxOddities
  BY <1>2, <1>3, OddTyped DEF Deliver, TypeOK
<1>5. decisions' \subseteq Decision
  BY <1>1, <1>2 DEF Deliver, TypeOK
<1>6. UNCHANGED <<clock, hooks, records, late>>
  BY <1>2 DEF Deliver
<1> QED BY <1>1, <1>2, <1>4, <1>5, <1>6 DEF TypeOK

LEMMA AnswerDecides ==
    ASSUME NEW u \in Calls, Answer(u) \/ Automatic(u)
    PROVE  /\ stage[u] \in {"presented", "proposed"}
           /\ \E v \in {"accept", "reject", "cancelled"},
                 s \in HumanAccepts \cup HumanRejects \cup {"config"}, n \in Nat :
                 Decide(u, v, s, n)
<1>1. ASSUME NEW s \in {"user_temporary", "user_permanent"}
      PROVE  Cost(Asked(u) = "accept") + Cost(s = "user_temporary") \in Nat
             /\ s \in HumanAccepts
  BY CostIs DEF HumanAccepts
<1>2. Cost(Asked(u) = "reject") \in Nat
  BY CostIs
<1>3. CASE Answer(u)
  <2>1. stage[u] = "presented"
    BY <1>3 DEF Answer
  <2>2. CASE \E s \in {"user_temporary", "user_permanent"} :
              Decide(u, "accept", s, Cost(Asked(u) = "accept") + Cost(s = "user_temporary"))
    BY <1>1, <2>1, <2>2
  <2>3. CASE Decide(u, "reject", "user_reject", Cost(Asked(u) = "reject"))
    BY <1>2, <2>1, <2>3 DEF HumanRejects
  <2>4. CASE Decide(u, "cancelled", "user_abort", 1)
    BY <2>1, <2>4 DEF HumanRejects
  <2> QED BY <1>3, <2>2, <2>3, <2>4 DEF Answer
<1>4. CASE Automatic(u)
  BY <1>4 DEF Automatic
<1> QED BY <1>3, <1>4

LEMMA NextTyped == TypeOK /\ [Next]_vars => TypeOK'
<1> SUFFICES ASSUME TypeOK, [Next]_vars PROVE TypeOK'
  OBVIOUS
<1>1. ASSUME NEW u \in Calls, Propose(u) PROVE TypeOK'
  <2>1. PICK c \in Commands, o \in Origins, i \in 1..u :
          /\ stage' = [stage EXCEPT ![u] = "proposed"]
          /\ command' = [command EXCEPT ![u] = c]
          /\ origin' = [origin EXCEPT ![u] = o]
          /\ id' = [id EXCEPT ![u] = i]
          /\ Hook("PreToolUse", i, o, c,
                  Cost(u \in Probes /\ c = Expected[u]) + Cost(o = "probe")
                  + Cost(i = u) + Cost(Busy = {}))
    BY <1>1 DEF Propose
  <2>2. i \in Calls
    BY CallAssumption DEF Calls
  <2> DEFINE n == Cost(u \in Probes /\ c = Expected[u]) + Cost(o = "probe")
                  + Cost(i = u) + Cost(Busy = {})
  <2>3. n \in Nat
    BY CostIs
  <2> HIDE DEF n
  <2>4. Hook("PreToolUse", i, o, c, n)
    BY <2>1 DEF n
  <2>5. /\ clock' \in Nat /\ hooks' \subseteq Record /\ records' \in Seq(Record)
        /\ late' \in BOOLEAN /\ oddities' \in 0..MaxOddities
    BY <2>2, <2>3, <2>4, HookAdds DEF Events
  <2> QED BY <1>1, <2>1, <2>2, <2>5 DEF Propose, TypeOK
<1>2. ASSUME NEW u \in Calls, Present(u) PROVE TypeOK'
  <2>1. PICK c \in Commands :
          /\ stage' = [stage EXCEPT ![u] = "presented"]
          /\ shown' = [shown EXCEPT ![u] = c]
          /\ Hook("PermissionRequest", NoId, origin[u], c, Cost(c = command[u]))
    BY <1>2 DEF Present
  <2>2. Cost(c = command[u]) \in Nat /\ origin[u] \in Origins
    BY CostIs DEF TypeOK
  <2>3. /\ clock' \in Nat /\ hooks' \subseteq Record /\ records' \in Seq(Record)
        /\ late' \in BOOLEAN /\ oddities' \in 0..MaxOddities
    BY <2>1, <2>2, HookAdds DEF Events
  <2> QED BY <1>2, <2>1, <2>3 DEF Present, TypeOK
<1>3. ASSUME NEW u \in Calls, Answer(u) \/ Automatic(u) PROVE TypeOK'
  BY <1>3, AnswerDecides, DecideTyped
<1>4. ASSUME NEW u \in Calls, Run(u) PROVE TypeOK'
  <2>1. PICK c \in Commands, e \in {"PostToolUse", "PostToolUseFailure"} :
          /\ stage' = [stage EXCEPT ![u] = "over"]
          /\ ran' = [ran EXCEPT ![u] = c]
          /\ Hook(e, id[u], origin[u], c,
                  Cost(ruling[u].verdict = "accept") + Cost(c = command[u]) + Cost(e = "PostToolUse"))
    BY <1>4 DEF Run
  <2>2. /\ Cost(ruling[u].verdict = "accept") + Cost(c = command[u]) + Cost(e = "PostToolUse") \in Nat
        /\ id[u] \in Calls /\ origin[u] \in Origins /\ e \in Events
    BY CostIs DEF TypeOK, Events
  <2>3. /\ clock' \in Nat /\ hooks' \subseteq Record /\ records' \in Seq(Record)
        /\ late' \in BOOLEAN /\ oddities' \in 0..MaxOddities
    BY <2>1, <2>2, HookAdds
  <2> QED BY <1>4, <2>1, <2>3 DEF Run, TypeOK
<1>5. ASSUME NEW u \in Calls, Skip(u) PROVE TypeOK'
  <2>1. oddities' \in 0..MaxOddities
    BY <1>5, CostIs, OddTyped DEF Skip, TypeOK
  <2> QED BY <1>5, <2>1 DEF Skip, TypeOK, evidence
<1>6. ASSUME NEW r \in hooks, Overtaken(r) PROVE TypeOK'
  <2>1. hooks' \subseteq Record /\ records' \in Seq(Record)
    BY <1>6, OvertakenKeeps
  <2> QED BY <1>6, <2>1 DEF Overtaken, TypeOK, world
<1>7. CASE EndSession
  <2> DEFINE b == \A k \in Probes : stage[k] = "over"
             n == Cost(b)
  <2> HIDE DEF b
  <2>1. n \in Nat
    BY CostIs
  <2> HIDE DEF n
  <2>2. Hook("SessionEnd", NoId, "probe", NoCommand, n)
    BY <1>7 DEF EndSession, n, b
  <2>3. /\ clock' \in Nat /\ hooks' \subseteq Record /\ records' \in Seq(Record)
        /\ late' \in BOOLEAN /\ oddities' \in 0..MaxOddities
    BY <2>1, <2>2, HookAdds DEF Events, Origins
  <2> QED BY <1>7, <2>3 DEF EndSession, TypeOK
<1>8. CASE Judge
  BY <1>8 DEF Judge, TypeOK, StatusOf, evidence
<1>9. CASE UNCHANGED vars
  BY <1>9 DEF vars, world, evidence, TypeOK
<1> QED BY <1>1, <1>2, <1>3, <1>4, <1>5, <1>6, <1>7, <1>8, <1>9 DEF Next

\* The state of session, evidence and verdict keeps its type.
THEOREM TypeCorrect == Spec => []TypeOK
BY InitTyped, NextTyped, PTL DEF Spec

(***************************************************************************)
(* The link between evidence and session.  What a step has to do to keep   *)
(* it: calls that have begun keep their identity, and what the step adds   *)
(* to traces, executions, rulings and telemetry is real.                   *)
(***************************************************************************)
Same(q, s) ==
    s.event = q.event /\ s.id = q.id /\ s.origin = q.origin /\ s.command = q.command

IdentityKept ==
    \A u \in Calls : stage[u] # "none" =>
        /\ stage'[u] # "none" /\ id'[u] = id[u] /\ origin'[u] = origin[u]
        /\ command'[u] = command[u] /\ (stage[u] = "over" => stage'[u] = "over")
NewTracesReal ==
    \A s \in Traces' :
        \/ \E q \in Traces : Same(q, s)
        \/ s.event = "PreToolUse"
           /\ \E u \in Calls : /\ stage'[u] # "none" /\ id'[u] = s.id /\ origin'[u] = s.origin
                               /\ command'[u] = s.command
        \/ IsTerminal(s)
           /\ \E u \in Calls : /\ stage'[u] # "none" /\ id'[u] = s.id /\ origin'[u] = s.origin
                               /\ ran'[u] # NoCommand /\ ran'[u] = s.command
        \/ s.event \in {"PermissionRequest", "SessionEnd"}
TracesKept == \A q \in Traces : \E s \in Traces' : Same(q, s)
NewRunsTraced ==
    \A u \in Calls :
        /\ ran[u] # NoCommand => ran'[u] = ran[u]
        /\ ran'[u] # NoCommand =>
              \/ ran[u] # NoCommand
              \/ /\ stage'[u] = "over"
                 /\ \E s \in Traces' : IsTerminal(s) /\ s.id = id'[u] /\ s.origin = origin'[u]
NewRulingsMatch ==
    \A u \in Calls :
        /\ ruling[u] # NoDecision => ruling'[u] = ruling[u]
        /\ ruling'[u] # NoDecision =>
              \/ ruling'[u] = ruling[u] /\ (stage[u] \in {"decided", "over"} => stage'[u] \in {"decided", "over"})
              \/ stage'[u] = "decided" /\ ruling'[u].id = id'[u] /\ ruling'[u].origin = origin'[u]
NewDecisionsReal ==
    /\ decisions \subseteq decisions'
    /\ \A d \in decisions' \ decisions :
          \E u \in Calls : /\ stage'[u] # "none" /\ id'[u] = d.id
                           /\ ruling'[u] # NoDecision
                           /\ d.origin = origin'[u] => ruling'[u] \in decisions'

LEMMA LinkKept ==
    ASSUME Link, IdentityKept, NewTracesReal, TracesKept, NewRunsTraced,
           NewRulingsMatch, NewDecisionsReal
    PROVE  Link'
<1>1. ProposalsAreReal'
  <2> SUFFICES ASSUME NEW s \in Traces', s.event = "PreToolUse"
               PROVE  \E u \in Calls : /\ stage'[u] # "none" /\ id'[u] = s.id /\ origin'[u] = s.origin
                                       /\ command'[u] = s.command
    BY DEF ProposalsAreReal
  <2>1. CASE \E q \in Traces : Same(q, s)
    BY <2>1 DEF Link, ProposalsAreReal, IdentityKept, Same
  <2>2. ~IsTerminal(s) /\ s.event \notin {"PermissionRequest", "SessionEnd"}
    BY DEF IsTerminal
  <2> QED BY <2>1, <2>2 DEF NewTracesReal
<1>2. OutcomesAreReal'
  <2> SUFFICES ASSUME NEW s \in Traces', IsTerminal(s)
               PROVE  \E u \in Calls : /\ stage'[u] # "none" /\ id'[u] = s.id /\ origin'[u] = s.origin
                                       /\ ran'[u] # NoCommand /\ ran'[u] = s.command
    BY DEF OutcomesAreReal, IsTerminal
  <2>1. CASE \E q \in Traces : Same(q, s)
    BY <2>1 DEF Link, OutcomesAreReal, IdentityKept, NewRunsTraced, Same, IsTerminal
  <2>2. s.event # "PreToolUse" /\ s.event \notin {"PermissionRequest", "SessionEnd"}
    BY DEF IsTerminal
  <2> QED BY <2>1, <2>2 DEF NewTracesReal
<1>3. ExecutionsLeaveOutcomes'
  <2> SUFFICES ASSUME NEW u \in Calls, ran'[u] # NoCommand
               PROVE  /\ stage'[u] = "over"
                      /\ \E s \in Traces' : IsTerminal(s) /\ s.id = id'[u] /\ s.origin = origin'[u]
    BY DEF ExecutionsLeaveOutcomes, IsTerminal
  <2>1. CASE ran[u] # NoCommand
    BY <2>1 DEF Link, ExecutionsLeaveOutcomes, IdentityKept, TracesKept, Same, IsTerminal
  <2> QED BY <2>1 DEF NewRunsTraced
<1>4. RulingsMatch'
  <2> SUFFICES ASSUME NEW u \in Calls, ruling'[u] # NoDecision
               PROVE  /\ stage'[u] \in {"decided", "over"}
                      /\ ruling'[u].id = id'[u] /\ ruling'[u].origin = origin'[u]
    BY DEF RulingsMatch, NoDecision
  <2>1. CASE ruling'[u] = ruling[u] /\ (stage[u] \in {"decided", "over"} => stage'[u] \in {"decided", "over"})
    BY <2>1 DEF Link, RulingsMatch, IdentityKept
  <2> QED BY <2>1 DEF NewRulingsMatch
<1>5. DecisionsAreReal'
  <2> SUFFICES ASSUME NEW d \in decisions'
               PROVE  \E u \in Calls : /\ stage'[u] # "none" /\ id'[u] = d.id
                                       /\ ruling'[u] # NoDecision
                                       /\ d.origin = origin'[u] => ruling'[u] \in decisions'
    BY DEF DecisionsAreReal, NoDecision
  <2>1. CASE d \in decisions
    <3>1. PICK u \in Calls : /\ stage[u] # "none" /\ id[u] = d.id
                             /\ ruling[u] # NoDecision
                             /\ d.origin = origin[u] => ruling[u] \in decisions
      BY <2>1 DEF Link, DecisionsAreReal
    <3>2. stage'[u] # "none" /\ id'[u] = id[u] /\ origin'[u] = origin[u] /\ ruling'[u] = ruling[u]
      BY <3>1 DEF IdentityKept, NewRulingsMatch
    <3> QED BY <3>1, <3>2 DEF NewDecisionsReal
  <2> QED BY <2>1 DEF NewDecisionsReal
<1> QED BY <1>1, <1>2, <1>3, <1>4, <1>5 DEF Link

LEMMA InitLinked == Init => Link
<1> SUFFICES ASSUME Init PROVE Link
  OBVIOUS
<1>1. Traces = {}
  BY DEF Init, Traces
<1>2. \A u \in Calls : ran[u] = NoCommand /\ ruling[u] = NoDecision
  BY DEF Init
<1>3. decisions = {}
  BY DEF Init
<1> QED BY <1>1, <1>2, <1>3 DEF Link, ProposalsAreReal, OutcomesAreReal,
           ExecutionsLeaveOutcomes, DecisionsAreReal, RulingsMatch

\* A step that leaves decisions and rulings alone.
LEMMA QuietDecisions ==
    ASSUME UNCHANGED <<decisions, ruling>>,
           \A u \in Calls : stage[u] \in {"decided", "over"} => stage'[u] \in {"decided", "over"}
    PROVE  NewDecisionsReal /\ NewRulingsMatch
BY DEF NewDecisionsReal, NewRulingsMatch

\* A step that leaves the hooks alone.
LEMMA QuietTraces ==
    ASSUME UNCHANGED <<records, hooks>>
    PROVE  TracesKept /\ NewTracesReal
<1>1. Traces' = Traces
  BY DEF Traces
<1> QED BY <1>1 DEF TracesKept, NewTracesReal, Same

LEMMA ProposeLinked ==
    ASSUME TypeOK, Link, NEW u \in Calls, Propose(u) PROVE Link'
<1>1. PICK c \in Commands, o \in Origins, i \in 1..u :
        /\ stage' = [stage EXCEPT ![u] = "proposed"]
        /\ origin' = [origin EXCEPT ![u] = o]
        /\ command' = [command EXCEPT ![u] = c]
        /\ id' = [id EXCEPT ![u] = i]
        /\ Hook("PreToolUse", i, o, c,
                Cost(u \in Probes /\ c = Expected[u]) + Cost(o = "probe")
                + Cost(i = u) + Cost(Busy = {}))
  BY DEF Propose
<1>2. stage[u] = "none" /\ UNCHANGED <<ruling, ran, decisions>>
  BY DEF Propose
<1>3. i \in Calls
  BY CallAssumption DEF Calls
<1> DEFINE n == Cost(u \in Probes /\ c = Expected[u]) + Cost(o = "probe")
                + Cost(i = u) + Cost(Busy = {})
<1>4. n \in Nat
  BY CostIs
<1> HIDE DEF n
<1>5. Hook("PreToolUse", i, o, c, n)
  BY <1>1 DEF n
<1>6. PICK r \in Record : /\ r.event = "PreToolUse" /\ r.id = i /\ r.origin = o /\ r.command = c
                          /\ Traces' = Traces \cup {r}
  BY <1>3, <1>4, <1>5, HookAdds DEF Events
<1>7. stage'[u] = "proposed" /\ id'[u] = i /\ origin'[u] = o /\ command'[u] = c
  BY <1>1, <1>3 DEF TypeOK
<1>8. \A w \in Calls : stage[w] # "none" =>
          /\ stage'[w] = stage[w] /\ id'[w] = id[w] /\ origin'[w] = origin[w]
          /\ command'[w] = command[w]
  BY <1>1, <1>2 DEF TypeOK
<1>9. IdentityKept
  BY <1>8 DEF IdentityKept
<1>10. NewTracesReal /\ TracesKept
  BY <1>6, <1>7 DEF NewTracesReal, TracesKept, Same
<1>11. NewRunsTraced
  BY <1>2 DEF NewRunsTraced
<1>12. NewDecisionsReal /\ NewRulingsMatch
  BY <1>2, <1>8, QuietDecisions
<1> QED BY <1>9, <1>10, <1>11, <1>12, LinkKept

LEMMA PresentLinked ==
    ASSUME TypeOK, Link, NEW u \in Calls, Present(u) PROVE Link'
<1>1. PICK c \in Commands :
        /\ stage' = [stage EXCEPT ![u] = "presented"]
        /\ Hook("PermissionRequest", NoId, origin[u], c, Cost(c = command[u]))
  BY DEF Present
<1>2. stage[u] = "proposed" /\ UNCHANGED <<id, origin, command, ruling, ran, decisions>>
  BY DEF Present
<1>3. Cost(c = command[u]) \in Nat /\ origin[u] \in Origins
  BY CostIs DEF TypeOK
<1>4. PICK r \in Record : r.event = "PermissionRequest" /\ Traces' = Traces \cup {r}
  <2> DEFINE e == "PermissionRequest"
             n == Cost(c = command[u])
  <2>1. Hook(e, NoId, origin[u], c, n) /\ e \in Events /\ n \in Nat
    BY <1>1, <1>3 DEF Events
  <2> HIDE DEF e, n
  <2>2. \E r \in Record : r.event = e /\ Traces' = Traces \cup {r}
    BY <1>3, <2>1, HookAdds
  <2> QED BY <2>2 DEF e
<1>5. IdentityKept
  BY <1>1, <1>2 DEF IdentityKept, TypeOK
<1>6. NewTracesReal /\ TracesKept
  BY <1>4 DEF NewTracesReal, TracesKept, Same
<1>7. NewRunsTraced
  BY <1>2 DEF NewRunsTraced
<1>8. NewDecisionsReal /\ NewRulingsMatch
  BY <1>1, <1>2, QuietDecisions DEF TypeOK
<1> QED BY <1>5, <1>6, <1>7, <1>8, LinkKept

\* Telemetry about u names its id; when it names its origin too, the ruling
\* itself is there.
LEMMA DecideLinked ==
    ASSUME TypeOK, Link, NEW u \in Calls, stage[u] \in {"presented", "proposed"},
           NEW v \in {"accept", "reject", "cancelled"},
           NEW s \in HumanAccepts \cup HumanRejects \cup {"config"},
           NEW n \in Nat, Decide(u, v, s, n)
    PROVE  Link'
<1> DEFINE d == [id |-> id[u], origin |-> origin[u], verdict |-> v, source |-> s]
           elsewhere == [d EXCEPT !.origin = IF d.origin = "probe" THEN "other" ELSE "probe"]
           contrary == [d EXCEPT !.verdict = IF d.verdict = "accept" THEN "reject" ELSE "accept"]
<1>1. Deliver(d, n) /\ ruling' = [ruling EXCEPT ![u] = d] /\ stage' = [stage EXCEPT ![u] = "decided"]
      /\ UNCHANGED <<id, origin, command, ran, hooks, records>>
  BY DEF Decide, Deliver
<1>2. d # NoDecision
  BY DEF NoDecision
<1>3. stage'[u] = "decided" /\ ruling'[u] = d
  BY <1>1 DEF TypeOK
<1>4. ruling[u] = NoDecision
  BY DEF Link, RulingsMatch
<1>5. IdentityKept
  BY <1>1, <1>3 DEF IdentityKept, TypeOK
<1>6. NewRulingsMatch
  <2> SUFFICES ASSUME NEW w \in Calls
               PROVE  /\ ruling[w] # NoDecision => ruling'[w] = ruling[w]
                      /\ ruling'[w] # NoDecision =>
                            \/ /\ ruling'[w] = ruling[w]
                               /\ stage[w] \in {"decided", "over"} => stage'[w] \in {"decided", "over"}
                            \/ stage'[w] = "decided" /\ ruling'[w].id = id'[w] /\ ruling'[w].origin = origin'[w]
    BY DEF NewRulingsMatch
  <2>1. CASE w = u
    BY <1>1, <1>3, <1>4, <2>1
  <2>2. CASE w # u
    BY <1>1, <2>2 DEF TypeOK
  <2> QED BY <2>1, <2>2
<1>7. \/ decisions' = decisions
      \/ decisions' = decisions \cup {d}
      \/ decisions' = decisions \cup {elsewhere}
      \/ decisions' = decisions \cup {d, contrary}
  BY <1>1 DEF Deliver
<1>8. elsewhere.id = id'[u] /\ elsewhere.origin # origin'[u]
  BY <1>1 DEF TypeOK, Origins
<1>9. d.id = id'[u] /\ contrary.id = id'[u]
  BY <1>1
<1> HIDE DEF d, elsewhere, contrary
<1>10. NewDecisionsReal
  BY <1>2, <1>3, <1>7, <1>8, <1>9 DEF NewDecisionsReal
<1>11. NewTracesReal /\ TracesKept
  BY <1>1, QuietTraces
<1>12. NewRunsTraced
  BY <1>1 DEF NewRunsTraced
<1> QED BY <1>5, <1>6, <1>10, <1>11, <1>12, LinkKept

LEMMA RunLinked ==
    ASSUME TypeOK, Link, NEW u \in Calls, Run(u) PROVE Link'
<1>1. PICK c \in Commands, e \in {"PostToolUse", "PostToolUseFailure"} :
        /\ stage' = [stage EXCEPT ![u] = "over"]
        /\ ran' = [ran EXCEPT ![u] = c]
        /\ Hook(e, id[u], origin[u], c,
                Cost(ruling[u].verdict = "accept") + Cost(c = command[u]) + Cost(e = "PostToolUse"))
  BY DEF Run
<1>2. UNCHANGED <<id, origin, command, ruling, decisions>>
  BY DEF Run
<1>3. /\ Cost(ruling[u].verdict = "accept") + Cost(c = command[u]) + Cost(e = "PostToolUse") \in Nat
      /\ id[u] \in Calls /\ origin[u] \in Origins /\ e \in Events
  BY CostIs DEF TypeOK, Events
<1>4. PICK r \in Record : /\ r.event = e /\ r.id = id[u] /\ r.origin = origin[u] /\ r.command = c
                          /\ Traces' = Traces \cup {r}
  BY <1>1, <1>3, HookAdds
<1>5. stage'[u] = "over" /\ ran'[u] = c /\ c # NoCommand
  BY <1>1, CommandsApart DEF TypeOK
<1>6. IsTerminal(r)
  BY <1>4 DEF IsTerminal
<1>7. IdentityKept
  BY <1>1, <1>2 DEF IdentityKept, TypeOK
<1>8. NewTracesReal /\ TracesKept
  BY <1>2, <1>4, <1>5, <1>6 DEF NewTracesReal, TracesKept, Same
<1>9. NewRunsTraced
  <2> SUFFICES ASSUME NEW w \in Calls
               PROVE  /\ ran[w] # NoCommand => ran'[w] = ran[w]
                      /\ ran'[w] # NoCommand =>
                            \/ ran[w] # NoCommand
                            \/ /\ stage'[w] = "over"
                               /\ \E q \in Traces' : IsTerminal(q) /\ q.id = id'[w] /\ q.origin = origin'[w]
    BY DEF NewRunsTraced
  <2>1. CASE w = u
    <3>1. ran[u] = NoCommand
      BY DEF Link, ExecutionsLeaveOutcomes, Run
    <3> QED BY <1>2, <1>4, <1>5, <1>6, <2>1, <3>1
  <2>2. CASE w # u
    BY <1>1, <2>2 DEF TypeOK
  <2> QED BY <2>1, <2>2
<1>10. NewDecisionsReal /\ NewRulingsMatch
  BY <1>1, <1>2, QuietDecisions DEF TypeOK
<1> QED BY <1>7, <1>8, <1>9, <1>10, LinkKept

LEMMA SkipLinked ==
    ASSUME TypeOK, Link, NEW u \in Calls, Skip(u) PROVE Link'
<1>1. /\ stage' = [stage EXCEPT ![u] = "over"] /\ stage[u] = "decided"
      /\ UNCHANGED <<id, origin, command, ruling, ran, decisions, hooks, records>>
  BY DEF Skip, evidence
<1>2. IdentityKept
  BY <1>1 DEF IdentityKept, TypeOK
<1>3. NewTracesReal /\ TracesKept
  BY <1>1, QuietTraces
<1>4. NewRunsTraced
  BY <1>1 DEF NewRunsTraced
<1>5. NewDecisionsReal /\ NewRulingsMatch
  BY <1>1, QuietDecisions DEF TypeOK
<1> QED BY <1>2, <1>3, <1>4, <1>5, LinkKept

LEMMA OvertakenLinked ==
    ASSUME TypeOK, Link, NEW r \in hooks, Overtaken(r) PROVE Link'
<1>1. UNCHANGED <<stage, id, origin, command, ruling, ran, decisions>>
  BY DEF Overtaken, world
<1>2. NewTracesReal /\ TracesKept
  BY OvertakenKeeps DEF NewTracesReal, TracesKept, Same
<1>3. IdentityKept /\ NewRunsTraced
  BY <1>1 DEF IdentityKept, NewRunsTraced
<1>4. NewDecisionsReal /\ NewRulingsMatch
  BY <1>1, QuietDecisions
<1> QED BY <1>2, <1>3, <1>4, LinkKept

LEMMA EndLinked == ASSUME TypeOK, Link, EndSession PROVE Link'
<1> DEFINE b == \A k \in Probes : stage[k] = "over"
           n == Cost(b)
<1>1. Hook("SessionEnd", NoId, "probe", NoCommand, n)
      /\ UNCHANGED <<stage, id, origin, command, ruling, ran, decisions>>
  BY DEF EndSession
<1> HIDE DEF b
<1>2. n \in Nat
  BY CostIs
<1> HIDE DEF n
<1>3. PICK r \in Record : r.event = "SessionEnd" /\ Traces' = Traces \cup {r}
  BY <1>1, <1>2, HookAdds DEF Events, Origins
<1>4. NewTracesReal /\ TracesKept
  BY <1>3 DEF NewTracesReal, TracesKept, Same
<1>5. IdentityKept /\ NewRunsTraced
  BY <1>1 DEF IdentityKept, NewRunsTraced
<1>6. NewDecisionsReal /\ NewRulingsMatch
  BY <1>1, QuietDecisions
<1> QED BY <1>4, <1>5, <1>6, LinkKept

LEMMA QuietLinked ==
    ASSUME Link, UNCHANGED <<stage, id, origin, command, ruling, ran, decisions, hooks, records>>
    PROVE  Link'
<1>1. NewTracesReal /\ TracesKept
  BY QuietTraces
<1>2. IdentityKept /\ NewRunsTraced
  BY DEF IdentityKept, NewRunsTraced
<1>3. NewDecisionsReal /\ NewRulingsMatch
  BY QuietDecisions
<1> QED BY <1>1, <1>2, <1>3, LinkKept

LEMMA NextLinked == TypeOK /\ Link /\ [Next]_vars => Link'
<1> SUFFICES ASSUME TypeOK, Link, [Next]_vars PROVE Link'
  OBVIOUS
<1>1. ASSUME NEW u \in Calls, Answer(u) \/ Automatic(u) PROVE Link'
  BY <1>1, AnswerDecides, DecideLinked
<1>2. CASE Judge
  BY <1>2, QuietLinked DEF Judge, evidence
<1>3. CASE UNCHANGED vars
  BY <1>3, QuietLinked DEF vars, world, evidence
<1> QED BY <1>1, <1>2, <1>3, ProposeLinked, PresentLinked, RunLinked, SkipLinked,
           OvertakenLinked, EndLinked DEF Next

\* A verdict closes the session: neither evidence nor session moves after it.
LEMMA NextStands == VerdictStands /\ [Next]_vars => VerdictStands'
<1> SUFFICES ASSUME VerdictStands, [Next]_vars PROVE VerdictStands'
  OBVIOUS
<1>1. CASE Judge
  BY <1>1 DEF Judge, VerdictStands, evidence
<1>2. CASE UNCHANGED vars
  BY <1>2 DEF vars, world, evidence, VerdictStands
<1>3. ASSUME NEW u \in Calls, Answer(u) \/ Automatic(u)
      PROVE  session = "open" /\ UNCHANGED <<session, verdict>>
  <2>1. UNCHANGED <<session, verdict>>
    BY <1>3, AnswerDecides DEF Decide
  <2>2. session = "open"
    BY <1>3 DEF Answer, Automatic
  <2> QED BY <2>1, <2>2
<1>4. ASSUME NEW u \in Calls, Propose(u) \/ Present(u) \/ Run(u) \/ Skip(u)
      PROVE  session = "open" /\ UNCHANGED <<session, verdict>>
  BY <1>4 DEF Propose, Present, Run, Skip
<1>5. ASSUME NEW r \in hooks, Overtaken(r)
      PROVE  session # "judged" /\ UNCHANGED <<session, verdict>>
  BY <1>5 DEF Overtaken, world
<1>6. CASE EndSession
  BY <1>6 DEF EndSession, VerdictStands
<1>7. ASSUME session # "judged", UNCHANGED <<session, verdict>> PROVE VerdictStands'
  BY <1>7 DEF VerdictStands
<1> QED BY <1>1, <1>2, <1>3, <1>4, <1>5, <1>6, <1>7 DEF Next

(***************************************************************************)
(* The lines of a file in order, and the proposals under PASS: one for     *)
(* each probe.                                                             *)
(***************************************************************************)
Rank(S, i) == Cardinality({j \in S : j <= i})

LEMMA RankGrows ==
    ASSUME NEW S \in SUBSET Nat, IsFiniteSet(S), NEW i \in S
    PROVE  /\ Rank(S, i) \in 1..Cardinality(S) /\ Cardinality(S) \in Nat
           /\ \A j \in S : j < i => Rank(S, j) < Rank(S, i)
<1> DEFINE Below(l) == {j \in S : j <= l}
<1>1. \A l \in S : /\ IsFiniteSet(Below(l)) /\ Cardinality(Below(l)) \in Nat
                   /\ Cardinality(Below(l)) <= Cardinality(S)
  BY FS_Subset, FS_CardinalityType
<1>2. Cardinality(S) \in Nat
  BY FS_CardinalityType
<1>3. Cardinality(Below(i)) # 0
  <2>1. i \in Below(i)
    OBVIOUS
  <2> HIDE DEF Below
  <2> QED BY <1>1, <2>1, FS_EmptySet
<1>4. ASSUME NEW j \in S, j < i PROVE Cardinality(Below(j)) < Cardinality(Below(i))
  <2>1. Below(j) \subseteq Below(i) /\ i \in Below(i) /\ i \notin Below(j)
    <3>1. \A l \in S : l \in Nat
      OBVIOUS
    <3>2. \A l \in S : l <= j => l <= i
      BY <1>4, <3>1
    <3>3. i <= i /\ ~(i <= j)
      BY <1>4, <3>1
    <3> QED BY <3>2, <3>3
  <2> HIDE DEF Below
  <2>2. Cardinality(Below(j)) <= Cardinality(Below(i)) /\ Cardinality(Below(j)) # Cardinality(Below(i))
    BY <1>1, <2>1, FS_Subset
  <2> QED BY <1>1, <1>4, <2>2
<1>5. \A l : Rank(S, l) = Cardinality(Below(l))
  BY DEF Rank
<1> HIDE DEF Below
<1> QED BY <1>1, <1>2, <1>3, <1>4, <1>5

LEMMA NthIs ==
    ASSUME NEW S \in SUBSET Nat, IsFiniteSet(S), NEW i \in S
    PROVE  Nth(S, Rank(S, i)) = i
<1> DEFINE T == {l \in S : Cardinality({j \in S : j <= l}) = Rank(S, i)}
<1>1. \A l \in S : Rank(S, l) = Rank(S, i) => l = i
  <2> SUFFICES ASSUME NEW l \in S, l # i PROVE Rank(S, l) # Rank(S, i)
    OBVIOUS
  <2>1. /\ Rank(S, i) \in Nat /\ Rank(S, l) \in Nat
        /\ l < i => Rank(S, l) < Rank(S, i)
        /\ i < l => Rank(S, i) < Rank(S, l)
    BY RankGrows
  <2>2. l \in Nat /\ i \in Nat
    OBVIOUS
  <2> QED BY <2>1, <2>2
<1>2. T = {i}
  BY <1>1 DEF Rank
<1>3. Nth(S, Rank(S, i)) = TheOnly(T, 0)
  BY DEF Nth
<1> HIDE DEF T
<1> QED BY <1>2, <1>3 DEF TheOnly

LEMMA NthExists ==
    ASSUME NEW S \in SUBSET Nat, IsFiniteSet(S), NEW n \in 1..Cardinality(S)
    PROVE  \E i \in S : Rank(S, i) = n
<1> DEFINE N == Cardinality(S)
           f == [i \in S |-> Rank(S, i)]
<1>1. N \in Nat
  BY FS_CardinalityType
<1>2. f \in [S -> 1..N]
  BY RankGrows
<1>3. \A i, j \in S : f[i] = f[j] => i = j
  BY NthIs
<1>4. f \in Injection(S, 1..N)
  <2> HIDE DEF f
  <2> QED BY <1>2, <1>3, Fun_IsInj
<1>5. IsFiniteSet(1..N) /\ Cardinality(1..N) = N
  BY <1>1, FS_Interval
<1>6. f \in Surjection(S, 1..N)
  <2> HIDE DEF f, N
  <2> QED BY <1>4, <1>5, FS_Injection DEF N
<1>7. \A m \in 1..N : \E i \in S : f[i] = m
  BY <1>6 DEF Surjection
<1> QED BY <1>7

LEMMA ProposalsAreLines ==
    ASSUME TypeOK
    PROVE  Proposals(records) \in SUBSET Nat /\ IsFiniteSet(Proposals(records))
<1>1. Proposals(records) \subseteq 1..Len(records) /\ Len(records) \in Nat
  BY DEF TypeOK, Proposals, EventAt
<1>2. IsFiniteSet(1..Len(records))
  BY <1>1, FS_Interval
<1> QED BY <1>1, <1>2, FS_Subset

\* The proposal at line i is that of the probe of the same number.
LEMMA ProposalIsProbe ==
    ASSUME TypeOK, IsolationPasses(records), NEW i \in Proposals(records)
    PROVE  LET k == Rank(Proposals(records), i)
           IN  k \in Probes /\ records[i].command = Expected[k] /\ Pre(records, k) = i
<1> DEFINE S == Proposals(records)
           k == Rank(S, i)
           own == {j \in S : records[j].command = Expected[k]}
<1>1. S \in SUBSET Nat /\ IsFiniteSet(S) /\ Cardinality(S) = 4 /\ Probes = 1..4
  BY ProposalsAreLines DEF IsolationPasses, Expected, Probes
<1> HIDE DEF S
<1>2. ASSUME NEW j \in S
      PROVE  Rank(S, j) \in 1..4 /\ records[j].command = Expected[Rank(S, j)]
  <2>1. Rank(S, j) \in 1..4 /\ Nth(S, Rank(S, j)) = j
    BY <1>1, RankGrows, NthIs
  <2> QED BY <1>1, <2>1 DEF IsolationPasses, S
<1>3. \A j \in S : j < i => Rank(S, j) < k
  BY <1>1, RankGrows DEF S
<1>4. i \in S /\ i \in Nat /\ k \in 1..4 /\ records[i].command = Expected[k]
  BY <1>1, <1>2 DEF S
<1> HIDE DEF k
<1>5. own \in SUBSET Nat /\ IsFiniteSet(own) /\ i \in own
  BY <1>1, <1>4, FS_Subset
<1>6. ASSUME NEW j \in own, j < i PROVE k = 2
  <2>1. Rank(S, j) \in 1..4 /\ Rank(S, j) < k /\ Expected[Rank(S, j)] = Expected[k]
    BY <1>2, <1>3, <1>6
  <2> HIDE DEF own
  <2> QED BY <1>4, <2>1 DEF Expected
<1>7. Rank(own, i) = Turn[k]
  <2>1. CASE k = 2
    <3>1. \A j \in S : j < i => records[j].command = Expected[k]
      BY <1>2, <1>3, <2>1 DEF Expected
    <3>2. {j \in own : j <= i} = {j \in S : j <= i}
      <4>1. \A j \in S : j <= i => j < i \/ j = i
        BY <1>1, <1>4
      <4>2. \A j \in S : j <= i => records[j].command = Expected[k]
        BY <1>4, <3>1, <4>1
      <4> QED BY <4>2
    <3> QED BY <2>1, <3>2 DEF Rank, Turn, k
  <2>2. CASE k # 2
    <3>1. {j \in own : j <= i} = {i}
      BY <1>5, <1>6, <2>2
    <3>2. Rank(own, i) = 1
      BY <3>1, FS_Singleton DEF Rank
    <3> QED BY <1>4, <2>2, <3>2 DEF Turn
  <2> QED BY <2>1, <2>2
<1>8. Pre(records, k) = Nth(own, Turn[k])
  BY DEF Pre, S
<1>9. Nth(own, Rank(own, i)) = i
  <2> HIDE DEF own
  <2> QED BY <1>5, NthIs
<1> QED BY <1>1, <1>4, <1>7, <1>8, <1>9 DEF k, S

\* What PASS says of the records of one proposal.
LEMMA PassSays ==
    ASSUME TypeOK, StatusOf(records, decisions) = "PASS", NEW i \in Proposals(records)
    PROVE  LET d == DecisionOf(records, decisions, i)
           IN  /\ HumanAccepted(d) \/ HumanRejected(d)
               /\ HumanAccepted(d) => Outcomes(records, i) # {}
               /\ HumanRejected(d) => Outcomes(records, i) = {}
               /\ IsUnique(records, i)
               /\ \A j \in Outcomes(records, i) : records[j].command = records[i].command
<1>1. Passes(records, decisions) /\ ~Fails(records, decisions)
  BY DEF StatusOf
<1>2. ~IntegrityDoubts(records, decisions) /\ ~IntegrityFails(records, decisions)
  BY <1>1 DEF Passes, Fails, CompletePasses
<1>3. ~TooMany(records)
  BY <1>2 DEF IntegrityDoubts, SessionDoubts
<1>4. ~ReferenceDoubts(records, decisions)
  BY <1>2, <1>3 DEF IntegrityDoubts
<1>5. i \in Checked(records) /\ IsUnique(records, i)
  BY <1>4 DEF ReferenceDoubts, Checked
<1>6. ~CallDoubts(records, decisions, i) /\ ~Bypassed(records, decisions, i)
  BY <1>2, <1>3, <1>5 DEF IntegrityDoubts, IntegrityFails
<1> DEFINE d == DecisionOf(records, decisions, i)
<1>7. /\ HumanAccepted(d) \/ HumanRejected(d)
      /\ d.verdict = "accept" => Outcomes(records, i) \cap EventAt(records, "PostToolUse") # {}
      /\ ~(Cardinality(Outcomes(records, i)) > 1)
  BY <1>6 DEF CallDoubts
<1>8. d.verdict = "reject" => Outcomes(records, i) = {}
  BY <1>6 DEF Bypassed
<1>9. ASSUME NEW j \in Outcomes(records, i) PROVE records[j].command = records[i].command
  <2> DEFINE k == Rank(Proposals(records), i)
             T == Outcomes(records, i)
  <2>1. IsFiniteSet(T) /\ Cardinality(T) \in Nat
    <3>1. T \subseteq 1..Len(records) /\ Len(records) \in Nat
      BY DEF TypeOK, Outcomes, OfCall, Terminals, EventAt
    <3>2. IsFiniteSet(1..Len(records))
      BY <3>1, FS_Interval
    <3> QED BY <3>1, <3>2, FS_Subset, FS_CardinalityType
  <2>2. T = {j}
    <3>1. j \in T /\ Cardinality({j}) = 1
      BY <1>9, FS_Singleton
    <3> HIDE DEF T
    <3>2. {j} \subseteq T /\ Cardinality({j}) <= Cardinality(T)
      BY <2>1, <3>1, FS_Subset
    <3>3. Cardinality(T) = Cardinality({j})
      BY <1>7, <2>1, <3>1, <3>2 DEF T
    <3> QED BY <2>1, <3>2, <3>3, FS_Subset
  <2>3. i # 0 /\ j # 0
    <3>1. i \in Nat \ {0} /\ j \in Nat \ {0}
      BY <1>9 DEF TypeOK, Proposals, Outcomes, OfCall, Terminals, EventAt
    <3> QED BY <3>1
  <2>4. k \in Probes /\ Pre(records, k) = i
    BY <1>1, ProposalIsProbe DEF Passes
  <2> HIDE DEF k
  <2>5. Post(records, k) = j
    <3>1. {l \in T : IsUnique(records, i)} = {j}
      BY <1>5, <2>2
    <3>2. Post(records, k) = TheOnly({l \in T : IsUnique(records, i)}, 0)
      BY <2>3, <2>4 DEF Post, OutcomeOf
    <3> HIDE DEF T
    <3> QED BY <3>1, <3>2 DEF TheOnly
  <2>6. i \in Evidence(records, k) /\ j \in Evidence(records, k)
    BY <2>3, <2>4, <2>5 DEF Evidence
  <2> QED BY <1>1, <2>4, <2>6 DEF Passes, BindingPasses, BindingFails
<1> HIDE DEF d
<1> QED BY <1>5, <1>7, <1>8, <1>9 DEF HumanAccepted, HumanRejected, d

LEMMA TheOnlyIs ==
    ASSUME NEW S, NEW none, TheOnly(S, none) # none
    PROVE  S = {TheOnly(S, none)}
BY DEF TheOnly

\* The decision that the analysis finds for a call is its ruling.
LEMMA DecisionIsRuling ==
    ASSUME TypeOK, Link, Distinct, NEW u \in Calls, NEW i \in Proposals(records),
           records[i].id = id[u], DecisionOf(records, decisions, i) # NoDecision
    PROVE  records[i].origin = origin[u] /\ DecisionOf(records, decisions, i) = ruling[u]
<1> DEFINE own == {d \in decisions : d.id = records[i].id /\ d.origin = records[i].origin}
           found == DecisionOf(records, decisions, i)
<1>1. i \in DOMAIN records /\ records[i] \in Traces /\ records[i].event = "PreToolUse"
  BY DEF Proposals, EventAt, Traces
<1>2. records[i].origin = origin[u]
  BY <1>1 DEF Link, ProposalsAreReal, Distinct
<1>3. i # 0
  BY <1>1 DEF TypeOK
<1>4. own = {found}
  <2>1. found = TheOnly(own, NoDecision)
    BY <1>3 DEF DecisionOf
  <2>2. found # NoDecision
    OBVIOUS
  <2> HIDE DEF own, found
  <2> QED BY <2>1, <2>2, TheOnlyIs
<1>5. found \in decisions /\ found.id = id[u] /\ found.origin = origin[u]
  BY <1>2, <1>4
<1> HIDE DEF found
<1>6. ruling[u] \in decisions /\ ruling[u] # NoDecision
  BY <1>5 DEF Link, DecisionsAreReal, Distinct
<1>7. ruling[u].id = id[u] /\ ruling[u].origin = origin[u]
  BY <1>6 DEF Link, RulingsMatch
<1>8. ruling[u] \in own
  BY <1>2, <1>6, <1>7
<1> QED BY <1>2, <1>4, <1>8 DEF found

LEMMA PassIsSound ==
    ASSUME TypeOK, Link, VerdictStands, verdict = "PASS", Distinct,
           NEW u \in Calls, Seen(u)
    PROVE  /\ HumanDecided(u) /\ DenialHeld(u)
           /\ HumanAccepted(ruling[u]) => ran[u] = command[u]
<1>1. PICK i \in Proposals(records) : records[i].id = id[u]
  BY DEF Seen
<1> DEFINE d == DecisionOf(records, decisions, i)
<1>2. StatusOf(records, decisions) = "PASS"
  BY DEF VerdictStands
<1>3. /\ HumanAccepted(d) \/ HumanRejected(d)
      /\ HumanAccepted(d) => Outcomes(records, i) # {}
      /\ HumanRejected(d) => Outcomes(records, i) = {}
      /\ \A j \in Outcomes(records, i) : records[j].command = records[i].command
  BY <1>2, PassSays
<1>4. records[i].origin = origin[u] /\ d = ruling[u]
  <2>1. d # NoDecision
    BY <1>3 DEF HumanAccepted, HumanRejected, NoDecision
  <2> QED BY <1>1, <2>1, DecisionIsRuling
<1> HIDE DEF d
<1>5. HumanDecided(u)
  BY <1>3, <1>4 DEF HumanDecided
<1>6. \A j \in DOMAIN records : IsTerminal(records[j]) => j \in Terminals(records)
  BY DEF IsTerminal, Terminals, EventAt
<1>7. ASSUME HumanAccepted(ruling[u]) PROVE ran[u] = command[u]
  <2>1. PICK j \in Outcomes(records, i) : TRUE
    BY <1>3, <1>4, <1>7
  <2>2. records[j] \in Traces /\ IsTerminal(records[j]) /\ records[j].id = id[u]
    BY <1>1, <2>1 DEF Outcomes, OfCall, Terminals, EventAt, Traces, IsTerminal
  <2>3. ran[u] = records[j].command
    BY <2>2 DEF Link, OutcomesAreReal, Distinct
  <2>4. records[i] \in Traces /\ records[i].event = "PreToolUse"
    BY DEF Proposals, EventAt, Traces
  <2>5. command[u] = records[i].command
    BY <1>1, <2>4 DEF Link, ProposalsAreReal, Distinct
  <2> QED BY <1>3, <2>1, <2>3, <2>5
<1>8. ASSUME HumanRejected(ruling[u]), ran[u] # NoCommand PROVE RunUnseen(u)
  <2>1. PICK r \in Traces : IsTerminal(r) /\ r.id = id[u] /\ r.origin = origin[u]
    BY <1>8 DEF Link, ExecutionsLeaveOutcomes
  <2>2. ASSUME NEW j \in DOMAIN records, r = records[j] PROVE FALSE
    <3>1. j \in Outcomes(records, i)
      BY <1>1, <1>4, <1>6, <2>1, <2>2 DEF Outcomes, OfCall, SameOrigin
    <3> QED BY <1>3, <1>4, <1>8, <3>1
  <2>3. r \in hooks
    BY <2>2 DEF Traces
  <2> QED BY <2>1, <2>3 DEF RunUnseen, IsTerminal
<1> QED BY <1>5, <1>7, <1>8 DEF DenialHeld

\* The calls on record are the probes, one each.
LEMMA PassIsComplete ==
    ASSUME TypeOK, Link, VerdictStands, verdict = "PASS", Distinct
    PROVE  \E f \in Bijection(Probes, {u \in Calls : Seen(u)}) :
              \A k \in Probes : command[f[k]] = Expected[k]
<1> DEFINE S == Proposals(records)
           T == {u \in Calls : Seen(u)}
           f == [k \in Probes |-> CHOOSE u \in Calls : id[u] = records[Nth(S, k)].id]
<1>1. StatusOf(records, decisions) = "PASS" /\ IsolationPasses(records)
  BY DEF VerdictStands, StatusOf, Passes
<1>2. S \in SUBSET Nat /\ IsFiniteSet(S) /\ Cardinality(S) = 4 /\ Probes = 1..4
  BY <1>1, ProposalsAreLines DEF IsolationPasses, Expected, Probes
<1>3. ASSUME NEW i \in S
      PROVE  \E u \in Calls : id[u] = records[i].id /\ command[u] = records[i].command
  <2>1. records[i] \in Traces /\ records[i].event = "PreToolUse"
    BY DEF Proposals, EventAt, Traces
  <2> QED BY <2>1 DEF Link, ProposalsAreReal
<1>4. ASSUME NEW i \in S, NEW j \in S, records[i].id = records[j].id PROVE i = j
  BY <1>1, <1>4, PassSays DEF IsUnique
<1>5. \A i \in S : /\ Rank(S, i) \in Probes /\ Nth(S, Rank(S, i)) = i
                   /\ records[i].command = Expected[Rank(S, i)]
  BY <1>1, <1>2, NthIs, ProposalIsProbe
<1> HIDE DEF S
<1>6. ASSUME NEW k \in Probes
      PROVE  \E i \in S : /\ Nth(S, k) = i /\ Rank(S, i) = k
                          /\ f[k] \in Calls /\ id[f[k]] = records[i].id
                          /\ command[f[k]] = Expected[k]
  <2>1. PICK i \in S : Rank(S, i) = k
    BY <1>2, NthExists
  <2>2. Nth(S, k) = i /\ records[i].command = Expected[k]
    BY <1>5, <2>1
  <2>3. PICK u \in Calls : id[u] = records[i].id /\ command[u] = records[i].command
    BY <1>3
  <2>4. f[k] = u
    BY <2>2, <2>3 DEF Distinct
  <2> QED BY <2>1, <2>2, <2>3, <2>4
<1>7. DOMAIN f = Probes /\ f = [k \in Probes |-> f[k]]
  OBVIOUS
<1> HIDE DEF f
<1>8. \A k \in Probes : f[k] \in T
  BY <1>6 DEF Seen, S
<1>9. f \in [Probes -> T]
  BY <1>7, <1>8
<1>10. \A j, k \in Probes : f[j] = f[k] => j = k
  BY <1>4, <1>6
<1>11. ASSUME NEW u \in T PROVE \E k \in Probes : f[k] = u
  <2>1. PICK i \in S : records[i].id = id[u]
    BY DEF Seen, S
  <2>2. Rank(S, i) \in Probes /\ Nth(S, Rank(S, i)) = i
    BY <1>5
  <2>3. id[f[Rank(S, i)]] = id[u] /\ f[Rank(S, i)] \in Calls
    BY <1>6, <2>1, <2>2
  <2> QED BY <2>2, <2>3 DEF Distinct
<1>12. f \in Bijection(Probes, T)
  <2> HIDE DEF T
  <2> QED BY <1>9, <1>10, <1>11, Fun_IsBij
<1> QED BY <1>6, <1>12

\* PASS is the truth about every call on record, of any number of calls that
\* depart from the protocol in any number of ways.
THEOREM PassTrue == Spec => []SeenIsSound
<1>1. Init => TypeOK /\ Link /\ VerdictStands
  BY InitTyped, InitLinked DEF Init, VerdictStands
<1>2. TypeOK /\ Link /\ VerdictStands /\ [Next]_vars => (TypeOK /\ Link /\ VerdictStands)'
  BY NextTyped, NextLinked, NextStands
<1>3. TypeOK /\ Link /\ VerdictStands => SeenIsSound
  BY PassIsSound, PassIsComplete DEF SeenIsSound
<1> QED BY <1>1, <1>2, <1>3, PTL DEF Spec
-----------------------------------------------------------------------------
\* A rejection and an outcome that the analysis joins at line i are those of
\* one call, which the session did reject and run.
LEMMA JoinedIsBypass ==
    ASSUME TypeOK, Link, Distinct, NEW i \in Proposals(records),
           DecisionOf(records, decisions, i).verdict = "reject", Outcomes(records, i) # {}
    PROVE  \E u \in Calls : Bypass(u)
<1>1. records[i] \in Traces /\ records[i].event = "PreToolUse"
  BY DEF Proposals, EventAt, Traces
<1>2. PICK u \in Calls : id[u] = records[i].id
  BY <1>1 DEF Link, ProposalsAreReal
<1>3. DecisionOf(records, decisions, i) # NoDecision
  BY DEF NoDecision
<1>4. ruling[u].verdict = "reject"
  BY <1>2, <1>3, DecisionIsRuling
<1>5. PICK j \in Outcomes(records, i) : TRUE
  OBVIOUS
<1>6. records[j] \in Traces /\ IsTerminal(records[j]) /\ records[j].id = id[u]
  BY <1>2, <1>5 DEF Outcomes, OfCall, Terminals, EventAt, Traces, IsTerminal
<1>7. ran[u] # NoCommand
  BY <1>6 DEF Link, OutcomesAreReal, Distinct
<1> QED BY <1>4, <1>7 DEF Bypass

\* A probe that is seen to run although its decision was a rejection.
LEMMA ProbeJoined ==
    ASSUME TypeOK, Link, Distinct, NEW k \in Probes,
           Dec(records, decisions, k).verdict = "reject", Post(records, k) # 0
    PROVE  \E u \in Calls : Bypass(u)
<1> DEFINE i == Pre(records, k)
           own == {l \in Proposals(records) : records[l].command = Expected[k]}
<1>1. i # 0
  BY DEF Dec, DecisionOf, NoDecision
<1>2. i \in own
  <2>1. i = TheOnly({l \in own : Cardinality({j \in own : j <= l}) = Turn[k]}, 0)
    BY DEF Pre, Nth
  <2> HIDE DEF own, i
  <2>2. {l \in own : Cardinality({j \in own : j <= l}) = Turn[k]} = {i}
    BY <1>1, <2>1, TheOnlyIs
  <2> QED BY <2>2
<1>3. Outcomes(records, i) # {}
  <2>1. TheOnly({j \in Outcomes(records, i) : IsUnique(records, i)}, 0) # 0
    BY <1>1 DEF Post, OutcomeOf
  <2> QED BY <2>1, TheOnlyIs
<1>4. DecisionOf(records, decisions, i).verdict = "reject"
  BY DEF Dec
<1> HIDE DEF i
<1> QED BY <1>2, <1>3, <1>4, JoinedIsBypass

\* A report that a rejected call ran is the truth about some call, of any
\* number of calls and of departures, as long as ids are not reused.
THEOREM BypassTrue == Spec => []BypassIsReal
<1>1. Init => TypeOK /\ Link
  BY InitTyped, InitLinked
<1>2. TypeOK /\ Link /\ [Next]_vars => (TypeOK /\ Link)'
  BY NextTyped, NextLinked
<1>3. ASSUME TypeOK, Link, Distinct, ReportsBypass PROVE \E u \in Calls : Bypass(u)
  <2>1. 2 \in Probes /\ 3 \in Probes /\ 4 \in Probes
    BY DEF Probes, Expected
  <2>2. CASE DenialFails(records, decisions)
    BY <1>3, <2>1, <2>2, ProbeJoined DEF DenialFails, HumanRejected
  <2>3. CASE ReplayFails(records, decisions) \/ RouteFails(records, decisions)
    BY <1>3, <2>1, <2>3, ProbeJoined DEF ReplayFails, RouteFails, RanRejected
  <2>4. ASSUME NEW i \in Checked(records), Bypassed(records, decisions, i)
        PROVE  \E u \in Calls : Bypass(u)
    BY <1>3, <2>4, JoinedIsBypass DEF Checked, Bypassed
  <2> QED BY <1>3, <2>2, <2>3, <2>4 DEF ReportsBypass
<1>4. TypeOK /\ Link => BypassIsReal
  BY <1>3 DEF BypassIsReal
<1> QED BY <1>1, <1>2, <1>4, PTL DEF Spec
-----------------------------------------------------------------------------
(***************************************************************************)
(* Every hook process that started is one line of the file or still on its *)
(* way: what it tells, its key, is counted once.                           *)
(***************************************************************************)
Key(r) == <<r.event, r.id, r.command>>
Lines(Q) == {i \in DOMAIN records : Key(records[i]) \in Q}
Waiting(Q) == {r \in hooks : Key(r) \in Q}
Booked(Q) == Cardinality(Lines(Q)) + Cardinality(Waiting(Q))

\* Times are those of the starts, and the order of the lines, unless a hook
\* was overtaken.
Timely ==
    /\ IsFiniteSet(hooks) /\ \A r \in hooks : r.time < clock
    /\ ~late => /\ \A r \in Traces : r.time < clock
                /\ \A i, j \in DOMAIN records : i < j => records[i].time < records[j].time

LEMMA BookedTyped ==
    ASSUME TypeOK, IsFiniteSet(hooks), NEW Q
    PROVE  /\ IsFiniteSet(Lines(Q)) /\ Cardinality(Lines(Q)) \in Nat
           /\ IsFiniteSet(Waiting(Q)) /\ Cardinality(Waiting(Q)) \in Nat
           /\ Booked(Q) \in Nat
<1>1. Lines(Q) \subseteq 1..Len(records) /\ Len(records) \in Nat
  BY DEF TypeOK, Lines
<1>2. IsFiniteSet(1..Len(records))
  BY <1>1, FS_Interval
<1>3. IsFiniteSet(Lines(Q)) /\ Cardinality(Lines(Q)) \in Nat
  BY <1>1, <1>2, FS_Subset, FS_CardinalityType
<1>4. Waiting(Q) \subseteq hooks
  BY DEF Waiting
<1>5. IsFiniteSet(Waiting(Q)) /\ Cardinality(Waiting(Q)) \in Nat
  BY <1>4, FS_Subset, FS_CardinalityType
<1> QED BY <1>3, <1>5 DEF Booked

\* What a step appends.
LEMMA LineBooked ==
    ASSUME TypeOK, NEW r \in Record, records' = Append(records, r), NEW Q
    PROVE  /\ Cardinality(Lines(Q)') = Cardinality(Lines(Q)) + (IF Key(r) \in Q THEN 1 ELSE 0)
           /\ \A i \in DOMAIN records : records'[i] = records[i]
           /\ DOMAIN records' = DOMAIN records \cup {Len(records) + 1}
           /\ records'[Len(records) + 1] = r /\ Len(records) \in Nat
           /\ DOMAIN records = 1..Len(records)
<1>1. /\ DOMAIN records' = 1..(Len(records) + 1) /\ Len(records) \in Nat
      /\ DOMAIN records = 1..Len(records)
      /\ \A i \in DOMAIN records : records'[i] = records[i]
      /\ records'[Len(records) + 1] = r
  BY DEF TypeOK
<1>2. DOMAIN records' = DOMAIN records \cup {Len(records) + 1} /\ Len(records) + 1 \notin DOMAIN records
  BY <1>1
<1>3. /\ Key(r) \in Q => Lines(Q)' = Lines(Q) \cup {Len(records) + 1}
      /\ Key(r) \notin Q => Lines(Q)' = Lines(Q)
      /\ Len(records) + 1 \notin Lines(Q)
  BY <1>1, <1>2 DEF Lines
<1>4. IsFiniteSet(Lines(Q)) /\ Cardinality(Lines(Q)) \in Nat
  <2>1. Lines(Q) \subseteq 1..Len(records) /\ IsFiniteSet(1..Len(records))
    BY <1>1, FS_Interval DEF Lines
  <2> QED BY <2>1, FS_Subset, FS_CardinalityType
<1>5. Cardinality(Lines(Q) \cup {Len(records) + 1}) = Cardinality(Lines(Q)) + 1
  BY <1>3, <1>4, FS_AddElement
<1>6. CASE Key(r) \in Q
  <2>1. Cardinality(Lines(Q)') = Cardinality(Lines(Q)) + 1
    BY <1>3, <1>5, <1>6
  <2> QED BY <1>1, <1>2, <1>6, <2>1
<1>7. CASE Key(r) \notin Q
  <2>1. Cardinality(Lines(Q)') = Cardinality(Lines(Q)) + 0
    BY <1>3, <1>4, <1>7
  <2> QED BY <1>1, <1>2, <1>7, <2>1
<1> QED BY <1>6, <1>7

LEMMA HookBooked ==
    ASSUME TypeOK, Timely, NEW e \in Events, NEW i \in Calls \cup {NoId}, NEW o \in Origins,
           NEW c \in Commands \cup {NoCommand}, NEW n, Hook(e, i, o, c, n), NEW Q
    PROVE  Booked(Q)' = Booked(Q) + (IF <<e, i, c>> \in Q THEN 1 ELSE 0)
<1> DEFINE r == [event |-> e, id |-> i, origin |-> o, command |-> c, time |-> clock]
<1>1. r \in Record /\ Key(r) = <<e, i, c>> /\ r.time = clock
  BY DEF TypeOK, Record, Key
<1>2. /\ IsFiniteSet(Lines(Q)) /\ Cardinality(Lines(Q)) \in Nat
      /\ IsFiniteSet(Waiting(Q)) /\ Cardinality(Waiting(Q)) \in Nat
  BY BookedTyped DEF Timely
<1>3. \/ records' = Append(records, r) /\ hooks' = hooks
      \/ hooks' = hooks \cup {r} /\ records' = records
  BY DEF Hook
<1>4. r \notin hooks
  BY <1>1 DEF Timely, TypeOK
<1> HIDE DEF r
<1>5. CASE records' = Append(records, r) /\ hooks' = hooks
  <2>1. Waiting(Q)' = Waiting(Q)
    BY <1>5 DEF Waiting
  <2>2. Cardinality(Lines(Q)') = Cardinality(Lines(Q)) + (IF Key(r) \in Q THEN 1 ELSE 0)
    BY <1>1, <1>5, LineBooked
  <2> QED BY <1>1, <1>2, <2>1, <2>2 DEF Booked
<1>6. CASE hooks' = hooks \cup {r} /\ records' = records
  <2>1. Lines(Q)' = Lines(Q)
    BY <1>6 DEF Lines
  <2>2. /\ Key(r) \in Q => Waiting(Q)' = Waiting(Q) \cup {r}
        /\ Key(r) \notin Q => Waiting(Q)' = Waiting(Q)
        /\ r \notin Waiting(Q)
    BY <1>4, <1>6 DEF Waiting
  <2>3. Cardinality(Waiting(Q) \cup {r}) = Cardinality(Waiting(Q)) + 1
    BY <1>2, <2>2, FS_AddElement
  <2>4. CASE Key(r) \in Q
    <3>1. Cardinality(Waiting(Q)') = Cardinality(Waiting(Q)) + 1
      BY <2>2, <2>3, <2>4
    <3> QED BY <1>1, <1>2, <2>1, <2>4, <3>1 DEF Booked
  <2>5. CASE Key(r) \notin Q
    <3>1. Cardinality(Waiting(Q)') = Cardinality(Waiting(Q))
      BY <2>2, <2>5
    <3> QED BY <1>1, <1>2, <2>1, <2>5, <3>1 DEF Booked
  <2> QED BY <2>4, <2>5
<1> QED BY <1>3, <1>5, <1>6

LEMMA OvertakenBooked ==
    ASSUME TypeOK, Timely, NEW r \in hooks, Overtaken(r), NEW Q
    PROVE  Booked(Q)' = Booked(Q)
<1>1. PICK q \in Record : Key(q) = Key(r) /\ records' = Append(records, q)
  <2>1. PICK t \in {r.time, clock} : records' = Append(records, [r EXCEPT !.time = t])
    BY DEF Overtaken
  <2>2. r \in Record /\ t \in Nat
    BY DEF TypeOK, Record
  <2> QED BY <2>1, <2>2 DEF Record, Key
<1>2. hooks' = hooks \ {r}
  BY DEF Overtaken
<1>3. /\ IsFiniteSet(Lines(Q)) /\ Cardinality(Lines(Q)) \in Nat
      /\ IsFiniteSet(Waiting(Q)) /\ Cardinality(Waiting(Q)) \in Nat
  BY BookedTyped DEF Timely
<1>4. /\ Key(r) \in Q => r \in Waiting(Q) /\ Waiting(Q)' = Waiting(Q) \ {r}
      /\ Key(r) \notin Q => Waiting(Q)' = Waiting(Q)
  BY <1>2 DEF Waiting
<1>5. Key(r) \in Q => Cardinality(Waiting(Q)') = Cardinality(Waiting(Q)) - 1
  BY <1>3, <1>4, FS_RemoveElement
<1>6. Cardinality(Lines(Q)') = Cardinality(Lines(Q)) + (IF Key(r) \in Q THEN 1 ELSE 0)
  BY <1>1, LineBooked
<1> QED BY <1>3, <1>4, <1>5, <1>6 DEF Booked

LEMMA HookTimely ==
    ASSUME TypeOK, Timely, NEW e, NEW i, NEW o, NEW c, NEW n, Hook(e, i, o, c, n),
           e \in Events, i \in Calls \cup {NoId}, o \in Origins, c \in Commands \cup {NoCommand}
    PROVE  Timely'
<1> DEFINE r == [event |-> e, id |-> i, origin |-> o, command |-> c, time |-> clock]
<1>1. r \in Record /\ r.time = clock
  BY DEF TypeOK, Record
<1>2. /\ clock' = clock + 1 /\ late' = late /\ clock \in Nat
      /\ \/ records' = Append(records, r) /\ hooks' = hooks
         \/ hooks' = hooks \cup {r} /\ records' = records
  BY DEF Hook, TypeOK
<1>3. \A q \in Record : q.time \in Nat
  BY DEF Record
<1>4. Len(records) \in Nat /\ DOMAIN records = 1..Len(records)
      /\ \A l \in DOMAIN records : records[l] \in Record
  BY DEF TypeOK
<1> HIDE DEF r
<1>5. IsFiniteSet(hooks') /\ \A q \in hooks' : q.time < clock'
  <2>1. \A q \in hooks : q.time < clock + 1
    BY <1>2, <1>3 DEF Timely, TypeOK
  <2>2. IsFiniteSet(hooks \cup {r})
    BY FS_AddElement DEF Timely
  <2>3. r.time < clock + 1
    BY <1>1, <1>2
  <2>4. \A q \in hooks' : q.time < clock'
    BY <1>2, <2>1, <2>3
  <2> QED BY <1>2, <2>2, <2>4 DEF Timely
<1>6. CASE records' = Append(records, r) /\ hooks' = hooks
  <2>1. /\ DOMAIN records' = DOMAIN records \cup {Len(records) + 1}
        /\ \A l \in DOMAIN records : records'[l] = records[l]
        /\ records'[Len(records) + 1] = r
    BY <1>1, <1>6, LineBooked
  <2> SUFFICES ASSUME ~late
               PROVE  /\ \A q \in Traces' : q.time < clock'
                      /\ \A l, j \in DOMAIN records' : l < j => records'[l].time < records'[j].time
    BY <1>2, <1>5 DEF Timely
  <2>2. \A q \in Traces : q.time < clock /\ q \in Record
    BY <1>4 DEF Timely, Traces, TypeOK
  <2>3. Traces' = Traces \cup {r}
    BY <1>6, <2>1 DEF Traces
  <2>4. \A l \in DOMAIN records : records[l].time < clock
    BY <2>2 DEF Traces
  <2>5. \A q \in Traces' : q.time < clock'
    BY <1>1, <1>2, <1>3, <2>2, <2>3
  <2>6. ASSUME NEW l \in DOMAIN records', NEW j \in DOMAIN records', l < j
        PROVE  records'[l].time < records'[j].time
    <3>1. l \in DOMAIN records
      BY <1>4, <2>1, <2>6
    <3>2. CASE j \in DOMAIN records
      BY <2>1, <2>6, <3>1, <3>2 DEF Timely
    <3>3. CASE j = Len(records) + 1
      BY <1>1, <2>1, <2>4, <3>1, <3>3
    <3> QED BY <2>1, <3>2, <3>3
  <2> QED BY <2>5, <2>6
<1>7. CASE hooks' = hooks \cup {r} /\ records' = records
  <2>1. Traces' = Traces \cup {r}
    BY <1>7 DEF Traces
  <2>2. \A q \in Traces : q \in Record
    BY <1>4 DEF Traces, TypeOK
  <2>3. ~late => \A q \in Traces' : q.time < clock'
    BY <1>1, <1>2, <1>3, <2>1, <2>2 DEF Timely
  <2> QED BY <1>2, <1>5, <1>7, <2>3 DEF Timely
<1> QED BY <1>2, <1>6, <1>7

LEMMA OvertakenTimely == ASSUME Timely, NEW r \in hooks, Overtaken(r) PROVE Timely'
<1>1. hooks' = hooks \ {r} /\ clock' = clock /\ late'
  BY DEF Overtaken
<1>2. IsFiniteSet(hooks \ {r})
  BY FS_Subset DEF Timely
<1> QED BY <1>1, <1>2 DEF Timely

LEMMA QuietTimely ==
    ASSUME Timely, UNCHANGED <<clock, hooks, records, late>> PROVE Timely'
<1>1. Traces' = Traces
  BY DEF Traces
<1> QED BY <1>1 DEF Timely
-----------------------------------------------------------------------------
\* Calls begin in their order, under their own or an earlier id.
Begun ==
    \A u \in Calls :
        /\ id[u] \in 1..u
        /\ shown[u] # NoCommand => stage[u] \notin {"none", "proposed"}
        /\ stage[u] = "presented" => shown[u] # NoCommand
        /\ stage[u] = "none" => id[u] = u /\ \A w \in Calls : u < w => stage[w] = "none"

LEMMA ProposeBegun == ASSUME TypeOK, Begun, NEW u \in Calls, Propose(u) PROVE Begun'
<1>1. PICK i \in 1..u : stage' = [stage EXCEPT ![u] = "proposed"] /\ id' = [id EXCEPT ![u] = i]
  BY DEF Propose
<1>2. stage[u] = "none" /\ shown' = shown /\ \A w \in 1..(u - 1) : stage[w] # "none"
  BY DEF Propose
<1>3. stage'[u] = "proposed" /\ id'[u] = i /\ \A w \in Calls \ {u} : stage'[w] = stage[w] /\ id'[w] = id[w]
  BY <1>1 DEF TypeOK
<1>4. ASSUME NEW w \in Calls, stage'[w] = "none" PROVE \A x \in Calls : w < x => stage'[x] = "none"
  <2>1. w # u /\ stage[w] = "none"
    BY <1>3, <1>4
  <2>2. ~(w < u)
    BY <1>2, <2>1 DEF Calls
  <2>3. \A x \in Calls : w < x => x # u /\ stage[x] = "none"
    BY <2>1, <2>2 DEF Begun
  <2> QED BY <1>3, <2>3
<1>5. \A w \in Calls : stage'[w] = "none" => id'[w] = w
  BY <1>3 DEF Begun
<1>6. \A w \in Calls : id'[w] \in 1..w
  BY <1>3 DEF Begun
<1>7. \A w \in Calls : /\ shown'[w] # NoCommand => stage'[w] \notin {"none", "proposed"}
                       /\ stage'[w] = "presented" => shown'[w] # NoCommand
  BY <1>2, <1>3 DEF Begun
<1> QED BY <1>4, <1>5, <1>6, <1>7 DEF Begun

\* A step of a call that has begun.
LEMMA OnBegun ==
    ASSUME TypeOK, Begun, NEW u \in Calls, stage[u] # "none", UNCHANGED id,
           NEW s \in {"presented", "decided", "over"}, stage' = [stage EXCEPT ![u] = s],
           \A w \in Calls \ {u} : shown'[w] = shown[w],
           s = "presented" => shown'[u] # NoCommand
    PROVE  Begun'
<1>1. stage'[u] = s /\ \A w \in Calls \ {u} : stage'[w] = stage[w]
  BY DEF TypeOK
<1>2. \A w \in Calls : stage'[w] = "none" <=> stage[w] = "none"
  BY <1>1
<1>3. \A w \in Calls : /\ shown'[w] # NoCommand => stage'[w] \notin {"none", "proposed"}
                       /\ stage'[w] = "presented" => shown'[w] # NoCommand
  BY <1>1 DEF Begun
<1>4. \A w \in Calls : /\ id'[w] \in 1..w
                       /\ stage'[w] = "none" => id'[w] = w /\ \A x \in Calls : w < x => stage'[x] = "none"
  BY <1>2 DEF Begun
<1> QED BY <1>3, <1>4 DEF Begun

LEMMA NextBegun == TypeOK /\ Begun /\ [Next]_vars => Begun'
<1> SUFFICES ASSUME TypeOK, Begun, [Next]_vars PROVE Begun'
  OBVIOUS
<1>1. ASSUME NEW u \in Calls, Present(u) PROVE Begun'
  <2>1. PICK c \in Commands : shown' = [shown EXCEPT ![u] = c]
    BY <1>1 DEF Present
  <2>2. /\ stage[u] # "none" /\ UNCHANGED id /\ stage' = [stage EXCEPT ![u] = "presented"]
        /\ \A w \in Calls \ {u} : shown'[w] = shown[w]
        /\ shown'[u] # NoCommand
    BY <1>1, <2>1, CommandsApart DEF Present, TypeOK
  <2> QED BY <2>2, OnBegun
<1>2. ASSUME NEW u \in Calls, Answer(u) \/ Automatic(u) PROVE Begun'
  <2>1. /\ stage[u] # "none" /\ UNCHANGED <<id, shown>>
        /\ stage' = [stage EXCEPT ![u] = "decided"]
    BY <1>2, AnswerDecides DEF Decide
  <2> QED BY <2>1, OnBegun
<1>3. ASSUME NEW u \in Calls, Run(u) \/ Skip(u) PROVE Begun'
  <2>1. /\ stage[u] # "none" /\ UNCHANGED <<id, shown>>
        /\ stage' = [stage EXCEPT ![u] = "over"]
    BY <1>3 DEF Run, Skip
  <2> QED BY <2>1, OnBegun
<1>4. ASSUME UNCHANGED <<stage, id, shown>> PROVE Begun'
  BY <1>4 DEF Begun
<1>5. CASE EndSession \/ Judge \/ UNCHANGED vars
  BY <1>4, <1>5 DEF EndSession, Judge, vars, world
<1>6. ASSUME NEW r \in hooks, Overtaken(r) PROVE Begun'
  BY <1>4, <1>6 DEF Overtaken, world
<1> QED BY <1>1, <1>2, <1>3, <1>5, <1>6, ProposeBegun DEF Next

LEMMA NextTimely == TypeOK /\ Timely /\ [Next]_vars => Timely'
<1> SUFFICES ASSUME TypeOK, Timely, [Next]_vars PROVE Timely'
  OBVIOUS
<1>1. ASSUME NEW u \in Calls, Propose(u) PROVE Timely'
  <2>1. PICK c \in Commands, o \in Origins, i \in 1..u : \E n : Hook("PreToolUse", i, o, c, n)
    BY <1>1 DEF Propose
  <2>2. i \in Calls
    BY CallAssumption DEF Calls
  <2> QED BY <2>1, <2>2, HookTimely DEF Events
<1>2. ASSUME NEW u \in Calls, Present(u) PROVE Timely'
  <2>1. PICK c \in Commands : \E n : Hook("PermissionRequest", NoId, origin[u], c, n)
    BY <1>2 DEF Present
  <2>2. origin[u] \in Origins
    BY DEF TypeOK
  <2> QED BY <2>1, <2>2, HookTimely DEF Events
<1>3. ASSUME NEW u \in Calls, Answer(u) \/ Automatic(u) PROVE Timely'
  BY <1>3, AnswerDecides, QuietTimely DEF Decide, Deliver
<1>4. ASSUME NEW u \in Calls, Run(u) PROVE Timely'
  <2>1. PICK c \in Commands, e \in {"PostToolUse", "PostToolUseFailure"} :
           \E n : Hook(e, id[u], origin[u], c, n)
    BY <1>4 DEF Run
  <2>2. origin[u] \in Origins /\ id[u] \in Calls
    BY DEF TypeOK
  <2> QED BY <2>1, <2>2, HookTimely DEF Events
<1>5. ASSUME NEW u \in Calls, Skip(u) PROVE Timely'
  BY <1>5, QuietTimely DEF Skip, evidence
<1>6. CASE EndSession
  <2>1. \E n : Hook("SessionEnd", NoId, "probe", NoCommand, n)
    BY <1>6 DEF EndSession
  <2> QED BY <2>1, HookTimely DEF Events, Origins
<1>7. CASE Judge \/ UNCHANGED vars
  BY <1>7, QuietTimely DEF Judge, vars, evidence
<1> QED BY <1>1, <1>2, <1>3, <1>4, <1>5, <1>6, <1>7, OvertakenTimely DEF Next
-----------------------------------------------------------------------------
(***************************************************************************)
(* The books: under any ids there are as many proposals, on record or on   *)
(* their way, as calls were made, and as many prompts with any commands as *)
(* calls were presented with them.                                         *)
(***************************************************************************)
Proposers(X) == {u \in Calls : stage[u] # "none" /\ id[u] \in X}
Shows == Commands \cup {NoCommand}
ProposalsOf(X) == {"PreToolUse"} \X X \X Shows
PromptsOf(C) == {"PermissionRequest"} \X (Calls \cup {NoId}) \X C
Presented(C) == {u \in Calls : shown[u] # NoCommand /\ shown[u] \in C}
Ledger ==
    /\ \A X \in SUBSET Calls : Booked(ProposalsOf(X)) = Cardinality(Proposers(X))
    /\ \A C \in SUBSET Shows : Booked(PromptsOf(C)) = Cardinality(Presented(C))

LEMMA CallsAreFinite ==
    /\ IsFiniteSet(Calls)
    /\ \A S \in SUBSET Calls : IsFiniteSet(S) /\ Cardinality(S) \in Nat
<1>1. IsFiniteSet(Calls)
  BY FS_Interval, CallAssumption DEF Calls
<1> QED BY <1>1, FS_Subset, FS_CardinalityType

LEMMA QuietLedger ==
    ASSUME Ledger, UNCHANGED <<hooks, records, id, shown>>,
           \A u \in Calls : stage'[u] = "none" <=> stage[u] = "none"
    PROVE  Ledger'
<1>1. \A Q : Lines(Q)' = Lines(Q) /\ Waiting(Q)' = Waiting(Q)
  BY DEF Lines, Waiting
<1>2. \A Q : Booked(Q)' = Booked(Q)
  BY <1>1 DEF Booked
<1>3. \A X : Proposers(X)' = Proposers(X) /\ Presented(X)' = Presented(X)
  BY DEF Proposers, Presented
<1> QED BY <1>2, <1>3 DEF Ledger

LEMMA ProposeLedger ==
    ASSUME TypeOK, Timely, Ledger, NEW u \in Calls, Propose(u) PROVE Ledger'
<1>1. PICK c \in Commands, o \in Origins, i \in 1..u :
        /\ stage' = [stage EXCEPT ![u] = "proposed"] /\ id' = [id EXCEPT ![u] = i]
        /\ \E n : Hook("PreToolUse", i, o, c, n)
  BY DEF Propose
<1>2. i \in Calls /\ "PreToolUse" \in Events
  BY CallAssumption DEF Calls, Events
<1>3. \A Q : Booked(Q)' = Booked(Q) + (IF <<"PreToolUse", i, c>> \in Q THEN 1 ELSE 0)
  BY <1>1, <1>2, HookBooked
<1>4. /\ stage[u] = "none" /\ stage'[u] = "proposed" /\ id'[u] = i /\ shown' = shown
      /\ \A w \in Calls \ {u} : stage'[w] = stage[w] /\ id'[w] = id[w]
  BY <1>1, <1>2 DEF TypeOK, Propose
<1>5. ASSUME NEW X \in SUBSET Calls PROVE Booked(ProposalsOf(X))' = Cardinality(Proposers(X)')
  <2>1. /\ i \in X => Proposers(X)' = Proposers(X) \cup {u}
        /\ i \notin X => Proposers(X)' = Proposers(X)
        /\ u \notin Proposers(X)
    BY <1>4 DEF Proposers
  <2>2. IsFiniteSet(Proposers(X))
    BY CallsAreFinite DEF Proposers
  <2>3. Cardinality(Proposers(X) \cup {u}) = Cardinality(Proposers(X)) + 1
        /\ Cardinality(Proposers(X)) \in Nat
    BY <2>1, <2>2, FS_AddElement, FS_CardinalityType
  <2>4. <<"PreToolUse", i, c>> \in ProposalsOf(X) <=> i \in X
    BY DEF ProposalsOf, Shows
  <2>5. Booked(ProposalsOf(X)) = Cardinality(Proposers(X))
    BY DEF Ledger
  <2>6. CASE i \in X
    <3>1. Booked(ProposalsOf(X))' = Booked(ProposalsOf(X)) + 1
      BY <1>3, <2>4, <2>6
    <3> QED BY <2>1, <2>3, <2>5, <2>6, <3>1
  <2>7. CASE i \notin X
    <3>1. Booked(ProposalsOf(X))' = Booked(ProposalsOf(X)) + 0
      BY <1>3, <2>4, <2>7
    <3> QED BY <2>1, <2>3, <2>5, <2>7, <3>1
  <2> QED BY <2>6, <2>7
<1>6. ASSUME NEW C \in SUBSET Shows PROVE Booked(PromptsOf(C))' = Cardinality(Presented(C)')
  <2>1. Presented(C)' = Presented(C)
    BY <1>4 DEF Presented
  <2>2. <<"PreToolUse", i, c>> \notin PromptsOf(C)
    BY DEF PromptsOf
  <2>3. Booked(PromptsOf(C)) = Cardinality(Presented(C)) /\ Booked(PromptsOf(C)) \in Nat
    BY BookedTyped DEF Ledger, Timely
  <2>4. Booked(PromptsOf(C))' = Booked(PromptsOf(C)) + 0
    BY <1>3, <2>2
  <2> QED BY <2>1, <2>3, <2>4
<1> QED BY <1>5, <1>6 DEF Ledger

LEMMA PresentLedger ==
    ASSUME TypeOK, Timely, Begun, Ledger, NEW u \in Calls, Present(u) PROVE Ledger'
<1>1. PICK c \in Commands :
        /\ stage' = [stage EXCEPT ![u] = "presented"] /\ shown' = [shown EXCEPT ![u] = c]
        /\ \E n : Hook("PermissionRequest", NoId, origin[u], c, n)
  BY DEF Present
<1>2. origin[u] \in Origins /\ "PermissionRequest" \in Events
  BY DEF TypeOK, Events
<1>3. \A Q : Booked(Q)' = Booked(Q) + (IF <<"PermissionRequest", NoId, c>> \in Q THEN 1 ELSE 0)
  BY <1>1, <1>2, HookBooked
<1>4. /\ stage[u] = "proposed" /\ stage'[u] = "presented" /\ id' = id
      /\ shown'[u] = c /\ shown[u] = NoCommand
      /\ \A w \in Calls \ {u} : stage'[w] = stage[w] /\ shown'[w] = shown[w]
  BY <1>1 DEF TypeOK, Present, Begun
<1>5. ASSUME NEW X \in SUBSET Calls PROVE Booked(ProposalsOf(X))' = Cardinality(Proposers(X)')
  <2>1. Proposers(X)' = Proposers(X)
    BY <1>4 DEF Proposers
  <2>2. <<"PermissionRequest", NoId, c>> \notin ProposalsOf(X)
    BY DEF ProposalsOf
  <2>3. Booked(ProposalsOf(X)) = Cardinality(Proposers(X)) /\ Booked(ProposalsOf(X)) \in Nat
    BY BookedTyped DEF Ledger, Timely
  <2>4. Booked(ProposalsOf(X))' = Booked(ProposalsOf(X)) + 0
    BY <1>3, <2>2
  <2> QED BY <2>1, <2>3, <2>4
<1>6. ASSUME NEW C \in SUBSET Shows PROVE Booked(PromptsOf(C))' = Cardinality(Presented(C)')
  <2>1. /\ c \in C => Presented(C)' = Presented(C) \cup {u}
        /\ c \notin C => Presented(C)' = Presented(C)
        /\ u \notin Presented(C)
    BY <1>4, CommandsApart DEF Presented
  <2>2. IsFiniteSet(Presented(C))
    BY CallsAreFinite DEF Presented
  <2>3. Cardinality(Presented(C) \cup {u}) = Cardinality(Presented(C)) + 1
        /\ Cardinality(Presented(C)) \in Nat
    BY <2>1, <2>2, FS_AddElement, FS_CardinalityType
  <2>4. <<"PermissionRequest", NoId, c>> \in PromptsOf(C) <=> c \in C
    BY DEF PromptsOf
  <2>5. Booked(PromptsOf(C)) = Cardinality(Presented(C))
    BY DEF Ledger
  <2>6. CASE c \in C
    <3>1. Booked(PromptsOf(C))' = Booked(PromptsOf(C)) + 1
      BY <1>3, <2>4, <2>6
    <3> QED BY <2>1, <2>3, <2>5, <2>6, <3>1
  <2>7. CASE c \notin C
    <3>1. Booked(PromptsOf(C))' = Booked(PromptsOf(C)) + 0
      BY <1>3, <2>4, <2>7
    <3> QED BY <2>1, <2>3, <2>5, <2>7, <3>1
  <2> QED BY <2>6, <2>7
<1> QED BY <1>5, <1>6 DEF Ledger

\* A hook that tells of neither.
LEMMA OtherLedger ==
    ASSUME TypeOK, Timely, Ledger, NEW e \in Events \ {"PreToolUse", "PermissionRequest"},
           NEW i \in Calls \cup {NoId}, NEW o \in Origins, NEW c \in Commands \cup {NoCommand},
           NEW n, Hook(e, i, o, c, n), UNCHANGED <<id, shown>>,
           \A u \in Calls : stage'[u] = "none" <=> stage[u] = "none"
    PROVE  Ledger'
<1>1. \A Q : Booked(Q)' = Booked(Q) + (IF <<e, i, c>> \in Q THEN 1 ELSE 0)
  BY HookBooked
<1>2. \A X : Proposers(X)' = Proposers(X) /\ Presented(X)' = Presented(X)
  BY DEF Proposers, Presented
<1>3. \A X : <<e, i, c>> \notin ProposalsOf(X) /\ <<e, i, c>> \notin PromptsOf(X)
  BY DEF ProposalsOf, PromptsOf
<1>4. \A Q : Booked(Q) \in Nat
  BY BookedTyped DEF Timely
<1>5. \A X : /\ Booked(ProposalsOf(X))' = Booked(ProposalsOf(X)) + 0
             /\ Booked(PromptsOf(X))' = Booked(PromptsOf(X)) + 0
  BY <1>1, <1>3
<1>6. \A X : /\ Booked(ProposalsOf(X))' = Booked(ProposalsOf(X))
             /\ Booked(PromptsOf(X))' = Booked(PromptsOf(X))
  BY <1>4, <1>5
<1> QED BY <1>2, <1>6 DEF Ledger

LEMMA NextLedger == TypeOK /\ Timely /\ Begun /\ Ledger /\ [Next]_vars => Ledger'
<1> SUFFICES ASSUME TypeOK, Timely, Begun, Ledger, [Next]_vars PROVE Ledger'
  OBVIOUS
<1>1. ASSUME NEW u \in Calls, Answer(u) \/ Automatic(u) PROVE Ledger'
  <2>1. stage' = [stage EXCEPT ![u] = "decided"] /\ UNCHANGED <<hooks, records, id, shown>>
        /\ stage[u] # "none"
    BY <1>1, AnswerDecides DEF Decide, Deliver
  <2> QED BY <2>1, QuietLedger DEF TypeOK
<1>2. ASSUME NEW u \in Calls, Run(u) PROVE Ledger'
  <2>1. PICK c \in Commands, e \in {"PostToolUse", "PostToolUseFailure"} :
           (\E n : Hook(e, id[u], origin[u], c, n)) /\ UNCHANGED <<id, shown>>
           /\ stage' = [stage EXCEPT ![u] = "over"] /\ stage[u] # "none"
    BY <1>2 DEF Run
  <2>2. origin[u] \in Origins /\ id[u] \in Calls
        /\ \A w \in Calls : stage'[w] = "none" <=> stage[w] = "none"
    BY <2>1 DEF TypeOK
  <2>3. e \in Events \ {"PreToolUse", "PermissionRequest"}
    BY DEF Events
  <2> QED BY <2>1, <2>2, <2>3, OtherLedger
<1>3. ASSUME NEW u \in Calls, Skip(u) PROVE Ledger'
  BY <1>3, QuietLedger DEF Skip, evidence, TypeOK
<1>4. CASE EndSession
  <2>1. PICK n : Hook("SessionEnd", NoId, "probe", NoCommand, n) /\ UNCHANGED <<id, shown, stage>>
    BY <1>4 DEF EndSession
  <2> QED BY <2>1, OtherLedger DEF Events, Origins
<1>5. ASSUME NEW r \in hooks, Overtaken(r) PROVE Ledger'
  <2>1. \A Q : Booked(Q)' = Booked(Q)
    BY <1>5, OvertakenBooked
  <2>2. \A X : Proposers(X)' = Proposers(X) /\ Presented(X)' = Presented(X)
    BY <1>5 DEF Overtaken, world, Proposers, Presented
  <2> QED BY <2>1, <2>2 DEF Ledger
<1>6. CASE Judge \/ UNCHANGED vars
  BY <1>6, QuietLedger DEF Judge, vars, world, evidence
<1> QED BY <1>1, <1>2, <1>3, <1>4, <1>5, <1>6, ProposeLedger, PresentLedger DEF Next

LEMMA InitBooked == Init => Timely /\ Begun /\ Ledger
<1> SUFFICES ASSUME Init PROVE Timely /\ Begun /\ Ledger
  OBVIOUS
<1>1. /\ hooks = {} /\ records = <<>>
      /\ \A u \in Calls : stage[u] = "none" /\ id[u] = u /\ shown[u] = NoCommand
  BY DEF Init
<1>2. IsFiniteSet({}) /\ Cardinality({}) = 0
  BY FS_EmptySet
<1>3. Timely
  <2>1. Traces = {}
    BY <1>1 DEF Traces
  <2> QED BY <1>1, <1>2, <2>1 DEF Timely
<1>4. Begun
  BY <1>1 DEF Begun, Calls
<1>5. Ledger
  <2>1. \A Q : Lines(Q) = {} /\ Waiting(Q) = {}
    BY <1>1 DEF Lines, Waiting
  <2>2. \A Q : Booked(Q) = 0
    BY <1>2, <2>1 DEF Booked
  <2>3. /\ \A X \in SUBSET Calls : Proposers(X) = {}
        /\ \A C \in SUBSET Shows : Presented(C) = {}
    BY <1>1, CommandsApart DEF Proposers, Presented
  <2> QED BY <1>2, <2>2, <2>3 DEF Ledger
<1> QED BY <1>3, <1>4, <1>5
-----------------------------------------------------------------------------
(***************************************************************************)
(* A call proposes once, so that one whose id is its own has one proposal. *)
(***************************************************************************)
LEMMA AllProposals ==
    ASSUME TypeOK, Link
    PROVE  Proposals(records) = Lines(ProposalsOf(Calls))
<1>1. ASSUME NEW i \in Proposals(records) PROVE i \in Lines(ProposalsOf(Calls))
  <2>1. i \in DOMAIN records /\ records[i].event = "PreToolUse" /\ records[i] \in Traces
    BY DEF Proposals, EventAt, Traces
  <2>2. records[i].id \in Calls
    BY <2>1 DEF Link, ProposalsAreReal, TypeOK
  <2>3. records[i].command \in Shows
    <3>1. records[i] \in Record
      BY <2>1 DEF TypeOK
    <3> QED BY <3>1 DEF Record, Shows
  <2> QED BY <2>1, <2>2, <2>3 DEF Lines, Key, ProposalsOf
<1>2. ASSUME NEW i \in Lines(ProposalsOf(Calls)) PROVE i \in Proposals(records)
  BY DEF Lines, Key, ProposalsOf, Proposals, EventAt
<1> QED BY <1>1, <1>2

LEMMA Pair == \A x, y : x # y => IsFiniteSet({x, y}) /\ Cardinality({x, y}) = 2
<1> SUFFICES ASSUME NEW x, NEW y, x # y PROVE IsFiniteSet({x, y}) /\ Cardinality({x, y}) = 2
  OBVIOUS
<1>1. IsFiniteSet({x}) /\ Cardinality({x}) = 1 /\ {x} \cup {y} = {x, y} /\ y \notin {x}
  BY FS_Singleton
<1>2. IsFiniteSet({x} \cup {y}) /\ Cardinality({x} \cup {y}) = Cardinality({x}) + 1
  BY <1>1, FS_AddElement
<1> QED BY <1>1, <1>2

\* The proposal of a call that shares its id with no other is the only one
\* on record under this id.
LEMMA AloneIsUnique ==
    ASSUME TypeOK, Timely, Ledger, NEW u \in Calls, Alone(u),
           NEW i \in Proposals(records), records[i].id = id[u]
    PROVE  IsUnique(records, i)
<1> DEFINE X == {id[u]}
           L == Lines(ProposalsOf(X))
<1>1. id[u] \in Calls
  BY DEF TypeOK
<1>2. /\ IsFiniteSet(L) /\ Cardinality(L) \in Nat
      /\ Cardinality(Proposers(X)) \in Nat /\ Cardinality(L) <= Cardinality(Proposers(X))
  <2>1. Booked(ProposalsOf(X)) = Cardinality(Proposers(X))
    BY <1>1 DEF Ledger
  <2>2. Cardinality(Proposers(X)) \in Nat
    BY CallsAreFinite DEF Proposers
  <2> QED BY <2>1, <2>2, BookedTyped DEF Timely, Booked
<1>3. Cardinality(Proposers(X)) <= 1
  <2>1. Proposers(X) \subseteq {u}
    BY DEF Proposers, Alone
  <2>2. IsFiniteSet({u}) /\ Cardinality({u}) = 1
    BY FS_Singleton
  <2> QED BY <2>1, <2>2, FS_Subset
<1>4. Cardinality(L) <= 1
  <2> HIDE DEF X, L
  <2> QED BY <1>2, <1>3
<1>5. ASSUME NEW j \in Proposals(records), records[j].id = id[u], j # i PROVE FALSE
  <2>1. \A k \in Proposals(records) : k \in DOMAIN records /\ records[k].event = "PreToolUse"
                                      /\ records[k].command \in Shows
    <3>1. \A k \in DOMAIN records : records[k] \in Record
      BY DEF TypeOK
    <3> QED BY <3>1 DEF Proposals, EventAt, Record, Shows
  <2>2. {i, j} \subseteq L
    BY <1>5, <2>1 DEF Lines, Key, ProposalsOf
  <2>3. Cardinality({i, j}) = 2
    BY <1>5, Pair
  <2> HIDE DEF L
  <2>4. Cardinality({i, j}) <= Cardinality(L)
    BY <1>2, <2>2, FS_Subset
  <2> QED BY <1>2, <1>4, <2>3, <2>4
<1> QED BY <1>5 DEF IsUnique

\* The analysis finds the rejection and the outcome of a call that ran
\* although it was rejected, whatever became of the rest of the evidence.
LEMMA BypassIsFound ==
    ASSUME TypeOK, Link, Timely, Ledger, NEW u \in Calls, Bypass(u), Alone(u), OnRecord(u)
    PROVE  \E i \in Checked(records) : Bypassed(records, decisions, i)
<1>1. PICK i \in Proposals(records) : records[i].id = id[u]
  BY DEF OnRecord
<1>2. PICK j \in Terminals(records) : records[j].id = id[u]
  BY DEF OnRecord
<1>3. i \in DOMAIN records /\ records[i] \in Traces /\ records[i].event = "PreToolUse"
  BY DEF Proposals, EventAt, Traces
<1>4. records[j] \in Traces /\ IsTerminal(records[j])
  BY DEF Terminals, EventAt, Traces, IsTerminal
<1>5. records[i].origin = origin[u] /\ records[j].origin = origin[u]
  BY <1>1, <1>2, <1>3, <1>4 DEF Link, ProposalsAreReal, OutcomesAreReal, Alone
<1>6. j \in Outcomes(records, i)
  BY <1>1, <1>2, <1>5 DEF Outcomes, OfCall, SameOrigin
<1>7. ruling[u] # NoDecision /\ ruling[u].verdict = "reject"
  BY DEF Bypass, NoDecision
<1>8. DecisionOf(records, decisions, i) = ruling[u]
  <2> DEFINE own == {d \in decisions : d.id = records[i].id /\ d.origin = records[i].origin}
  <2>1. ruling[u].origin = origin[u]
    BY <1>7 DEF Link, RulingsMatch
  <2>2. own = {ruling[u]}
    BY <1>1, <1>5, <2>1 DEF OnRecord
  <2>3. DecisionOf(records, decisions, i) = TheOnly(own, NoDecision)
    BY <1>3 DEF DecisionOf, TypeOK
  <2> HIDE DEF own
  <2> QED BY <2>2, <2>3 DEF TheOnly
<1>9. i \in Checked(records)
  BY <1>1, AloneIsUnique DEF Checked
<1> QED BY <1>6, <1>7, <1>8, <1>9 DEF Bypassed

LEMMA BypassFails ==
    ASSUME TypeOK, Link, Timely, Ledger, VerdictStands, ~TooMany(records) PROVE RejectedRunFails
<1> SUFFICES ASSUME session = "judged", NEW u \in Calls, Bypass(u), Alone(u), OnRecord(u)
             PROVE  verdict = "FAIL"
  BY DEF RejectedRunFails
<1>1. IntegrityFails(records, decisions)
  BY BypassIsFound DEF IntegrityFails
<1> QED BY <1>1 DEF VerdictStands, StatusOf, Fails

LEMMA Invariants == Spec => [](TypeOK /\ Link /\ VerdictStands /\ Timely /\ Begun /\ Ledger)
<1> DEFINE IInv == TypeOK /\ Link /\ VerdictStands /\ Timely /\ Begun /\ Ledger
<1>1. Init => IInv
  BY InitTyped, InitLinked, InitBooked DEF Init, VerdictStands
<1>2. IInv /\ [Next]_vars => IInv'
  BY NextTyped, NextLinked, NextStands, NextTimely, NextBegun, NextLedger
<1> QED BY <1>1, <1>2, PTL DEF Spec

\* A rejected call that is on record to have run makes the session FAIL, of
\* any number of calls and of departures, unless more than four proposals
\* are on record: these end the checks before any call is looked at.
THEOREM RejectionsFail == Spec => [](~TooMany(records) => RejectedRunFails)
<1>1. TypeOK /\ Link /\ VerdictStands /\ Timely /\ Ledger => (~TooMany(records) => RejectedRunFails)
  BY BypassFails
<1> QED BY <1>1, Invariants, PTL

\* A session of four calls leaves no more than four proposals, so that its
\* rejections stand without condition.
THEOREM FourProbesFail == MaxCalls = Len(Expected) => (Spec => []RejectedRunFails)
<1> SUFFICES ASSUME MaxCalls = Len(Expected) PROVE Spec => []RejectedRunFails
  OBVIOUS
<1>1. ASSUME TypeOK, Link, Timely, Ledger PROVE ~TooMany(records)
  <2> DEFINE L == Lines(ProposalsOf(Calls))
  <2>1. /\ Cardinality(L) \in Nat /\ Cardinality(Proposers(Calls)) \in Nat
        /\ Cardinality(L) <= Cardinality(Proposers(Calls))
    <3>1. Booked(ProposalsOf(Calls)) = Cardinality(Proposers(Calls))
      BY <1>1 DEF Ledger
    <3>2. Cardinality(Proposers(Calls)) \in Nat
      BY CallsAreFinite DEF Proposers
    <3> QED BY <1>1, <3>1, <3>2, BookedTyped DEF Timely, Booked
  <2>2. Cardinality(Proposers(Calls)) <= Len(Expected)
    <3>1. Proposers(Calls) \subseteq Calls
      BY DEF Proposers
    <3>2. Calls = 1..4 /\ Len(Expected) = 4
      BY DEF Calls, Expected
    <3>3. IsFiniteSet(Calls) /\ Cardinality(Calls) = Len(Expected)
      <4>1. \A n \in Nat \ {0} : IsFiniteSet(1..n) /\ Cardinality(1..n) = n
        BY FS_Interval
      <4>2. MaxCalls \in Nat \ {0} /\ MaxCalls = Len(Expected)
        BY <3>2
      <4> QED BY <4>1, <4>2 DEF Calls
    <3> QED BY <3>1, <3>3, FS_Subset
  <2>3. L = Proposals(records)
    BY <1>1, AllProposals
  <2> HIDE DEF L
  <2> QED BY <2>1, <2>2, <2>3 DEF TooMany, Expected
<1>2. TypeOK /\ Link /\ VerdictStands /\ Timely /\ Ledger => RejectedRunFails
  BY <1>1, BypassFails
<1> QED BY <1>2, Invariants, PTL
-----------------------------------------------------------------------------
(***************************************************************************)
(* The debt: what a session has against it, each of which took a departure *)
(* of its own.  A file that is out of order, or of calls that overlapped,  *)
(* counts as one; a hook that is delayed is set against that one when it   *)
(* appends after all.                                                      *)
(***************************************************************************)
Wrong == {u \in Calls : stage[u] # "none" /\ ~(u \in Probes /\ command[u] = Expected[u])}
Reused == {u \in Calls : id[u] # u}
Misshown == {u \in Calls : shown[u] \notin {NoCommand, command[u]}}
Unasked == {u \in Calls : stage[u] \in {"decided", "over"} /\ shown[u] = NoCommand}

\* Each hook is of one call, and the calls come one after the other.
Told(r) == r.event \in {"PreToolUse", "PermissionRequest"}
IsOwner(owner) ==
    /\ \A r \in Traces : r.event = "PreToolUse" =>
          LET u == owner[r.time]
          IN  stage[u] # "none" /\ r.id = id[u] /\ r.command = command[u]
    /\ \A r \in Traces : r.event = "PermissionRequest" =>
          LET u == owner[r.time]
          IN  shown[u] # NoCommand /\ r.command = shown[u]
    /\ \A u \in Calls : shown[u] # NoCommand =>
          \E r \in Traces : r.event = "PermissionRequest" /\ owner[r.time] = u
    /\ \A q, r \in Traces : Told(q) /\ Told(r) /\ q.time < r.time =>
          /\ owner[q.time] <= owner[r.time]
          /\ r.event = "PreToolUse" => owner[q.time] # owner[r.time]
InTurn == \A u \in Busy, w \in Calls : u < w => stage[w] = "none"
Straight == ~late /\ InTurn /\ \E owner \in [Nat -> Calls] : IsOwner(owner)

Debt ==
    Cardinality(Wrong) + Cardinality(Reused) + Cardinality(Misshown) + Cardinality(Unasked)
    + Cardinality(hooks) + Cost(Straight) <= oddities

LEMMA OneMore ==
    ASSUME NEW S, IsFiniteSet(S), NEW T, NEW x, T \subseteq S \cup {x}
    PROVE  IsFiniteSet(T) /\ Cardinality(T) <= Cardinality(S) + 1
<1>1. /\ IsFiniteSet(S \cup {x})
      /\ Cardinality(S \cup {x}) = Cardinality(S) \/ Cardinality(S \cup {x}) = Cardinality(S) + 1
      /\ Cardinality(S) \in Nat
  BY FS_AddElement, FS_CardinalityType
<1>2. IsFiniteSet(T) /\ Cardinality(T) <= Cardinality(S \cup {x}) /\ Cardinality(T) \in Nat
  BY <1>1, FS_Subset, FS_CardinalityType
<1> QED BY <1>1, <1>2

\* What a hook tells and what it costs.
LEMMA HookTells ==
    ASSUME TypeOK, Timely, NEW e \in Events, NEW i \in Calls \cup {NoId}, NEW o \in Origins,
           NEW c \in Commands \cup {NoCommand}, NEW n \in Nat, Hook(e, i, o, c, n)
    PROVE  /\ late' = late
           /\ \E r \in Record : /\ r.event = e /\ r.id = i /\ r.command = c /\ r.time = clock
                                /\ Traces' = Traces \cup {r}
           /\ IsFiniteSet(hooks') /\ Cardinality(hooks') \in Nat /\ oddities' \in Nat
           /\ Cardinality(hooks') + n + oddities <= Cardinality(hooks) + oddities'
<1> DEFINE r == [event |-> e, id |-> i, origin |-> o, command |-> c, time |-> clock]
<1>1. /\ r \in Record /\ r.event = e /\ r.id = i /\ r.command = c /\ r.time = clock
  BY DEF TypeOK, Record
<1>2. /\ late' = late
      /\ \/ records' = Append(records, r) /\ hooks' = hooks /\ Odd(n)
         \/ hooks' = hooks \cup {r} /\ records' = records /\ Odd(n + 1)
  BY DEF Hook
<1>3. IsFiniteSet(hooks) /\ Cardinality(hooks) \in Nat /\ oddities \in Nat
  BY FS_CardinalityType, OddityAssumption DEF Timely, TypeOK
<1> HIDE DEF r
<1>4. CASE records' = Append(records, r) /\ hooks' = hooks /\ Odd(n)
  <2>1. /\ DOMAIN records' = DOMAIN records \cup {Len(records) + 1}
        /\ \A l \in DOMAIN records : records'[l] = records[l]
        /\ records'[Len(records) + 1] = r
    BY <1>1, <1>4, LineBooked
  <2>2. Traces' = Traces \cup {r}
    BY <1>4, <2>1 DEF Traces
  <2>3. oddities' = oddities + n /\ hooks' = hooks
    BY <1>4 DEF Odd
  <2> QED BY <1>1, <1>2, <1>3, <2>2, <2>3
<1>5. CASE hooks' = hooks \cup {r} /\ records' = records /\ Odd(n + 1)
  <2>1. Traces' = Traces \cup {r}
    BY <1>5 DEF Traces
  <2>2. oddities' = oddities + (n + 1)
    BY <1>5 DEF Odd
  <2>3. hooks' \subseteq hooks \cup {r}
    BY <1>5
  <2>4. IsFiniteSet(hooks') /\ Cardinality(hooks') <= Cardinality(hooks) + 1
        /\ Cardinality(hooks') \in Nat
    BY <1>3, <2>3, OneMore, FS_CardinalityType
  <2> QED BY <1>1, <1>2, <1>3, <2>1, <2>2, <2>4
<1> QED BY <1>2, <1>4, <1>5

LEMMA TracesTyped == TypeOK => \A r \in Traces : r \in Record /\ r.time \in Nat
<1> SUFFICES ASSUME TypeOK, NEW r \in Traces PROVE r \in Record
  BY DEF Record
<1> QED BY DEF Traces, TypeOK

LEMMA StraightKept ==
    ASSUME TypeOK, Straight, ~late', InTurn', Traces \subseteq Traces',
           \A r \in Traces' : r \in Traces \/ ~Told(r),
           UNCHANGED <<id, command, shown>>,
           \A u \in Calls : stage'[u] = "none" <=> stage[u] = "none"
    PROVE  Straight'
<1>1. PICK owner \in [Nat -> Calls] : IsOwner(owner)
  BY DEF Straight
<1>2. \A r \in Traces' : Told(r) => r \in Traces
  OBVIOUS
<1>3. \A r \in Traces' : r.event = "PreToolUse" =>
          stage'[owner[r.time]] # "none" /\ r.id = id'[owner[r.time]] /\ r.command = command'[owner[r.time]]
  <2> SUFFICES ASSUME NEW r \in Traces', r.event = "PreToolUse"
               PROVE  stage'[owner[r.time]] # "none" /\ r.id = id'[owner[r.time]]
                      /\ r.command = command'[owner[r.time]]
    OBVIOUS
  <2>1. r \in Traces
    BY <1>2 DEF Told
  <2>2. owner[r.time] \in Calls
    BY <2>1, TracesTyped
  <2> QED BY <1>1, <2>1, <2>2 DEF IsOwner
<1>4. \A r \in Traces' : r.event = "PermissionRequest" =>
          shown'[owner[r.time]] # NoCommand /\ r.command = shown'[owner[r.time]]
  BY <1>1, <1>2 DEF IsOwner, Told
<1>5. \A u \in Calls : shown'[u] # NoCommand =>
          \E r \in Traces' : r.event = "PermissionRequest" /\ owner[r.time] = u
  BY <1>1 DEF IsOwner
<1>6. \A q, r \in Traces' : Told(q) /\ Told(r) /\ q.time < r.time =>
          /\ owner[q.time] <= owner[r.time]
          /\ r.event = "PreToolUse" => owner[q.time] # owner[r.time]
  BY <1>1, <1>2 DEF IsOwner
<1>7. IsOwner(owner)'
  BY <1>3, <1>4, <1>5, <1>6 DEF IsOwner, Told
<1> QED BY <1>7 DEF Straight

\* Calls that overlap with none keep their turn.
LEMMA ProposeStraight ==
    ASSUME TypeOK, Timely, Begun, Straight, Busy = {}, NEW u \in Calls, Propose(u)
    PROVE  Straight'
<1>1. PICK owner \in [Nat -> Calls] : IsOwner(owner)
  BY DEF Straight
<1>2. PICK c \in Commands, o \in Origins, i \in 1..u :
        /\ stage' = [stage EXCEPT ![u] = "proposed"] /\ id' = [id EXCEPT ![u] = i]
        /\ command' = [command EXCEPT ![u] = c]
        /\ Hook("PreToolUse", i, o, c,
                Cost(u \in Probes /\ c = Expected[u]) + Cost(o = "probe")
                + Cost(i = u) + Cost(Busy = {}))
  BY DEF Propose
<1>3. i \in Calls /\ "PreToolUse" \in Events
  BY CallAssumption DEF Calls, Events
<1> DEFINE n == Cost(u \in Probes /\ c = Expected[u]) + Cost(o = "probe")
                + Cost(i = u) + Cost(Busy = {})
<1>4. n \in Nat
  BY CostIs
<1> HIDE DEF n
<1>5. /\ late' = late
      /\ \E r \in Record : /\ r.event = "PreToolUse" /\ r.id = i /\ r.command = c /\ r.time = clock
                           /\ Traces' = Traces \cup {r}
  <2>1. Hook("PreToolUse", i, o, c, n)
    BY <1>2 DEF n
  <2> QED BY <1>3, <1>4, <2>1, HookTells
<1>6. PICK r \in Record : /\ r.event = "PreToolUse" /\ r.id = i /\ r.command = c /\ r.time = clock
                          /\ Traces' = Traces \cup {r}
  BY <1>5
<1>7. /\ stage[u] = "none" /\ stage'[u] = "proposed" /\ id'[u] = i /\ command'[u] = c
      /\ shown' = shown /\ shown[u] = NoCommand
      /\ \A w \in Calls \ {u} : stage'[w] = stage[w] /\ id'[w] = id[w] /\ command'[w] = command[w]
  BY <1>2, <1>3 DEF TypeOK, Propose, Begun
<1>8. ~late' /\ \A q \in Traces : q.time \in Nat /\ q.time < clock
  BY <1>5, TracesTyped DEF Straight, Timely
<1>9. \A w \in Calls : stage[w] # "none" => w < u
  BY <1>7 DEF Begun, Calls
<1>10. InTurn'
  <2>1. Busy' \subseteq {u}
    BY <1>7 DEF Busy
  <2>2. \A w \in Calls : u < w => stage'[w] = "none"
    BY <1>7, <1>9 DEF Calls
  <2> QED BY <2>1, <2>2 DEF InTurn
<1>11. PICK own \in [Nat -> Calls] :
          clock \in Nat /\ own[clock] = u /\ \A t \in Nat : t < clock => own[t] = owner[t]
  <2> DEFINE own == [owner EXCEPT ![clock] = u]
  <2>1. /\ clock \in Nat /\ own \in [Nat -> Calls] /\ own[clock] = u
        /\ \A t \in Nat : t < clock => own[t] = owner[t]
    BY DEF TypeOK
  <2> QED BY <2>1
<1>12. \A q \in Traces : own[q.time] = owner[q.time] /\ owner[q.time] \in Calls
  BY <1>8, <1>11
<1>13. \A q \in Traces : Told(q) => stage[owner[q.time]] # "none"
  <2>1. \A q \in Traces : q.event = "PermissionRequest" => shown[owner[q.time]] # NoCommand
    BY <1>1 DEF IsOwner
  <2>2. \A q \in Traces : q.event = "PreToolUse" => stage[owner[q.time]] # "none"
    BY <1>1 DEF IsOwner
  <2>3. \A w \in Calls : shown[w] # NoCommand => stage[w] # "none"
    BY DEF Begun
  <2> QED BY <1>12, <2>1, <2>2, <2>3 DEF Told
<1>14. IsOwner(own)'
  <2>1. ASSUME NEW q \in Traces', q.event = "PreToolUse"
        PROVE  stage'[own[q.time]] # "none" /\ q.id = id'[own[q.time]] /\ q.command = command'[own[q.time]]
    <3>1. CASE q = r
      BY <1>6, <1>7, <1>11, <3>1
    <3>2. CASE q \in Traces
      <4>1. stage[owner[q.time]] # "none" /\ q.id = id[owner[q.time]]
            /\ q.command = command[owner[q.time]]
        BY <1>1, <2>1, <3>2 DEF IsOwner
      <4>2. owner[q.time] \in Calls \ {u} /\ own[q.time] = owner[q.time]
        BY <1>7, <1>12, <3>2, <4>1
      <4> QED BY <1>7, <4>1, <4>2
    <3> QED BY <1>6, <3>1, <3>2
  <2>2. \A q \in Traces' : q.event = "PermissionRequest" =>
            shown'[own[q.time]] # NoCommand /\ q.command = shown'[own[q.time]]
    BY <1>1, <1>6, <1>7, <1>12 DEF IsOwner
  <2>3. \A w \in Calls : shown'[w] # NoCommand =>
            \E q \in Traces' : q.event = "PermissionRequest" /\ own[q.time] = w
    BY <1>1, <1>6, <1>7, <1>12 DEF IsOwner
  <2>4. ASSUME NEW p \in Traces', NEW q \in Traces', Told(p), Told(q), p.time < q.time
        PROVE  own[p.time] <= own[q.time] /\ (q.event = "PreToolUse" => own[p.time] # own[q.time])
    <3>1. p \in Traces
      <4>1. ~(clock < clock) /\ \A s \in Traces : ~(clock < s.time)
        BY <1>8, <1>11
      <4> QED BY <1>6, <2>4, <4>1
    <3>2. CASE q = r
      <4>1. own[p.time] = owner[p.time] /\ owner[p.time] < u /\ own[q.time] = u
        BY <1>6, <1>9, <1>11, <1>12, <1>13, <2>4, <3>1, <3>2
      <4> QED BY <1>12, <3>1, <4>1 DEF Calls
    <3>3. CASE q \in Traces
      BY <1>1, <1>12, <2>4, <3>1, <3>3 DEF IsOwner
    <3> QED BY <1>6, <3>2, <3>3
  <2> QED BY <2>1, <2>2, <2>3, <2>4 DEF IsOwner, Told
<1> QED BY <1>8, <1>10, <1>11, <1>14 DEF Straight

\* The call presented is the last one.
LEMMA PresentStraight ==
    ASSUME TypeOK, Timely, Begun, Straight, NEW u \in Calls, Present(u)
    PROVE  Straight'
<1>1. PICK owner \in [Nat -> Calls] : IsOwner(owner)
  BY DEF Straight
<1>2. PICK c \in Commands :
        /\ stage' = [stage EXCEPT ![u] = "presented"]
        /\ shown' = [shown EXCEPT ![u] = c]
        /\ Hook("PermissionRequest", NoId, origin[u], c, Cost(c = command[u]))
  BY DEF Present
<1>3. origin[u] \in Origins /\ "PermissionRequest" \in Events /\ Cost(c = command[u]) \in Nat
  BY CostIs DEF TypeOK, Events
<1>4. /\ late' = late
      /\ \E r \in Record : /\ r.event = "PermissionRequest" /\ r.command = c /\ r.time = clock
                           /\ Traces' = Traces \cup {r}
  BY <1>2, <1>3, HookTells
<1>5. PICK r \in Record : /\ r.event = "PermissionRequest" /\ r.command = c /\ r.time = clock
                          /\ Traces' = Traces \cup {r}
  BY <1>4
<1>6. /\ stage[u] = "proposed" /\ stage'[u] = "presented" /\ shown'[u] = c /\ c # NoCommand
      /\ id' = id /\ command' = command /\ shown[u] = NoCommand
      /\ \A w \in Calls \ {u} : stage'[w] = stage[w] /\ shown'[w] = shown[w]
  BY <1>2, CommandsApart DEF TypeOK, Present, Begun
<1>7. ~late' /\ \A q \in Traces : q.time \in Nat /\ q.time < clock
  BY <1>4, TracesTyped DEF Straight, Timely
<1>8. \A w \in Calls : stage[w] # "none" => w <= u
  <2>1. u \in Busy
    BY <1>6 DEF Busy
  <2> QED BY <2>1 DEF Straight, InTurn, Calls
<1>9. InTurn'
  <2>1. Busy' = Busy
    BY <1>6 DEF Busy
  <2>2. \A w \in Calls : stage'[w] = "none" <=> stage[w] = "none"
    BY <1>6
  <2> QED BY <2>1, <2>2 DEF Straight, InTurn
<1>10. PICK own \in [Nat -> Calls] :
          clock \in Nat /\ own[clock] = u /\ \A t \in Nat : t < clock => own[t] = owner[t]
  <2> DEFINE own == [owner EXCEPT ![clock] = u]
  <2>1. /\ clock \in Nat /\ own \in [Nat -> Calls] /\ own[clock] = u
        /\ \A t \in Nat : t < clock => own[t] = owner[t]
    BY DEF TypeOK
  <2> QED BY <2>1
<1>11. \A q \in Traces : own[q.time] = owner[q.time] /\ owner[q.time] \in Calls
  BY <1>7, <1>10
<1>12. \A q \in Traces : Told(q) => stage[owner[q.time]] # "none"
  <2>1. \A q \in Traces : q.event = "PermissionRequest" => shown[owner[q.time]] # NoCommand
    BY <1>1 DEF IsOwner
  <2>2. \A q \in Traces : q.event = "PreToolUse" => stage[owner[q.time]] # "none"
    BY <1>1 DEF IsOwner
  <2>3. \A w \in Calls : shown[w] # NoCommand => stage[w] # "none"
    BY DEF Begun
  <2> QED BY <1>11, <2>1, <2>2, <2>3 DEF Told
<1>13. IsOwner(own)'
  <2>1. ASSUME NEW q \in Traces', q.event = "PreToolUse"
        PROVE  stage'[own[q.time]] # "none" /\ q.id = id'[own[q.time]] /\ q.command = command'[own[q.time]]
    <3>1. q \in Traces
      BY <1>5, <2>1
    <3>2. stage[owner[q.time]] # "none" /\ q.id = id[owner[q.time]]
          /\ q.command = command[owner[q.time]]
      BY <1>1, <2>1, <3>1 DEF IsOwner
    <3>3. owner[q.time] \in Calls /\ own[q.time] = owner[q.time]
      BY <1>11, <3>1
    <3> QED BY <1>6, <3>2, <3>3
  <2>2. ASSUME NEW q \in Traces', q.event = "PermissionRequest"
        PROVE  shown'[own[q.time]] # NoCommand /\ q.command = shown'[own[q.time]]
    <3>1. CASE q = r
      BY <1>5, <1>6, <1>10, <3>1
    <3>2. CASE q \in Traces
      <4>1. shown[owner[q.time]] # NoCommand /\ q.command = shown[owner[q.time]]
        BY <1>1, <2>2, <3>2 DEF IsOwner
      <4>2. owner[q.time] \in Calls \ {u} /\ own[q.time] = owner[q.time]
        BY <1>6, <1>11, <3>2, <4>1
      <4> QED BY <1>6, <4>1, <4>2
    <3> QED BY <1>5, <3>1, <3>2
  <2>3. ASSUME NEW w \in Calls, shown'[w] # NoCommand
        PROVE  \E q \in Traces' : q.event = "PermissionRequest" /\ own[q.time] = w
    <3>1. CASE w = u
      BY <1>5, <1>10, <3>1
    <3>2. CASE w # u
      BY <1>1, <1>5, <1>6, <1>11, <2>3, <3>2 DEF IsOwner
    <3> QED BY <3>1, <3>2
  <2>4. ASSUME NEW p \in Traces', NEW q \in Traces', Told(p), Told(q), p.time < q.time
        PROVE  own[p.time] <= own[q.time] /\ (q.event = "PreToolUse" => own[p.time] # own[q.time])
    <3>1. p \in Traces
      <4>1. ~(clock < clock) /\ \A s \in Traces : ~(clock < s.time)
        BY <1>7, <1>10
      <4> QED BY <1>5, <2>4, <4>1
    <3>2. CASE q = r
      BY <1>5, <1>8, <1>10, <1>11, <1>12, <2>4, <3>1, <3>2
    <3>3. CASE q \in Traces
      BY <1>1, <1>11, <2>4, <3>1, <3>3 DEF IsOwner
    <3> QED BY <1>5, <3>2, <3>3
  <2> QED BY <2>1, <2>2, <2>3, <2>4 DEF IsOwner, Told
<1> QED BY <1>7, <1>9, <1>10, <1>13 DEF Straight

LEMMA OneMoreAt ==
    ASSUME NEW S \in SUBSET Calls, NEW T \in SUBSET Calls, NEW x, NEW b \in BOOLEAN,
           T \subseteq S \cup {x}, b => T \subseteq S
    PROVE  Cardinality(T) <= Cardinality(S) + Cost(b)
<1>1. IsFiniteSet(S) /\ Cardinality(S) \in Nat /\ Cardinality(T) \in Nat
  BY CallsAreFinite
<1>2. CASE b
  BY <1>1, <1>2, FS_Subset DEF Cost
<1>3. CASE ~b
  BY <1>1, <1>3, OneMore DEF Cost
<1> QED BY <1>2, <1>3

LEMMA DebtTyped ==
    /\ Wrong \subseteq Calls /\ Reused \subseteq Calls
    /\ Misshown \subseteq Calls /\ Unasked \subseteq Calls
    /\ Cardinality(Wrong) \in Nat /\ Cardinality(Reused) \in Nat
    /\ Cardinality(Misshown) \in Nat /\ Cardinality(Unasked) \in Nat
    /\ Cost(Straight) \in {0, 1}
<1>1. Wrong \subseteq Calls /\ Reused \subseteq Calls /\ Misshown \subseteq Calls /\ Unasked \subseteq Calls
  BY DEF Wrong, Reused, Misshown, Unasked
<1> QED BY <1>1, CallsAreFinite, CostIs

\* What a step adds to the debt, it pays.
LEMMA DebtKept ==
    ASSUME Debt, IsFiniteSet(hooks), IsFiniteSet(hooks'), oddities \in Nat, oddities' \in Nat,
           NEW w \in Nat, NEW i \in Nat, NEW m \in Nat, NEW a \in Nat, NEW s \in Nat, NEW n \in Nat,
           Cardinality(Wrong') <= Cardinality(Wrong) + w,
           Cardinality(Reused') <= Cardinality(Reused) + i,
           Cardinality(Misshown') <= Cardinality(Misshown) + m,
           Cardinality(Unasked') <= Cardinality(Unasked) + a,
           Cost(Straight') <= Cost(Straight) + s,
           w + i + m + a + s <= n,
           Cardinality(hooks') + n + oddities <= Cardinality(hooks) + oddities'
    PROVE  Debt'
<1>1. /\ Cardinality(Wrong) \in Nat /\ Cardinality(Reused) \in Nat
      /\ Cardinality(Misshown) \in Nat /\ Cardinality(Unasked) \in Nat
      /\ Cost(Straight) \in Nat
      /\ Cardinality(hooks) \in Nat /\ Cardinality(hooks') \in Nat
  BY DebtTyped, FS_CardinalityType
<1>2. /\ Cardinality(Wrong') \in Nat /\ Cardinality(Reused') \in Nat
      /\ Cardinality(Misshown') \in Nat /\ Cardinality(Unasked') \in Nat
      /\ Cost(Straight') \in Nat
  <2>1. Wrong' \subseteq Calls /\ Reused' \subseteq Calls /\ Misshown' \subseteq Calls /\ Unasked' \subseteq Calls
    BY DEF Wrong, Reused, Misshown, Unasked
  <2> QED BY <2>1, CallsAreFinite, CostIs
<1>3. Cost(Straight)' = Cost(Straight')
  BY DEF Cost
<1>4. Cardinality(Wrong) + Cardinality(Reused) + Cardinality(Misshown) + Cardinality(Unasked)
      + Cardinality(hooks) + Cost(Straight) <= oddities
  BY DEF Debt
<1>5. Cardinality(Wrong') + Cardinality(Reused') + Cardinality(Misshown') + Cardinality(Unasked')
      + Cardinality(hooks') + Cost(Straight') <= oddities'
  BY <1>1, <1>2, <1>4
<1> QED BY <1>3, <1>5 DEF Debt

LEMMA SameCost ==
    ASSUME Straight => Straight' PROVE Cost(Straight') <= Cost(Straight) + 0
BY DEF Cost

LEMMA SameCard ==
    ASSUME NEW S \in SUBSET Calls, NEW T, T \subseteq S
    PROVE  Cardinality(T) <= Cardinality(S) + 0
BY CallsAreFinite, FS_Subset

LEMMA ProposeDebt ==
    ASSUME TypeOK, Timely, Begun, Debt, NEW u \in Calls, Propose(u) PROVE Debt'
<1>1. PICK c \in Commands, o \in Origins, i \in 1..u :
        /\ stage' = [stage EXCEPT ![u] = "proposed"] /\ id' = [id EXCEPT ![u] = i]
        /\ command' = [command EXCEPT ![u] = c]
        /\ Hook("PreToolUse", i, o, c,
                Cost(u \in Probes /\ c = Expected[u]) + Cost(o = "probe")
                + Cost(i = u) + Cost(Busy = {}))
  BY DEF Propose
<1>2. i \in Calls /\ "PreToolUse" \in Events
  BY CallAssumption DEF Calls, Events
<1> DEFINE right == u \in Probes /\ c = Expected[u]
           w == Cost(right)
           y == Cost(o = "probe")
           x == Cost(i = u)
           s == Cost(Busy = {})
           n == w + y + x + s
<1>3. w \in Nat /\ y \in Nat /\ x \in Nat /\ s \in Nat
  BY CostIs
<1>4. /\ stage[u] = "none" /\ stage'[u] = "proposed" /\ id'[u] = i /\ command'[u] = c
      /\ shown' = shown /\ shown[u] = NoCommand
      /\ \A v \in Calls \ {u} : stage'[v] = stage[v] /\ id'[v] = id[v] /\ command'[v] = command[v]
  BY <1>1, <1>2 DEF TypeOK, Propose, Begun
<1>5. Hook("PreToolUse", i, o, c, n)
  BY <1>1
<1>6. Cardinality(Wrong') <= Cardinality(Wrong) + w
  <2>1. Wrong' \subseteq Wrong \cup {u} /\ (right => Wrong' \subseteq Wrong)
    BY <1>4 DEF Wrong
  <2>2. Wrong \in SUBSET Calls /\ Wrong' \in SUBSET Calls /\ right \in BOOLEAN
    BY DEF Wrong
  <2> HIDE DEF right
  <2> QED BY <2>1, <2>2, OneMoreAt
<1>7. Cardinality(Reused') <= Cardinality(Reused) + x
  <2>1. Reused' \subseteq Reused \cup {u} /\ (i = u => Reused' \subseteq Reused)
    BY <1>4 DEF Reused
  <2>2. Reused \in SUBSET Calls /\ Reused' \in SUBSET Calls /\ (i = u) \in BOOLEAN
    BY DEF Reused
  <2> QED BY <2>1, <2>2, OneMoreAt
<1>8. Cardinality(Misshown') <= Cardinality(Misshown) + 0
  <2>1. Misshown' \subseteq Misshown /\ Misshown \in SUBSET Calls
    BY <1>4 DEF Misshown
  <2> QED BY <2>1, SameCard
<1>9. Cardinality(Unasked') <= Cardinality(Unasked) + 0
  <2>1. Unasked' \subseteq Unasked /\ Unasked \in SUBSET Calls
    BY <1>4 DEF Unasked
  <2> QED BY <2>1, SameCard
<1>10. Cost(Straight') <= Cost(Straight) + s
  <2>1. CASE Busy = {}
    <3>1. Straight => Straight'
      BY <2>1, ProposeStraight
    <3>2. s = 0
      BY <2>1 DEF Cost
    <3> QED BY <3>1, <3>2, SameCost
  <2>2. CASE Busy # {}
    <3>1. s = 1
      BY <2>2 DEF Cost
    <3>2. Cost(Straight') \in {0, 1} /\ Cost(Straight) \in {0, 1}
      BY CostIs
    <3> QED BY <3>1, <3>2
  <2> QED BY <2>1, <2>2
<1> HIDE DEF w, y, x, s
<1>11. n \in Nat /\ w + x + 0 + 0 + s <= n
  BY <1>3
<1> HIDE DEF n
<1>12. /\ IsFiniteSet(hooks') /\ oddities' \in Nat
       /\ Cardinality(hooks') + n + oddities <= Cardinality(hooks) + oddities'
  BY <1>2, <1>5, <1>11, HookTells
<1>13. IsFiniteSet(hooks) /\ oddities \in Nat
  BY OddityAssumption DEF Timely, TypeOK
<1> QED BY <1>3, <1>6, <1>7, <1>8, <1>9, <1>10, <1>11, <1>12, <1>13, DebtKept

LEMMA PresentDebt ==
    ASSUME TypeOK, Timely, Begun, Debt, NEW u \in Calls, Present(u) PROVE Debt'
<1>1. PICK c \in Commands :
        /\ stage' = [stage EXCEPT ![u] = "presented"]
        /\ shown' = [shown EXCEPT ![u] = c]
        /\ Hook("PermissionRequest", NoId, origin[u], c, Cost(c = command[u]))
  BY DEF Present
<1>2. origin[u] \in Origins /\ "PermissionRequest" \in Events
  BY DEF TypeOK, Events
<1> DEFINE m == Cost(c = command[u])
<1>3. m \in Nat
  BY CostIs
<1>4. /\ stage[u] = "proposed" /\ stage'[u] = "presented" /\ shown'[u] = c
      /\ id' = id /\ command' = command
      /\ \A v \in Calls \ {u} : stage'[v] = stage[v] /\ shown'[v] = shown[v]
  BY <1>1 DEF TypeOK, Present
<1>5. Hook("PermissionRequest", NoId, origin[u], c, m)
  BY <1>1
<1>6. Cardinality(Misshown') <= Cardinality(Misshown) + m
  <2>1. Misshown' \subseteq Misshown \cup {u} /\ (c = command[u] => Misshown' \subseteq Misshown)
    BY <1>4 DEF Misshown
  <2>2. Misshown \in SUBSET Calls /\ Misshown' \in SUBSET Calls /\ (c = command[u]) \in BOOLEAN
    BY DEF Misshown
  <2> QED BY <2>1, <2>2, OneMoreAt
<1>7. Cardinality(Wrong') <= Cardinality(Wrong) + 0 /\ Cardinality(Reused') <= Cardinality(Reused) + 0
      /\ Cardinality(Unasked') <= Cardinality(Unasked) + 0
  <2>1. /\ Wrong' \subseteq Wrong /\ Reused' \subseteq Reused /\ Unasked' \subseteq Unasked
        /\ Wrong \in SUBSET Calls /\ Reused \in SUBSET Calls /\ Unasked \in SUBSET Calls
    BY <1>4 DEF Wrong, Reused, Unasked
  <2> QED BY <2>1, SameCard
<1>8. Cost(Straight') <= Cost(Straight) + 0
  BY PresentStraight, SameCost
<1> HIDE DEF m
<1>9. 0 + 0 + m + 0 + 0 <= m
  BY <1>3
<1>10. /\ IsFiniteSet(hooks') /\ oddities' \in Nat
       /\ Cardinality(hooks') + m + oddities <= Cardinality(hooks) + oddities'
  BY <1>2, <1>3, <1>5, HookTells
<1>11. IsFiniteSet(hooks) /\ oddities \in Nat
  BY OddityAssumption DEF Timely, TypeOK
<1> QED BY <1>3, <1>6, <1>7, <1>8, <1>9, <1>10, <1>11, DebtKept

\* A decision without a prompt, or a call that ends without one, is one more.
LEMMA EndsDebt ==
    ASSUME TypeOK, Timely, Begun, Debt, Straight => Straight',
           UNCHANGED <<id, command, shown>>,
           NEW u \in Calls, NEW s \in {"decided", "over"}, stage' = [stage EXCEPT ![u] = s],
           stage[u] # "none", NEW n \in Nat, stage[u] = "proposed" => n >= 1,
           IsFiniteSet(hooks'), oddities' \in Nat,
           Cardinality(hooks') + n + oddities <= Cardinality(hooks) + oddities'
    PROVE  Debt'
<1>1. stage'[u] = s /\ \A v \in Calls \ {u} : stage'[v] = stage[v]
  BY DEF TypeOK
<1>2. Cardinality(Wrong') <= Cardinality(Wrong) + 0 /\ Cardinality(Reused') <= Cardinality(Reused) + 0
      /\ Cardinality(Misshown') <= Cardinality(Misshown) + 0
  <2>1. /\ Wrong' \subseteq Wrong /\ Reused' \subseteq Reused /\ Misshown' \subseteq Misshown
        /\ Wrong \in SUBSET Calls /\ Reused \in SUBSET Calls /\ Misshown \in SUBSET Calls
    BY <1>1 DEF Wrong, Reused, Misshown
  <2> QED BY <2>1, SameCard
<1> DEFINE b == stage[u] # "proposed"
           a == Cost(b)
<1>3. Cardinality(Unasked') <= Cardinality(Unasked) + a
  <2>1. stage[u] \in {"none", "proposed", "presented", "decided", "over"}
    BY DEF TypeOK
  <2>2. Unasked' \subseteq Unasked \cup {u}
    BY <1>1 DEF Unasked
  <2>3. ASSUME b PROVE Unasked' \subseteq Unasked
    <3>1. u \in Unasked' => u \in Unasked
      BY <2>1, <2>3 DEF Unasked, Begun
    <3> QED BY <2>2, <3>1
  <2>4. Unasked \in SUBSET Calls /\ Unasked' \in SUBSET Calls /\ b \in BOOLEAN
    BY DEF Unasked
  <2> HIDE DEF b
  <2> QED BY <2>2, <2>3, <2>4, OneMoreAt
<1>4. a \in Nat /\ 0 + 0 + 0 + a + 0 <= n
  BY DEF Cost
<1> HIDE DEF a
<1>5. Cost(Straight') <= Cost(Straight) + 0
  BY SameCost
<1>6. IsFiniteSet(hooks) /\ oddities \in Nat
  BY OddityAssumption DEF Timely, TypeOK
<1> QED BY <1>2, <1>3, <1>4, <1>5, <1>6, DebtKept

\* A step that adds nothing.
LEMMA QuietDebt ==
    ASSUME TypeOK, Timely, Debt, Straight => Straight',
           UNCHANGED <<id, command, shown, stage>>, NEW n \in Nat,
           IsFiniteSet(hooks'), oddities' \in Nat,
           Cardinality(hooks') + n + oddities <= Cardinality(hooks) + oddities'
    PROVE  Debt'
<1>1. /\ Cardinality(Wrong') <= Cardinality(Wrong) + 0
      /\ Cardinality(Reused') <= Cardinality(Reused) + 0
      /\ Cardinality(Misshown') <= Cardinality(Misshown) + 0
      /\ Cardinality(Unasked') <= Cardinality(Unasked) + 0
  <2>1. /\ Wrong' \subseteq Wrong /\ Reused' \subseteq Reused /\ Misshown' \subseteq Misshown
        /\ Unasked' \subseteq Unasked /\ Wrong \in SUBSET Calls /\ Reused \in SUBSET Calls
        /\ Misshown \in SUBSET Calls /\ Unasked \in SUBSET Calls
    BY DEF Wrong, Reused, Misshown, Unasked
  <2> QED BY <2>1, SameCard
<1>2. Cost(Straight') <= Cost(Straight) + 0
  BY SameCost
<1>3. IsFiniteSet(hooks) /\ oddities \in Nat
  BY OddityAssumption DEF Timely, TypeOK
<1>4. 0 + 0 + 0 + 0 + 0 <= n
  OBVIOUS
<1> QED BY <1>1, <1>2, <1>3, <1>4, DebtKept

LEMMA OnStraight ==
    ASSUME TypeOK, Straight, UNCHANGED <<late, id, command, shown>>,
           Traces \subseteq Traces', \A r \in Traces' : r \in Traces \/ ~Told(r),
           NEW u \in Calls, NEW s \in {"decided", "over"}, stage' = [stage EXCEPT ![u] = s],
           stage[u] \notin {"none", "over"}
    PROVE  Straight'
<1>1. stage'[u] = s /\ \A v \in Calls \ {u} : stage'[v] = stage[v]
  BY DEF TypeOK
<1>2. Busy' \subseteq Busy /\ \A v \in Calls : stage'[v] = "none" <=> stage[v] = "none"
  BY <1>1 DEF Busy
<1>3. InTurn'
  BY <1>2 DEF Straight, InTurn
<1>4. ~late'
  BY DEF Straight
<1> QED BY <1>2, <1>3, <1>4, StraightKept

LEMMA DecideDebt ==
    ASSUME TypeOK, Timely, Begun, Debt, NEW u \in Calls, Answer(u) \/ Automatic(u) PROVE Debt'
<1>1. stage[u] \in {"presented", "proposed"} /\ (stage[u] = "proposed" => Automatic(u))
  BY DEF Answer, Automatic
<1>2. PICK v \in {"accept", "reject", "cancelled"},
           s \in HumanAccepts \cup HumanRejects \cup {"config"}, n \in Nat :
           Decide(u, v, s, n) /\ (stage[u] = "proposed" => n >= 1)
  <2>1. CASE stage[u] = "proposed"
    <3>1. 1 \in Nat /\ 1 >= 1
      OBVIOUS
    <3> QED BY <1>1, <2>1, <3>1 DEF Automatic
  <2>2. CASE stage[u] # "proposed"
    BY <2>2, AnswerDecides
  <2> QED BY <2>1, <2>2
<1> DEFINE d == [id |-> id[u], origin |-> origin[u], verdict |-> v, source |-> s]
<1>3. /\ stage' = [stage EXCEPT ![u] = "decided"] /\ UNCHANGED <<id, command, shown>>
      /\ Deliver(d, n)
  BY <1>2 DEF Decide
<1> HIDE DEF d
<1>4. UNCHANGED <<hooks, records, late>> /\ (Odd(n) \/ Odd(n + 1))
  BY <1>3 DEF Deliver
<1>5. oddities \in Nat /\ Cardinality(hooks) \in Nat
  BY OddityAssumption, FS_CardinalityType DEF TypeOK, Timely
<1>6. oddities' \in Nat /\ n + oddities <= oddities'
  BY <1>4, <1>5 DEF Odd
<1>7. Straight => Straight'
  <2>1. Traces' = Traces
    BY <1>4 DEF Traces
  <2> QED BY <1>1, <1>3, <1>4, <2>1, OnStraight
<1>8. IsFiniteSet(hooks') /\ Cardinality(hooks') + n + oddities <= Cardinality(hooks) + oddities'
  BY <1>4, <1>5, <1>6 DEF Timely
<1> QED BY <1>1, <1>2, <1>3, <1>6, <1>7, <1>8, EndsDebt

LEMMA RunDebt ==
    ASSUME TypeOK, Link, Timely, Begun, Debt, NEW u \in Calls, Run(u) PROVE Debt'
<1>1. PICK c \in Commands, e \in {"PostToolUse", "PostToolUseFailure"} :
        /\ stage' = [stage EXCEPT ![u] = "over"]
        /\ Hook(e, id[u], origin[u], c,
                Cost(ruling[u].verdict = "accept") + Cost(c = command[u]) + Cost(e = "PostToolUse"))
  BY DEF Run
<1> DEFINE x == Cost(ruling[u].verdict = "accept")
           y == Cost(c = command[u])
           z == Cost(e = "PostToolUse")
           n == x + y + z
<1>2. x \in Nat /\ y \in Nat /\ z \in Nat
  BY CostIs
<1>3. stage[u] \in {"proposed", "presented", "decided"} /\ UNCHANGED <<id, command, shown>>
  BY DEF Run
<1>4. id[u] \in Calls /\ origin[u] \in Origins /\ e \in Events
  BY DEF TypeOK, Events
<1>5. stage[u] = "proposed" => x = 1
  BY DEF Link, RulingsMatch, NoDecision, Cost
<1>6. Hook(e, id[u], origin[u], c, n)
  BY <1>1
<1> HIDE DEF x, y, z
<1>7. n \in Nat /\ (stage[u] = "proposed" => n >= 1)
  BY <1>2, <1>5
<1> HIDE DEF n
<1>8. /\ late' = late /\ IsFiniteSet(hooks') /\ oddities' \in Nat
      /\ Cardinality(hooks') + n + oddities <= Cardinality(hooks) + oddities'
      /\ \E r \in Record : r.event = e /\ Traces' = Traces \cup {r}
  BY <1>4, <1>6, <1>7, HookTells
<1>9. Straight => Straight'
  <2>1. Traces \subseteq Traces' /\ \A r \in Traces' : r \in Traces \/ ~Told(r)
    BY <1>8 DEF Told
  <2> QED BY <1>1, <1>3, <1>8, <2>1, OnStraight
<1> QED BY <1>1, <1>3, <1>7, <1>8, <1>9, EndsDebt

LEMMA SkipDebt ==
    ASSUME TypeOK, Timely, Begun, Debt, NEW u \in Calls, Skip(u) PROVE Debt'
<1>1. /\ stage' = [stage EXCEPT ![u] = "over"] /\ stage[u] = "decided"
      /\ UNCHANGED <<id, command, shown, hooks, records, late>>
      /\ Odd(Cost(ruling[u].verdict = "reject"))
  BY DEF Skip, evidence
<1> DEFINE n == Cost(ruling[u].verdict = "reject")
<1>2. n \in Nat /\ Odd(n)
  BY <1>1, CostIs
<1>3. oddities \in Nat /\ Cardinality(hooks) \in Nat
  BY OddityAssumption, FS_CardinalityType DEF TypeOK, Timely
<1> HIDE DEF n
<1>4. oddities' \in Nat /\ IsFiniteSet(hooks')
      /\ Cardinality(hooks') + n + oddities <= Cardinality(hooks) + oddities'
  BY <1>1, <1>2, <1>3 DEF Odd, Timely
<1>5. Straight => Straight'
  <2>1. Traces' = Traces
    BY <1>1 DEF Traces
  <2> QED BY <1>1, <2>1, OnStraight
<1> QED BY <1>1, <1>2, <1>4, <1>5, EndsDebt

\* A hook that appends late has been paid for.
LEMMA OvertakenDebt ==
    ASSUME TypeOK, Timely, Debt, NEW r \in hooks, Overtaken(r) PROVE Debt'
<1>1. /\ hooks' = hooks \ {r} /\ late' /\ oddities' = oddities
      /\ UNCHANGED <<id, command, shown, stage>>
  BY DEF Overtaken, world
<1>2. IsFiniteSet(hooks') /\ Cardinality(hooks') = Cardinality(hooks) - 1 /\ Cardinality(hooks) \in Nat
  BY <1>1, FS_RemoveElement, FS_Subset, FS_CardinalityType DEF Timely
<1>3. /\ Wrong' = Wrong /\ Reused' = Reused /\ Misshown' = Misshown /\ Unasked' = Unasked
  BY <1>1 DEF Wrong, Reused, Misshown, Unasked
<1>4. Cost(Straight)' = 1
  BY <1>1 DEF Cost, Straight
<1>5. oddities \in Nat
  BY OddityAssumption DEF TypeOK
<1>6. /\ Cardinality(Wrong) \in Nat /\ Cardinality(Reused) \in Nat
      /\ Cardinality(Misshown) \in Nat /\ Cardinality(Unasked) \in Nat
      /\ Cost(Straight) \in {0, 1}
      /\ Cardinality(Wrong) + Cardinality(Reused) + Cardinality(Misshown) + Cardinality(Unasked)
         + Cardinality(hooks) + Cost(Straight) <= oddities
  BY DebtTyped DEF Debt
<1>7. Cardinality(Wrong) + Cardinality(Reused) + Cardinality(Misshown) + Cardinality(Unasked)
      + Cardinality(hooks') + 1 <= oddities
  BY <1>2, <1>5, <1>6
<1> QED BY <1>1, <1>3, <1>4, <1>7 DEF Debt

LEMMA EndDebt == ASSUME TypeOK, Timely, Debt, EndSession PROVE Debt'
<1> DEFINE b == \A k \in Probes : stage[k] = "over"
           n == Cost(b)
<1>1. Hook("SessionEnd", NoId, "probe", NoCommand, n) /\ UNCHANGED <<id, command, shown, stage>>
  BY DEF EndSession
<1> HIDE DEF b
<1>2. n \in Nat
  BY CostIs
<1> HIDE DEF n
<1>3. /\ late' = late /\ IsFiniteSet(hooks') /\ oddities' \in Nat
      /\ Cardinality(hooks') + n + oddities <= Cardinality(hooks) + oddities'
      /\ \E r \in Record : r.event = "SessionEnd" /\ Traces' = Traces \cup {r}
  BY <1>1, <1>2, HookTells DEF Events, Origins
<1>4. Straight => Straight'
  <2>1. Traces \subseteq Traces' /\ \A r \in Traces' : r \in Traces \/ ~Told(r)
    BY <1>3 DEF Told
  <2>2. Busy' = Busy
    BY <1>1 DEF Busy
  <2>3. Straight => InTurn' /\ ~late'
    BY <1>1, <1>3, <2>2 DEF Straight, InTurn
  <2> QED BY <1>1, <2>1, <2>3, StraightKept
<1> QED BY <1>1, <1>2, <1>3, <1>4, QuietDebt

LEMMA NextDebt == TypeOK /\ Link /\ Timely /\ Begun /\ Debt /\ [Next]_vars => Debt'
<1> SUFFICES ASSUME TypeOK, Link, Timely, Begun, Debt, [Next]_vars PROVE Debt'
  OBVIOUS
<1>1. CASE Judge \/ UNCHANGED vars
  <2>1. UNCHANGED <<id, command, shown, stage, hooks, records, late, oddities>>
    BY <1>1 DEF Judge, vars, world, evidence
  <2>2. Traces' = Traces /\ Busy' = Busy
    BY <2>1 DEF Traces, Busy
  <2>3. Straight => InTurn' /\ ~late'
    BY <2>1, <2>2 DEF Straight, InTurn
  <2>4. Straight => Straight'
    BY <2>1, <2>2, <2>3, StraightKept
  <2>5. oddities \in Nat /\ Cardinality(hooks) \in Nat /\ IsFiniteSet(hooks)
    BY OddityAssumption, FS_CardinalityType DEF TypeOK, Timely
  <2>6. 0 \in Nat /\ Cardinality(hooks') + 0 + oddities <= Cardinality(hooks) + oddities'
    BY <2>1, <2>5
  <2> QED BY <2>1, <2>4, <2>5, <2>6, QuietDebt
<1> QED BY <1>1, ProposeDebt, PresentDebt, DecideDebt, RunDebt, SkipDebt, OvertakenDebt, EndDebt
        DEF Next

LEMMA InitDebt == Init => Debt
<1> SUFFICES ASSUME Init PROVE Debt
  OBVIOUS
<1>1. /\ hooks = {} /\ records = <<>> /\ oddities = 0 /\ ~late
      /\ \A u \in Calls : stage[u] = "none" /\ id[u] = u /\ shown[u] = NoCommand
  BY DEF Init
<1>2. Straight
  <2>1. PICK owner \in [Nat -> Calls] : TRUE
    <3>1. 1 \in Calls
      BY CallAssumption DEF Calls, Expected
    <3>2. [t \in Nat |-> 1] \in [Nat -> Calls]
      BY <3>1
    <3> QED BY <3>2
  <2>2. Traces = {}
    BY <1>1 DEF Traces
  <2>3. IsOwner(owner)
    BY <1>1, <2>2 DEF IsOwner
  <2>4. InTurn
    BY <1>1 DEF InTurn, Busy
  <2> QED BY <1>1, <2>3, <2>4 DEF Straight
<1>3. Wrong = {} /\ Reused = {} /\ Misshown = {} /\ Unasked = {}
  BY <1>1 DEF Wrong, Reused, Misshown, Unasked
<1>4. Cost(Straight) = 0 /\ Cardinality({}) = 0
  BY <1>2, FS_EmptySet DEF Cost
<1> QED BY <1>1, <1>3, <1>4 DEF Debt
-----------------------------------------------------------------------------
(***************************************************************************)
(* Counting.                                                               *)
(***************************************************************************)
LEMMA ProbesAre == Probes = 1..4 /\ IsFiniteSet(Probes) /\ Cardinality(Probes) = 4
<1>1. Probes = 1..4
  BY DEF Probes, Expected
<1>2. \A n \in Nat \ {0} : IsFiniteSet(1..n) /\ Cardinality(1..n) = n
  BY FS_Interval
<1>3. 4 \in Nat \ {0}
  OBVIOUS
<1>4. IsFiniteSet(1..4) /\ Cardinality(1..4) = 4
  BY <1>2, <1>3
<1> QED BY <1>1, <1>4

\* A one-to-one map counts what it maps onto each other.
LEMMA Transport ==
    ASSUME NEW S, NEW T, NEW f, f \in [S -> T],
           \A x, y \in S : f[x] = f[y] => x = y, \A y \in T : \E x \in S : f[x] = y,
           IsFiniteSet(S), NEW A \in SUBSET S, NEW B \in SUBSET T,
           \A x \in S : x \in A <=> f[x] \in B
    PROVE  Cardinality(A) = Cardinality(B)
<1> DEFINE g == [x \in A |-> f[x]]
<1>1. g \in [A -> B] /\ \A x \in A : g[x] = f[x]
  OBVIOUS
<1> HIDE DEF g
<1>2. \A x, y \in A : g[x] = g[y] => x = y
  BY <1>1
<1>3. \A y \in B : \E x \in A : g[x] = y
  BY <1>1
<1>4. g \in Bijection(A, B)
  BY <1>1, <1>2, <1>3, Fun_IsBij
<1>5. IsFiniteSet(A) /\ ExistsBijection(A, B)
  BY <1>4, FS_Subset DEF ExistsBijection
<1> QED BY <1>5, FS_Bijection

\* Two functions that take each value equally often differ at two places or
\* at none.
Differing(f, g, S) == {x \in S : f[x] # g[x]}
Taking(f, v, S) == {x \in S : f[x] = v}
LEMMA OddOneOut ==
    ASSUME NEW S, IsFiniteSet(S), NEW V, NEW f \in [S -> V], NEW g \in [S -> V],
           Cardinality(Differing(f, g, S)) <= 1,
           \A v \in V : Cardinality(Taking(f, v, S)) = Cardinality(Taking(g, v, S))
    PROVE  Differing(f, g, S) = {}
<1> DEFINE D == Differing(f, g, S)
<1> USE DEF Differing, Taking
<1> SUFFICES ASSUME NEW w \in D PROVE FALSE
  OBVIOUS
<1>1. D \subseteq S /\ IsFiniteSet(D) /\ Cardinality(D) \in Nat
  BY FS_Subset, FS_CardinalityType
<1>2. D = {w}
  <2>1. {w} \subseteq D /\ Cardinality({w}) = 1 /\ IsFiniteSet({w})
    BY FS_Singleton
  <2>2. Cardinality({w}) <= Cardinality(D)
    BY <1>1, <2>1, FS_Subset
  <2>3. Cardinality(D) = Cardinality({w})
    BY <1>1, <2>1, <2>2
  <2> QED BY <1>1, <2>1, <2>3, FS_Subset
<1> DEFINE v == f[w]
           F == {x \in S : f[x] = v}
           G == {x \in S : g[x] = v}
<1>3. w \in S /\ f[w] # g[w] /\ v \in V
  OBVIOUS
<1>4. \A x \in S : x # w => f[x] = g[x]
  BY <1>2
<1>5. w \notin G /\ F = G \cup {w}
  BY <1>3, <1>4
<1>6. Cardinality(F) = Cardinality(G)
  BY <1>3
<1>7. IsFiniteSet(G) /\ Cardinality(G) \in Nat
  BY FS_Subset, FS_CardinalityType
<1> HIDE DEF F, G
<1>8. Cardinality(G \cup {w}) = Cardinality(G) + 1
  BY <1>5, <1>7, FS_AddElement
<1> QED BY <1>5, <1>6, <1>7, <1>8

\* The calls that have begun are the first ones.
LEMMA FirstCalls ==
    ASSUME Begun, TypeOK
    PROVE  /\ Proposers(Calls) = {u \in Calls : stage[u] # "none"}
           /\ Cardinality(Proposers(Calls)) \in Nat
           /\ Proposers(Calls) = 1..Cardinality(Proposers(Calls))
<1> DEFINE P == Proposers(Calls)
           n == Cardinality(P)
<1>1. P = {u \in Calls : stage[u] # "none"}
  BY DEF TypeOK, Proposers
<1>2. IsFiniteSet(P) /\ n \in Nat
  BY <1>1, CallsAreFinite
<1>3. ASSUME NEW u \in P PROVE u \in 1..n
  <2>1. u \in Nat \ {0} /\ 1..u \subseteq Calls
    BY <1>1, CallAssumption DEF Calls
  <2>2. \A w \in 1..u : stage[w] # "none"
    <3>1. \A w \in 1..u : w = u \/ w < u
      BY <2>1
    <3> QED BY <1>1, <2>1, <3>1 DEF Begun
  <2>3. 1..u \subseteq P
    BY <1>1, <2>1, <2>2
  <2>4. \A m \in Nat \ {0} : IsFiniteSet(1..m) /\ Cardinality(1..m) = m
    BY FS_Interval
  <2> HIDE DEF P
  <2>5. Cardinality(1..u) <= n /\ Cardinality(1..u) = u
    BY <1>2, <2>1, <2>3, <2>4, FS_Subset
  <2> QED BY <1>2, <2>1, <2>5
<1>4. IsFiniteSet(1..n) /\ Cardinality(1..n) = n
  <2>1. \A m \in Nat \ {0} : IsFiniteSet(1..m) /\ Cardinality(1..m) = m
    BY FS_Interval
  <2>2. CASE n = 0
    <3>1. 1..n = {}
      BY <2>2
    <3> QED BY <2>2, <3>1, FS_EmptySet
  <2>3. CASE n # 0
    <3> HIDE DEF n
    <3> QED BY <1>2, <2>1, <2>3
  <2> QED BY <2>2, <2>3
<1>5. P \subseteq 1..n
  BY <1>3
<1> HIDE DEF P
<1>6. P = 1..n
  <2>1. P \in SUBSET (1..n) /\ Cardinality(1..n) = Cardinality(P)
    BY <1>4, <1>5
  <2> QED BY <1>4, <2>1, FS_Subset
<1> QED BY <1>1, <1>2, <1>6 DEF P
-----------------------------------------------------------------------------
(***************************************************************************)
(* What PASS says of the lines.                                            *)
(***************************************************************************)

\* The four proposals, one after the other.
LEMMA ProbeLines ==
    ASSUME TypeOK, StatusOf(records, decisions) = "PASS"
    PROVE  \E p \in [Probes -> Proposals(records)] :
              /\ \A k \in Probes : /\ records[p[k]].command = Expected[k]
                                   /\ Pre(records, k) = p[k]
              /\ \A j, k \in Probes : j < k => p[j] < p[k]
              /\ \A i \in Proposals(records) : \E k \in Probes : p[k] = i
<1> DEFINE S == Proposals(records)
           p == [k \in Probes |-> Nth(S, k)]
<1>1. IsolationPasses(records)
  BY DEF StatusOf, Passes
<1>2. S \in SUBSET Nat /\ IsFiniteSet(S) /\ Cardinality(S) = 4 /\ Probes = 1..4
  BY <1>1, ProposalsAreLines DEF IsolationPasses, Expected, Probes
<1>3. \A i \in S : /\ Rank(S, i) \in Probes /\ Nth(S, Rank(S, i)) = i
                   /\ records[i].command = Expected[Rank(S, i)]
                   /\ Pre(records, Rank(S, i)) = i
  BY <1>1, <1>2, NthIs, ProposalIsProbe
<1> HIDE DEF S
<1>4. \A i, j \in S : i < j => Rank(S, i) < Rank(S, j)
  BY <1>2, RankGrows
<1>5. ASSUME NEW k \in Probes
      PROVE  /\ p[k] \in S /\ Rank(S, p[k]) = k
             /\ records[p[k]].command = Expected[k] /\ Pre(records, k) = p[k]
  <2>1. PICK i \in S : Rank(S, i) = k
    BY <1>2, NthExists
  <2> QED BY <1>3, <2>1
<1>6. p \in [Probes -> S]
  BY <1>5
<1>7. \A i \in S : \E k \in Probes : p[k] = i
  BY <1>3
<1> HIDE DEF p
<1>8. ASSUME NEW j \in Probes, NEW k \in Probes, j < k PROVE p[j] < p[k]
  <2>1. p[j] \in Nat /\ p[k] \in Nat
    BY <1>2, <1>5
  <2>2. ~(k < j) /\ j # k
    BY <1>2, <1>8
  <2>3. ~(p[k] < p[j]) /\ p[j] # p[k]
    BY <1>4, <1>5, <2>2
  <2> QED BY <2>1, <2>3
<1> QED BY <1>5, <1>6, <1>7, <1>8 DEF S

\* Each has one prompt of its own, that shows its command.
LEMMA ProbePrompts ==
    ASSUME TypeOK, StatusOf(records, decisions) = "PASS", NEW k \in Probes,
           NEW i \in Proposals(records), Pre(records, k) = i
    PROVE  LET j == Perm(records, k)
           IN  /\ j \in Permissions(records) /\ i < j
               /\ records[j].command = records[i].command
               /\ Window(records, i) = {j}
<1> DEFINE j == Perm(records, k)
           W == {l \in Window(records, i) : Window(records, i) = {l} /\ SameCall(records, i, l)}
<1>1. BindingPasses(records)
  BY DEF StatusOf, Passes
<1>2. i # 0
  BY DEF TypeOK, Proposals, EventAt
<1>3. j # 0 /\ j = TheOnly(W, 0)
  BY <1>1, <1>2 DEF BindingPasses, Perm, PermissionAfter
<1>4. j \in W
  <2> HIDE DEF j, W
  <2> QED BY <1>3, TheOnlyIs
<1>5. i \in Evidence(records, k) /\ j \in Evidence(records, k)
  BY <1>2, <1>3 DEF Evidence
<1>6. records[j].command = records[i].command
  BY <1>1, <1>5 DEF BindingPasses, BindingFails
<1>7. j \in Window(records, i) /\ Window(records, i) = {j}
  BY <1>4
<1> HIDE DEF j
<1> QED BY <1>6, <1>7 DEF Window, j

\* A prompt that no proposal parts from an earlier one is in its window.
LEMMA InWindow ==
    ASSUME TypeOK, StatusOf(records, decisions) = "PASS",
           NEW i \in Proposals(records), NEW j \in Permissions(records), i < j,
           \A l \in Proposals(records) : i < l => j < l
    PROVE  j \in Window(records, i)
<1>1. /\ DOMAIN records = 1..Len(records) /\ Len(records) \in Nat
      /\ j \in 1..Len(records) /\ records[j].event = "PermissionRequest"
  BY DEF TypeOK, Permissions, EventAt
<1>2. Ends(records) \subseteq {Len(records)}
  <2>1. ~IntegrityFails(records, decisions)
    BY DEF StatusOf, Passes, Fails
  <2> QED BY <2>1 DEF IntegrityFails, SessionFails
<1>3. i \in Nat
  BY DEF TypeOK, Proposals, EventAt
<1>4. ASSUME NEW l \in (i + 1)..j PROVE l \notin Proposals(records) \cup Ends(records)
  <2>1. i < l /\ l <= j /\ l \in Nat
    BY <1>1, <1>3
  <2>2. l \notin Proposals(records)
    BY <1>1, <2>1
  <2>3. l \notin Ends(records)
    <3>1. SUFFICES ASSUME l \in Ends(records) PROVE FALSE
      OBVIOUS
    <3>2. l = Len(records) /\ records[l].event = "SessionEnd"
      BY <1>2, <3>1 DEF Ends, EventAt
    <3>3. l = j
      <4>1. j \in Nat /\ j <= Len(records)
        BY <1>1
      <4>2. \A a, b, c \in Nat : a <= b /\ b <= c /\ a = c => a = b
        OBVIOUS
      <4> QED BY <1>1, <2>1, <3>2, <4>1, <4>2
    <3> QED BY <1>1, <3>2, <3>3
  <2> QED BY <2>2, <2>3
<1> QED BY <1>4 DEF Window

\* A fifth call takes the two departures: it is not a probe, and one of the
\* proposals is not on record.
LEMMA PassCalls ==
    ASSUME MaxOddities <= 2, TypeOK, Link, Timely, Begun, Ledger, Debt,
           StatusOf(records, decisions) = "PASS"
    PROVE  \/ /\ Proposers(Calls) = 1..4 /\ Waiting(ProposalsOf(Calls)) = {}
           \/ /\ Proposers(Calls) = 1..5 /\ hooks = Waiting(ProposalsOf(Calls))
              /\ Wrong = {5} /\ Reused = {} /\ Unasked = {} /\ Straight
<1> DEFINE n == Cardinality(Proposers(Calls))
           W == Waiting(ProposalsOf(Calls))
<1>1. Cardinality(Lines(ProposalsOf(Calls))) = 4
  BY AllProposals DEF StatusOf, Passes, IsolationPasses, Expected
<1>2. IsFiniteSet(W) /\ Cardinality(W) \in Nat /\ 4 + Cardinality(W) = n
  BY <1>1, BookedTyped DEF Timely, Ledger, Booked
<1>3. n \in Nat /\ Proposers(Calls) = 1..n
      /\ \A u \in 1..n : u \in Calls /\ stage[u] # "none"
  BY FirstCalls
<1>4. IsFiniteSet(hooks) /\ Cardinality(hooks) \in Nat /\ W \subseteq hooks
      /\ Cardinality(W) <= Cardinality(hooks)
  <2>1. W \subseteq hooks
    BY DEF Waiting
  <2> QED BY <2>1, FS_Subset, FS_CardinalityType DEF Timely
<1>5. /\ Cardinality(Wrong) \in Nat /\ Cardinality(Reused) \in Nat
      /\ Cardinality(Misshown) \in Nat /\ Cardinality(Unasked) \in Nat /\ Cost(Straight) \in Nat
      /\ Cardinality(Wrong) + Cardinality(Reused) + Cardinality(Misshown) + Cardinality(Unasked)
         + Cardinality(hooks) + Cost(Straight) <= 2
  <2>1. oddities \in Nat /\ oddities <= 2
    BY OddityAssumption DEF TypeOK
  <2>2. Cardinality(Wrong) + Cardinality(Reused) + Cardinality(Misshown) + Cardinality(Unasked)
         + Cardinality(hooks) + Cost(Straight) <= oddities
    BY DEF Debt
  <2>3. /\ Cardinality(Wrong) \in Nat /\ Cardinality(Reused) \in Nat
        /\ Cardinality(Misshown) \in Nat /\ Cardinality(Unasked) \in Nat /\ Cost(Straight) \in Nat
    BY DebtTyped
  <2> QED BY <1>4, <2>1, <2>2, <2>3
<1>6. IsFiniteSet(Wrong) /\ \A S \in SUBSET Wrong : Cardinality(S) <= Cardinality(Wrong)
  <2>1. IsFiniteSet(Wrong)
    BY DebtTyped, CallsAreFinite
  <2> QED BY <2>1, FS_Subset
<1>7. \A u \in 1..n : u > 4 => u \in Wrong
  BY <1>3, ProbesAre DEF Wrong
<1> HIDE DEF n, W
<1>8. n < 6
  <2>1. SUFFICES ASSUME n >= 6 PROVE FALSE
    BY <1>3
  <2>2. {5, 6} \subseteq Wrong
    BY <1>3, <1>7, <2>1
  <2>3. Cardinality({5, 6}) = 2
    <3>1. 5 # 6
      OBVIOUS
    <3> QED BY <3>1, Pair
  <2>4. 2 <= Cardinality(Wrong)
    BY <1>6, <2>2, <2>3
  <2> QED BY <1>2, <1>4, <1>5, <2>1, <2>4
<1>9. n >= 4
  BY <1>2
<1>10. CASE n = 4
  <2>1. Cardinality(W) = 0
    BY <1>2, <1>10
  <2>2. W = {}
    BY <1>2, <2>1, FS_EmptySet
  <2> QED BY <1>3, <1>10, <2>2 DEF W
<1>11. CASE n = 5
  <2>1. {5} \subseteq Wrong /\ Cardinality({5}) = 1
    BY <1>7, <1>11, FS_Singleton
  <2>2. 1 <= Cardinality(Wrong) /\ 1 <= Cardinality(hooks) /\ Cardinality(W) = 1
    BY <1>2, <1>4, <1>6, <1>11, <2>1
  <2>3. /\ Cardinality(Wrong) = 1 /\ Cardinality(hooks) = 1
        /\ Cardinality(Reused) = 0 /\ Cardinality(Unasked) = 0 /\ Cost(Straight) = 0
    BY <1>4, <1>5, <2>2
  <2>4. Wrong = {5}
    BY <1>6, <2>1, <2>3, FS_Subset
  <2>5. hooks = W
    BY <1>4, <2>2, <2>3, FS_Subset
  <2>6. Reused = {} /\ Unasked = {}
    BY <2>3, DebtTyped, CallsAreFinite, FS_EmptySet
  <2>7. Straight
    BY <2>3 DEF Cost
  <2> QED BY <1>3, <1>11, <2>4, <2>5, <2>6, <2>7 DEF W
<1>12. n = 4 \/ n = 5
  BY <1>3, <1>8, <1>9
<1> QED BY <1>10, <1>11, <1>12

\* No id is used twice, and the probes are the calls on record when four
\* calls were made.
LEMMA PassDistinct ==
    ASSUME MaxOddities <= 2, TypeOK, Link, Timely, Begun, Ledger, Debt,
           StatusOf(records, decisions) = "PASS"
    PROVE  /\ Distinct
           /\ Proposers(Calls) = 1..4 => \A u \in Probes : Seen(u)
<1>1. ASSUME Reused = {} PROVE Distinct
  BY <1>1 DEF Distinct, Reused
<1>2. CASE Proposers(Calls) = 1..4 /\ Waiting(ProposalsOf(Calls)) = {}
  <2>1. ASSUME NEW x \in Calls
        PROVE  /\ IsFiniteSet(Lines(ProposalsOf({x}))) /\ Cardinality(Lines(ProposalsOf({x}))) \in Nat
               /\ IsFiniteSet(Proposers({x}))
               /\ Cardinality(Lines(ProposalsOf({x}))) = Cardinality(Proposers({x}))
    <3>1. Waiting(ProposalsOf({x})) = {}
      BY <1>2 DEF Waiting, ProposalsOf
    <3>2. Cardinality(Waiting(ProposalsOf({x}))) = 0
      BY <3>1, FS_EmptySet
    <3>3. Booked(ProposalsOf({x})) = Cardinality(Proposers({x}))
      BY DEF Ledger
    <3>4. IsFiniteSet(Lines(ProposalsOf({x}))) /\ Cardinality(Lines(ProposalsOf({x}))) \in Nat
      BY BookedTyped DEF Timely
    <3>5. IsFiniteSet(Proposers({x}))
      BY CallsAreFinite DEF Proposers
    <3> QED BY <3>2, <3>3, <3>4, <3>5 DEF Booked
  <2>2. \A x \in Calls : Lines(ProposalsOf({x})) \subseteq {i \in Proposals(records) : records[i].id = x}
    BY DEF Lines, Key, ProposalsOf, Proposals, EventAt
  <2>3. \A u \in Calls : stage[u] # "none" <=> u \in 1..4
    BY <1>2, FirstCalls
  <2>4. ASSUME NEW u \in 1..4, NEW w \in 1..4, id[u] = id[w], u # w PROVE FALSE
    <3> DEFINE x == id[u]
               L == Lines(ProposalsOf({x}))
    <3>1. u \in Calls /\ w \in Calls /\ x \in Calls
      BY <1>2, FirstCalls DEF TypeOK
    <3>2. {u, w} \subseteq Proposers({x})
      BY <2>3, <2>4, <3>1 DEF Proposers
    <3>3. 2 <= Cardinality(Proposers({x}))
      <4>1. Cardinality({u, w}) = 2
        BY <2>4, Pair
      <4> HIDE DEF x
      <4>2. IsFiniteSet(Proposers({x}))
        BY <2>1, <3>1
      <4>3. Cardinality({u, w}) <= Cardinality(Proposers({x}))
        BY <3>2, <4>2, FS_Subset
      <4> QED BY <4>1, <4>3
    <3>4. \A i, j \in L : i = j
      BY <2>2, <3>1, PassSays DEF IsUnique
    <3>5. IsFiniteSet(L) /\ Cardinality(L) \in Nat /\ 2 <= Cardinality(L)
      <4>1. Cardinality(Proposers({x})) \in Nat
        BY <2>1, <3>1, FS_CardinalityType
      <4> QED BY <2>1, <3>1, <3>3, <4>1
    <3> HIDE DEF L
    <3>6. PICK i : i \in L
      <4>1. L # {}
        BY <3>5, FS_EmptySet
      <4> QED BY <4>1
    <3>7. L = {i}
      BY <3>4, <3>6
    <3>8. Cardinality(L) = 1
      BY <3>7, FS_Singleton
    <3> QED BY <3>5, <3>8
  <2>5. ASSUME NEW u \in Calls, NEW w \in Calls, id[u] = id[w] PROVE u = w
    <3>1. \A v \in Calls : v \notin 1..4 => id[v] = v /\ v > 4
      BY <2>3 DEF Begun, Calls
    <3>2. \A v \in Calls : v \in 1..4 => id[v] <= 4
      BY DEF Begun
    <3>3. u \in Nat /\ w \in Nat
      BY DEF Calls
    <3> QED BY <2>4, <2>5, <3>1, <3>2, <3>3
  <2>6. ASSUME NEW u \in Probes PROVE Seen(u)
    <3> DEFINE x == id[u]
    <3>1. u \in Calls /\ x \in Calls /\ u \in Proposers({x})
      BY <1>2, <2>3, ProbesAre, FirstCalls DEF TypeOK, Proposers
    <3>2. Lines(ProposalsOf({x})) # {}
      BY <2>1, <3>1, FS_EmptySet
    <3>3. PICK i \in Lines(ProposalsOf({x})) : TRUE
      BY <3>2
    <3> QED BY <2>2, <3>1, <3>3 DEF Seen
  <2> QED BY <2>5, <2>6 DEF Distinct
<1>3. 1..5 # 1..4
  <2>1. 5 \in 1..5 /\ 5 \notin 1..4
    OBVIOUS
  <2> QED BY <2>1
<1> QED BY <1>1, <1>2, <1>3, PassCalls

LEMMA ExpectedTyped == Expected \in [Probes -> Shows]
BY DEF Probes, Expected, Shows, Commands

\* Each prompt is that of a probe, and shows as often as the probes do.
LEMMA PromptsCounted ==
    ASSUME TypeOK, Timely, Begun, Ledger, StatusOf(records, decisions) = "PASS",
           Proposers(Calls) = 1..4
    PROVE  /\ \A u \in Probes : shown[u] # NoCommand
           /\ \A c \in Shows : Cardinality({k \in Probes : Expected[k] = c})
                               = Cardinality({u \in Probes : shown[u] = c})
<1> DEFINE S == Permissions(records)
           g == [k \in Probes |-> Perm(records, k)]
           All == Presented(Shows)
<1>1. PICK p \in [Probes -> Proposals(records)] :
         /\ \A k \in Probes : /\ records[p[k]].command = Expected[k]
                              /\ Pre(records, k) = p[k]
         /\ \A j, k \in Probes : j < k => p[j] < p[k]
  BY ProbeLines
<1>2. ASSUME NEW k \in Probes
      PROVE  /\ g[k] \in S /\ p[k] < g[k] /\ records[g[k]].command = Expected[k]
             /\ Window(records, p[k]) = {g[k]}
  <2>1. p[k] \in Proposals(records) /\ Pre(records, k) = p[k]
    BY <1>1
  <2> QED BY <1>1, <2>1, ProbePrompts
<1>3. g \in [Probes -> S]
  BY <1>2
<1> HIDE DEF g
<1>4. ASSUME NEW j \in Probes, NEW k \in Probes, j < k PROVE g[j] # g[k]
  <2>1. p[j] < p[k] /\ p[k] < g[k] /\ p[k] \in Proposals(records)
    BY <1>1, <1>2, <1>4
  <2>2. SUFFICES ASSUME g[j] = g[k] PROVE FALSE
    OBVIOUS
  <2>3. p[j] \in Nat /\ p[k] \in Nat /\ g[k] \in Nat
    BY <1>2 DEF TypeOK, Proposals, Permissions, EventAt
  <2>4. p[k] \in (p[j] + 1)..g[j]
    BY <2>1, <2>2, <2>3
  <2>5. g[j] \in Window(records, p[j])
    BY <1>2
  <2> QED BY <2>1, <2>4, <2>5 DEF Window
<1>5. \A j, k \in Probes : g[j] = g[k] => j = k
  <2>1. \A j, k \in Probes : j = k \/ j < k \/ k < j
    BY ProbesAre
  <2> QED BY <1>4, <2>1
<1>6. S = Lines(PromptsOf(Shows))
  <2>1. ASSUME NEW i \in S PROVE i \in Lines(PromptsOf(Shows))
    <3>1. i \in DOMAIN records /\ records[i].event = "PermissionRequest"
      BY DEF Permissions, EventAt
    <3>2. records[i] \in Record
      BY <3>1 DEF TypeOK
    <3> QED BY <3>1, <3>2 DEF Record, Shows, Lines, Key, PromptsOf
  <2>2. \A i \in Lines(PromptsOf(Shows)) : i \in S
    BY DEF Lines, Key, PromptsOf, Permissions, EventAt
  <2> HIDE DEF S
  <2> QED BY <2>1, <2>2
<1>7. /\ IsFiniteSet(S) /\ Cardinality(S) \in Nat
      /\ IsFiniteSet(Waiting(PromptsOf(Shows))) /\ Cardinality(Waiting(PromptsOf(Shows))) \in Nat
      /\ Cardinality(S) + Cardinality(Waiting(PromptsOf(Shows))) = Cardinality(All)
  BY <1>6, BookedTyped DEF Timely, Ledger, Booked
<1>8. All \subseteq Probes /\ Cardinality(All) <= 4 /\ Cardinality(All) \in Nat
  <2>1. All \subseteq Probes
    <3>1. \A u \in Calls : stage[u] # "none" => u \in 1..4
      BY FirstCalls
    <3> QED BY <3>1, ProbesAre DEF Presented, Begun
  <2> HIDE DEF All
  <2> QED BY <2>1, ProbesAre, FS_Subset, FS_CardinalityType
<1> HIDE DEF S, All
<1>9. Cardinality(Probes) <= Cardinality(S) /\ (Cardinality(Probes) = Cardinality(S) => g \in Surjection(Probes, S))
  <2>1. g \in Injection(Probes, S)
    BY <1>3, <1>5, Fun_IsInj
  <2> QED BY <1>7, <2>1, FS_Injection
<1>10. /\ Cardinality(S) = 4 /\ Cardinality(All) = 4
       /\ Cardinality(Waiting(PromptsOf(Shows))) = 0
  BY <1>7, <1>8, <1>9, ProbesAre
<1>11. All = Probes
  BY <1>8, <1>10, ProbesAre, FS_Subset
<1>12. \A u \in Probes : shown[u] # NoCommand /\ u \in Calls
  BY <1>11 DEF All, Presented
<1>13. \A y \in S : \E k \in Probes : g[k] = y
  BY <1>9, <1>10, ProbesAre DEF Surjection
<1>14. ASSUME NEW c \in Shows
       PROVE  Cardinality({k \in Probes : Expected[k] = c}) = Cardinality({u \in Probes : shown[u] = c})
  <2> DEFINE A == {k \in Probes : Expected[k] = c}
             B == {j \in S : records[j].command = c}
             C == {u \in Probes : shown[u] = c}
  <2>1. \A k \in Probes : k \in A <=> g[k] \in B
    BY <1>2, <1>3 DEF S
  <2>2. Cardinality(A) = Cardinality(B)
    <3>1. A \in SUBSET Probes /\ B \in SUBSET S
      OBVIOUS
    <3> HIDE DEF A, B
    <3>2. IsFiniteSet(Probes)
      BY ProbesAre
    <3> QED BY <1>3, <1>5, <1>13, <2>1, <3>1, <3>2, Transport
  <2>3. B = Lines(PromptsOf({c}))
    <3>1. \A i : i \in Lines(PromptsOf({c})) <=> i \in Lines(PromptsOf(Shows)) /\ records[i].command = c
      BY DEF Lines, PromptsOf, Key
    <3> QED BY <1>6, <3>1 DEF S
  <2>4. Cardinality(Waiting(PromptsOf({c}))) = 0
    <3>1. Waiting(PromptsOf(Shows)) = {}
      BY <1>7, <1>10, FS_EmptySet
    <3>2. Waiting(PromptsOf({c})) = {}
      BY <3>1 DEF Waiting, PromptsOf
    <3> QED BY <3>2, FS_EmptySet
  <2>5. Presented({c}) = C
    <3>1. \A u \in Calls : shown[u] # NoCommand => u \in Probes
      <4>1. \A u \in Calls : shown[u] # NoCommand => shown[u] \in Shows
        BY DEF TypeOK, Shows
      <4> QED BY <1>11, <4>1 DEF All, Presented
    <3> QED BY <1>12, <3>1 DEF Presented
  <2>6. Booked(PromptsOf({c})) = Cardinality(Presented({c}))
    BY DEF Ledger
  <2>7. Cardinality(Lines(PromptsOf({c}))) \in Nat
    BY BookedTyped DEF Timely
  <2> HIDE DEF A, B, C
  <2>8. Cardinality(A) = Cardinality(C)
    BY <2>2, <2>3, <2>4, <2>5, <2>6, <2>7 DEF Booked
  <2> QED BY <2>8 DEF A, C
<1> QED BY <1>12, <1>14

\* Four calls of which no more than one is wrong or was shown wrongly: the
\* numbers leave no room for one.
LEMMA CountedSound ==
    ASSUME TypeOK, Link, Timely, Begun, Ledger, VerdictStands, verdict = "PASS", Distinct,
           Proposers(Calls) = 1..4, \A u \in Probes : Seen(u),
           Cardinality(Wrong) <= 1, Cardinality(Misshown) <= 1
    PROVE  \A u \in Probes : command[u] = Expected[u] /\ shown[u] = command[u]
<1> DEFINE com == [u \in Probes |-> command[u]]
           sho == [u \in Probes |-> shown[u]]
           T == {u \in Calls : Seen(u)}
<1>1. \A u \in Calls : stage[u] # "none" <=> u \in Probes
  BY FirstCalls, ProbesAre
<1>2. Probes \subseteq Calls
  BY FirstCalls, ProbesAre
<1>3. com \in [Probes -> Shows] /\ sho \in [Probes -> Shows]
  BY <1>2 DEF TypeOK, Shows
<1>4. T = Probes
  <2>1. ASSUME NEW u \in Calls, Seen(u) PROVE u \in Probes
    <3>1. PICK i \in Proposals(records) : records[i].id = id[u]
      BY <2>1 DEF Seen
    <3>2. records[i] \in Traces /\ records[i].event = "PreToolUse"
      BY DEF Proposals, EventAt, Traces
    <3>3. PICK w \in Calls : stage[w] # "none" /\ id[w] = records[i].id
      BY <3>2 DEF Link, ProposalsAreReal
    <3> QED BY <1>1, <3>1, <3>3 DEF Distinct
  <2> QED BY <1>2, <2>1
<1>5. PICK f \in Bijection(Probes, T) : \A k \in Probes : command[f[k]] = Expected[k]
  BY PassIsComplete
<1> HIDE DEF T
<1>6. ASSUME NEW c \in Shows
      PROVE  Cardinality(Taking(com, c, Probes)) = Cardinality(Taking(Expected, c, Probes))
  <2> DEFINE A == {k \in Probes : Expected[k] = c}
             B == {k \in Probes : com[k] = c}
  <2>1. f \in [Probes -> Probes]
    BY <1>4, <1>5 DEF Bijection, Injection
  <2>2. \A x, y \in Probes : f[x] = f[y] => x = y
    BY <1>4, <1>5 DEF Bijection, Injection, IsInjective
  <2>3. \A y \in Probes : \E x \in Probes : f[x] = y
    BY <1>4, <1>5 DEF Bijection, Surjection
  <2>4. A \in SUBSET Probes /\ B \in SUBSET Probes
    OBVIOUS
  <2>5. \A k \in Probes : k \in A <=> f[k] \in B
    BY <1>5, <2>1
  <2> HIDE DEF A, B
  <2> DEFINE g == [x \in A |-> f[x]]
  <2>6. g \in [A -> B] /\ \A x \in A : g[x] = f[x]
    BY <2>4, <2>5
  <2> HIDE DEF g
  <2>7. Cardinality(A) = Cardinality(B)
    <3>1. \A x, y \in A : g[x] = g[y] => x = y
      BY <2>2, <2>4, <2>6
    <3>2. \A y \in B : \E x \in A : g[x] = y
      BY <2>3, <2>4, <2>5, <2>6
    <3>3. g \in Bijection(A, B)
      BY <2>6, <3>1, <3>2, Fun_IsBij
    <3>4. IsFiniteSet(A) /\ ExistsBijection(A, B)
      BY <2>4, <3>3, ProbesAre, FS_Subset DEF ExistsBijection
    <3> QED BY <3>4, FS_Bijection
  <2> QED BY <2>7 DEF A, B, Taking
<1> DEFINE D == Differing(com, Expected, Probes)
<1>7. D = {}
  <2>1. D \subseteq Wrong
    BY <1>1, <1>2 DEF Wrong, Differing
  <2>2. Cardinality(D) <= 1
    <3>1. Cardinality(D) <= Cardinality(Wrong)
      <4> HIDE DEF D
      <4> QED BY <2>1, DebtTyped, CallsAreFinite, FS_Subset
    <3>2. Cardinality(D) \in Nat /\ Cardinality(Wrong) \in Nat
      <4> HIDE DEF D
      <4> QED BY <2>1, DebtTyped, CallsAreFinite
    <3> HIDE DEF D
    <3> QED BY <3>1, <3>2
  <2>3. IsFiniteSet(Probes)
    BY ProbesAre
  <2> HIDE DEF com
  <2> QED BY <1>3, <1>6, <2>2, <2>3, ExpectedTyped, OddOneOut
<1>8. \A u \in Probes : command[u] = Expected[u]
  BY <1>7 DEF Differing
<1> DEFINE G == Differing(Expected, sho, Probes)
<1>9. StatusOf(records, decisions) = "PASS"
  BY DEF VerdictStands
<1>10. /\ \A u \in Probes : shown[u] # NoCommand
       /\ \A c \in Shows : Cardinality(Taking(Expected, c, Probes))
                           = Cardinality(Taking(sho, c, Probes))
  <2>1. \A c : /\ Taking(sho, c, Probes) = {k \in Probes : shown[k] = c}
               /\ Taking(Expected, c, Probes) = {k \in Probes : Expected[k] = c}
    BY DEF Taking
  <2> HIDE DEF sho
  <2> QED BY <1>9, <2>1, PromptsCounted
<1>11. G = {}
  <2>1. G \subseteq Misshown
    BY <1>2, <1>8, <1>10 DEF Misshown, Differing
  <2>2. Cardinality(G) <= 1
    <3>1. Cardinality(G) <= Cardinality(Misshown)
      <4> HIDE DEF G
      <4> QED BY <2>1, DebtTyped, CallsAreFinite, FS_Subset
    <3>2. Cardinality(G) \in Nat /\ Cardinality(Misshown) \in Nat
      <4> HIDE DEF G
      <4> QED BY <2>1, DebtTyped, CallsAreFinite
    <3> HIDE DEF G
    <3> QED BY <3>1, <3>2
  <2>3. IsFiniteSet(Probes)
    BY ProbesAre
  <2> HIDE DEF sho
  <2> QED BY <1>3, <1>10, <2>2, <2>3, ExpectedTyped, OddOneOut
<1>12. \A u \in Probes : shown[u] = Expected[u]
  BY <1>11 DEF Differing
<1> QED BY <1>8, <1>12
-----------------------------------------------------------------------------
(***************************************************************************)
(* Calls one after the other, no hook overtaken: the lines of the file     *)
(* come in the order of the calls.                                         *)
(***************************************************************************)
Asking == Proposals(records) \cup Permissions(records)
\* of[i] is the call that line i is about.
Follows(of) ==
    /\ \A i \in Proposals(records) :
          /\ stage[of[i]] # "none" /\ records[i].id = id[of[i]]
          /\ records[i].command = command[of[i]]
    /\ \A j \in Permissions(records) :
          shown[of[j]] # NoCommand /\ records[j].command = shown[of[j]]
    /\ \A i, j \in Asking : i < j =>
          of[i] <= of[j] /\ (j \in Proposals(records) => of[i] # of[j])
    /\ (\A r \in hooks : r.event # "PermissionRequest") =>
          \A u \in Calls : shown[u] # NoCommand => \E j \in Permissions(records) : of[j] = u

LEMMA StraightLines ==
    ASSUME TypeOK, Timely, Straight
    PROVE  \E of \in [DOMAIN records -> Calls] : Follows(of)
<1>1. PICK owner \in [Nat -> Calls] : IsOwner(owner)
  BY DEF Straight
<1>2. \A i \in DOMAIN records : records[i] \in Traces /\ records[i].time \in Nat
  BY TracesTyped DEF Traces
<1> DEFINE of == [i \in DOMAIN records |-> owner[records[i].time]]
<1>3. of \in [DOMAIN records -> Calls] /\ \A i \in DOMAIN records : of[i] = owner[records[i].time]
  BY <1>1, <1>2
<1> HIDE DEF of
<1>4. \A i \in Proposals(records) : i \in DOMAIN records /\ records[i].event = "PreToolUse"
  BY DEF Proposals, EventAt
<1>5. \A i \in Permissions(records) : i \in DOMAIN records /\ records[i].event = "PermissionRequest"
  BY DEF Permissions, EventAt
<1>6. \A i \in Proposals(records) :
          /\ stage[of[i]] # "none" /\ records[i].id = id[of[i]]
          /\ records[i].command = command[of[i]]
  BY <1>1, <1>2, <1>3, <1>4 DEF IsOwner
<1>7. \A j \in Permissions(records) :
          shown[of[j]] # NoCommand /\ records[j].command = shown[of[j]]
  BY <1>1, <1>2, <1>3, <1>5 DEF IsOwner
<1>8. ASSUME NEW i \in Asking, NEW j \in Asking, i < j
      PROVE  of[i] <= of[j] /\ (j \in Proposals(records) => of[i] # of[j])
  <2>1. /\ i \in DOMAIN records /\ j \in DOMAIN records
        /\ Told(records[i]) /\ Told(records[j])
    BY <1>4, <1>5 DEF Asking, Told
  <2>2. records[i].time < records[j].time
    BY <1>8, <2>1 DEF Timely, Straight
  <2>3. /\ owner[records[i].time] <= owner[records[j].time]
        /\ records[j].event = "PreToolUse" => owner[records[i].time] # owner[records[j].time]
    BY <1>1, <1>2, <2>1, <2>2 DEF IsOwner
  <2> QED BY <1>3, <1>4, <2>1, <2>3
<1>9. ASSUME \A r \in hooks : r.event # "PermissionRequest", NEW u \in Calls, shown[u] # NoCommand
      PROVE  \E j \in Permissions(records) : of[j] = u
  <2>1. PICK r \in Traces : r.event = "PermissionRequest" /\ owner[r.time] = u
    BY <1>1, <1>9 DEF IsOwner
  <2>2. PICK j \in DOMAIN records : records[j] = r
    BY <1>9, <2>1 DEF Traces
  <2> QED BY <1>3, <2>1, <2>2 DEF Permissions, EventAt
<1>10. Follows(of)
  BY <1>6, <1>7, <1>8, <1>9 DEF Follows
<1> QED BY <1>3, <1>10

\* A line about call u, after the proposal of call k and before the next one,
\* when u lies between the two.
LEMMA LineBetween ==
    ASSUME TypeOK, NEW of \in [DOMAIN records -> Calls], Follows(of),
           NEW i \in Proposals(records), NEW j \in Permissions(records)
    PROVE  /\ of[i] <= of[j] => i < j
           /\ of[j] < of[i] => j < i
<1>1. i \in Asking /\ j \in Asking /\ i \in DOMAIN records /\ j \in DOMAIN records /\ i # j
  BY DEF Asking, Proposals, Permissions, EventAt
<1>2. i \in Nat /\ j \in Nat /\ of[i] \in Nat /\ of[j] \in Nat
  BY <1>1 DEF TypeOK, Calls
<1>3. i < j => of[i] <= of[j]
  BY <1>1 DEF Follows
<1>4. j < i => of[j] <= of[i] /\ of[j] # of[i]
  BY <1>1 DEF Follows
<1> QED BY <1>1, <1>2, <1>3, <1>4

\* The prompts asked for the first four calls, when a fifth one is on record.
LEMMA FiveAsked ==
    ASSUME TypeOK, Begun, InTurn, Unasked = {}, Proposers(Calls) = 1..5,
           hooks = Waiting(ProposalsOf(Calls)), NEW of, Follows(of), NEW u \in 1..4
    PROVE  \E j \in Permissions(records) : of[j] = u
<1>1. u \in Calls /\ 5 \in Calls /\ u < 5 /\ stage[u] # "none" /\ stage[5] # "none"
  BY FirstCalls
<1>2. stage[u] = "over"
  BY <1>1 DEF InTurn, Busy
<1>3. shown[u] # NoCommand
  BY <1>1, <1>2 DEF Unasked
<1>4. \A r \in hooks : r.event # "PermissionRequest"
  BY DEF Waiting, ProposalsOf, Key
<1> QED BY <1>1, <1>3, <1>4 DEF Follows

\* The k-th proposal of a session that passed is that of the k-th call.
LEMMA ProposalsInOrder ==
    ASSUME TypeOK, Begun, InTurn, StatusOf(records, decisions) = "PASS",
           NEW of \in [DOMAIN records -> Calls], Follows(of),
           \/ Proposers(Calls) = 1..4
           \/ /\ Proposers(Calls) = 1..5 /\ hooks = Waiting(ProposalsOf(Calls))
              /\ Wrong = {5} /\ Unasked = {},
           NEW p \in [Probes -> Proposals(records)],
           \A k \in Probes : records[p[k]].command = Expected[k] /\ Pre(records, k) = p[k],
           \A j, k \in Probes : j < k => p[j] < p[k],
           \A i \in Proposals(records) : \E k \in Probes : p[k] = i
    PROVE  \A k \in Probes : of[p[k]] = k
<1>1. Probes = 1..4
  BY ProbesAre
<1>2. \A u \in Calls : stage[u] # "none" <=> u \in Proposers(Calls)
  BY FirstCalls
<1>3. \A k \in Probes : /\ p[k] \in Proposals(records) /\ p[k] \in DOMAIN records /\ p[k] \in Asking
                        /\ p[k] \in Nat
  BY DEF Proposals, EventAt, Asking, TypeOK
<1>4. \A k \in Probes : /\ of[p[k]] \in Calls /\ of[p[k]] \in Nat /\ of[p[k]] \in Proposers(Calls)
                        /\ command[of[p[k]]] = Expected[k]
  <2>1. \A k \in Probes : of[p[k]] \in Calls /\ stage[of[p[k]]] # "none"
                          /\ records[p[k]].command = command[of[p[k]]]
    BY <1>3 DEF Follows
  <2> QED BY <1>2, <2>1 DEF Calls
<1>5. \A j, k \in Probes : j < k => of[p[j]] < of[p[k]]
  <2>1. \A j, k \in Probes : j < k => of[p[j]] <= of[p[k]] /\ of[p[j]] # of[p[k]]
    BY <1>3 DEF Follows
  <2> QED BY <1>4, <2>1
<1> DEFINE a == of[p[1]]
           b == of[p[2]]
           c == of[p[3]]
           d == of[p[4]]
<1>6. /\ a \in Nat /\ b \in Nat /\ c \in Nat /\ d \in Nat
      /\ a < b /\ b < c /\ c < d /\ a >= 1
  <2>1. 1 \in Probes /\ 2 \in Probes /\ 3 \in Probes /\ 4 \in Probes
    BY <1>1
  <2>2. a \in Calls
    BY <1>4, <2>1
  <2> QED BY <1>4, <1>5, <2>1, <2>2 DEF Calls
<1>7. a = 1 /\ b = 2 /\ c = 3 /\ d = 4
  <2>1. CASE Proposers(Calls) = 1..4
    <3>1. d \in 1..4
      BY <1>1, <1>4, <2>1
    <3> HIDE DEF a, b, c, d
    <3> QED BY <1>6, <3>1
  <2>2. CASE /\ Proposers(Calls) = 1..5 /\ hooks = Waiting(ProposalsOf(Calls))
             /\ Wrong = {5} /\ Unasked = {}
    <3>1. d \in 1..5
      BY <1>1, <1>4, <2>2
    <3>2. c # 4
      <4>1. SUFFICES ASSUME c = 4 PROVE FALSE
        OBVIOUS
      <4>2. command[4] = Expected[3]
        BY <1>1, <1>4, <4>1
      <4>3. 4 \in Calls /\ 4 \notin Wrong /\ stage[4] # "none"
        BY <1>2, <2>2, <1>1, <1>4, <4>1
      <4>4. command[4] = Expected[4]
        BY <4>3 DEF Wrong
      <4> QED BY <4>2, <4>4 DEF Expected
    <3>3. d # 5
      <4>1. SUFFICES ASSUME d = 5 PROVE FALSE
        OBVIOUS
      <4>2. c = 3
        <5> HIDE DEF a, b, c, d
        <5> QED BY <1>6, <3>2, <4>1
      <4>3. PICK x \in Permissions(records) : of[x] = 3
        BY <2>2, FiveAsked
      <4>4. PICK y \in Permissions(records) : of[y] = 4
        BY <2>2, FiveAsked
      <4>5. p[3] \in Proposals(records) /\ p[4] \in Proposals(records)
        BY <1>1, <1>3
      <4>6. p[3] < x /\ p[3] < y
        BY <4>2, <4>3, <4>4, <4>5, LineBetween
      <4>7. x < p[4] /\ y < p[4]
        BY <4>1, <4>3, <4>4, <4>5, LineBetween
      <4>8. ASSUME NEW l \in Proposals(records), p[3] < l PROVE l = p[4]
        <5>1. PICK k \in Probes : p[k] = l
          BY <4>8
        <5>2. ~(k < 3) /\ k # 3
          <6>1. k < 3 => p[k] < p[3]
            BY <1>1, <5>1
          <6>2. p[k] \in Nat /\ p[3] \in Nat
            BY <1>1, <1>3, <5>1
          <6> QED BY <4>8, <5>1, <6>1, <6>2
        <5> QED BY <1>1, <5>1, <5>2
      <4>9. x \in Window(records, p[3]) /\ y \in Window(records, p[3])
        BY <4>5, <4>6, <4>7, <4>8, InWindow
      <4>10. Pre(records, 3) = p[3] /\ 3 \in Probes
        BY <1>1
      <4>11. x = y
        BY <4>5, <4>9, <4>10, ProbePrompts
      <4> QED BY <4>3, <4>4, <4>11
    <3> HIDE DEF a, b, c, d
    <3> QED BY <1>6, <3>1, <3>2, <3>3
  <2> QED BY <2>1, <2>2
<1>8. of[p[1]] = 1 /\ of[p[2]] = 2 /\ of[p[3]] = 3 /\ of[p[4]] = 4
  BY <1>7
<1> QED BY <1>1, <1>8

\* Straight calls of a session that passed are the probes, each proposed and
\* shown as it should be.
LEMMA StraightSound ==
    ASSUME TypeOK, Timely, Begun, StatusOf(records, decisions) = "PASS", Straight,
           \/ Proposers(Calls) = 1..4
           \/ /\ Proposers(Calls) = 1..5 /\ hooks = Waiting(ProposalsOf(Calls))
              /\ Wrong = {5} /\ Unasked = {}
    PROVE  \A u \in Probes : Seen(u) /\ command[u] = Expected[u] /\ shown[u] = command[u]
<1>1. PICK of \in [DOMAIN records -> Calls] : Follows(of)
  BY StraightLines
<1>2. PICK p \in [Probes -> Proposals(records)] :
         /\ \A k \in Probes : records[p[k]].command = Expected[k] /\ Pre(records, k) = p[k]
         /\ \A j, k \in Probes : j < k => p[j] < p[k]
         /\ \A i \in Proposals(records) : \E k \in Probes : p[k] = i
  BY ProbeLines
<1>3. InTurn
  BY DEF Straight
<1>4. \A k \in Probes : of[p[k]] = k
  BY <1>1, <1>2, <1>3, ProposalsInOrder
<1>5. Probes = 1..4
  BY ProbesAre
<1> SUFFICES ASSUME NEW k \in Probes
             PROVE  Seen(k) /\ command[k] = Expected[k] /\ shown[k] = command[k]
  OBVIOUS
<1> DEFINE i == p[k]
           j == Perm(records, k)
<1>6. /\ i \in Proposals(records) /\ of[i] = k /\ records[i].id = id[k]
      /\ records[i].command = command[k] /\ command[k] = Expected[k]
  BY <1>1, <1>2, <1>4 DEF Follows
<1>7. /\ j \in Permissions(records) /\ i < j /\ records[j].command = command[k]
      /\ Window(records, i) = {j}
  <2>1. Pre(records, k) = i
    BY <1>2
  <2> HIDE DEF i
  <2> QED BY <1>6, <2>1, ProbePrompts
<1> HIDE DEF i, j
<1>8. /\ shown[of[j]] # NoCommand /\ shown[of[j]] = command[k]
      /\ of[j] \in Calls /\ of[j] \in Nat
  <2>1. j \in DOMAIN records
    BY <1>7 DEF Permissions, EventAt
  <2> QED BY <1>1, <1>7, <2>1 DEF Follows, Calls
<1>9. of[j] >= k
  <2>1. ~(of[j] < of[i])
    <3>1. i \in Nat /\ j \in Nat
      BY <1>6, <1>7 DEF TypeOK, Proposals, Permissions, EventAt
    <3> QED BY <1>1, <1>6, <1>7, <3>1, LineBetween
  <2> QED BY <1>5, <1>6, <1>8, <2>1
<1>10. of[j] = k
  <2>1. CASE k < 4
    <3> DEFINE l == p[k + 1]
    <3>1. k + 1 \in Probes /\ k < k + 1
      BY <1>5, <2>1
    <3>2. l \in Proposals(records) /\ i < l /\ of[l] = k + 1
      BY <1>2, <1>4, <3>1 DEF i
    <3> HIDE DEF l
    <3>3. i \in Nat /\ j \in Nat /\ l \in Nat
      BY <1>6, <1>7, <3>2 DEF TypeOK, Proposals, Permissions, EventAt
    <3>4. j < l
      <4>1. \A m \in (i + 1)..j : m \notin Proposals(records)
        BY <1>7 DEF Window
      <4>2. l \notin (i + 1)..j
        BY <3>2, <4>1
      <4> QED BY <3>2, <3>3, <4>2
    <3>5. ~(of[l] <= of[j])
      BY <1>1, <1>7, <3>2, <3>3, <3>4, LineBetween
    <3> QED BY <1>5, <1>8, <1>9, <3>2, <3>5
  <2>2. CASE k = 4
    <3>1. of[j] \in Proposers(Calls)
      <4>1. stage[of[j]] # "none"
        BY <1>8 DEF Begun
      <4> QED BY <1>8, <4>1, FirstCalls
    <3>2. CASE Proposers(Calls) = 1..4
      BY <1>8, <1>9, <2>2, <3>1, <3>2
    <3>3. CASE /\ Proposers(Calls) = 1..5 /\ hooks = Waiting(ProposalsOf(Calls))
               /\ Wrong = {5} /\ Unasked = {}
      <4>1. PICK x \in Permissions(records) : of[x] = 4
        BY <1>1, <1>3, <3>3, FiveAsked
      <4>2. i < x
        BY <1>1, <1>6, <2>2, <4>1, LineBetween
      <4>3. ASSUME NEW l \in Proposals(records), i < l PROVE FALSE
        <5>1. PICK m \in Probes : p[m] = l
          BY <1>2
        <5>2. p[m] \in Nat /\ p[k] \in Nat
          BY <1>2 DEF TypeOK, Proposals, EventAt
        <5>3. m < k => p[m] < p[k]
          BY <1>2
        <5>4. m < k \/ m = k
          BY <1>5, <2>2
        <5> QED BY <4>3, <5>1, <5>2, <5>3, <5>4 DEF i
      <4>4. x \in Window(records, i)
        BY <1>6, <4>1, <4>2, <4>3, InWindow
      <4>5. x = j
        BY <1>7, <4>4
      <4> QED BY <2>2, <4>1, <4>5
    <3> QED BY <3>2, <3>3
  <2> QED BY <1>5, <2>1, <2>2
<1>11. Seen(k)
  BY <1>6 DEF Seen
<1> QED BY <1>6, <1>8, <1>10, <1>11

\* Every departure but two is used up by what PASS would have to hide.
LEMMA PassEarnedNow ==
    ASSUME MaxOddities <= 2, TypeOK, Link, VerdictStands, Timely, Begun, Ledger, Debt
    PROVE  PassIsEarned
<1> SUFFICES ASSUME verdict = "PASS", NEW u \in Probes PROVE Sound(u)
  BY DEF PassIsEarned
<1>1. StatusOf(records, decisions) = "PASS"
  BY DEF VerdictStands
<1>2. Distinct /\ (Proposers(Calls) = 1..4 => \A w \in Probes : Seen(w))
  BY <1>1, PassDistinct
<1>3. Seen(u) /\ command[u] = Expected[u] /\ shown[u] = command[u]
  <2>1. CASE Straight
    BY <1>1, <2>1, PassCalls, StraightSound
  <2>2. CASE ~Straight
    <3>1. Proposers(Calls) = 1..4
      BY <1>1, <2>2, PassCalls
    <3>2. Cardinality(Wrong) <= 1 /\ Cardinality(Misshown) <= 1
      <4>1. /\ Cardinality(Wrong) \in Nat /\ Cardinality(Reused) \in Nat
            /\ Cardinality(Misshown) \in Nat /\ Cardinality(Unasked) \in Nat
        BY DebtTyped
      <4>2. Cardinality(hooks) \in Nat
        BY FS_CardinalityType DEF Timely
      <4>3. oddities \in Nat /\ oddities <= 2
        BY OddityAssumption DEF TypeOK
      <4>4. Cost(Straight) = 1
        BY <2>2 DEF Cost
      <4>5. Cardinality(Wrong) + Cardinality(Reused) + Cardinality(Misshown)
            + Cardinality(Unasked) + Cardinality(hooks) + 1 <= oddities
        BY <4>4 DEF Debt
      <4> QED BY <4>1, <4>2, <4>3, <4>5
    <3> QED BY <1>2, <3>1, <3>2, CountedSound
  <2> QED BY <2>1, <2>2
<1>4. u \in Calls
  <2>1. 1..4 \subseteq Calls
    BY CallAssumption DEF Calls, Expected
  <2> QED BY <2>1, ProbesAre
<1>5. /\ HumanDecided(u) /\ DenialHeld(u)
      /\ HumanAccepted(ruling[u]) => ran[u] = command[u]
  BY <1>2, <1>3, <1>4, PassIsSound
<1> QED BY <1>3, <1>5 DEF Sound

\* PASS is earned: with no more than two departures from the protocol, of
\* the agent, the human or the evidence, and whatever the number of calls, a
\* session that passes had every probe proposed and shown as expected,
\* decided by the human at its prompt, and run if it was accepted and, unless
\* the hook that says so was lost, only then (analyze_capture).
THEOREM PassEarned == MaxOddities <= 2 => (Spec => []PassIsEarned)
<1> SUFFICES ASSUME MaxOddities <= 2 PROVE Spec => []PassIsEarned
  OBVIOUS
<1>1. TypeOK /\ Link /\ Timely /\ Begun /\ Debt /\ [Next]_vars => Debt'
  BY NextDebt
<1>2. TypeOK /\ Link /\ VerdictStands /\ Timely /\ Begun /\ Ledger /\ Debt => PassIsEarned
  BY PassEarnedNow
<1> QED BY <1>1, <1>2, InitDebt, Invariants, PTL DEF Spec
=============================================================================
