----------------------------- MODULE CodexSuite ----------------------------
(***************************************************************************)
(* A Codex probe suite: the probe turns over the client, the App Server,   *)
(* the agent and the human it serves, and the analysis of the evidence.    *)
(*                                                                         *)
(* The repository has the probes and the analysis, but no longer the code  *)
(* that ran them one after another; here the next probe begins when one    *)
(* ends, and the analysis may come as soon as one was given up.            *)
(*                                                                         *)
(* The k-th probe asks for one turn, which the server numbers k; the       *)
(* command of that turn is item k.  Whatever departs from the protocol, of *)
(* the server, the agent, the human or the clock, costs one of MaxOddities.*)
(***************************************************************************)
EXTENDS CodexClient, CodexAnalysis

CONSTANT MaxOddities
ASSUME OddityAssumption == MaxOddities \in Nat

Codes == {"approve", "routeA", "routeB", "stop", "other"}
OtherItem == Len(Expected) + 1
Note(kind, item, command, status) ==
    [kind |-> kind, item |-> item, command |-> command, status |-> status]

\* The constants of the client: notifications and requests of the server,
\* and the turn id in the response to turn/start.
ServerMessages ==
    [kind : {"started", "approval", "completed", "turn", "other"},
     item : 1..OtherItem, command : Codes \cup {"none"},
     status : {"none", "completed", "failed", "declined", "interrupted"}]
TurnIds == 0..Len(Expected)
ASSUME SuiteAssumption == Ordinary = ServerMessages /\ Bodies = TurnIds

VARIABLES
    \* the caller: the probe that runs, what it is doing, its evidence
    probe, mode, ev, evs, verdict,
    \* the pipe to the server
    stdin,
    \* the server's turns: their stage, the command of the item, the one
    \* presented, the one the human read, the answer, what ran, interruption
    stage, command, shown, read, ruling, ran, interrupted,
    owed,       \* requests whose response is late
    strayed,    \* has the agent asked for a command of its own?
    oddities
caller == <<probe, mode, ev, evs, verdict, read>>
server == <<stage, command, shown, ruling, ran, interrupted, owed>>
vars == <<client, caller, server, stdin, strayed, oddities>>

Init ==
    /\ ClientInit
    /\ probe = 1 /\ mode = "begin" /\ ev = NoEvidence /\ evs = <<>> /\ verdict = "NONE"
    /\ stdin = <<>>
    /\ stage = [k \in Probes |-> "none"]
    /\ command = [k \in Probes |-> "none"] /\ shown = [k \in Probes |-> "none"]
    /\ read = [k \in Probes |-> "none"] /\ ruling = [k \in Probes |-> "none"]
    /\ ran = [k \in Probes |-> "none"] /\ interrupted = [k \in Probes |-> FALSE]
    /\ owed = {} /\ strayed = FALSE /\ oddities = 0

Odd(n) == oddities' = oddities + n /\ oddities' <= MaxOddities
Cost(b) == IF b THEN 0 ELSE 1
Sent(kind, id, value) == [kind |-> kind, id |-> id, value |-> value]

(***************************************************************************)
(* run_probe_turn and run_interrupt_probe, in steps of the client's calls. *)
(***************************************************************************)
\* The last step of a probe looks for the marker.
Marker(c) == \E k \in Probes : MarkerOf(ran[k]) = MarkerOf(c)
Finish_NoEvidence(e) ==
    /\ evs' = IF e.error THEN evs ELSE Append(evs, [e EXCEPT !.marker = Marker(Expected[probe])])
    /\ ev' = NoEvidence /\ probe' = probe + 1 /\ mode' = "begin"
Finish(e) ==
    /\ evs' = Append(evs, [e EXCEPT !.marker = Marker(Expected[probe])])
    /\ ev' = NoEvidence /\ probe' = probe + 1 /\ mode' = "begin"

\* The caller goes on with evidence e: it waits for the next message.
GoOn(e) == ev' = e /\ mode' = "reading" /\ NextMessage /\ UNCHANGED <<probe, evs>>

\* An exception of the client ends the probe.
GiveUp(e) == Finish([e EXCEPT !.error = TRUE]) /\ UNCHANGED client

\* send raises when the server is gone; odd if its end was not yet read.
Submit(kind, value) ==
    /\ Request
    /\ \/ call' = "request" /\ stdin' = Append(stdin, Sent(kind, requestId', value)) /\ Odd(0)
       \/ call' = "idle" /\ Odd(Cost(closed)) /\ UNCHANGED stdin
Respond(item, value, e, cost) ==
    \/ stdin' = Append(stdin, Sent("answer", item, value)) /\ GoOn(e) /\ Odd(cost)
    \/ GiveUp(e) /\ Odd(cost + Cost(closed)) /\ UNCHANGED stdin

StartProbe ==
    /\ mode = "begin" /\ probe \in Probes
    /\ Submit("start", probe)
    /\ mode' = "starting"
    /\ UNCHANGED <<probe, ev, evs, verdict, read, server, strayed>>

Started ==
    /\ mode = "starting" /\ call = "idle"
    /\ \/ result.kind = "response" /\ GoOn([ev EXCEPT !.turn = result.message.body])
       \/ result.kind = "raised" /\ GiveUp(ev)
    /\ UNCHANGED <<verdict, read, server, stdin, strayed, oddities>>

Reading(kind) == mode = "reading" /\ call = "idle" /\ result.kind = "message"
                 /\ result.message.kind = kind

OnStarted ==
    /\ Reading("started")
    /\ LET m == result.message
       IN  GoOn(IF ev.item = 0 THEN [ev EXCEPT !.item = m.item, !.started = m.command]
                ELSE [ev EXCEPT !.unexpected =
                        @ \/ m.item # ev.item \/ m.command # ev.started])
    /\ UNCHANGED <<verdict, read, server, stdin, strayed, oddities>>

SameProbe_AnyCommand(m) == ev.item \in {0, m.item}
SameProbe_AnyItem(m) == m.command = Expected[probe]
SameProbe(m) == m.command = Expected[probe] /\ ev.item \in {0, m.item}

\* A request that is not this probe's is declined without the human.
OnOtherApproval ==
    /\ Reading("approval") /\ ~SameProbe(result.message)
    /\ Respond(result.message.item, "decline", [ev EXCEPT !.unexpected = TRUE], 0)
    /\ UNCHANGED <<verdict, read, server, strayed>>

Presenting(m) == [ev EXCEPT !.item = m.item, !.presented = m.command]
\* What the probe asks of the human, who may do otherwise.
Asked == IF probe = 1 THEN "accept" ELSE "decline"
OnApproval ==
    /\ Reading("approval") /\ SameProbe(result.message) /\ probe # Stop
    /\ \E v \in {"accept", "decline"} :
          LET m == result.message
          IN  /\ read' = [k \in Probes |-> IF k = m.item THEN Expected[probe] ELSE read[k]]
              /\ Respond(m.item, v, [Presenting(m) EXCEPT !.decision = v], Cost(v = Asked))
    /\ UNCHANGED <<verdict, server, strayed>>

\* The last probe interrupts the turn while its command awaits approval.
OnPendingStop ==
    /\ Reading("approval") /\ SameProbe(result.message) /\ probe = Stop
    /\ LET e == Presenting(result.message)
       IN  \/ /\ ev.turn = 0 /\ GiveUp(e)
              /\ \/ stdin' = Append(stdin, Sent("answer", result.message.item, "decline"))
                 \/ UNCHANGED stdin
              /\ Odd(0)
           \/ /\ ev.turn # 0 /\ ev' = e /\ Submit("interrupt", ev.turn)
              /\ mode' = "interrupting" /\ UNCHANGED <<probe, evs>>
    /\ UNCHANGED <<verdict, read, server, strayed>>

Interrupting ==
    /\ mode = "interrupting" /\ call = "idle"
    /\ \/ result.kind = "response" /\ GoOn([ev EXCEPT !.interrupted = TRUE])
       \/ result.kind = "raised" /\ GiveUp(ev)
    /\ UNCHANGED <<verdict, read, server, stdin, strayed, oddities>>

OnCompleted ==
    /\ Reading("completed")
    /\ LET m == result.message
       IN  GoOn(IF ev.item \in {0, m.item}
                THEN [ev EXCEPT !.item = m.item, !.completed = m.command, !.status = m.status]
                ELSE [ev EXCEPT !.unexpected = TRUE])
    /\ UNCHANGED <<verdict, read, server, stdin, strayed, oddities>>

\* turn/completed ends the probe if it names the probe's turn.
OnTurn ==
    /\ Reading("turn")
    /\ LET m == result.message
       IN  IF ev.turn \in {0, m.item}
           THEN /\ Finish([ev EXCEPT !.closed = TRUE, !.turnStatus = m.status])
                /\ UNCHANGED client
           ELSE GoOn(ev)
    /\ UNCHANGED <<verdict, read, server, stdin, strayed, oddities>>

\* Another request is rejected and ends the probe; a late response is passed
\* over; an exception of the client ends the probe.
OnRest ==
    /\ mode = "reading" /\ call = "idle"
    /\ \/ /\ Reading("other") /\ GiveUp(ev)
          /\ \/ stdin' = Append(stdin, Sent("reject", 0, "none"))
             \/ UNCHANGED stdin
       \/ /\ \E kind \in {"result", "error", "invalid"} : Reading(kind)
          /\ GoOn(ev) /\ UNCHANGED stdin
       \/ result.kind = "raised" /\ GiveUp(ev) /\ UNCHANGED stdin
    /\ UNCHANGED <<verdict, read, server, strayed, oddities>>

CallerTakes == Take /\ UNCHANGED <<caller, server, stdin, strayed, oddities>>
CallerTimesOut ==
    TimeOut /\ Odd(1) /\ UNCHANGED <<caller, server, stdin, strayed>>

\* analyze_probes, of a suite that is complete or had to be given up.
Judge ==
    /\ mode = "begin" /\ verdict = "NONE"
    /\ probe \notin Probes \/ (\E k \in DOMAIN evs : evs[k].error)
    /\ verdict' = StatusOf(evs) /\ mode' = "judged"
    /\ UNCHANGED <<client, probe, ev, evs, read, server, stdin, strayed, oddities>>

(***************************************************************************)
(* The App Server and its agent, which are not part of the repository.     *)
(***************************************************************************)
Writes(m) == Receive(m)
Reply(kind, id, body) == [kind |-> kind, id |-> id, body |-> body]

\* turn/start: the turn is queued and the response written, at once or later;
\* odd responses name no turn, or refuse it.
ReadStart ==
    /\ stdin # <<>> /\ Head(stdin).kind = "start"
    /\ stdin' = Tail(stdin)
    /\ LET r == Head(stdin).id
           k == Head(stdin).value
       IN  \/ \E b \in {0, k} :
                 /\ Writes(Reply("result", r, b)) /\ Odd(Cost(b = k))
                 /\ stage' = [stage EXCEPT ![k] = "queued"] /\ UNCHANGED owed
           \/ \E e \in {"error", "invalid"} :
                 Writes(Reply(e, r, 0)) /\ Odd(1) /\ UNCHANGED <<stage, owed>>
           \/ /\ owed' = owed \cup {Reply("result", r, k)} /\ Odd(1)
              /\ stage' = [stage EXCEPT ![k] = "queued"] /\ UNCHANGED client
    /\ UNCHANGED <<caller, command, shown, ruling, ran, interrupted, strayed>>

LateReply(r) ==
    /\ r \in owed /\ owed' = owed \ {r}
    /\ Writes(r)
    /\ UNCHANGED <<caller, stage, command, shown, ruling, ran, interrupted, stdin, strayed, oddities>>

Runs(k) == \A j \in 1..(k - 1) : stage[j] \in {"none", "over"}

BeginItem(k) ==
    /\ stage[k] = "queued" /\ Runs(k)
    /\ \E c \in Codes :
          /\ stage' = [stage EXCEPT ![k] = "begun"]
          /\ command' = [command EXCEPT ![k] = c]
          /\ Writes(Note("started", k, c, "none"))
          /\ Odd(Cost(c = Expected[k]))
    /\ UNCHANGED <<caller, shown, ruling, ran, interrupted, owed, stdin, strayed>>

AskApproval(k) ==
    /\ stage[k] = "begun"
    /\ \E c \in Codes :
          /\ stage' = [stage EXCEPT ![k] = "asked"]
          /\ shown' = [shown EXCEPT ![k] = c]
          /\ Writes(Note("approval", k, c, "none"))
          /\ Odd(Cost(c = command[k]))
    /\ UNCHANGED <<caller, command, ruling, ran, interrupted, owed, stdin, strayed>>

\* The agent tries a second command, or the server asks something else.
AskMore(k) ==
    /\ stage[k] \in {"queued", "begun", "asked"} /\ Runs(k)
    /\ \E m \in {Note("approval", OtherItem, Expected[k], "none"),
                 Note("started", OtherItem, "other", "none"),
                 Note("other", OtherItem, "none", "none")} :
          /\ Writes(m)
          /\ strayed' = (strayed \/ m.kind # "other")
    /\ Odd(1)
    /\ UNCHANGED <<caller, server, stdin>>

ReadAnswer ==
    /\ stdin # <<>> /\ Head(stdin).kind \in {"answer", "reject"}
    /\ stdin' = Tail(stdin)
    /\ LET a == Head(stdin)
       IN  IF a.kind = "answer" /\ a.id \in Probes /\ stage[a.id] = "asked"
           THEN /\ ruling' = [ruling EXCEPT ![a.id] = a.value]
                /\ stage' = [stage EXCEPT ![a.id] = "answered"]
           ELSE UNCHANGED <<ruling, stage>>
    /\ UNCHANGED <<client, caller, command, shown, ran, interrupted, owed, strayed, oddities>>

\* The command runs: odd unless it was accepted, runs as presented, and is
\* reported as it went.
Execute(k) ==
    /\ stage[k] \in {"begun", "asked", "answered"}
    /\ \E c \in Codes, s \in {"completed", "failed", "declined"} :
          /\ ran' = [ran EXCEPT ![k] = c]
          /\ Writes(Note("completed", k, c, s))
          /\ Odd(Cost(ruling[k] = "accept") + Cost(c = shown[k]) + Cost(s = "completed"))
    /\ stage' = [stage EXCEPT ![k] = "done"]
    /\ UNCHANGED <<caller, command, shown, ruling, interrupted, owed, stdin, strayed>>

Refuse(k) ==
    /\ stage[k] = "answered" \/ (stage[k] = "asked" /\ interrupted[k])
    /\ stage' = [stage EXCEPT ![k] = "done"]
    /\ Writes(Note("completed", k, command[k], "declined"))
    /\ Odd(Cost(ruling[k] # "accept"))
    /\ UNCHANGED <<caller, command, shown, ruling, ran, interrupted, owed, stdin, strayed>>

ReadInterrupt ==
    /\ stdin # <<>> /\ Head(stdin).kind = "interrupt"
    /\ stdin' = Tail(stdin)
    /\ LET k == Head(stdin).value
       IN  /\ interrupted' = [interrupted EXCEPT ![k] = TRUE]
           /\ \/ Writes(Reply("result", Head(stdin).id, 0)) /\ Odd(0)
              \/ Writes(Reply("error", Head(stdin).id, 0)) /\ Odd(1)
    /\ UNCHANGED <<caller, stage, command, shown, ruling, ran, owed, strayed>>

\* The turn ends; odd if it never got to its command.
EndTurn(k) ==
    /\ Runs(k) /\ stage[k] \in {"queued", "begun", "done"}
    /\ stage' = [stage EXCEPT ![k] = "over"]
    /\ Writes(Note("turn", k, "none", IF interrupted[k] THEN "interrupted" ELSE "completed"))
    /\ Odd(Cost(stage[k] = "done"))
    /\ UNCHANGED <<caller, command, shown, ruling, ran, interrupted, owed, stdin, strayed>>

Disturb ==
    /\ \E m \in {Garbage, EndOfStream} : Writes(m)
    /\ Odd(1)
    /\ UNCHANGED <<caller, server, stdin, strayed>>

CallerNext ==
    \/ StartProbe \/ Started \/ OnStarted \/ OnOtherApproval \/ OnApproval
    \/ OnPendingStop \/ Interrupting \/ OnCompleted \/ OnTurn \/ OnRest
    \/ CallerTakes \/ CallerTimesOut \/ Judge
ServerNext ==
    \/ ReadStart \/ ReadAnswer \/ ReadInterrupt \/ Disturb
    \/ \E r \in owed : LateReply(r)
    \/ \E k \in Probes : BeginItem(k) \/ AskApproval(k) \/ AskMore(k) \/ Execute(k)
                         \/ Refuse(k) \/ EndTurn(k)
Next == verdict = "NONE" /\ (CallerNext \/ ServerNext)

Spec == Init /\ [][Next]_vars
=============================================================================
