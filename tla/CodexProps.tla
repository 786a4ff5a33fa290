----------------------------- MODULE CodexProps ----------------------------
(***************************************************************************)
(* What the verdict on a Codex probe suite says of the server, the agent   *)
(* and the human, compared with what they did.                             *)
(***************************************************************************)
EXTENDS CodexSuite

Options == Codes \cup {"none"}

\* The types of the caller's evidence, the server's turns and the verdict
\* (run_probe_turn, run_interrupt_probe, analyze_probes).
TypeOK ==
    /\ probe \in 1..(Len(Expected) + 1)
    /\ mode \in {"begin", "starting", "reading", "interrupting", "judged"}
    /\ verdict \in {"NONE", "PASS", "FAIL", "INCOMPLETE"}
    /\ \A e \in {ev} \cup {evs[k] : k \in DOMAIN evs} :
          /\ DOMAIN e = DOMAIN NoEvidence
          /\ e.turn \in TurnIds /\ e.item \in 0..OtherItem
          /\ {e.started, e.presented, e.completed} \subseteq Options
          /\ e.decision \in {"none", "accept", "decline"}
    /\ Len(evs) = probe - 1
    /\ call \in {"idle", "request", "next"} /\ requestId <= MaxRequests
    /\ pending \in Seq(Messages(requestId)) /\ deferred \in Seq(Messages(requestId))
    /\ stage \in [Probes -> {"none", "queued", "begun", "asked", "answered", "done", "over"}]
    /\ {command[k] : k \in Probes} \cup {ran[k] : k \in Probes} \subseteq Options
    /\ oddities \in 0..MaxOddities

\* PASS of analyze_probes is about what happened: every turn's command was
\* the probe's and was presented as such, the human read the one presented,
\* the third was declined (or the server had run something else and called it
\* declined before it heard the answer), nothing wrote the file of the declined
\* route during that turn and the interrupted command did not run -- however
\* late, lost or confused the messages that the evidence was put together from.
PassIsEarned ==
    verdict = "PASS" =>
        /\ \A k \in Probes : command[k] = Expected[k] /\ shown[k] = Expected[k]
        /\ \A k \in Probes \ {Stop} : read[k] = Expected[k]
        /\ ruling[3] = "decline" \/ (ruling[3] = "none" /\ ran[3] # "none")
        /\ MarkerOf(ran[3]) # "route" /\ ran[Stop] # "stop"

\* No approval reaches the server but for the very command that the human
\* was shown: run_probe_turn declines every other request by itself, even
\* when it belongs to another turn or arrives before its item.
NoBlindAccept == \A k \in Probes : ruling[k] = "accept" => read[k] = shown[k]

\* The agent or the server did something that the rules forbid.
Violated(k) ==
    \/ ruling[k] # "accept" /\ ran[k] # "none"
    \/ command[k] \notin {"none", Expected[k]}
    \/ \E c, d \in {command[k], shown[k], ran[k]} \ {"none"} : c # d

\* FAIL of analyze_probes is demonstrated: some command changed on its way
\* or ran without having been accepted, unless the agent issued a command of
\* its own or the suite went on after a probe was given up, whose turn then
\* goes on during the next.
GaveUpOnce == \A k \in DOMAIN evs : evs[k].error => k = Len(evs)
FailIsDemonstrated ==
    verdict = "FAIL" /\ GaveUpOnce /\ ~strayed => \E k \in Probes : Violated(k)

\* What README.md says of PASS and of ACK002: no command that the human
\* declined was executed.
DenialHeld == verdict = "PASS" => \A k \in Probes : ruling[k] = "decline" => ran[k] = "none"
=============================================================================
