----------------------------- MODULE LiveProps -----------------------------
(***************************************************************************)
(* What a live run promises: of the collector's bounded memory, of the     *)
(* answers its clients get, and of the verdict as the measure of all the   *)
(* telemetry the agent knew to be delivered.                               *)
(***************************************************************************)
EXTENDS LiveRun, FiniteSetsExt

CollectorTypeOK ==
    /\ message \in [Requests -> Messages \cup {NoMessage}]
    /\ handler \in [Requests -> Stages]
    /\ bytes \in Nat
    /\ payloads \in Seq(Payload)
    /\ errors \in Seq(Requests)

TypeOK ==
    /\ CollectorTypeOK
    /\ Len(errors) <= MaxErrors
    /\ executed \subseteq Uses
    /\ analysed \subseteq Decision
    /\ runner \in {"waiting", "analysed", "done"}
    /\ result \in {"NONE", "PASS", "FAIL", "INCOMPLETE"}
    /\ verdict \in {"NONE", "PASS", "FAIL", "INCOMPLETE"}
    /\ runner = "done" <=> verdict # "NONE"
    /\ settled \subseteq Requests

\* Handlers check the limits in one critical section and store in another,
\* yet neither limit is ever passed.
CountBounded == Len(payloads) <= MaxPayloads
BytesBounded == bytes <= MaxTotalBytes

\* What is stored was reserved.
Holding == {r \in Requests : \E k \in DOMAIN payloads : payloads[k].from = r}
StoredBytes == SumFunction([r \in Holding |-> message[r].length])
MemoryBounded == CountBounded /\ BytesBounded /\ StoredBytes <= bytes

\* A client told 200 finds its payload stored, once; one told 400 has left
\* nothing but an error, even when the list of errors is full.
StoredFrom(r) == {k \in DOMAIN payloads : payloads[k].from = r}
StoredOnce(r) == \E k \in StoredFrom(r) : StoredFrom(r) = {k}
                                          /\ payloads[k].content = message[r].content
AnswersAreTrue ==
    \A r \in Requests :
        /\ handler[r] = "ok" => StoredOnce(r)
        /\ handler[r] = "bad" => StoredFrom(r) = {} /\ errors # <<>>

\* The handlers, with their reservations, their reads outside the lock and
\* their second checks, are to clients and reader one receiver that keeps a
\* batch whole or turns it away in a single step, and a sound one only when
\* the limits leave no room for what was announced.
Arrived == {r \in Requests : handler[r] # "none"}
Sized(m) == 0 < m.length /\ m.length <= MaxRequestBytes
Announced == {r \in Arrived : message[r].to_logs /\ Sized(message[r])}
AnnouncedBytes == SumFunction([r \in Announced |-> message[r].length])
BatchAt(stage) ==
    CASE stage \in {"received", "reading", "parsed", "refused"} -> "open"
      [] stage = "stored" -> "kept"
      [] stage = "rejected" -> "turned away"
      [] OTHER -> stage
Receiver == INSTANCE Intake WITH
    batch <- [r \in Requests |-> BatchAt(handler[r])],
    kept <- payloads, held <- StoredBytes,
    announced <- AnnouncedBytes, trouble <- errors # <<>>
CollectorIsIntake == Receiver!Spec

\* PASS took into account every decision the agent had been told was
\* received, none of what the agent had been told was refused is missing
\* from it, and the agent ended well.
PassIsComplete ==
    verdict = "PASS" =>
        /\ returncode = 0
        /\ \A r \in settled :
              /\ handler[r] # "bad"
              /\ handler[r] = "ok" => message[r].content \subseteq analysed

ContentOf(requests) == {message[r].content : r \in requests}
Sent == ContentOf({r \in Requests : handler[r] # "none"})
Acknowledged == ContentOf({r \in settled : handler[r] = "ok"})
RejectedRan ==
    \E u \in executed :
        /\ \E c \in Acknowledged : [use |-> u, verdict |-> "reject"] \in c
        /\ \A c \in Sent : [use |-> u, verdict |-> "accept"] \notin c

\* A rejected probe that ran, with its rejection acknowledged before the
\* agent exited and no other decision about it, is a FAIL, however the other
\* telemetry and the agent fared.
ViolationKept ==
    (/\ runner = "done" /\ agent = "exited" /\ capture = "complete"
     /\ Malformed \notin Sent /\ RejectedRan) => verdict = "FAIL"

\* "Telemetry rejection/truncation or unsuccessful process exit prevents an
\* overall PASS" (docs/security.md).
RejectionPreventsPass ==
    verdict = "PASS" =>
        /\ returncode = 0
        /\ \A r \in Requests : handler[r] \notin {"refused", "rejected", "bad"}

\* Every client gets an answer, one that stops sending included, as long as
\* run_test has not returned: after that a handler may die with the process.
EveryRequestAnswered ==
    \A r \in Requests :
        handler[r] = "received" ~> handler[r] \in Answered \/ runner = "done"
=============================================================================
