------------------------------- MODULE Intake -------------------------------
(***************************************************************************)
(* What the telemetry receiver is to its clients and to the reader of its  *)
(* payloads, with no threads, locks or reservations: a batch is kept whole *)
(* or turned away, in one step, and its client is told so afterwards.      *)
(* What is kept stays within the limits, and a sound batch is turned away  *)
(* only when the payloads are full or more bytes were announced than the   *)
(* limit allows.                                                           *)
(***************************************************************************)
EXTENDS Naturals, Sequences

CONSTANTS Requests, Messages, NoMessage, MaxRequestBytes, MaxTotalBytes, MaxPayloads

VARIABLES message,      \* what each client sent
          batch,        \* "none", "open", "kept", "turned away" or what its client was told
          kept,         \* the batches kept, in order
          held,         \* the bytes of these
          announced,    \* the bytes of all batches of a valid size
          trouble       \* was a batch ever turned away?
intakeVars == <<message, batch, kept, held, announced, trouble>>

Init ==
    /\ message = [r \in Requests |-> NoMessage]
    /\ batch = [r \in Requests |-> "none"]
    /\ kept = <<>> /\ held = 0 /\ announced = 0 /\ trouble = FALSE

Sized(m) == 0 < m.length /\ m.length <= MaxRequestBytes
Counted(m) == m.to_logs /\ Sized(m)

Arrive(r, m) ==
    /\ batch[r] = "none"
    /\ batch' = [batch EXCEPT ![r] = "open"]
    /\ message' = [message EXCEPT ![r] = m]
    /\ announced' = IF Counted(m) THEN announced + m.length ELSE announced
    /\ UNCHANGED <<kept, held, trouble>>

\* A batch elsewhere than at the secret path is ignored.
Ignore(r) ==
    /\ batch[r] = "open" /\ ~message[r].to_logs
    /\ batch' = [batch EXCEPT ![r] = "stray"]
    /\ UNCHANGED <<message, kept, held, announced, trouble>>

Sound(r) == Sized(message[r]) /\ message[r].body = "object"

Keep(r) ==
    /\ batch[r] = "open" /\ message[r].to_logs /\ Sound(r)
    /\ batch' = [batch EXCEPT ![r] = "kept"]
    /\ kept' = Append(kept, [from |-> r, content |-> message[r].content])
    /\ held' = held + message[r].length
    /\ Len(kept') <= MaxPayloads /\ held' <= MaxTotalBytes
    /\ UNCHANGED <<message, announced, trouble>>

TurnAway(r) ==
    /\ batch[r] = "open" /\ message[r].to_logs
    /\ Sound(r) => Len(kept) >= MaxPayloads \/ announced > MaxTotalBytes
    /\ batch' = [batch EXCEPT ![r] = "turned away"]
    /\ trouble' = TRUE
    /\ UNCHANGED <<message, kept, held, announced>>

Tell(r) ==
    /\ batch[r] \in {"kept", "turned away"}
    /\ batch' = [batch EXCEPT ![r] = IF batch[r] = "kept" THEN "ok" ELSE "bad"]
    /\ UNCHANGED <<message, kept, held, announced, trouble>>

Next == \E r \in Requests :
    \/ \E m \in Messages : Arrive(r, m)
    \/ Ignore(r) \/ Keep(r) \/ TurnAway(r) \/ Tell(r)

Spec == Init /\ [][Next]_intakeVars
=============================================================================
