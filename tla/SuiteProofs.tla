---------------------------- MODULE SuiteProofs ----------------------------
(***************************************************************************)
(* No approval reaches the App Server but for the very command that the    *)
(* human was shown, for any number of requests, of waiting messages and of *)
(* departures from the protocol.  A message on its way to the caller, or   *)
(* an answer on its way to the server, is safe: a request for approval     *)
(* shows what the server presented, and an accept is for what was read.    *)
(*                                                                         *)
(* And the verdict is about what happened: the evidence it is made of is   *)
(* an account of the turns, which is what PASS and FAIL are shown from.    *)
(***************************************************************************)
EXTENDS CodexProps, CodexProofs, FiniteSetTheorems, SequenceTheorems, TLAPS

Statuses == {"none", "completed", "failed", "declined", "interrupted"}
Evidence ==
    [turn : TurnIds, item : 0..OtherItem, started : Options, presented : Options,
     decision : {"none", "accept", "decline"}, completed : Options, status : Statuses,
     closed : BOOLEAN, turnStatus : Statuses, interrupted : BOOLEAN,
     unexpected : BOOLEAN, error : BOOLEAN, marker : BOOLEAN]
\* The turn has come to its command's approval, or is past it.
PastAsking(k) == stage[k] \notin {"none", "queued", "begun"}

SafeMessages ==
    {m \in Messages(requestId) :
        m.kind = "approval" /\ m.item \in Probes => PastAsking(m.item) /\ m.command = shown[m.item]}
SafeLines ==
    [kind : {"start", "interrupt"}, id : 1..requestId, value : Probes]
    \cup {a \in [kind : {"answer"}, id : 1..OtherItem, value : {"accept", "decline"}] :
            a.id \in Probes /\ a.value = "accept" => PastAsking(a.id) /\ read[a.id] = shown[a.id]}
    \cup [kind : {"reject"}, id : {0}, value : {"none"}]

\* The client's queues and its last result hold members of S.
Outcome(r, S) == r.message \in S /\ (r.kind = "response" => r.message.kind = "result")
Held(q, p, d, r, S) ==
    q \in Seq(S) /\ p \in Seq(S) /\ d \in Seq(S) /\ Outcome(r, S)

CallerInv ==
    /\ probe \in 1..(Len(Expected) + 1)
    /\ mode \in {"begin", "starting", "reading", "interrupting", "judged"}
    /\ mode \notin {"begin", "judged"} => probe \in Probes
    /\ verdict \in {"NONE", "PASS", "FAIL", "INCOMPLETE"}
    /\ ev \in Evidence /\ evs \in Seq(Evidence) /\ Len(evs) = probe - 1

QueuesInv ==
    /\ call \in {"idle", "request", "next"}
    /\ requestId \in Nat /\ requestId <= MaxRequests
    /\ Held(queue, pending, deferred, result, SafeMessages)

\* A turn is asked for once, and not yet begun while the line is on its way.
PipeInv ==
    /\ stdin \in Seq(SafeLines)
    /\ \A n \in DOMAIN stdin : stdin[n].kind = "start" =>
          /\ stdin[n].value <= probe /\ (mode = "begin" => stdin[n].value < probe)
          /\ stage[stdin[n].value] = "none"
          /\ \A l \in DOMAIN stdin :
                stdin[l].kind = "start" /\ stdin[l].value = stdin[n].value => l = n

Stages == {"none", "queued", "begun", "asked", "answered", "done", "over"}
TurnTypes ==
    /\ stage \in [Probes -> Stages]
    /\ command \in [Probes -> Options] /\ shown \in [Probes -> Options]
    /\ ran \in [Probes -> Options]
    /\ ruling \in [Probes -> {"none", "accept", "decline"}]
    /\ interrupted \in [Probes -> BOOLEAN]

ServerInv ==
    /\ TurnTypes /\ read \in [Probes -> Options]
    /\ owed \subseteq Responses(requestId)
    /\ oddities \in 0..MaxOddities
    /\ \A k \in Probes : probe < k \/ (probe = k /\ mode = "begin") => stage[k] = "none"
    /\ \A k \in Probes : ruling[k] = "accept" => PastAsking(k) /\ read[k] = shown[k]

SuiteInv == CallerInv /\ QueuesInv /\ PipeInv /\ ServerInv
-----------------------------------------------------------------------------
(* The constants of the suite.                                             *)

LEMMA ProbesAre ==
  /\ Probes = 1..5 /\ Len(Expected) = 5 /\ OtherItem = 6 /\ TurnIds = 0..5
  /\ \A k \in Probes : Expected[k] \in Codes
BY DEF Probes, Expected, OtherItem, TurnIds, Codes

LEMMA MessageKinds ==
  ASSUME NEW n \in Nat, NEW m \in Messages(n)
  PROVE  /\ m.kind \in {"started", "approval", "completed", "turn", "other"} => m \in ServerMessages
         /\ m.kind \in {"result", "error", "invalid"} => m \in Responses(n)
         /\ m.kind \notin {"result", "error", "invalid", "garbage", "end"} => m \in ServerMessages
BY SuiteAssumption DEF Messages, Responses, Garbage, EndOfStream, ServerMessages

LEMMA MessagesGrow ==
  ASSUME NEW n \in Nat, NEW l \in Nat, n <= l
  PROVE  Messages(n) \subseteq Messages(l) /\ Responses(n) \subseteq Responses(l)
BY DEF Messages, Responses

LEMMA Widen ==
  ASSUME NEW S, NEW T, S \subseteq T, NEW s \in Seq(S)
  PROVE  s \in Seq(T)
<1>1. Len(s) \in Nat /\ s \in [1..Len(s) -> S]
  BY LenProperties
<1>2. s \in [1..Len(s) -> T]
  BY <1>1
<1> QED  BY <1>1, <1>2, IsASeq
-----------------------------------------------------------------------------
(* The client passes on what it was given.                                 *)

LEMMA HeldWiden ==
  ASSUME NEW S, NEW T, S \subseteq T, NEW q, NEW p, NEW d, NEW r, Held(q, p, d, r, S)
  PROVE  Held(q, p, d, r, T)
BY Widen DEF Held, Outcome

LEMMA ReceiveHeld ==
  ASSUME NEW S, NEW m \in S, Held(queue, pending, deferred, result, S), Receive(m)
  PROVE  Held(queue', pending', deferred', result', S)
BY AppendProperties DEF Held, Receive

LEMMA EndHeld ==
  ASSUME NEW S, Held(queue, pending, deferred, result, S), NEW outcome, NEW left \in Seq(S),
         Outcome(outcome, S), End(outcome, left)
  PROVE  /\ pending' \in Seq(S) /\ deferred' \in Seq(S) /\ Outcome(result', S)
         /\ call' = "idle"
<1>1. deferred \o left \in Seq(S)
  BY ConcatProperties DEF Held
<1>2. <<>> \in Seq(S)
  BY EmptySeq
<1> QED  BY <1>1, <1>2 DEF End, PutBack

LEMMA TakeHeld ==
  ASSUME NEW S, Garbage \in S, Held(queue, pending, deferred, result, S), Take,
         call \in {"idle", "request", "next"}
  PROVE  /\ Held(queue', pending', deferred', result', S)
         /\ call' \in {"idle", "request", "next"} /\ requestId' = requestId
<1> DEFINE m == IF pending # <<>> THEN Head(pending) ELSE Head(queue)
           left == IF pending # <<>> THEN Tail(pending) ELSE <<>>
<1>1. m \in S /\ left \in Seq(S) /\ queue' \in Seq(S) /\ requestId' = requestId
  BY HeadTailProperties, EmptySeq DEF Held, Take
<1>2. Outcome(Delivered(m), S) /\ Outcome(Returned(m), S)
  BY <1>1 DEF Delivered, Returned, Raised, Outcome
<1>3. CASE End(Delivered(m), left) \/ End(Returned(m), left)
  BY <1>1, <1>2, <1>3, EndHeld DEF Held
<1>4. CASE deferred' = Append(deferred, m) /\ pending' = left /\ UNCHANGED <<call, result>>
  BY <1>1, <1>4, AppendProperties DEF Held
<1> QED  BY <1>3, <1>4 DEF Take

LEMMA TimeOutHeld ==
  ASSUME NEW S, Garbage \in S, Held(queue, pending, deferred, result, S), TimeOut
  PROVE  /\ Held(queue', pending', deferred', result', S)
         /\ call' = "idle" /\ requestId' = requestId
<1>1. End(Raised, <<>>) /\ queue' = queue /\ requestId' = requestId
  BY DEF TimeOut
<1>2. Outcome(Raised, S) /\ <<>> \in Seq(S)
  BY EmptySeq DEF Raised, Outcome
<1> QED  BY <1>1, <1>2, EndHeld DEF Held

LEMMA RequestHeld ==
  ASSUME NEW S, Garbage \in S, Held(queue, pending, deferred, result, S), Request,
         requestId \in Nat
  PROVE  /\ Held(queue', pending', deferred', result', S)
         /\ call' \in {"idle", "request"}
         /\ requestId' = requestId + 1 /\ requestId' <= MaxRequests
BY BoundAssumption DEF Held, Request, Raised, Outcome

LEMMA NextHeld ==
  ASSUME NEW S, Held(queue, pending, deferred, result, S), NextMessage
  PROVE  /\ Held(queue', pending', deferred', result', S)
         /\ call' = "next" /\ requestId' = requestId
BY DEF Held, NextMessage

\* A step of the client, or none.
Serves(S) == \/ \E m \in S : Receive(m)
             \/ Request \/ NextMessage \/ Take \/ TimeOut \/ UNCHANGED client

\* Requests are counted up; what the server presented and what was read of a
\* turn past asking stay, unless what was presented is read now.
Grows ==
    /\ \A k \in Probes : PastAsking(k) =>
          PastAsking(k)' /\ shown'[k] = shown[k] /\ read'[k] \in {read[k], shown[k]}
    /\ stage' \in [Probes -> Stages]

LEMMA CountsUp ==
  ASSUME NEW S, QueuesInv, Serves(S)
  PROVE  requestId' \in Nat /\ requestId <= requestId' /\ requestId' <= MaxRequests
BY BoundAssumption DEF QueuesInv, Serves, Receive, Request, NextMessage, Take, TimeOut, client

LEMMA SafeGrows ==
  ASSUME SuiteInv, Grows, requestId' \in Nat, requestId <= requestId'
  PROVE  SafeMessages \subseteq SafeMessages' /\ SafeLines \subseteq SafeLines'
<1>1. requestId \in Nat
  BY DEF SuiteInv, QueuesInv
<1>2. ASSUME NEW m \in SafeMessages
      PROVE  m \in SafeMessages'
  <2>1. m \in Messages(requestId')
    BY <1>1, MessagesGrow DEF SafeMessages
  <2> QED  BY <2>1, <1>2 DEF SafeMessages, Grows
<1>3. ASSUME NEW a \in SafeLines
      PROVE  a \in SafeLines'
  BY <1>1 DEF SafeLines, Grows
<1> QED  BY <1>2, <1>3

LEMMA QueuesKept ==
  ASSUME SuiteInv, Grows, Serves(SafeMessages')
  PROVE  QueuesInv' /\ SafeMessages \subseteq SafeMessages' /\ SafeLines \subseteq SafeLines'
         /\ requestId' \in Nat /\ requestId <= requestId'
<1> DEFINE S == SafeMessages'
<1>1. /\ requestId' \in Nat /\ requestId <= requestId' /\ requestId' <= MaxRequests
      /\ requestId \in Nat /\ call \in {"idle", "request", "next"}
  BY CountsUp DEF SuiteInv, QueuesInv
<1>2. SafeMessages \subseteq S /\ SafeLines \subseteq SafeLines'
  BY <1>1, SafeGrows
<1>3. Held(queue, pending, deferred, result, S)
  BY <1>2, HeldWiden DEF SuiteInv, QueuesInv
<1>4. Garbage \in S
  BY DEF SafeMessages, Messages, Garbage
<1>5. /\ Held(queue', pending', deferred', result', S)
      /\ call' \in {"idle", "request", "next"}
  <2>1. CASE \E m \in S : Receive(m)
    <3>1. PICK m \in S : Receive(m)
      BY <2>1
    <3> HIDE DEF S
    <3> QED  BY <1>1, <1>3, <3>1, ReceiveHeld DEF Receive
  <2>2. CASE Request
    <3> HIDE DEF S
    <3> QED  BY <1>1, <1>3, <1>4, <2>2, RequestHeld
  <2>3. CASE NextMessage
    <3> HIDE DEF S
    <3> QED  BY <1>3, <2>3, NextHeld
  <2>4. CASE Take
    <3> HIDE DEF S
    <3> QED  BY <1>1, <1>3, <1>4, <2>4, TakeHeld
  <2>5. CASE TimeOut
    <3> HIDE DEF S
    <3> QED  BY <1>3, <1>4, <2>5, TimeOutHeld
  <2>6. CASE UNCHANGED client
    BY <1>1, <1>3, <2>6 DEF client
  <2> QED  BY <2>1, <2>2, <2>3, <2>4, <2>5, <2>6 DEF Serves
<1> QED  BY <1>1, <1>2, <1>5 DEF QueuesInv
-----------------------------------------------------------------------------
(* What the caller's and the server's steps have in common.                *)

LEMMA OddBound ==
  ASSUME oddities \in 0..MaxOddities, NEW n \in Nat, Odd(n)
  PROVE  oddities' \in 0..MaxOddities
BY OddityAssumption DEF Odd

LEMMA CostIs == \A b \in BOOLEAN : Cost(b) \in Nat
BY DEF Cost

\* The caller goes on, or to the next probe.
Advances ==
    \/ probe' = probe /\ (mode' = mode \/ mode' # "begin")
    \/ probe' = probe + 1

LEMMA CallerKeeps ==
  ASSUME SuiteInv, Grows, UNCHANGED server, Advances, oddities' \in 0..MaxOddities,
         SafeLines \subseteq SafeLines', requestId' \in Nat, requestId <= requestId',
         read' \in [Probes -> Options],
         stdin' = stdin
         \/ \E a \in SafeLines' : a.kind # "start" /\ stdin' = Append(stdin, a)
  PROVE  PipeInv' /\ ServerInv'
<1>1. probe \in Int /\ requestId \in Nat /\ stdin \in Seq(SafeLines')
  BY Widen, ProbesAre DEF SuiteInv, CallerInv, QueuesInv, PipeInv
<1>2. ServerInv'
  <2>1. owed' \subseteq Responses(requestId')
    BY <1>1, MessagesGrow DEF SuiteInv, ServerInv, TurnTypes, server
  <2>2. \A k \in Probes : ruling'[k] = "accept" => PastAsking(k)' /\ read'[k] = shown'[k]
    BY DEF SuiteInv, ServerInv, TurnTypes, server, Grows
  <2>3. \A k \in Probes : probe' < k \/ (probe' = k /\ mode' = "begin") => stage'[k] = "none"
    BY <1>1, ProbesAre DEF SuiteInv, ServerInv, TurnTypes, server, Advances
  <2> QED  BY <2>1, <2>2, <2>3 DEF SuiteInv, ServerInv, TurnTypes, server
<1>3. \A n \in DOMAIN stdin : stdin[n] \in SafeLines
  BY LenProperties DEF SuiteInv, PipeInv
<1>4. \A n \in DOMAIN stdin : stdin[n].kind = "start" => stdin[n].value \in Probes
  BY <1>3 DEF SafeLines
<1>5. \A n \in DOMAIN stdin : stdin[n].kind = "start" =>
          /\ stdin[n].value <= probe' /\ (mode' = "begin" => stdin[n].value < probe')
          /\ stage'[stdin[n].value] = "none"
          /\ \A l \in DOMAIN stdin :
                stdin[l].kind = "start" /\ stdin[l].value = stdin[n].value => l = n
  BY <1>1, <1>4, ProbesAre DEF SuiteInv, PipeInv, Advances, server
<1>6. CASE stdin' = stdin
  BY <1>1, <1>2, <1>6, <1>5 DEF PipeInv
<1>7. ASSUME NEW a \in SafeLines', a.kind # "start", stdin' = Append(stdin, a)
      PROVE  PipeInv'
  <2>1. /\ stdin' \in Seq(SafeLines') /\ Len(stdin') = Len(stdin) + 1
        /\ \A n \in 1..Len(stdin) : stdin'[n] = stdin[n]
        /\ stdin'[Len(stdin) + 1] = a
    <3> HIDE DEF SafeLines
    <3> QED  BY <1>1, <1>7, AppendProperties
  <2>2. DOMAIN stdin = 1..Len(stdin) /\ DOMAIN stdin' = 1..Len(stdin') /\ Len(stdin) \in Nat
    BY <1>1, <2>1, LenProperties
  <2>3. ASSUME NEW n \in DOMAIN stdin', stdin'[n].kind = "start"
        PROVE  n \in DOMAIN stdin /\ stdin'[n] = stdin[n]
    <3>1. n # Len(stdin) + 1
      BY <1>7, <2>1, <2>3
    <3> QED  BY <2>1, <2>2, <2>3, <3>1
  <2> QED  BY <2>1, <2>3, <1>5 DEF PipeInv
<1> QED  BY <1>2, <1>6, <1>7

\* A step that leaves the turns alone.
LEMMA QuietGrows ==
  ASSUME SuiteInv, UNCHANGED <<server, read>>
  PROVE  Grows /\ read' \in [Probes -> Options]
BY DEF Grows, SuiteInv, ServerInv, TurnTypes, server, PastAsking

\* The message that was delivered.
LEMMA ReadingIs ==
  ASSUME SuiteInv, NEW kind \in {"started", "approval", "completed", "turn", "other"},
         Reading(kind)
  PROVE  /\ result.message \in ServerMessages /\ result.message.item \in 1..OtherItem
         /\ result.message.command \in Options /\ result.message.status \in Statuses
         /\ kind = "approval" /\ result.message.item \in Probes =>
               /\ PastAsking(result.message.item)
               /\ result.message.command = shown[result.message.item]
<1>1. result.message \in SafeMessages /\ result.message.kind = kind /\ requestId \in Nat
  BY DEF SuiteInv, QueuesInv, Held, Outcome, Reading
<1>2. result.message \in ServerMessages
  BY <1>1, MessageKinds DEF SafeMessages
<1> QED  BY <1>1, <1>2 DEF SafeMessages, ServerMessages, Options, Statuses

LEMMA FinishIs ==
  ASSUME CallerInv, NEW e \in Evidence, probe \in Probes, Finish(e), verdict' = verdict
  PROVE  CallerInv' /\ Advances
<1>1. [e EXCEPT !.marker = Marker(Expected[probe])] \in Evidence
  BY DEF Evidence, Marker
<1>2. NoEvidence \in Evidence
  BY ProbesAre DEF NoEvidence, Evidence, Options, Statuses
<1>3. evs' \in Seq(Evidence) /\ Len(evs') = Len(evs) + 1
  BY <1>1, AppendProperties DEF CallerInv, Finish
<1> QED  BY <1>2, <1>3, ProbesAre DEF CallerInv, Finish, Advances

LEMMA GoOnIs ==
  ASSUME CallerInv, NEW e \in Evidence, probe \in Probes, GoOn(e), verdict' = verdict
  PROVE  CallerInv' /\ Advances /\ Serves(SafeMessages')
BY DEF CallerInv, GoOn, Advances, Serves

LEMMA GiveUpIs ==
  ASSUME CallerInv, NEW e \in Evidence, probe \in Probes, GiveUp(e), verdict' = verdict
  PROVE  CallerInv' /\ Advances /\ Serves(SafeMessages')
<1>1. [e EXCEPT !.error = TRUE] \in Evidence
  BY DEF Evidence
<1> QED  BY <1>1, FinishIs DEF GiveUp, Serves
-----------------------------------------------------------------------------
(* The steps of the caller.                                                *)

LEMMA CallerStep ==
  ASSUME SuiteInv, UNCHANGED server, Grows, read' \in [Probes -> Options],
         CallerInv', Advances, Serves(SafeMessages'), oddities' \in 0..MaxOddities,
         stdin' = stdin
         \/ \E a \in SafeLines' : a.kind # "start" /\ stdin' = Append(stdin, a)
  PROVE  SuiteInv'
<1>1. QueuesInv' /\ SafeLines \subseteq SafeLines' /\ requestId' \in Nat /\ requestId <= requestId'
  BY QueuesKept
<1>2. PipeInv' /\ ServerInv'
  BY <1>1, CallerKeeps
<1> QED  BY <1>1, <1>2 DEF SuiteInv

LEMMA RespondIs ==
  ASSUME SuiteInv, probe \in Probes, NEW item \in 1..OtherItem, NEW value \in {"accept", "decline"},
         NEW e \in Evidence, NEW cost \in Nat, Respond(item, value, e, cost), verdict' = verdict,
         item \in Probes /\ value = "accept" =>
            PastAsking(item)' /\ read'[item] = shown'[item]
  PROVE  /\ CallerInv' /\ Advances /\ Serves(SafeMessages') /\ oddities' \in 0..MaxOddities
         /\ \/ stdin' = stdin
            \/ \E a \in SafeLines' : a.kind # "start" /\ stdin' = Append(stdin, a)
<1>1. CallerInv /\ oddities \in 0..MaxOddities
  BY DEF SuiteInv, ServerInv, TurnTypes
<1>2. CASE stdin' = Append(stdin, Sent("answer", item, value)) /\ GoOn(e) /\ Odd(cost)
  <2>1. Sent("answer", item, value) \in SafeLines'
    BY DEF Sent, SafeLines
  <2>2. Sent("answer", item, value).kind # "start"
    BY DEF Sent
  <2> QED  BY <1>1, <1>2, <2>1, <2>2, GoOnIs, OddBound
<1>3. CASE GiveUp(e) /\ Odd(cost + Cost(closed)) /\ UNCHANGED stdin
  <2>1. cost + Cost(closed) \in Nat
    BY DEF Cost
  <2> QED  BY <1>1, <1>3, <2>1, GiveUpIs, OddBound
<1> QED  BY <1>2, <1>3 DEF Respond

LEMMA StartProbeKeeps == SuiteInv /\ StartProbe => SuiteInv'
<1> SUFFICES ASSUME SuiteInv, StartProbe PROVE SuiteInv'
  OBVIOUS
<1>1. /\ mode = "begin" /\ probe \in Probes /\ mode' = "starting" /\ Submit("start", probe)
      /\ UNCHANGED <<server, read>> /\ probe' = probe /\ Request
  BY DEF StartProbe, Submit
<1>2. CallerInv' /\ Advances
  BY <1>1 DEF StartProbe, SuiteInv, CallerInv, Advances
<1>3. Grows /\ read' \in [Probes -> Options]
  BY <1>1, QuietGrows
<1>4. oddities' \in 0..MaxOddities
  BY <1>1, OddBound DEF Submit, Cost, SuiteInv, ServerInv, TurnTypes
<1>5. Serves(SafeMessages')
  BY <1>1 DEF Serves
<1>6. CASE stdin' = stdin
  BY <1>1, <1>2, <1>3, <1>4, <1>5, <1>6, CallerStep
<1>7. CASE stdin' = Append(stdin, Sent("start", requestId', probe))
  <2>1. /\ QueuesInv' /\ SafeLines \subseteq SafeLines' /\ requestId' \in Nat /\ requestId' = requestId + 1
        /\ requestId \in Nat
    BY <1>1, <1>3, <1>5, QueuesKept DEF Request, SuiteInv, QueuesInv
  <2>2. ServerInv'
    <3>1. owed' \subseteq Responses(requestId')
      BY <1>1, <2>1, MessagesGrow DEF SuiteInv, ServerInv, TurnTypes, server
    <3> QED  BY <1>1, <1>3, <1>4, <3>1 DEF SuiteInv, ServerInv, TurnTypes, server, Grows, PastAsking
  <2> DEFINE a == Sent("start", requestId', probe)
  <2>3. a \in SafeLines' /\ a.kind = "start" /\ a.value = probe
    BY <1>1, <2>1 DEF Sent, SafeLines
  <2>4. stdin \in Seq(SafeLines') /\ DOMAIN stdin = 1..Len(stdin) /\ Len(stdin) \in Nat
        /\ \A n \in DOMAIN stdin : stdin[n] \in SafeLines
    BY <2>1, Widen, LenProperties DEF SuiteInv, PipeInv
  <2>5. /\ stdin' \in Seq(SafeLines') /\ Len(stdin') = Len(stdin) + 1
        /\ \A n \in 1..Len(stdin) : stdin'[n] = stdin[n]
        /\ stdin'[Len(stdin) + 1] = a
    <3> HIDE DEF SafeLines, a
    <3> QED  BY <1>7, <2>3, <2>4, AppendProperties DEF a
  <2>6. \A n \in DOMAIN stdin : stdin[n].kind = "start" =>
          /\ stdin[n].value \in Probes /\ stdin[n].value < probe
          /\ stage'[stdin[n].value] = "none"
          /\ \A l \in DOMAIN stdin :
                stdin[l].kind = "start" /\ stdin[l].value = stdin[n].value => l = n
    BY <1>1, <2>4 DEF SuiteInv, PipeInv, SafeLines, server
  <2>7. stage'[probe] = "none"
    BY <1>1 DEF SuiteInv, ServerInv, TurnTypes, server
  <2>8. DOMAIN stdin' = 1..(Len(stdin) + 1)
    BY <2>5, LenProperties
  <2>9. PipeInv'
    BY <1>1, <2>3, <2>4, <2>5, <2>6, <2>7, <2>8, ProbesAre DEF PipeInv
  <2> QED  BY <1>2, <2>1, <2>2, <2>9 DEF SuiteInv
<1> QED  BY <1>1, <1>6, <1>7 DEF Submit

\* A step of the caller that leaves the pipe alone.
LEMMA HearingStep ==
  ASSUME SuiteInv, UNCHANGED <<server, read, stdin, oddities>>, CallerInv', Advances,
         Serves(SafeMessages')
  PROVE  SuiteInv'
<1>1. Grows /\ read' \in [Probes -> Options] /\ oddities' \in 0..MaxOddities
  BY QuietGrows DEF SuiteInv, ServerInv, TurnTypes
<1> QED  BY <1>1, CallerStep

LEMMA StartedKeeps == SuiteInv /\ Started => SuiteInv'
<1> SUFFICES ASSUME SuiteInv, Started PROVE SuiteInv'
  OBVIOUS
<1>1. CallerInv /\ ev \in Evidence /\ probe \in Probes /\ verdict' = verdict
  BY DEF Started, SuiteInv, CallerInv
<1>2. ASSUME result.kind = "response"
      PROVE  [ev EXCEPT !.turn = result.message.body] \in Evidence
  <2>1. result.message \in Responses(requestId)
    BY <1>2, MessageKinds DEF SuiteInv, QueuesInv, Held, Outcome, SafeMessages
  <2>2. result.message.body \in TurnIds
    BY <2>1, SuiteAssumption DEF Responses
  <2> QED  BY <1>1, <2>2 DEF Evidence
<1>3. CallerInv' /\ Advances /\ Serves(SafeMessages')
  BY <1>1, <1>2, GoOnIs, GiveUpIs DEF Started
<1> QED  BY <1>3, HearingStep DEF Started

LEMMA OnStartedKeeps == SuiteInv /\ OnStarted => SuiteInv'
<1> SUFFICES ASSUME SuiteInv, OnStarted PROVE SuiteInv'
  OBVIOUS
<1>1. CallerInv /\ ev \in Evidence /\ probe \in Probes /\ verdict' = verdict
  BY DEF OnStarted, Reading, SuiteInv, CallerInv
<1>2. result.message.item \in 0..OtherItem /\ result.message.command \in Options
  BY ReadingIs, ProbesAre DEF OnStarted
<1>3. PICK e \in Evidence : GoOn(e)
  <2> DEFINE m == result.message
             a == [ev EXCEPT !.item = m.item, !.started = m.command]
             b == [ev EXCEPT !.unexpected = @ \/ m.item # ev.item \/ m.command # ev.started]
  <2>1. a \in Evidence
    BY <1>1, <1>2 DEF Evidence
  <2>2. b \in Evidence
    BY <1>1 DEF Evidence
  <2>3. GoOn(IF ev.item = 0 THEN a ELSE b)
    BY DEF OnStarted
  <2> QED  BY <2>1, <2>2, <2>3
<1> QED  BY <1>1, <1>3, GoOnIs, HearingStep DEF OnStarted

LEMMA OnCompletedKeeps == SuiteInv /\ OnCompleted => SuiteInv'
<1> SUFFICES ASSUME SuiteInv, OnCompleted PROVE SuiteInv'
  OBVIOUS
<1>1. CallerInv /\ ev \in Evidence /\ probe \in Probes /\ verdict' = verdict
  BY DEF OnCompleted, Reading, SuiteInv, CallerInv
<1>2. /\ result.message.item \in 0..OtherItem /\ result.message.command \in Options
      /\ result.message.status \in Statuses
  BY ReadingIs, ProbesAre DEF OnCompleted
<1>3. PICK e \in Evidence : GoOn(e)
  <2> DEFINE m == result.message
             a == [ev EXCEPT !.item = m.item, !.completed = m.command, !.status = m.status]
             b == [ev EXCEPT !.unexpected = TRUE]
  <2>1. a \in Evidence
    BY <1>1, <1>2 DEF Evidence
  <2>2. b \in Evidence
    BY <1>1 DEF Evidence
  <2>3. GoOn(IF ev.item \in {0, m.item} THEN a ELSE b)
    BY DEF OnCompleted
  <2> QED  BY <2>1, <2>2, <2>3
<1> QED  BY <1>1, <1>3, GoOnIs, HearingStep DEF OnCompleted

LEMMA OnTurnKeeps == SuiteInv /\ OnTurn => SuiteInv'
<1> SUFFICES ASSUME SuiteInv, OnTurn PROVE SuiteInv'
  OBVIOUS
<1>1. CallerInv /\ ev \in Evidence /\ probe \in Probes /\ verdict' = verdict
  BY DEF OnTurn, Reading, SuiteInv, CallerInv
<1>2. result.message.status \in Statuses
  BY ReadingIs DEF OnTurn
<1>3. [ev EXCEPT !.closed = TRUE, !.turnStatus = result.message.status] \in Evidence
  BY <1>1, <1>2 DEF Evidence
<1>4. CallerInv' /\ Advances /\ Serves(SafeMessages')
  BY <1>1, <1>3, FinishIs, GoOnIs DEF OnTurn, Serves
<1> QED  BY <1>4, HearingStep DEF OnTurn

LEMMA OnOtherApprovalKeeps == SuiteInv /\ OnOtherApproval => SuiteInv'
<1> SUFFICES ASSUME SuiteInv, OnOtherApproval PROVE SuiteInv'
  OBVIOUS
<1>1. ev \in Evidence /\ probe \in Probes /\ verdict' = verdict
  BY DEF OnOtherApproval, Reading, SuiteInv, CallerInv
<1>2. result.message.item \in 1..OtherItem
  BY ReadingIs DEF OnOtherApproval
<1> DEFINE e == [ev EXCEPT !.unexpected = TRUE]
<1>3. e \in Evidence
  BY <1>1 DEF Evidence
<1>4. Respond(result.message.item, "decline", e, 0)
  BY DEF OnOtherApproval
<1>5. Grows /\ read' \in [Probes -> Options]
  BY QuietGrows DEF OnOtherApproval
<1> HIDE DEF e
<1>6. /\ CallerInv' /\ Advances /\ Serves(SafeMessages') /\ oddities' \in 0..MaxOddities
      /\ \/ stdin' = stdin
         \/ \E a \in SafeLines' : a.kind # "start" /\ stdin' = Append(stdin, a)
  BY <1>1, <1>2, <1>3, <1>4, RespondIs
<1> QED  BY <1>5, <1>6, CallerStep DEF OnOtherApproval

\* What the human reads is what the server presented: the message that asks
\* for the approval is safe.
LEMMA OnApprovalKeeps == SuiteInv /\ OnApproval => SuiteInv'
<1> SUFFICES ASSUME SuiteInv, OnApproval PROVE SuiteInv'
  OBVIOUS
<1> DEFINE m == result.message
<1>1. ev \in Evidence /\ probe \in Probes /\ verdict' = verdict /\ UNCHANGED server
  BY DEF OnApproval, Reading, SuiteInv, CallerInv
<1>2. /\ m.item \in 1..OtherItem /\ m.command \in Options /\ m.command = Expected[probe]
      /\ m.item \in Probes => PastAsking(m.item) /\ m.command = shown[m.item]
  BY ReadingIs DEF OnApproval, SameProbe
<1>3. PICK v \in {"accept", "decline"} :
         Respond(m.item, v, [Presenting(m) EXCEPT !.decision = v], Cost(v = Asked))
  BY DEF OnApproval
<1> DEFINE e == [Presenting(m) EXCEPT !.decision = v]
<1>4. read' = [k \in Probes |-> IF k = m.item THEN Expected[probe] ELSE read[k]]
  BY DEF OnApproval
<1>5. e \in Evidence /\ Cost(v = Asked) \in Nat
  <2>1. m.item \in 0..OtherItem
    BY <1>2, ProbesAre
  <2> QED  BY <1>1, <1>2, <2>1 DEF Presenting, Evidence, Cost
<1>6. Grows /\ read' \in [Probes -> Options]
  <2>1. read \in [Probes -> Options] /\ UNCHANGED <<stage, shown>>
    BY <1>1 DEF SuiteInv, ServerInv, TurnTypes, server
  <2>2. Expected[probe] \in Options
    BY <1>2
  <2>3. \A k \in Probes : read'[k] = IF k = m.item THEN Expected[probe] ELSE read[k]
    BY <1>4
  <2>4. read' \in [Probes -> Options]
    BY <1>4, <2>1, <2>2
  <2> QED  BY <1>2, <2>1, <2>3, <2>4 DEF Grows, PastAsking, SuiteInv, ServerInv, TurnTypes
<1>7. PICK item \in 1..OtherItem : item = m.item
  BY <1>2
<1>8. item \in Probes => PastAsking(item)' /\ read'[item] = shown'[item]
  BY <1>1, <1>2, <1>4, <1>7 DEF PastAsking, server
<1>9. Respond(item, v, e, Cost(v = Asked))
  BY <1>3, <1>7
<1> HIDE DEF e, m
<1>10. /\ CallerInv' /\ Advances /\ Serves(SafeMessages') /\ oddities' \in 0..MaxOddities
       /\ \/ stdin' = stdin
          \/ \E a \in SafeLines' : a.kind # "start" /\ stdin' = Append(stdin, a)
  BY <1>1, <1>5, <1>8, <1>9, RespondIs
<1> QED  BY <1>1, <1>6, <1>10, CallerStep

LEMMA OnPendingStopKeeps == SuiteInv /\ OnPendingStop => SuiteInv'
<1> SUFFICES ASSUME SuiteInv, OnPendingStop PROVE SuiteInv'
  OBVIOUS
<1> DEFINE m == result.message
           e == Presenting(m)
<1>1. /\ CallerInv /\ ev \in Evidence /\ probe \in Probes /\ verdict' = verdict
      /\ UNCHANGED <<server, read>> /\ mode = "reading" /\ oddities \in 0..MaxOddities
  BY DEF OnPendingStop, Reading, SuiteInv, CallerInv, ServerInv, TurnTypes
<1>2. m.item \in 1..OtherItem /\ m.item \in 0..OtherItem /\ m.command \in Options
  BY ReadingIs, ProbesAre DEF OnPendingStop
<1>3. e \in Evidence
  BY <1>1, <1>2 DEF Presenting, Evidence
<1>4. Grows /\ read' \in [Probes -> Options]
  BY <1>1, QuietGrows
<1>5. CASE /\ GiveUp(e) /\ Odd(0)
           /\ \/ stdin' = Append(stdin, Sent("answer", m.item, "decline"))
              \/ UNCHANGED stdin
  <2>1. Sent("answer", m.item, "decline") \in SafeLines' /\ Sent("answer", m.item, "decline").kind # "start"
    BY <1>2 DEF Sent, SafeLines
  <2>2. CallerInv' /\ Advances /\ Serves(SafeMessages')
    BY <1>1, <1>3, <1>5, GiveUpIs
  <2>3. oddities' \in 0..MaxOddities
    BY <1>1, <1>5, OddBound
  <2> HIDE DEF e, m
  <2> QED  BY <1>1, <1>4, <1>5, <2>1, <2>2, <2>3, CallerStep
<1>6. CASE /\ ev.turn # 0 /\ ev' = e /\ Submit("interrupt", ev.turn)
           /\ mode' = "interrupting" /\ UNCHANGED <<probe, evs>>
  <2>1. Request /\ Serves(SafeMessages')
    BY <1>6 DEF Submit, Serves
  <2>2. CallerInv' /\ Advances
    BY <1>1, <1>3, <1>6 DEF CallerInv, Advances
  <2>3. oddities' \in 0..MaxOddities
    BY <1>1, <1>6, OddBound DEF Submit, Cost
  <2>4. requestId' \in 1..requestId' /\ ev.turn \in Probes
    BY <1>1, <1>6, <2>1, ProbesAre DEF Request, SuiteInv, QueuesInv, Evidence
  <2>5. /\ Sent("interrupt", requestId', ev.turn) \in SafeLines'
        /\ Sent("interrupt", requestId', ev.turn).kind # "start"
    BY <2>4 DEF Sent, SafeLines
  <2>6. stdin' = stdin \/ stdin' = Append(stdin, Sent("interrupt", requestId', ev.turn))
    BY <1>6 DEF Submit
  <2> HIDE DEF e, m
  <2> QED  BY <1>1, <1>4, <2>1, <2>2, <2>3, <2>5, <2>6, CallerStep
<1> QED  BY <1>5, <1>6 DEF OnPendingStop

LEMMA InterruptingKeeps == SuiteInv /\ Interrupting => SuiteInv'
<1> SUFFICES ASSUME SuiteInv, Interrupting PROVE SuiteInv'
  OBVIOUS
<1>1. CallerInv /\ ev \in Evidence /\ probe \in Probes /\ verdict' = verdict
  BY DEF Interrupting, SuiteInv, CallerInv
<1>2. [ev EXCEPT !.interrupted = TRUE] \in Evidence
  BY <1>1 DEF Evidence
<1>3. CallerInv' /\ Advances /\ Serves(SafeMessages')
  BY <1>1, <1>2, GoOnIs, GiveUpIs DEF Interrupting
<1> QED  BY <1>3, HearingStep DEF Interrupting

LEMMA OnRestKeeps == SuiteInv /\ OnRest => SuiteInv'
<1> SUFFICES ASSUME SuiteInv, OnRest PROVE SuiteInv'
  OBVIOUS
<1>1. /\ CallerInv /\ ev \in Evidence /\ probe \in Probes /\ verdict' = verdict
      /\ UNCHANGED <<server, read>> /\ oddities' \in 0..MaxOddities
  BY DEF OnRest, SuiteInv, CallerInv, ServerInv, TurnTypes
<1>2. CallerInv' /\ Advances /\ Serves(SafeMessages')
  BY <1>1, GoOnIs, GiveUpIs DEF OnRest
<1>3. Grows /\ read' \in [Probes -> Options]
  BY <1>1, QuietGrows
<1>4. Sent("reject", 0, "none") \in SafeLines' /\ Sent("reject", 0, "none").kind # "start"
  BY DEF Sent, SafeLines
<1>5. stdin' = stdin \/ stdin' = Append(stdin, Sent("reject", 0, "none"))
  BY DEF OnRest
<1> QED  BY <1>1, <1>2, <1>3, <1>4, <1>5, CallerStep

\* The client serves a call, the caller waits.
LEMMA ServingKeeps ==
  SuiteInv /\ (CallerTakes \/ CallerTimesOut) => SuiteInv'
<1> SUFFICES ASSUME SuiteInv, CallerTakes \/ CallerTimesOut PROVE SuiteInv'
  OBVIOUS
<1>1. UNCHANGED <<caller, server, stdin>> /\ Serves(SafeMessages')
  BY DEF CallerTakes, CallerTimesOut, Serves
<1>2. CallerInv' /\ Advances
  BY <1>1 DEF SuiteInv, CallerInv, caller, Advances
<1>3. oddities' \in 0..MaxOddities
  BY OddBound DEF CallerTakes, CallerTimesOut, SuiteInv, ServerInv, TurnTypes
<1>4. UNCHANGED <<server, read, stdin>>
  BY <1>1 DEF caller
<1>5. Grows /\ read' \in [Probes -> Options]
  BY <1>4, QuietGrows
<1> QED  BY <1>1, <1>2, <1>3, <1>4, <1>5, CallerStep

LEMMA JudgeKeeps == SuiteInv /\ Judge => SuiteInv'
<1> SUFFICES ASSUME SuiteInv, Judge PROVE SuiteInv'
  OBVIOUS
<1>1. CallerInv' /\ Advances /\ Serves(SafeMessages')
  BY DEF Judge, SuiteInv, CallerInv, Advances, Serves, StatusOf
<1> QED  BY <1>1, HearingStep DEF Judge
-----------------------------------------------------------------------------
(* The steps of the server.                                                *)

\* The line that asks for turn k is read.
IsRead(k) ==
    stdin # <<>> /\ Head(stdin).kind = "start" /\ Head(stdin).value = k /\ stdin' = Tail(stdin)

LEMMA TailIs ==
  ASSUME NEW S, NEW s \in Seq(S), s # <<>>
  PROVE  /\ Tail(s) \in Seq(S) /\ DOMAIN s = 1..Len(s) /\ Len(s) \in Nat \ {0}
         /\ DOMAIN Tail(s) = 1..(Len(s) - 1)
         /\ \A n \in DOMAIN Tail(s) : n + 1 \in DOMAIN s /\ Tail(s)[n] = s[n + 1]
         /\ 1 \in DOMAIN s /\ Head(s) = s[1] /\ Head(s) \in S
BY HeadTailProperties, LenProperties

LEMMA PipeKept ==
  ASSUME SuiteInv, UNCHANGED caller, SafeLines \subseteq SafeLines',
         \A k \in Probes : stage[k] = "none" => stage'[k] = "none" \/ IsRead(k),
         stdin' = stdin \/ (stdin # <<>> /\ stdin' = Tail(stdin))
  PROVE  PipeInv'
<1>1. stdin \in Seq(SafeLines) /\ stdin \in Seq(SafeLines')
  BY Widen DEF SuiteInv, PipeInv
<1>2. \A n \in DOMAIN stdin : stdin[n] \in SafeLines
  BY <1>1, LenProperties
<1>3. \A n \in DOMAIN stdin : stdin[n].kind = "start" =>
          /\ stdin[n].value \in Probes
          /\ stdin[n].value <= probe' /\ (mode' = "begin" => stdin[n].value < probe')
          /\ stage[stdin[n].value] = "none"
          /\ \A l \in DOMAIN stdin :
                stdin[l].kind = "start" /\ stdin[l].value = stdin[n].value => l = n
  BY <1>2 DEF SuiteInv, PipeInv, SafeLines, caller
<1>4. CASE stdin' = stdin
  <2>1. stdin # <<>> => stdin # Tail(stdin)
    <3> HIDE DEF SafeLines
    <3> QED  BY <1>1, TailIs
  <2>2. \A k \in Probes : ~IsRead(k)
    BY <1>4, <2>1 DEF IsRead
  <2> QED  BY <1>1, <1>3, <1>4, <2>2 DEF PipeInv
<1>5. CASE stdin # <<>> /\ stdin' = Tail(stdin)
  <2>1. /\ stdin' \in Seq(SafeLines') /\ DOMAIN stdin = 1..Len(stdin) /\ Len(stdin) \in Nat \ {0}
        /\ DOMAIN stdin' = 1..(Len(stdin) - 1)
        /\ \A n \in DOMAIN stdin' : n + 1 \in DOMAIN stdin /\ stdin'[n] = stdin[n + 1]
        /\ 1 \in DOMAIN stdin /\ Head(stdin) = stdin[1]
    <3> HIDE DEF SafeLines
    <3> QED  BY <1>1, <1>5, TailIs
  <2>2. ASSUME NEW n \in DOMAIN stdin', stdin'[n].kind = "start"
        PROVE  /\ stdin'[n].value <= probe' /\ (mode' = "begin" => stdin'[n].value < probe')
               /\ stage'[stdin'[n].value] = "none"
               /\ \A l \in DOMAIN stdin' :
                     stdin'[l].kind = "start" /\ stdin'[l].value = stdin'[n].value => l = n
    <3>1. stdin[n + 1].kind = "start" /\ n + 1 # 1
      BY <2>1, <2>2
    <3>2. ~IsRead(stdin'[n].value)
      BY <1>3, <2>1, <2>2, <3>1 DEF IsRead
    <3> QED  BY <1>3, <2>1, <2>2, <3>1, <3>2
  <2> QED  BY <2>1, <2>2 DEF PipeInv
<1> QED  BY <1>4, <1>5

LEMMA ServerStep ==
  ASSUME SuiteInv, UNCHANGED caller, Grows, Serves(SafeMessages'), TurnTypes',
         oddities' \in 0..MaxOddities, owed' \subseteq Responses(requestId'),
         \A k \in Probes : ruling'[k] = "accept" => PastAsking(k)' /\ read[k] = shown'[k],
         \A k \in Probes : stage[k] = "none" => stage'[k] = "none" \/ IsRead(k),
         stdin' = stdin \/ (stdin # <<>> /\ stdin' = Tail(stdin))
  PROVE  SuiteInv'
<1>1. /\ QueuesInv' /\ SafeLines \subseteq SafeLines'
  BY QueuesKept
<1>2. PipeInv'
  BY <1>1, PipeKept
<1>3. CallerInv'
  BY DEF SuiteInv, CallerInv, caller
<1>4. ASSUME NEW k \in Probes, probe < k \/ (probe = k /\ mode = "begin")
      PROVE  stage'[k] = "none"
  <2>1. stage[k] = "none"
    BY <1>4 DEF SuiteInv, ServerInv, TurnTypes
  <2>2. ~IsRead(k)
    <3>1. stdin \in Seq(SafeLines)
      BY DEF SuiteInv, PipeInv
    <3>2. stdin # <<>> => 1 \in DOMAIN stdin /\ Head(stdin) = stdin[1]
      <4> HIDE DEF SafeLines
      <4> QED  BY <3>1, TailIs
    <3> QED  BY <1>4, <3>2, ProbesAre DEF IsRead, SuiteInv, PipeInv, CallerInv
  <2> QED  BY <2>1, <2>2
<1>5. ServerInv'
  BY <1>4 DEF SuiteInv, ServerInv, TurnTypes, caller
<1> QED  BY <1>1, <1>2, <1>3, <1>5 DEF SuiteInv

\* What the server may write without presenting anything.
LEMMA PlainIsSafe ==
  ASSUME SuiteInv, NEW m \in Messages(requestId), requestId' = requestId,
         m.kind = "approval" => m.item \notin Probes
  PROVE  m \in SafeMessages'
BY DEF SafeMessages

LEMMA NotesAre ==
  ASSUME NEW kind \in {"started", "approval", "completed", "turn", "other"},
         NEW item \in 1..OtherItem, NEW c \in Options, NEW s \in Statuses
  PROVE  /\ \A n \in Nat : Note(kind, item, c, s) \in Messages(n)
         /\ Note(kind, item, c, s).kind = kind /\ Note(kind, item, c, s).item = item
         /\ Note(kind, item, c, s).command = c
BY SuiteAssumption DEF Note, Messages, ServerMessages, Options, Statuses

LEMMA RepliesAre ==
  ASSUME NEW n \in Nat, NEW kind \in {"result", "error", "invalid"}, NEW r \in 1..n,
         NEW b \in TurnIds
  PROVE  Reply(kind, r, b) \in Responses(n) /\ Reply(kind, r, b) \in Messages(n)
         /\ Reply(kind, r, b).kind = kind
BY SuiteAssumption DEF Reply, Responses, Messages

\* The state a server's step starts from, and the line it reads.
LEMMA ServerAt ==
  ASSUME SuiteInv
  PROVE  /\ TurnTypes /\ oddities \in 0..MaxOddities /\ owed \subseteq Responses(requestId)
         /\ requestId \in Nat
         /\ \A k \in Probes : ruling[k] = "accept" => PastAsking(k) /\ read[k] = shown[k]
         /\ stdin # <<>> => Head(stdin) \in SafeLines
         /\ stdin # <<>> /\ Head(stdin).kind = "start" => stage[Head(stdin).value] = "none"
<1>1. stdin \in Seq(SafeLines)
  BY DEF SuiteInv, PipeInv
<1>2. stdin # <<>> => Head(stdin) \in SafeLines /\ 1 \in DOMAIN stdin /\ Head(stdin) = stdin[1]
  <2> HIDE DEF SafeLines
  <2> QED  BY <1>1, TailIs
<1> QED  BY <1>2 DEF SuiteInv, ServerInv, PipeInv, QueuesInv

\* A step that only writes to the caller.
LEMMA WritingStep ==
  ASSUME SuiteInv, UNCHANGED <<caller, stage, command, shown, ruling, ran, interrupted, stdin>>,
         NEW m \in SafeMessages', Writes(m), owed' \subseteq owed, oddities' \in 0..MaxOddities
  PROVE  SuiteInv'
<1>1. requestId' = requestId /\ Serves(SafeMessages')
  BY DEF Writes, Receive, Serves
<1>2. Grows /\ TurnTypes'
  BY ServerAt DEF Grows, TurnTypes, PastAsking, caller
<1>3. \A k \in Probes : ruling'[k] = "accept" => PastAsking(k)' /\ read[k] = shown'[k]
  BY ServerAt DEF PastAsking
<1> QED  BY <1>1, <1>2, <1>3, ServerAt, ServerStep

LEMMA DisturbKeeps == SuiteInv /\ Disturb => SuiteInv'
<1> SUFFICES ASSUME SuiteInv, Disturb PROVE SuiteInv'
  OBVIOUS
<1>1. PICK m \in {Garbage, EndOfStream} : Writes(m)
  BY DEF Disturb
<1>2. m \in Messages(requestId) /\ m.kind # "approval" /\ requestId' = requestId
  BY <1>1 DEF Messages, Garbage, EndOfStream, Writes, Receive
<1>3. m \in SafeMessages'
  BY <1>2, PlainIsSafe
<1>4. oddities' \in 0..MaxOddities
  BY ServerAt, OddBound DEF Disturb
<1> QED  BY <1>1, <1>3, <1>4, WritingStep DEF Disturb, server

LEMMA LateReplyKeeps == ASSUME NEW r \in owed, SuiteInv, LateReply(r) PROVE SuiteInv'
<1>1. /\ r \in Responses(requestId) /\ requestId \in Nat /\ Writes(r) /\ requestId' = requestId
  BY ServerAt DEF LateReply, Writes, Receive
<1>2. r \in Messages(requestId) /\ r.kind # "approval"
  BY <1>1 DEF Messages, Responses
<1>3. r \in SafeMessages'
  BY <1>1, <1>2, PlainIsSafe
<1>4. oddities' \in 0..MaxOddities /\ owed' \subseteq owed
  BY ServerAt DEF LateReply
<1> QED  BY <1>1, <1>3, <1>4, WritingStep DEF LateReply

LEMMA AskMoreKeeps == ASSUME NEW k \in Probes, SuiteInv, AskMore(k) PROVE SuiteInv'
<1>1. PICK m \in {Note("approval", OtherItem, Expected[k], "none"),
                  Note("started", OtherItem, "other", "none"),
                  Note("other", OtherItem, "none", "none")} : Writes(m)
  BY DEF AskMore
<1>2. /\ OtherItem \in 1..OtherItem /\ OtherItem \notin Probes
      /\ {Expected[k], "other", "none"} \subseteq Options /\ "none" \in Statuses
  BY ProbesAre DEF Options, Codes, Statuses
<1>3. requestId' = requestId /\ requestId \in Nat
  BY <1>1, ServerAt DEF Writes, Receive
<1>4. m \in Messages(requestId) /\ (m.kind = "approval" => m.item \notin Probes)
  BY <1>1, <1>2, <1>3, NotesAre
<1>5. m \in SafeMessages'
  BY <1>3, <1>4, PlainIsSafe
<1>6. oddities' \in 0..MaxOddities
  BY ServerAt, OddBound DEF AskMore
<1> QED  BY <1>1, <1>5, <1>6, WritingStep DEF AskMore, server

\* A turn moves on without being presented anew: what was safe stays safe.
MovesOn(k, to) == stage' = [stage EXCEPT ![k] = to]

LEMMA TurnStep ==
  ASSUME SuiteInv, NEW k \in Probes, NEW to \in Stages,
         MovesOn(k, to), stage[k] # "none", PastAsking(k) => to \notin {"none", "queued", "begun"},
         UNCHANGED <<caller, shown, ruling, owed, stdin>>, to # "none",
         command' \in [Probes -> Options], ran' \in [Probes -> Options], interrupted' = interrupted,
         NEW m \in Messages(requestId), m.kind # "approval", Writes(m), oddities' \in 0..MaxOddities
  PROVE  SuiteInv'
<1>1. requestId' = requestId
  BY DEF Writes, Receive
<1>2. m \in SafeMessages'
  BY <1>1, PlainIsSafe
<1>3. TurnTypes /\ stage' \in [Probes -> Stages] /\ TurnTypes'
  BY ServerAt DEF TurnTypes, MovesOn
<1>4. \A j \in Probes : /\ PastAsking(j) => PastAsking(j)'
                        /\ stage[j] = "none" => stage'[j] = "none"
  BY <1>3 DEF TurnTypes, MovesOn, PastAsking
<1>5. Grows
  BY <1>3, <1>4 DEF Grows, caller
<1>6. \A j \in Probes : ruling'[j] = "accept" => PastAsking(j)' /\ read[j] = shown'[j]
  BY <1>4, ServerAt
<1>7. Serves(SafeMessages')
  BY <1>2 DEF Serves, Writes
<1> QED  BY <1>1, <1>3, <1>4, <1>5, <1>6, <1>7, ServerAt, ServerStep

LEMMA BeginItemKeeps == ASSUME NEW k \in Probes, SuiteInv, BeginItem(k) PROVE SuiteInv'
<1>1. PICK c \in Codes :
         /\ MovesOn(k, "begun") /\ command' = [command EXCEPT ![k] = c]
         /\ Writes(Note("started", k, c, "none")) /\ Odd(Cost(c = Expected[k]))
  BY DEF BeginItem, MovesOn
<1>2. k \in 1..OtherItem /\ c \in Options /\ "none" \in Statuses /\ requestId \in Nat
  BY ProbesAre, ServerAt DEF Options, Statuses
<1>3. Note("started", k, c, "none") \in Messages(requestId)
      /\ Note("started", k, c, "none").kind # "approval"
  BY <1>2, NotesAre
<1>4. command' \in [Probes -> Options] /\ ran' \in [Probes -> Options]
  BY <1>1, <1>2, ServerAt DEF TurnTypes, BeginItem
<1>5. oddities' \in 0..MaxOddities
  BY <1>1, CostIs, ServerAt, OddBound
<1>6. stage[k] = "queued" /\ UNCHANGED <<caller, shown, ruling, interrupted, owed, stdin>>
  BY DEF BeginItem
<1> QED  BY <1>1, <1>3, <1>4, <1>5, <1>6, TurnStep DEF PastAsking, Stages

LEMMA ExecuteKeeps == ASSUME NEW k \in Probes, SuiteInv, Execute(k) PROVE SuiteInv'
<1>1. PICK c \in Codes, s \in {"completed", "failed", "declined"} :
         /\ ran' = [ran EXCEPT ![k] = c] /\ Writes(Note("completed", k, c, s))
         /\ Odd(Cost(ruling[k] = "accept") + Cost(c = shown[k]) + Cost(s = "completed"))
  BY DEF Execute
<1>2. k \in 1..OtherItem /\ c \in Options /\ s \in Statuses /\ requestId \in Nat
  BY ProbesAre, ServerAt DEF Options, Statuses
<1>3. Note("completed", k, c, s) \in Messages(requestId)
      /\ Note("completed", k, c, s).kind # "approval"
  BY <1>2, NotesAre
<1>4. command' \in [Probes -> Options] /\ ran' \in [Probes -> Options]
  BY <1>1, <1>2, ServerAt DEF TurnTypes, Execute
<1>5. oddities' \in 0..MaxOddities
  <2>1. Cost(ruling[k] = "accept") + Cost(c = shown[k]) + Cost(s = "completed") \in Nat
    BY DEF Cost
  <2> QED  BY <1>1, <2>1, ServerAt, OddBound
<1>6. /\ stage[k] \in {"begun", "asked", "answered"} /\ MovesOn(k, "done")
      /\ UNCHANGED <<caller, shown, ruling, interrupted, owed, stdin>>
  BY DEF Execute, MovesOn
<1> QED  BY <1>1, <1>3, <1>4, <1>5, <1>6, TurnStep DEF Stages

LEMMA RefuseKeeps == ASSUME NEW k \in Probes, SuiteInv, Refuse(k) PROVE SuiteInv'
<1>1. /\ stage[k] \in {"asked", "answered"} /\ MovesOn(k, "done")
      /\ UNCHANGED <<caller, command, shown, ruling, ran, interrupted, owed, stdin>>
      /\ Writes(Note("completed", k, command[k], "declined"))
  BY DEF Refuse, MovesOn
<1>2. /\ k \in 1..OtherItem /\ command[k] \in Options /\ "declined" \in Statuses
      /\ requestId \in Nat
  BY ProbesAre, ServerAt DEF Statuses, TurnTypes
<1>3. PICK c \in Options : c = command[k]
  BY <1>2
<1>4. Note("completed", k, c, "declined") \in Messages(requestId)
      /\ Note("completed", k, c, "declined").kind # "approval"
  BY <1>2, NotesAre
<1>5. command' \in [Probes -> Options] /\ ran' \in [Probes -> Options]
  BY <1>1, ServerAt DEF TurnTypes
<1>6. oddities' \in 0..MaxOddities
  BY ServerAt, OddBound DEF Refuse, Cost
<1> QED  BY <1>1, <1>3, <1>4, <1>5, <1>6, TurnStep DEF Stages

LEMMA EndTurnKeeps == ASSUME NEW k \in Probes, SuiteInv, EndTurn(k) PROVE SuiteInv'
<1>1. PICK s \in Statuses : Writes(Note("turn", k, "none", s))
  BY DEF EndTurn, Statuses
<1>2. /\ stage[k] \in {"queued", "begun", "done"} /\ MovesOn(k, "over")
      /\ UNCHANGED <<caller, command, shown, ruling, ran, interrupted, owed, stdin>>
  BY DEF EndTurn, MovesOn
<1>3. k \in 1..OtherItem /\ "none" \in Options /\ requestId \in Nat
  BY ProbesAre, ServerAt DEF Options
<1>4. Note("turn", k, "none", s) \in Messages(requestId)
      /\ Note("turn", k, "none", s).kind # "approval"
  BY <1>3, NotesAre
<1>5. command' \in [Probes -> Options] /\ ran' \in [Probes -> Options]
  BY <1>2, ServerAt DEF TurnTypes
<1>6. oddities' \in 0..MaxOddities
  BY ServerAt, OddBound DEF EndTurn, Cost
<1> QED  BY <1>1, <1>2, <1>4, <1>5, <1>6, TurnStep DEF Stages

\* A turn is presented once: no message about its approval was on its way.
LEMMA AskApprovalKeeps == ASSUME NEW k \in Probes, SuiteInv, AskApproval(k) PROVE SuiteInv'
<1>1. PICK c \in Codes :
         /\ shown' = [shown EXCEPT ![k] = c] /\ Writes(Note("approval", k, c, "none"))
         /\ Odd(Cost(c = command[k]))
  BY DEF AskApproval
<1>2. /\ stage[k] = "begun" /\ stage' = [stage EXCEPT ![k] = "asked"]
      /\ UNCHANGED <<caller, command, ruling, ran, interrupted, owed, stdin>>
  BY DEF AskApproval
<1>3. k \in 1..OtherItem /\ c \in Options /\ "none" \in Statuses
      /\ requestId' = requestId /\ requestId \in Nat
  BY <1>1, ProbesAre, ServerAt DEF Options, Statuses, Writes, Receive
<1>4. TurnTypes /\ TurnTypes'
  BY <1>1, <1>2, <1>3, ServerAt DEF TurnTypes, Stages
<1>5. ~PastAsking(k) /\ PastAsking(k)' /\ shown'[k] = c
  BY <1>1, <1>2, <1>4 DEF TurnTypes, PastAsking
<1>6. \A j \in Probes \ {k} : stage'[j] = stage[j] /\ shown'[j] = shown[j]
  BY <1>1, <1>2, <1>4 DEF TurnTypes
<1>7. Grows
  BY <1>2, <1>4, <1>5, <1>6 DEF Grows, TurnTypes, PastAsking, caller
<1>8. \A j \in Probes : ruling'[j] = "accept" => PastAsking(j)' /\ read[j] = shown'[j]
  BY <1>2, <1>5, <1>6, ServerAt DEF PastAsking
<1>9. Note("approval", k, c, "none") \in SafeMessages'
  <2>1. /\ Note("approval", k, c, "none") \in Messages(requestId')
        /\ Note("approval", k, c, "none").item = k
        /\ Note("approval", k, c, "none").command = c
    BY <1>3, NotesAre
  <2> QED  BY <1>5, <2>1 DEF SafeMessages
<1>10. Serves(SafeMessages')
  BY <1>1, <1>9 DEF Serves, Writes
<1>11. oddities' \in 0..MaxOddities
  BY <1>1, CostIs, ServerAt, OddBound
<1>12. \A j \in Probes : stage[j] = "none" => stage'[j] = "none"
  BY <1>2, <1>6
<1> QED  BY <1>2, <1>3, <1>4, <1>7, <1>8, <1>10, <1>11, <1>12, ServerAt, ServerStep

LEMMA ReadStartKeeps == SuiteInv /\ ReadStart => SuiteInv'
<1> SUFFICES ASSUME SuiteInv, ReadStart PROVE SuiteInv'
  OBVIOUS
<1>1. PICK r \in 1..requestId, k \in Probes :
         Head(stdin).kind = "start" /\ Head(stdin).id = r /\ Head(stdin).value = k
  BY ServerAt DEF ReadStart, SafeLines
<1>2. /\ stdin # <<>> /\ stdin' = Tail(stdin) /\ stage[k] = "none" /\ IsRead(k)
      /\ UNCHANGED <<caller, command, shown, ruling, ran, interrupted>>
  BY <1>1, ServerAt DEF ReadStart, IsRead
<1>3. k \in TurnIds /\ 0 \in TurnIds /\ requestId \in Nat
  BY ServerAt, ProbesAre
<1>4. requestId' = requestId
  BY DEF ReadStart, Writes, Receive, client
<1>5. stage' = stage \/ stage' = [stage EXCEPT ![k] = "queued"]
  BY <1>1 DEF ReadStart
<1>6. TurnTypes /\ TurnTypes'
  BY <1>2, <1>5, ServerAt DEF TurnTypes, Stages
<1>7. \A j \in Probes : /\ PastAsking(j) => PastAsking(j)'
                        /\ stage[j] = "none" => stage'[j] = "none" \/ IsRead(j)
  BY <1>2, <1>5, <1>6 DEF TurnTypes, PastAsking
<1>8. Grows
  BY <1>2, <1>6, <1>7 DEF Grows, TurnTypes, caller
<1>9. \A j \in Probes : ruling'[j] = "accept" => PastAsking(j)' /\ read[j] = shown'[j]
  BY <1>2, <1>7, ServerAt
<1>10. oddities' \in 0..MaxOddities
  BY CostIs, ServerAt, OddBound DEF ReadStart
<1>11. Reply("result", r, k) \in Responses(requestId)
  BY <1>3, RepliesAre
<1>12. owed' \subseteq Responses(requestId')
  BY <1>1, <1>4, <1>11, ServerAt DEF ReadStart
<1>13. UNCHANGED client
       \/ \E kind \in {"result", "error", "invalid"}, b \in TurnIds : Writes(Reply(kind, r, b))
  BY <1>1, <1>3 DEF ReadStart
<1>14. ASSUME NEW kind \in {"result", "error", "invalid"}, NEW b \in TurnIds
       PROVE  Reply(kind, r, b) \in SafeMessages'
  BY <1>3, <1>4, RepliesAre, PlainIsSafe
<1>15. Serves(SafeMessages')
  BY <1>13, <1>14 DEF Serves, Writes
<1> QED  BY <1>2, <1>6, <1>7, <1>8, <1>9, <1>10, <1>12, <1>15, ServerStep

LEMMA ReadInterruptKeeps == SuiteInv /\ ReadInterrupt => SuiteInv'
<1> SUFFICES ASSUME SuiteInv, ReadInterrupt PROVE SuiteInv'
  OBVIOUS
<1>1. PICK r \in 1..requestId, k \in Probes : Head(stdin).id = r /\ Head(stdin).value = k
  BY ServerAt DEF ReadInterrupt, SafeLines
<1>2. /\ stdin # <<>> /\ stdin' = Tail(stdin) /\ interrupted' = [interrupted EXCEPT ![k] = TRUE]
      /\ UNCHANGED <<caller, stage, command, shown, ruling, ran, owed>>
  BY <1>1 DEF ReadInterrupt
<1>3. PICK kind \in {"result", "error"} : Writes(Reply(kind, r, 0))
  BY <1>1 DEF ReadInterrupt
<1>4. requestId' = requestId /\ requestId \in Nat /\ 0 \in TurnIds
  BY <1>3, ServerAt, ProbesAre DEF Writes, Receive
<1>5. Reply(kind, r, 0) \in SafeMessages'
  BY <1>4, RepliesAre, PlainIsSafe
<1>6. Serves(SafeMessages')
  BY <1>3, <1>5 DEF Serves, Writes
<1>7. TurnTypes /\ TurnTypes'
  BY <1>2, ServerAt DEF TurnTypes
<1>8. Grows
  BY <1>2, <1>7 DEF Grows, TurnTypes, PastAsking, caller
<1>9. \A j \in Probes : ruling'[j] = "accept" => PastAsking(j)' /\ read[j] = shown'[j]
  BY <1>2, ServerAt DEF PastAsking
<1>10. oddities' \in 0..MaxOddities
  BY ServerAt, OddBound DEF ReadInterrupt
<1>11. \A j \in Probes : stage[j] = "none" => stage'[j] = "none"
  BY <1>2
<1> QED  BY <1>2, <1>4, <1>6, <1>7, <1>8, <1>9, <1>10, <1>11, ServerAt, ServerStep

\* An accept on its way is for what was read of what is presented.
LEMMA ReadAnswerKeeps == SuiteInv /\ ReadAnswer => SuiteInv'
<1> SUFFICES ASSUME SuiteInv, ReadAnswer PROVE SuiteInv'
  OBVIOUS
<1>1. /\ stdin # <<>> /\ stdin' = Tail(stdin) /\ Head(stdin) \in SafeLines
      /\ UNCHANGED <<client, caller, command, shown, ran, interrupted, owed, oddities>>
      /\ requestId' = requestId
  BY ServerAt DEF ReadAnswer, client
<1>2. CASE UNCHANGED <<ruling, stage>>
  <2>1. TurnTypes /\ TurnTypes' /\ Serves(SafeMessages')
    BY <1>1, <1>2, ServerAt DEF TurnTypes, Serves
  <2>2. Grows
    BY <1>1, <1>2, <2>1 DEF Grows, TurnTypes, PastAsking, caller
  <2>3. \A j \in Probes : /\ ruling'[j] = "accept" => PastAsking(j)' /\ read[j] = shown'[j]
                          /\ stage[j] = "none" => stage'[j] = "none"
    BY <1>1, <1>2, ServerAt DEF PastAsking
  <2> QED  BY <1>1, <2>1, <2>2, <2>3, ServerAt, ServerStep
<1>3. ASSUME Head(stdin).kind = "answer", Head(stdin).id \in Probes, stage[Head(stdin).id] = "asked",
             ruling' = [ruling EXCEPT ![Head(stdin).id] = Head(stdin).value],
             stage' = [stage EXCEPT ![Head(stdin).id] = "answered"]
      PROVE  SuiteInv'
  <2>1. PICK k \in Probes, v \in {"accept", "decline"} :
           /\ Head(stdin).id = k /\ Head(stdin).value = v
           /\ v = "accept" => read[k] = shown[k]
    BY <1>1, <1>3 DEF SafeLines
  <2>2. ruling' = [ruling EXCEPT ![k] = v] /\ stage' = [stage EXCEPT ![k] = "answered"]
    BY <1>3, <2>1
  <2>3. TurnTypes /\ TurnTypes' /\ Serves(SafeMessages')
    BY <1>1, <2>2, ServerAt DEF TurnTypes, Serves, Stages
  <2>4. \A j \in Probes : PastAsking(j) => PastAsking(j)'
    BY <2>2, <2>3 DEF TurnTypes, PastAsking
  <2>5. Grows
    BY <1>1, <2>3, <2>4 DEF Grows, TurnTypes, caller
  <2>6. PastAsking(k)'
    BY <2>2, <2>3 DEF TurnTypes, PastAsking
  <2>7. \A j \in Probes : ruling'[j] = "accept" => PastAsking(j)' /\ read[j] = shown'[j]
    BY <1>1, <2>1, <2>2, <2>3, <2>4, <2>6, ServerAt DEF TurnTypes
  <2>8. \A j \in Probes : stage[j] = "none" => stage'[j] = "none"
    BY <1>3, <2>1, <2>2, <2>3 DEF TurnTypes
  <2> QED  BY <1>1, <2>3, <2>5, <2>7, <2>8, ServerAt, ServerStep
<1> QED  BY <1>2, <1>3 DEF ReadAnswer
-----------------------------------------------------------------------------
LEMMA InitHolds == Init => SuiteInv
<1> SUFFICES ASSUME Init PROVE SuiteInv
  OBVIOUS
<1>1. NoEvidence \in Evidence /\ Len(<<>>) = 0 /\ <<>> \in Seq(Evidence)
      /\ <<>> \in Seq(SafeMessages) /\ <<>> \in Seq(SafeLines) /\ DOMAIN <<>> = {}
  BY EmptySeq, ProbesAre, LenProperties DEF NoEvidence, Evidence, Options, Statuses
<1>2. CallerInv
  BY <1>1, ProbesAre DEF Init, CallerInv
<1>3. QueuesInv
  <2>1. Garbage \in SafeMessages
    BY DEF SafeMessages, Messages, Garbage
  <2> QED  BY <1>1, <2>1, BoundAssumption
           DEF Init, ClientInit, QueuesInv, Held, Outcome, Raised
<1>4. PipeInv
  BY <1>1 DEF Init, PipeInv
<1>5. ServerInv
  BY ProbesAre, OddityAssumption DEF Init, ServerInv, TurnTypes, Stages, Options
<1> QED  BY <1>2, <1>3, <1>4, <1>5 DEF SuiteInv

LEMMA NextKeeps == SuiteInv /\ [Next]_vars => SuiteInv'
<1> SUFFICES ASSUME SuiteInv, [Next]_vars PROVE SuiteInv'
  OBVIOUS
<1>1. CASE CallerNext
  BY <1>1, StartProbeKeeps, StartedKeeps, OnStartedKeeps, OnOtherApprovalKeeps, OnApprovalKeeps,
     OnPendingStopKeeps, InterruptingKeeps, OnCompletedKeeps, OnTurnKeeps, OnRestKeeps,
     ServingKeeps, JudgeKeeps DEF CallerNext
<1>2. CASE ServerNext
  BY <1>2, ReadStartKeeps, ReadAnswerKeeps, ReadInterruptKeeps, DisturbKeeps, LateReplyKeeps,
     BeginItemKeeps, AskApprovalKeeps, AskMoreKeeps, ExecuteKeeps, RefuseKeeps, EndTurnKeeps
     DEF ServerNext
<1>3. CASE UNCHANGED vars
  <2>1. CallerInv' /\ Advances /\ Serves(SafeMessages')
    BY <1>3 DEF vars, caller, SuiteInv, CallerInv, Advances, Serves
  <2>2. UNCHANGED <<server, read, stdin, oddities>>
    BY <1>3 DEF vars, caller
  <2> QED  BY <2>1, <2>2, HearingStep
<1> QED  BY <1>1, <1>2, <1>3 DEF Next

LEMMA SuiteInvHolds == Spec => []SuiteInv
BY InitHolds, NextKeeps, PTL DEF Spec

\* No approval reaches the server but for what the human was shown.
THEOREM NothingAcceptedBlindly == Spec => []NoBlindAccept
<1>1. SuiteInv => NoBlindAccept
  BY DEF SuiteInv, ServerInv, NoBlindAccept
<1> QED  BY <1>1, SuiteInvHolds, PTL

\* The evidence, the queues, the turns and the verdict have their types.
THEOREM TypeCorrect == Spec => []TypeOK
<1>1. ASSUME SuiteInv PROVE TypeOK
  <2>1. pending \in Seq(Messages(requestId)) /\ deferred \in Seq(Messages(requestId))
    BY <1>1, Widen DEF SuiteInv, QueuesInv, Held, SafeMessages
  <2>2. ASSUME NEW e \in Evidence
        PROVE  /\ DOMAIN e = DOMAIN NoEvidence
               /\ e.turn \in TurnIds /\ e.item \in 0..OtherItem
               /\ {e.started, e.presented, e.completed} \subseteq Options
               /\ e.decision \in {"none", "accept", "decline"}
    BY DEF Evidence, NoEvidence
  <2>3. \A e \in {ev} \cup {evs[k] : k \in DOMAIN evs} : e \in Evidence
    BY <1>1, LenProperties DEF SuiteInv, CallerInv
  <2> QED  BY <1>1, <2>1, <2>2, <2>3
           DEF TypeOK, SuiteInv, CallerInv, QueuesInv, ServerInv, TurnTypes, Stages
<1> QED  BY <1>1, SuiteInvHolds, PTL
-----------------------------------------------------------------------------
(* What the evidence says is what happened.  The notes on their way to the *)
(* caller say the truth about their turn, in an order in which a turn's    *)
(* end is its last note; as long as no probe was given up, they are about  *)
(* the probe that runs, and its evidence is an account of its turn.        *)

Rulings == {"accept", "decline"}
Ended(k) == stage[k] \in {"done", "over"}
\* The server has or will have answer v for turn k.
Told(k, v) ==
    \/ ruling[k] = v
    \/ \E n \in DOMAIN stdin :
          stdin[n].kind = "answer" /\ stdin[n].id = k /\ stdin[n].value = v

IsNote(m) == m.kind \in {"started", "approval", "completed", "turn"}
\* What the notes about a turn say; those about a command of the agent's own
\* never tell of its execution.
TrueNote(m) ==
    /\ m.item \in Probes =>
        /\ m.kind = "started" => command[m.item] = m.command /\ m.command # "none"
        /\ m.kind = "approval" =>
              /\ PastAsking(m.item) /\ shown[m.item] = m.command
              /\ \A v \in Rulings : ~Told(m.item, v)
        /\ m.kind = "completed" =>
              /\ Ended(m.item) /\ m.status # "none"
              /\ ran[m.item] # "none" \/ ruling[m.item] # "none" \/ interrupted[m.item]
              /\ m.status = "completed" => ran[m.item] = m.command /\ m.command # "none"
        /\ m.kind = "turn" => stage[m.item] = "over"
    /\ m.item \notin Probes =>
        strayed /\ m.kind \in {"started", "approval"} /\ (m.kind = "started" => m.command = "other")

\* The message the caller has in hand, and those it has not seen.
Hand == mode = "reading" /\ call = "idle" /\ result.kind = "message"
InFlight == {Waiting[n] : n \in DOMAIN Waiting} \cup (IF Hand THEN {result.message} ELSE {})

\* Message b may come after message a.
After(a, b) ==
    IsNote(a) /\ IsNote(b) /\ a.item = b.item /\ a.item \in Probes =>
        a.kind # "turn" /\ (a.kind = "approval" => b.kind # "approval")
Order ==
    /\ \A n, l \in DOMAIN Waiting : n < l => After(Waiting[n], Waiting[l])
    /\ Hand => \A n \in DOMAIN Waiting : After(result.message, Waiting[n])

CallsInv ==
    /\ mode \in {"begin", "judged"} => call = "idle"
    /\ mode = "reading" => call # "request"
    /\ mode \in {"starting", "interrupting"} => call # "next"
    /\ mode = "judged" <=> verdict # "NONE"
TurnInv(k) ==
    /\ ran[k] # "none" => Ended(k) /\ command[k] # "none"
    /\ ruling[k] # "none" => stage[k] \in {"answered", "done", "over"}
    /\ stage[k] = "answered" => ruling[k] # "none"
    /\ stage[k] \in {"none", "queued"} => command[k] = "none"
    /\ stage[k] \in {"begun", "asked", "answered", "done"} => command[k] # "none"
    /\ interrupted[k] => probe >= Stop
    /\ \A v \in Rulings : Told(k, v) => PastAsking(k)
TurnsInv == \A k \in Probes : TurnInv(k)
LinesInv == \A n \in DOMAIN stdin : stdin[n].kind = "interrupt" => probe >= Stop
NotesInv == \A m \in InFlight : IsNote(m) => TrueNote(m)

\* No probe was given up; or only the last one, and none has begun since.
Clean == \A k \in DOMAIN evs : ~evs[k].error
Busy == mode \notin {"begin", "judged"}
Sound == Clean \/ (~Busy /\ GaveUpOnce)

\* Evidence e tells of turn k what happened.
Tale(k, e) ==
    /\ e.item \in {0, k, OtherItem}
    /\ e.item # k => e.started \in {"none", "other"} /\ e.status = "none"
    /\ e.item = OtherItem => strayed
    /\ e.item = 0 => e.started = "none" /\ e.presented = "none"
    /\ e.started # "none" /\ e.item = k => e.started = command[k]
    /\ e.presented # "none" =>
          /\ e.presented = Expected[k]
          /\ e.item = k =>
                PastAsking(k) /\ shown[k] = Expected[k] /\ (k # Stop => read[k] = Expected[k])
    /\ e.status # "none" =>
          /\ Ended(k) /\ (k # Stop => ran[k] # "none" \/ ruling[k] # "none")
          /\ e.status = "completed" => e.completed = ran[k] /\ e.completed # "none"
    /\ Told(k, "accept") => e.item = k /\ e.presented # "none" /\ e.decision = "accept"
    /\ k = Stop => e.decision = "none"
    /\ e.closed => stage[k] = "over"
\* The marker was looked for when the probe ended.
Marked(k, e) ==
    /\ e.closed /\ ~e.marker => MarkerOf(ran[k]) # MarkerOf(Expected[k])
    /\ e.marker => \E j \in 1..k : MarkerOf(ran[j]) = MarkerOf(Expected[k])

AccountsInv ==
    /\ ~Busy => ev = NoEvidence
    /\ Sound => \A k \in DOMAIN evs : Tale(k, evs[k]) /\ Marked(k, evs[k])
    /\ Clean =>
        /\ \A k \in DOMAIN evs : evs[k].closed
        /\ Busy => Tale(probe, ev) /\ ~ev.closed /\ ~ev.marker /\ ~ev.error
        /\ \A m \in InFlight : IsNote(m) /\ m.item \in Probes => m.item = probe /\ Busy
    /\ verdict # "NONE" => verdict = StatusOf(evs)

TruthInv ==
    /\ ClientInv /\ CallsInv /\ TurnsInv /\ LinesInv
    /\ NotesInv /\ Order /\ AccountsInv
-----------------------------------------------------------------------------
(* The messages on their way: how a step changes them.                     *)

LEMMA WaitingSeq == ClientInv => Waiting \in Seq(Anything)
BY WaitingIs, ConcatProperties DEF ClientInv

\* What is left of a sequence without one of its places.
LEMMA WithoutIs ==
  ASSUME NEW S, NEW s \in Seq(S), NEW i \in DOMAIN s
  PROVE  \A n \in DOMAIN Abstract!Without(s, i) :
            \E o \in DOMAIN s :
               /\ Abstract!Without(s, i)[n] = s[o]
               /\ \A l \in DOMAIN Abstract!Without(s, i) :
                     n < l => \E p \in DOMAIN s : o < p /\ Abstract!Without(s, i)[l] = s[p]
<1> DEFINE t == Abstract!Without(s, i)
           at(n) == IF n < i THEN n ELSE n + 1
<1>1. DOMAIN s = 1..Len(s) /\ Len(s) \in Nat /\ i \in 1..Len(s)
  BY LenProperties
<1>2. t = [j \in 1..(Len(s) - 1) |-> IF j < i THEN s[j] ELSE s[j + 1]]
  BY DEF Abstract!Without
<1>3. DOMAIN t = 1..(Len(s) - 1) /\ \A n \in DOMAIN t : t[n] = s[at(n)]
  BY <1>2
<1>4. \A n \in DOMAIN t : at(n) \in DOMAIN s /\ \A l \in DOMAIN t : n < l => at(n) < at(l)
  BY <1>1, <1>3
<1> HIDE DEF t, at
<1>5. ASSUME NEW n \in DOMAIN t
      PROVE  \E o \in DOMAIN s :
               /\ t[n] = s[o]
               /\ \A l \in DOMAIN t : n < l => \E p \in DOMAIN s : o < p /\ t[l] = s[p]
  BY <1>3, <1>4
<1> QED  BY <1>5 DEF t

\* A step of the caller that takes no message, and leaves none in hand.
LEMMA Settles ==
  ASSUME Order, Waiting' = Waiting, ~Hand'
  PROVE  /\ InFlight' \subseteq InFlight /\ Order'
         /\ Hand => \A b \in InFlight' : After(result.message, b)
<1>1. InFlight' = {Waiting[n] : n \in DOMAIN Waiting}
  BY DEF InFlight
<1>2. \A a, b : After(a, b)' <=> After(a, b)
  BY DEF After, IsNote
<1>3. Order'
  BY <1>2 DEF Order
<1> QED  BY <1>1, <1>3 DEF Order, InFlight

LEMMA Drops ==
  ASSUME ClientInv, Order, NEW i \in DOMAIN Waiting, Waiting' = Abstract!Without(Waiting, i), ~Hand'
  PROVE  InFlight' \subseteq InFlight /\ Order'
<1>1. \A n \in DOMAIN Waiting' :
            \E o \in DOMAIN Waiting :
               /\ Waiting'[n] = Waiting[o]
               /\ \A l \in DOMAIN Waiting' :
                     n < l => \E p \in DOMAIN Waiting : o < p /\ Waiting'[l] = Waiting[p]
  BY WaitingSeq, WithoutIs
<1>2. InFlight' = {Waiting'[n] : n \in DOMAIN Waiting'}
  BY DEF InFlight
<1>3. ASSUME NEW n \in DOMAIN Waiting', NEW l \in DOMAIN Waiting', n < l
      PROVE  After(Waiting'[n], Waiting'[l])
  BY <1>1, <1>3 DEF Order
<1>4. Order'
  BY <1>3 DEF Order, After, IsNote
<1> QED  BY <1>1, <1>2, <1>4 DEF InFlight

LEMMA Delivers ==
  ASSUME ClientInv, Order, ~Hand, Waiting # <<>>, Waiting' = Tail(Waiting),
         result' = Delivered(Head(Waiting))
  PROVE  InFlight' \subseteq InFlight /\ Order'
<1>1. /\ Waiting \in Seq(Anything) /\ DOMAIN Waiting = 1..Len(Waiting) /\ Len(Waiting) \in Nat \ {0}
      /\ DOMAIN Waiting' = 1..(Len(Waiting) - 1)
      /\ \A n \in DOMAIN Waiting' : n + 1 \in DOMAIN Waiting /\ Waiting'[n] = Waiting[n + 1]
      /\ 1 \in DOMAIN Waiting /\ Head(Waiting) = Waiting[1]
  BY WaitingSeq, TailIs
<1>2. InFlight = {Waiting[n] : n \in DOMAIN Waiting}
  BY DEF InFlight
<1>3. Hand' => result'.message = Waiting[1]
  BY <1>1 DEF Hand, Delivered, Raised
<1>4. InFlight' \subseteq InFlight
  BY <1>1, <1>2, <1>3 DEF InFlight
<1>5. ASSUME NEW n \in DOMAIN Waiting', NEW l \in DOMAIN Waiting', n < l
      PROVE  After(Waiting'[n], Waiting'[l])
  BY <1>1, <1>5 DEF Order
<1>6. ASSUME NEW n \in DOMAIN Waiting'
      PROVE  After(Waiting[1], Waiting'[n])
  BY <1>1, <1>6 DEF Order
<1>7. Order'
  BY <1>3, <1>5, <1>6 DEF Order, After, IsNote
<1> QED  BY <1>4, <1>7

LEMMA Arrives ==
  ASSUME ClientInv, Order, NEW m, m \in Messages(requestId), Receive(m), mode' = mode,
         \A a \in InFlight : After(a, m)
  PROVE  /\ InFlight' = InFlight \cup {m} /\ Order' /\ ClientInv'
         /\ call' = call /\ requestId' = requestId
<1>1. /\ ClientInv' /\ Abstract!Arrive
      /\ call' = call /\ requestId' = requestId /\ result' = result
  BY ReceiveStep DEF Receive
<1>2. PICK x : Waiting' = Append(Waiting, x)
  BY <1>1 DEF Abstract!Arrive
<1>3. queue' = Append(queue, m) /\ deferred' = deferred /\ pending' = pending
  BY DEF Receive
<1>4. m \in Anything
  BY DEF ClientInv, Anything
<1>5. /\ queue' \in Seq(Anything) /\ queue' = queue \o <<m>> /\ <<m>> \in Seq(Anything)
  BY <1>3, <1>4, AppendProperties, AppendIsConcat DEF ClientInv
<1>6. Waiting' = Waiting \o <<m>>
  <2>1. deferred \o pending \in Seq(Anything)
    BY ConcatProperties DEF ClientInv
  <2>2. (deferred \o pending) \o (queue \o <<m>>) = ((deferred \o pending) \o queue) \o <<m>>
    BY <1>5, <2>1, ConcatAssociative DEF ClientInv
  <2> QED  BY <1>3, <1>5, <2>2 DEF Waiting
<1>7. Waiting \in Seq(Anything) /\ Waiting' = Append(Waiting, m)
  BY <1>4, <1>6, WaitingSeq, AppendIsConcat
<1>8. /\ DOMAIN Waiting = 1..Len(Waiting) /\ Len(Waiting) \in Nat
      /\ DOMAIN Waiting' = 1..(Len(Waiting) + 1)
      /\ \A n \in DOMAIN Waiting : Waiting'[n] = Waiting[n]
      /\ Waiting'[Len(Waiting) + 1] = m
  BY <1>4, <1>7, AppendProperties, LenProperties
<1>9. (Hand' <=> Hand) /\ result' = result
  BY <1>1 DEF Hand
<1>10. InFlight' = InFlight \cup {m}
  <2>1. {Waiting'[n] : n \in DOMAIN Waiting'} = {Waiting[n] : n \in DOMAIN Waiting} \cup {m}
    BY <1>8
  <2> QED  BY <1>9, <2>1 DEF InFlight
<1>11. ASSUME NEW n \in DOMAIN Waiting', NEW l \in DOMAIN Waiting', n < l
       PROVE  After(Waiting'[n], Waiting'[l])
  <2>1. n \in DOMAIN Waiting /\ Waiting'[n] = Waiting[n]
    BY <1>8, <1>11
  <2>2. CASE l \in DOMAIN Waiting
    BY <1>8, <1>11, <2>1, <2>2 DEF Order
  <2>3. CASE l = Len(Waiting) + 1
    BY <1>8, <2>1, <2>3 DEF InFlight
  <2> QED  BY <1>8, <2>2, <2>3
<1>12. ASSUME Hand, NEW n \in DOMAIN Waiting'
       PROVE  After(result.message, Waiting'[n])
  <2>1. CASE n \in DOMAIN Waiting
    BY <1>8, <1>12, <2>1 DEF Order
  <2>2. CASE n = Len(Waiting) + 1
    BY <1>8, <1>12, <2>2 DEF InFlight
  <2> QED  BY <1>8, <2>1, <2>2
<1>13. Order'
  BY <1>9, <1>11, <1>12 DEF Order, After, IsNote
<1> QED  BY <1>1, <1>10, <1>13
-----------------------------------------------------------------------------
(* What a step leaves true.                                                *)

\* The turns only move forward: what was issued, presented, run or answered
\* stays so.
TurnForward(k) ==
    /\ command[k] # "none" => command'[k] = command[k]
    /\ PastAsking(k) =>
          PastAsking(k)' /\ shown'[k] = shown[k] /\ read'[k] \in {read[k], shown[k]}
    /\ Ended(k) => Ended(k)' /\ ran'[k] = ran[k] /\ ruling'[k] = ruling[k]
    /\ interrupted[k] => interrupted'[k]
    /\ stage[k] = "over" => stage'[k] = "over"
Forward == (\A k \in Probes : TurnForward(k)) /\ (strayed => strayed')

LEMMA TrueKept ==
  ASSUME NEW m, TrueNote(m), IsNote(m), Forward,
         m.kind = "approval" /\ m.item \in Probes => \A v \in Rulings : Told(m.item, v)' => Told(m.item, v)
  PROVE  TrueNote(m)'
<1>1. CASE m.item \notin Probes
  BY <1>1 DEF TrueNote, Forward, TurnForward
<1>2. ASSUME NEW k \in Probes, m.item = k
      PROVE  TrueNote(m)'
  <2>1. m.kind = "started" => command'[k] = m.command /\ m.command # "none"
    BY <1>2 DEF TrueNote, Forward, TurnForward
  <2>2. m.kind = "approval" => /\ PastAsking(k)' /\ shown'[k] = m.command
                               /\ \A v \in Rulings : ~Told(k, v)'
    BY <1>2 DEF TrueNote, Forward, TurnForward
  <2>3. m.kind = "completed" =>
              /\ Ended(k)' /\ m.status # "none"
              /\ ran'[k] # "none" \/ ruling'[k] # "none" \/ interrupted'[k]
              /\ m.status = "completed" => ran'[k] = m.command /\ m.command # "none"
    BY <1>2 DEF TrueNote, Forward, TurnForward
  <2>4. m.kind = "turn" => stage'[k] = "over"
    BY <1>2 DEF TrueNote, Forward, TurnForward
  <2> QED  BY <1>2, <2>1, <2>2, <2>3, <2>4 DEF TrueNote
<1> QED  BY <1>1, <1>2

LEMMA MarkersAre ==
  \A k \in Probes : MarkerOf(Expected[k]) # "none" /\ Expected[k] # "none" /\ Expected[k] # "other"
BY DEF Probes, Expected, MarkerOf

LEMMA TaleKept ==
  ASSUME NEW k \in Probes, NEW e, Tale(k, e), Forward, Told(k, "accept")' => Told(k, "accept")
  PROVE  Tale(k, e)'
<1>1. e.started # "none" /\ e.item = k => e.started = command'[k]
  BY DEF Tale, Forward, TurnForward
<1>2. e.presented # "none" =>
          /\ e.presented = Expected[k]
          /\ e.item = k =>
                PastAsking(k)' /\ shown'[k] = Expected[k] /\ (k # Stop => read'[k] = Expected[k])
  BY DEF Tale, Forward, TurnForward
<1>3. e.status # "none" =>
          /\ Ended(k)' /\ (k # Stop => ran'[k] # "none" \/ ruling'[k] # "none")
          /\ e.status = "completed" => e.completed = ran'[k] /\ e.completed # "none"
  BY DEF Tale, Forward, TurnForward
<1>4. /\ e.item = OtherItem => strayed'
      /\ e.closed => stage'[k] = "over"
  BY DEF Tale, Forward, TurnForward
<1> QED  BY <1>1, <1>2, <1>3, <1>4 DEF Tale

LEMMA MarkedKept ==
  ASSUME NEW k \in Probes, NEW e, Tale(k, e), Marked(k, e), Forward, TurnsInv
  PROVE  Marked(k, e)'
<1>1. e.closed /\ ~e.marker => MarkerOf(ran'[k]) # MarkerOf(Expected[k])
  BY DEF Tale, Marked, Forward, TurnForward, Ended
<1>2. e.marker => \E j \in 1..k : MarkerOf(ran'[j]) = MarkerOf(Expected[k])
  <2> SUFFICES ASSUME e.marker PROVE \E j \in 1..k : MarkerOf(ran'[j]) = MarkerOf(Expected[k])
    OBVIOUS
  <2>1. PICK j \in 1..k : MarkerOf(ran[j]) = MarkerOf(Expected[k])
    BY DEF Marked
  <2>2. j \in Probes /\ ran[j] # "none"
    BY <2>1, MarkersAre, ProbesAre DEF MarkerOf
  <2>3. ran'[j] = ran[j]
    BY <2>2 DEF TurnsInv, TurnInv, Forward, TurnForward
  <2> QED  BY <2>1, <2>3
<1> QED  BY <1>1, <1>2 DEF Marked
-----------------------------------------------------------------------------
(* The answers on their way.                                               *)

LEMMA StdinIs == SuiteInv => stdin \in Seq(SafeLines) /\ \A n \in DOMAIN stdin : stdin[n] \in SafeLines
BY LenProperties DEF SuiteInv, PipeInv

LEMMA Says ==
  ASSUME SuiteInv, probe' \in Int, ruling' = ruling, NEW a, stdin' = Append(stdin, a)
  PROVE  /\ \A k, v : Told(k, v)' => Told(k, v) \/ (a.kind = "answer" /\ a.id = k /\ a.value = v)
         /\ (a.kind = "interrupt" => probe' >= Stop) /\ LinesInv /\ probe' >= probe => LinesInv'
<1> DEFINE S == SafeLines \cup {a}
<1>1. stdin \in Seq(S) /\ a \in S
  BY StdinIs, Widen
<1>2. /\ DOMAIN stdin = 1..Len(stdin) /\ Len(stdin) \in Nat
      /\ DOMAIN stdin' = 1..(Len(stdin) + 1)
      /\ \A n \in DOMAIN stdin : stdin'[n] = stdin[n]
      /\ stdin'[Len(stdin) + 1] = a
  <2> HIDE DEF S
  <2> QED  BY <1>1, AppendProperties, LenProperties
<1>3. \A n \in DOMAIN stdin' : (n \in DOMAIN stdin /\ stdin'[n] = stdin[n]) \/ stdin'[n] = a
  BY <1>2
<1>4. probe \in Int /\ Stop \in Int
  BY ProbesAre DEF SuiteInv, CallerInv, Stop
<1>5. \A k, v : Told(k, v)' => Told(k, v) \/ (a.kind = "answer" /\ a.id = k /\ a.value = v)
  BY <1>3 DEF Told
<1>6. (a.kind = "interrupt" => probe' >= Stop) /\ LinesInv /\ probe' >= probe => LinesInv'
  <2> SUFFICES ASSUME a.kind = "interrupt" => probe' >= Stop, LinesInv, probe' >= probe,
                      NEW n \in DOMAIN stdin', stdin'[n].kind = "interrupt"
               PROVE  probe' >= Stop
    BY DEF LinesInv
  <2>1. CASE stdin'[n] = a  BY <2>1
  <2>2. CASE n \in DOMAIN stdin /\ stdin'[n] = stdin[n]
    <3>1. probe >= Stop
      BY <2>2 DEF LinesInv
    <3> QED  BY <1>4, <3>1
  <2> QED  BY <1>3, <2>1, <2>2
<1> QED  BY <1>5, <1>6

LEMMA Unsaid ==
  ASSUME stdin' = stdin, ruling' = ruling
  PROVE  \A k, v : Told(k, v)' <=> Told(k, v)
BY DEF Told

LEMMA Reads ==
  ASSUME SuiteInv, stdin # <<>>, stdin' = Tail(stdin)
  PROVE  /\ \A n \in DOMAIN stdin' : \E l \in DOMAIN stdin : stdin'[n] = stdin[l]
         /\ Head(stdin) \in SafeLines /\ \E l \in DOMAIN stdin : Head(stdin) = stdin[l]
         /\ ruling' = ruling => \A k, v : Told(k, v)' => Told(k, v)
         /\ LinesInv /\ probe' = probe => LinesInv'
<1>1. stdin \in Seq(SafeLines)
  BY StdinIs
<1>2. /\ \A n \in DOMAIN stdin' : n + 1 \in DOMAIN stdin /\ stdin'[n] = stdin[n + 1]
      /\ 1 \in DOMAIN stdin /\ Head(stdin) = stdin[1] /\ Head(stdin) \in SafeLines
  <2> HIDE DEF SafeLines
  <2> QED  BY <1>1, TailIs
<1>3. \A n \in DOMAIN stdin' : \E l \in DOMAIN stdin : stdin'[n] = stdin[l]
  BY <1>2
<1>4. ruling' = ruling => \A k, v : Told(k, v)' => Told(k, v)
  BY <1>3 DEF Told
<1> QED  BY <1>2, <1>3, <1>4 DEF LinesInv
-----------------------------------------------------------------------------
(* The steps of the caller.                                                *)

\* Probe p ends with evidence e, to which the marker is added.
LEMMA EndsWith ==
  ASSUME SuiteInv, TurnsInv, NEW p \in Probes, p = probe, NEW e \in Evidence, Tale(p, e)',
         Finish(e), ran' = ran
  PROVE  \E f : /\ evs' = Append(evs, f) /\ f.error = e.error /\ f.closed = e.closed
                /\ Tale(p, f)' /\ Marked(p, f)'
<1> DEFINE b == Marker(Expected[p])
<1>1. PICK f : f = [e EXCEPT !.marker = b]
  OBVIOUS
<1>2. /\ f.item = e.item /\ f.started = e.started /\ f.presented = e.presented
      /\ f.decision = e.decision /\ f.completed = e.completed /\ f.status = e.status
      /\ f.closed = e.closed /\ f.error = e.error /\ f.marker = b
  BY <1>1 DEF Evidence
<1>3. evs' = Append(evs, f)
  BY <1>1 DEF Finish
<1>4. Tale(p, f)'
  BY <1>2 DEF Tale
<1>5. ~f.marker => MarkerOf(ran'[p]) # MarkerOf(Expected[p])
  BY <1>2 DEF Marker
<1>6. f.marker => \E j \in 1..p : MarkerOf(ran'[j]) = MarkerOf(Expected[p])
  <2> SUFFICES ASSUME f.marker PROVE \E j \in 1..p : MarkerOf(ran'[j]) = MarkerOf(Expected[p])
    OBVIOUS
  <2>1. PICK j \in Probes : MarkerOf(ran[j]) = MarkerOf(Expected[p])
    BY <1>2 DEF Marker
  <2>2. ran[j] # "none"
    BY <2>1, MarkersAre DEF MarkerOf
  <2>3. stage[j] # "none"
    BY <2>2 DEF TurnsInv, TurnInv, Ended
  <2>4. j \in 1..p
    BY <2>3, ProbesAre DEF SuiteInv, ServerInv, CallerInv
  <2> QED  BY <2>1, <2>4
<1>7. Marked(p, f)'
  BY <1>5, <1>6 DEF Marked
<1> QED  BY <1>2, <1>3, <1>4, <1>7

\* The caller handles what it has, with evidence e: an answer may go to the
\* server if it has a request for approval in hand.
Handles(e, v) ==
    /\ UNCHANGED <<server, strayed, verdict>>
    /\ Waiting' = Waiting
    /\ \A k \in Probes, w \in Rulings :
          Told(k, w)' => Told(k, w) \/ (Reading("approval") /\ k = result.message.item /\ w = v)
    /\ \A k \in Probes : PastAsking(k) => read'[k] \in {read[k], shown[k]}

LEMMA HandlesForward == \A e, v : Handles(e, v) => Forward
BY DEF Handles, Forward, TurnForward, server, PastAsking, Ended

LEMMA Handled ==
  ASSUME SuiteInv, TruthInv, NEW e, NEW v, Handles(e, v), ~Hand'
  PROVE  /\ Order' /\ NotesInv' /\ InFlight' \subseteq InFlight
         /\ Clean => \A k \in Probes \ {probe} : Told(k, "accept")' => Told(k, "accept")
         /\ Hand => \A b \in InFlight' : After(result.message, b)
<1>1. /\ InFlight' \subseteq InFlight /\ Order'
      /\ Hand => \A b \in InFlight' : After(result.message, b)
  BY Settles DEF TruthInv, Handles
<1>2. Forward
  BY HandlesForward
<1>3. ASSUME NEW m \in InFlight', IsNote(m)
      PROVE  TrueNote(m)'
  <2>1. TrueNote(m)
    BY <1>1, <1>3 DEF TruthInv, NotesInv
  <2>2. ASSUME m.kind = "approval", m.item \in Probes, NEW w \in Rulings
        PROVE  Told(m.item, w)' => Told(m.item, w)
    <3>1. ASSUME Reading("approval")
          PROVE  result.message.item # m.item
      <4>1. Hand /\ result.message.kind = "approval"
        BY <3>1 DEF Reading, Hand
      <4>2. After(result.message, m)
        BY <1>1, <4>1
      <4> QED  BY <2>2, <4>1, <4>2 DEF After, IsNote
    <3>2. PICK k \in Probes : k = m.item
      BY <2>2
    <3>3. Told(k, w)' => Told(k, w)
      BY <3>1, <3>2 DEF Handles
    <3> QED  BY <3>2, <3>3
  <2> QED  BY <1>2, <1>3, <2>1, <2>2, TrueKept
<1>4. NotesInv'
  <2>1. \A m : IsNote(m)' <=> IsNote(m)
    BY DEF IsNote
  <2> QED  BY <1>3, <2>1 DEF NotesInv
<1>5. ASSUME Clean, NEW k \in Probes \ {probe}, Told(k, "accept")'
      PROVE  Told(k, "accept")
  <2>1. CASE Reading("approval") /\ k = result.message.item
    <3>1. result.message \in InFlight /\ IsNote(result.message)
      BY <2>1 DEF Reading, InFlight, Hand, IsNote
    <3> QED  BY <1>5, <2>1, <3>1 DEF TruthInv, AccountsInv
  <2> QED  BY <1>5, <2>1 DEF Handles, Rulings
<1> QED  BY <1>1, <1>4, <1>5

LEMMA TurnsKept ==
  ASSUME SuiteInv, SuiteInv', TruthInv, NEW e, NEW v, Handles(e, v), probe' \in {probe, probe + 1}
  PROVE  TurnsInv'
<1>1. /\ UNCHANGED <<ran, ruling, stage, command, interrupted>>
      /\ TurnsInv
  BY DEF Handles, server, TruthInv
<1>2. ASSUME NEW k \in Probes, NEW w \in Rulings, Told(k, w)'
      PROVE  PastAsking(k)'
  <2>1. CASE Told(k, w)
    BY <1>1, <2>1 DEF TurnsInv, TurnInv, PastAsking
  <2>2. CASE Reading("approval") /\ k = result.message.item
    <3>1. result.message \in InFlight /\ IsNote(result.message)
      BY <2>2 DEF Reading, InFlight, Hand, IsNote
    <3>2. TrueNote(result.message) /\ result.message.kind = "approval"
      BY <2>2, <3>1 DEF TruthInv, NotesInv, Reading
    <3> QED  BY <1>1, <2>2, <3>2 DEF TrueNote, PastAsking
  <2> QED  BY <1>2, <2>1, <2>2 DEF Handles
<1>3. ASSUME NEW k \in Probes, interrupted'[k]
      PROVE  probe' >= Stop
  <2>1. probe >= Stop /\ probe \in Int /\ Stop \in Int
    BY <1>1, <1>3, ProbesAre DEF TurnsInv, TurnInv, SuiteInv, CallerInv, Stop
  <2> QED  BY <2>1
<1> QED  BY <1>1, <1>2, <1>3 DEF TurnsInv, TurnInv, Ended

LEMMA EvsIs ==
  SuiteInv => DOMAIN evs = 1..(probe - 1) /\ DOMAIN evs \subseteq Probes /\ probe \in Int
              /\ \A k \in DOMAIN evs : k \in Probes \ {probe}
<1> SUFFICES ASSUME SuiteInv
             PROVE  DOMAIN evs = 1..(probe - 1) /\ DOMAIN evs \subseteq Probes /\ probe \in Int
                    /\ \A k \in DOMAIN evs : k \in Probes \ {probe}
  OBVIOUS
<1>1. DOMAIN evs = 1..Len(evs) /\ Len(evs) = probe - 1 /\ probe \in 1..6
  BY ProbesAre, LenProperties DEF SuiteInv, CallerInv
<1> QED  BY <1>1, ProbesAre

\* The probe goes on with evidence e.
LEMMA GoesOn ==
  ASSUME SuiteInv, SuiteInv', TruthInv, NEW e, NEW v, Handles(e, v), ~Hand',
         ClientInv', CallsInv', LinesInv', NEW p \in Probes, p = probe,
         ev' = e, evs' = evs, probe' = probe, Busy', verdict = "NONE",
         Clean => Tale(p, e)' /\ ~e.closed /\ ~e.marker /\ ~e.error
  PROVE  TruthInv'
<1>1. /\ Order' /\ NotesInv' /\ InFlight' \subseteq InFlight
      /\ Clean => \A k \in Probes \ {probe} : Told(k, "accept")' => Told(k, "accept")
  BY Handled
<1>2. TurnsInv'
  BY TurnsKept
<1>3. Clean' <=> Clean
  BY DEF Clean
<1>4. Sound' => Clean
  BY <1>3 DEF Sound
<1>5. ASSUME Clean, NEW k \in DOMAIN evs
      PROVE  Tale(k, evs[k])' /\ Marked(k, evs[k])'
  <2>1. k \in Probes \ {probe} /\ Forward /\ TurnsInv
    BY <1>5, EvsIs, HandlesForward DEF TruthInv
  <2>2. PICK f : f = evs[k]
    OBVIOUS
  <2>3. Tale(k, f) /\ Marked(k, f)
    BY <1>5, <2>2 DEF TruthInv, AccountsInv, Sound
  <2>4. Told(k, "accept")' => Told(k, "accept")
    BY <1>1, <1>5, <2>1
  <2>5. Tale(k, f)' /\ Marked(k, f)'
    BY <2>1, <2>3, <2>4, TaleKept, MarkedKept
  <2>6. f = evs'[k]
    BY <2>2
  <2> QED  BY <2>5, <2>6
<1>6. ASSUME Clean
      PROVE  Tale(probe, ev)' /\ ~ev'.closed /\ ~ev'.marker /\ ~ev'.error
  BY <1>6
<1>7. ASSUME Clean, NEW m \in InFlight', IsNote(m)', m.item \in Probes
      PROVE  m.item = probe' /\ Busy'
  BY <1>1, <1>7 DEF IsNote, TruthInv, AccountsInv
<1>8. AccountsInv'
  <2>1. Clean => \A k \in DOMAIN evs : evs[k].closed
    BY DEF TruthInv, AccountsInv
  <2>2. verdict' = "NONE"
    BY DEF Handles
  <2> QED  BY <1>3, <1>4, <1>5, <1>6, <1>7, <2>1, <2>2 DEF AccountsInv
<1> QED  BY <1>1, <1>2, <1>8 DEF TruthInv

\* The probe ends with evidence e; if it was not given up, no note about it
\* is left.
LEMMA EndsThere ==
  ASSUME SuiteInv, SuiteInv', TruthInv, NEW e \in Evidence, NEW v, Handles(e, v),
         ClientInv', CallsInv', LinesInv', NEW p \in Probes, p = probe,
         Finish(e), verdict = "NONE", Clean => Tale(p, e)',
         Clean /\ ~e.error => e.closed /\ \A m \in InFlight' : IsNote(m) => m.item # p
  PROVE  TruthInv'
<1>1. mode' = "begin" /\ ev' = NoEvidence /\ probe' = probe + 1
  BY DEF Finish
<1>2. ~Hand' /\ ~Busy'
  BY <1>1 DEF Hand, Busy
<1>3. /\ Order' /\ NotesInv' /\ InFlight' \subseteq InFlight
      /\ Clean => \A k \in Probes \ {probe} : Told(k, "accept")' => Told(k, "accept")
  BY <1>2, Handled
<1>4. TurnsInv'
  BY <1>1, TurnsKept
<1>5. evs \in Seq(Evidence) /\ DOMAIN evs = 1..(p - 1) /\ Len(evs) = p - 1 /\ p \in Nat
  BY EvsIs, ProbesAre DEF SuiteInv, CallerInv
<1>6. PICK f : evs' = Append(evs, f)
  BY DEF Finish
<1>7. /\ DOMAIN evs' = 1..p /\ Len(evs') = p /\ \A k \in DOMAIN evs : evs'[k] = evs[k]
      /\ evs'[p] = f
  <2> DEFINE S == Evidence \cup {f}
  <2>1. evs \in Seq(S) /\ f \in S
    BY <1>5, Widen
  <2> HIDE DEF S
  <2> QED  BY <1>5, <1>6, <2>1, AppendProperties, LenProperties
<1>8. Sound' => Clean
  <2> SUFFICES ASSUME ~Clean PROVE ~Sound'
    OBVIOUS
  <2>1. PICK k \in DOMAIN evs : evs[k].error
    BY DEF Clean
  <2>2. k \in DOMAIN evs' /\ evs'[k].error /\ k # Len(evs')
    BY <1>5, <1>7, <2>1
  <2> QED  BY <2>2 DEF Sound, Clean, GaveUpOnce
<1>9. ASSUME Clean
      PROVE  /\ \A k \in DOMAIN evs' : Tale(k, evs[k])' /\ Marked(k, evs[k])'
             /\ Clean' <=> ~e.error
             /\ Clean' => evs'[p].closed
  <2>1. Forward /\ TurnsInv
    BY HandlesForward DEF TruthInv
  <2>2. PICK g : /\ evs' = Append(evs, g) /\ g.error = e.error /\ g.closed = e.closed
                 /\ Tale(p, g)' /\ Marked(p, g)'
    <3>1. ran' = ran
      BY DEF Handles, server
    <3> QED  BY <1>9, <2>1, <3>1, EndsWith
  <2>3. evs'[p] = g
    <3> DEFINE S == Evidence \cup {g}
    <3>1. evs \in Seq(S) /\ g \in S
      BY <1>5, Widen
    <3> HIDE DEF S
    <3> QED  BY <1>5, <2>2, <3>1, AppendProperties
  <2>4. Tale(p, evs[p])' /\ Marked(p, evs[p])'
    BY <2>2, <2>3
  <2>5. ASSUME NEW k \in DOMAIN evs
        PROVE  Tale(k, evs[k])' /\ Marked(k, evs[k])'
    <3>1. k \in Probes \ {probe}
      BY EvsIs
    <3>2. PICK h : h = evs[k]
      OBVIOUS
    <3>3. Tale(k, h) /\ Marked(k, h)
      BY <1>9, <3>2 DEF TruthInv, AccountsInv, Sound
    <3>4. Told(k, "accept")' => Told(k, "accept")
      BY <1>3, <1>9, <3>1
    <3>5. Tale(k, h)' /\ Marked(k, h)'
      BY <2>1, <3>1, <3>3, <3>4, TaleKept, MarkedKept
    <3>6. h = evs'[k]
      BY <1>7, <3>2
    <3> QED  BY <3>5, <3>6
  <2>6. \A k \in DOMAIN evs' : k \in DOMAIN evs \/ k = p
    BY <1>5, <1>7
  <2>7. Clean' <=> ~e.error
    <3>1. \A k \in DOMAIN evs : ~evs'[k].error
      BY <1>7, <1>9 DEF Clean
    <3> QED  BY <1>5, <1>7, <2>2, <2>3, <2>6, <3>1 DEF Clean
  <2>8. ~e.error => evs'[p].closed
    BY <1>9, <2>2, <2>3
  <2> QED  BY <2>4, <2>5, <2>6, <2>7, <2>8
<1>10. Clean' => Clean
  BY <1>8 DEF Sound
<1>11. Sound' => \A k \in DOMAIN evs' : Tale(k, evs[k])' /\ Marked(k, evs[k])'
  BY <1>8, <1>9
<1>12. Clean' => \A k \in DOMAIN evs' : evs'[k].closed
  <2>1. \A k \in DOMAIN evs' : k \in DOMAIN evs \/ k = p
    BY <1>5, <1>7
  <2>2. Clean => \A k \in DOMAIN evs : evs[k].closed
    BY DEF TruthInv, AccountsInv
  <2> QED  BY <1>7, <1>9, <1>10, <2>1, <2>2
<1>13. ASSUME Clean', NEW m \in InFlight', IsNote(m)'
       PROVE  m.item \notin Probes
  BY <1>3, <1>9, <1>10, <1>13 DEF IsNote, TruthInv, AccountsInv
<1>14. AccountsInv'
  <2>1. verdict' = "NONE"
    BY DEF Handles
  <2> QED  BY <1>1, <1>2, <1>11, <1>12, <1>13, <2>1 DEF AccountsInv
<1> QED  BY <1>3, <1>4, <1>14 DEF TruthInv

LEMMA ListensIs ==
  ASSUME ClientInv, NextMessage
  PROVE  ClientInv' /\ Waiting' = Waiting /\ call' = "next"
BY NextMessageStep DEF Abstract!Listen, NextMessage

LEMMA RestsIs ==
  ASSUME ClientInv, UNCHANGED client
  PROVE  ClientInv' /\ Waiting' = Waiting /\ call' = call
BY DEF ClientInv, Waiting, client

\* What every step of a probe has in common.
Going == Busy /\ verdict = "NONE" /\ call = "idle" /\ UNCHANGED <<server, strayed, verdict>>

LEMMA GoOnTrue ==
  ASSUME SuiteInv, SuiteInv', TruthInv, Going, NEW p \in Probes, p = probe, NEW e, GoOn(e), NEW v,
         \A k \in Probes, w \in Rulings :
            Told(k, w)' => Told(k, w) \/ (Reading("approval") /\ k = result.message.item /\ w = v),
         \A k \in Probes : PastAsking(k) => read'[k] \in {read[k], shown[k]}, LinesInv',
         Clean => Tale(p, e)' /\ ~e.closed /\ ~e.marker /\ ~e.error
  PROVE  TruthInv'
<1>1. ClientInv' /\ Waiting' = Waiting /\ call' = "next" /\ mode' = "reading"
      /\ ev' = e /\ evs' = evs /\ probe' = probe
  BY ListensIs DEF GoOn, TruthInv
<1>2. ~Hand' /\ Busy' /\ CallsInv' /\ verdict = "NONE"
  BY <1>1 DEF Hand, Busy, CallsInv, Going
<1>3. Handles(e, v)
  BY <1>1 DEF Handles, Going
<1> QED  BY <1>1, <1>2, <1>3, GoesOn

LEMMA FinishTrue ==
  ASSUME SuiteInv, SuiteInv', TruthInv, Going, NEW p \in Probes, p = probe, NEW e \in Evidence,
         Finish(e), UNCHANGED client, NEW v,
         \A k \in Probes, w \in Rulings :
            Told(k, w)' => Told(k, w) \/ (Reading("approval") /\ k = result.message.item /\ w = v),
         \A k \in Probes : PastAsking(k) => read'[k] \in {read[k], shown[k]}, LinesInv',
         Clean => Tale(p, e)',
         Clean /\ ~e.error => /\ e.closed /\ Reading("turn") /\ result.message.item = p
  PROVE  TruthInv'
<1>1. ClientInv' /\ Waiting' = Waiting /\ call' = "idle" /\ mode' = "begin"
  BY RestsIs DEF Finish, TruthInv, Going
<1>2. ~Hand' /\ CallsInv' /\ verdict = "NONE"
  BY <1>1 DEF Hand, CallsInv, Going
<1>3. Handles(e, v)
  BY <1>1 DEF Handles, Going
<1>4. ASSUME Clean, ~e.error, NEW m \in InFlight', IsNote(m)
      PROVE  m.item # p
  <2>1. Hand /\ result.message.kind = "turn" /\ result.message.item = p
    BY <1>4 DEF Reading, Hand
  <2>2. After(result.message, m)
    BY <1>2, <1>3, <1>4, <2>1, Handled
  <2> QED  BY <1>4, <2>1, <2>2 DEF After, IsNote
<1> QED  BY <1>1, <1>2, <1>3, <1>4, EndsThere

\* An exception of the client: the evidence is kept as it is.
LEMMA GiveUpTrue ==
  ASSUME SuiteInv, SuiteInv', TruthInv, Going, NEW p \in Probes, p = probe, NEW e \in Evidence,
         GiveUp(e), NEW v,
         \A k \in Probes, w \in Rulings :
            Told(k, w)' => Told(k, w) \/ (Reading("approval") /\ k = result.message.item /\ w = v),
         \A k \in Probes : PastAsking(k) => read'[k] \in {read[k], shown[k]}, LinesInv',
         Clean => Tale(p, e)'
  PROVE  TruthInv'
<1>1. PICK f : f = [e EXCEPT !.error = TRUE]
  OBVIOUS
<1>2. /\ f \in Evidence /\ f.error
      /\ f.item = e.item /\ f.started = e.started /\ f.presented = e.presented
      /\ f.decision = e.decision /\ f.completed = e.completed /\ f.status = e.status
      /\ f.closed = e.closed
  BY <1>1 DEF Evidence
<1>3. Finish(f) /\ UNCHANGED client
  BY <1>1 DEF GiveUp
<1>4. Clean => Tale(p, f)'
  BY <1>2 DEF Tale
<1> QED  BY <1>2, <1>3, <1>4, FinishTrue

\* Nothing is said to the server.
LEMMA Silent ==
  ASSUME SuiteInv, SuiteInv', TruthInv, stdin' = stdin, read' = read, UNCHANGED server,
         probe' \in {probe, probe + 1}
  PROVE  /\ \A k, w : Told(k, w)' => Told(k, w)
         /\ \A k \in Probes : PastAsking(k) => read'[k] \in {read[k], shown[k]}
         /\ LinesInv'
<1>1. ruling' = ruling
  BY DEF server
<1>2. probe \in Int /\ Stop \in Int
  BY ProbesAre DEF SuiteInv, CallerInv, Stop
<1>3. LinesInv'
  BY <1>2 DEF LinesInv, TruthInv
<1> QED  BY <1>1, <1>3, Unsaid

\* The evidence of the probe that runs is a tale of its turn, and stays so.
LEMMA EvTells ==
  ASSUME SuiteInv, TruthInv, Busy, Clean
  PROVE  ev \in Evidence /\ probe \in Probes
         /\ Tale(probe, ev) /\ ~ev.closed /\ ~ev.marker /\ ~ev.error
BY DEF SuiteInv, CallerInv, TruthInv, AccountsInv, Busy

LEMMA TaleStays ==
  ASSUME SuiteInv, TruthInv, UNCHANGED <<server, strayed>>, NEW k \in Probes, NEW e, Tale(k, e),
         \A j \in Probes : PastAsking(j) => read'[j] \in {read[j], shown[j]},
         Told(k, "accept")' => Told(k, "accept")
  PROVE  Tale(k, e)'
<1>1. Forward
  BY DEF Forward, TurnForward, server, PastAsking, Ended
<1> QED  BY <1>1, TaleKept

LEMMA SilentGoOn ==
  ASSUME SuiteInv, SuiteInv', TruthInv, Going, UNCHANGED <<stdin, read>>,
         NEW p \in Probes, p = probe, NEW e, GoOn(e),
         Clean => Tale(p, e) /\ ~e.closed /\ ~e.marker /\ ~e.error
  PROVE  TruthInv'
<1>1. /\ \A k, w : Told(k, w)' => Told(k, w)
      /\ \A k \in Probes : PastAsking(k) => read'[k] \in {read[k], shown[k]}
      /\ LinesInv'
  BY Silent DEF Going, GoOn
<1>2. Clean => Tale(p, e)'
  BY <1>1, TaleStays DEF Going
<1> QED  BY <1>1, <1>2, GoOnTrue

LEMMA SilentGiveUp ==
  ASSUME SuiteInv, SuiteInv', TruthInv, Going, UNCHANGED <<stdin, read>>, GiveUp(ev)
  PROVE  TruthInv'
<1>1. probe' \in {probe, probe + 1} /\ ev \in Evidence /\ probe \in Probes /\ Busy
  BY DEF GiveUp, Finish, Going, SuiteInv, CallerInv, Busy
<1>2. /\ \A k, w : Told(k, w)' => Told(k, w)
      /\ \A k \in Probes : PastAsking(k) => read'[k] \in {read[k], shown[k]}
      /\ LinesInv'
  BY <1>1, Silent DEF Going
<1>3. PICK e \in Evidence : e = ev
  BY <1>1
<1>4. PICK p \in Probes : p = probe
  BY <1>1
<1>5. Clean => Tale(p, e)
  BY <1>1, <1>3, <1>4, EvTells
<1>6. Clean => Tale(p, e)'
  BY <1>2, <1>5, TaleStays DEF Going
<1> QED  BY <1>2, <1>3, <1>4, <1>6, GiveUpTrue
-----------------------------------------------------------------------------
\* Evidence e differs from f in nothing that a tale is about.
Same(e, f) ==
    /\ e.item = f.item /\ e.started = f.started /\ e.presented = f.presented
    /\ e.decision = f.decision /\ e.completed = f.completed /\ e.status = f.status
    /\ e.closed = f.closed /\ e.marker = f.marker /\ e.error = f.error

LEMMA SameTells ==
  ASSUME SuiteInv, TruthInv, Busy, NEW p, p = probe, NEW e, Same(e, ev)
  PROVE  Clean => Tale(p, e) /\ ~e.closed /\ ~e.marker /\ ~e.error
BY EvTells DEF Same, Tale

LEMMA StartedTells == ASSUME SuiteInv, SuiteInv', TruthInv, verdict = "NONE", Started PROVE TruthInv'
<1>1. /\ UNCHANGED <<server, strayed, verdict, stdin, read>> /\ mode = "starting" /\ call = "idle"
      /\ ev \in Evidence /\ probe \in Probes
  BY DEF Started, SuiteInv, CallerInv
<1>2. Going /\ Busy
  BY <1>1 DEF Going, Busy
<1>3. CASE GoOn([ev EXCEPT !.turn = result.message.body])
  <2>1. PICK e : e = [ev EXCEPT !.turn = result.message.body]
    OBVIOUS
  <2>2. Same(e, ev)
    BY <1>1, <2>1 DEF Evidence, Same
  <2>3. PICK p \in Probes : p = probe
    BY <1>1
  <2> QED  BY <1>1, <1>2, <1>3, <2>1, <2>2, <2>3, SameTells, SilentGoOn
<1>4. CASE GiveUp(ev)
  BY <1>1, <1>2, <1>4, SilentGiveUp
<1> QED  BY <1>3, <1>4 DEF Started

LEMMA InterruptingTells ==
  ASSUME SuiteInv, SuiteInv', TruthInv, verdict = "NONE", Interrupting PROVE TruthInv'
<1>1. /\ UNCHANGED <<server, strayed, verdict, stdin, read>> /\ mode = "interrupting" /\ call = "idle"
      /\ ev \in Evidence /\ probe \in Probes
  BY DEF Interrupting, SuiteInv, CallerInv
<1>2. Going /\ Busy
  BY <1>1 DEF Going, Busy
<1>3. CASE GoOn([ev EXCEPT !.interrupted = TRUE])
  <2>1. PICK e : e = [ev EXCEPT !.interrupted = TRUE]
    OBVIOUS
  <2>2. Same(e, ev)
    BY <1>1, <2>1 DEF Evidence, Same
  <2>3. PICK p \in Probes : p = probe
    BY <1>1
  <2> QED  BY <1>1, <1>2, <1>3, <2>1, <2>2, <2>3, SameTells, SilentGoOn
<1>4. CASE GiveUp(ev)
  BY <1>1, <1>2, <1>4, SilentGiveUp
<1> QED  BY <1>3, <1>4 DEF Interrupting

\* A note in hand is true, and about the turn of the probe, if it is clean.
LEMMA InHand ==
  ASSUME SuiteInv, TruthInv, NEW kind \in {"started", "approval", "completed", "turn"},
         Reading(kind), verdict = "NONE"
  PROVE  /\ Busy /\ ev \in Evidence /\ probe \in Probes /\ call = "idle"
         /\ \E m \in ServerMessages :
               /\ m = result.message /\ m.kind = kind /\ TrueNote(m)
               /\ m.item \in 1..OtherItem /\ m.command \in Options
               /\ Clean => m.item \in {probe, OtherItem}
<1>1. Hand /\ Busy /\ call = "idle" /\ ev \in Evidence /\ probe \in Probes
  BY DEF Hand, Reading, Busy, SuiteInv, CallerInv
<1>2. /\ result.message \in ServerMessages /\ result.message.item \in 1..OtherItem
      /\ result.message.command \in Options /\ result.message.kind = kind
  BY ReadingIs DEF Reading
<1>3. result.message \in InFlight /\ IsNote(result.message)
  BY <1>1, <1>2 DEF InFlight, IsNote
<1>4. TrueNote(result.message)
  BY <1>3 DEF TruthInv, NotesInv
<1>5. Clean => result.message.item \in {probe, OtherItem}
  BY <1>2, <1>3, ProbesAre DEF TruthInv, AccountsInv
<1> QED  BY <1>1, <1>2, <1>4, <1>5

LEMMA OnStartedTells ==
  ASSUME SuiteInv, SuiteInv', TruthInv, verdict = "NONE", OnStarted PROVE TruthInv'
<1>1. /\ Busy /\ ev \in Evidence /\ probe \in Probes /\ call = "idle"
      /\ UNCHANGED <<server, strayed, verdict, stdin, read>>
  BY InHand DEF OnStarted
<1>2. PICK m \in ServerMessages :
               /\ m = result.message /\ m.kind = "started" /\ TrueNote(m)
               /\ m.item \in 1..OtherItem /\ m.command \in Options
               /\ Clean => m.item \in {probe, OtherItem}
  BY InHand DEF OnStarted
<1>3. Going
  BY <1>1 DEF Going
<1>4. PICK p \in Probes : p = probe
  BY <1>1
<1>5. CASE ev.item = 0
  <2>1. PICK e : e = [ev EXCEPT !.item = m.item, !.started = m.command]
    OBVIOUS
  <2>2. GoOn(e)
    BY <1>2, <1>5, <2>1 DEF OnStarted
  <2>3. ASSUME Clean
        PROVE  Tale(p, e) /\ ~e.closed /\ ~e.marker /\ ~e.error
    <3>1. Tale(p, ev) /\ ~ev.closed /\ ~ev.marker /\ ~ev.error
      BY <1>1, <1>4, <2>3, EvTells
    <3>2. /\ e.item = m.item /\ e.started = m.command /\ e.presented = ev.presented
          /\ e.decision = ev.decision /\ e.completed = ev.completed /\ e.status = ev.status
          /\ e.closed = ev.closed /\ e.marker = ev.marker /\ e.error = ev.error
      BY <1>1, <2>1 DEF Evidence
    <3>3. e.presented = "none" /\ e.status = "none" /\ ~Told(p, "accept")
      BY <1>4, <1>5, <3>1, <3>2, ProbesAre DEF Tale
    <3>4. m.item \in {p, OtherItem} /\ p # OtherItem /\ OtherItem \notin Probes
      BY <1>2, <1>4, <2>3, ProbesAre
    <3>5. m.item = p => m.command = command[p]
      BY <1>2 DEF TrueNote
    <3>6. m.item = OtherItem => m.command = "other" /\ strayed
      BY <1>2, <3>4 DEF TrueNote
    <3> QED  BY <1>4, <3>1, <3>2, <3>3, <3>4, <3>5, <3>6, ProbesAre DEF Tale
  <2> QED  BY <1>1, <1>3, <1>4, <2>2, <2>3, SilentGoOn
<1>6. CASE ev.item # 0
  <2>1. PICK e : e = [ev EXCEPT !.unexpected = @ \/ m.item # ev.item \/ m.command # ev.started]
    OBVIOUS
  <2>2. GoOn(e)
    BY <1>2, <1>6, <2>1 DEF OnStarted
  <2>3. Same(e, ev)
    BY <1>1, <2>1 DEF Evidence, Same
  <2> QED  BY <1>1, <1>3, <1>4, <2>2, <2>3, SameTells, SilentGoOn
<1> QED  BY <1>5, <1>6

LEMMA OnCompletedTells ==
  ASSUME SuiteInv, SuiteInv', TruthInv, verdict = "NONE", OnCompleted PROVE TruthInv'
<1>1. /\ Busy /\ ev \in Evidence /\ probe \in Probes /\ call = "idle"
      /\ UNCHANGED <<server, strayed, verdict, stdin, read>>
  BY InHand DEF OnCompleted
<1>2. PICK m \in ServerMessages :
               /\ m = result.message /\ m.kind = "completed" /\ TrueNote(m)
               /\ m.item \in 1..OtherItem /\ m.command \in Options
               /\ Clean => m.item \in {probe, OtherItem}
  BY InHand DEF OnCompleted
<1>3. Going
  BY <1>1 DEF Going
<1>4. PICK p \in Probes : p = probe
  BY <1>1
<1>5. CASE ev.item \in {0, m.item}
  <2>1. PICK e : e = [ev EXCEPT !.item = m.item, !.completed = m.command, !.status = m.status]
    OBVIOUS
  <2>2. GoOn(e)
    BY <1>2, <1>5, <2>1 DEF OnCompleted
  <2>3. ASSUME Clean
        PROVE  Tale(p, e) /\ ~e.closed /\ ~e.marker /\ ~e.error
    <3>1. Tale(p, ev) /\ ~ev.closed /\ ~ev.marker /\ ~ev.error
      BY <1>1, <1>4, <2>3, EvTells
    <3>2. /\ e.item = m.item /\ e.started = ev.started /\ e.presented = ev.presented
          /\ e.decision = ev.decision /\ e.completed = m.command /\ e.status = m.status
          /\ e.closed = ev.closed /\ e.marker = ev.marker /\ e.error = ev.error
      BY <1>1, <2>1 DEF Evidence
    <3>3. m.item = p
      <4>1. m.item \in {p, OtherItem} /\ OtherItem \notin Probes
        BY <1>2, <1>4, <2>3, ProbesAre
      <4> QED  BY <1>2, <4>1 DEF TrueNote
    <3>4. /\ Ended(p) /\ (ran[p] # "none" \/ ruling[p] # "none" \/ interrupted[p])
          /\ m.status = "completed" => ran[p] = m.command /\ m.command # "none"
      BY <1>2, <3>3 DEF TrueNote
    <3>5. interrupted[p] => p = Stop
      BY <1>4, ProbesAre DEF TruthInv, TurnsInv, TurnInv, Stop
    <3>6. /\ ev.item = 0 => ev.started = "none" /\ ev.presented = "none" /\ ~Told(p, "accept")
          /\ ev.item = 0 \/ ev.item = p
      BY <1>4, <1>5, <3>1, <3>3, ProbesAre DEF Tale
    <3>7. CASE ev.item = 0
      BY <1>4, <3>1, <3>2, <3>3, <3>4, <3>5, <3>6, <3>7, ProbesAre DEF Tale
    <3>8. CASE ev.item = p
      BY <1>4, <3>1, <3>2, <3>3, <3>4, <3>5, <3>8, ProbesAre DEF Tale
    <3> QED  BY <3>6, <3>7, <3>8
  <2> QED  BY <1>1, <1>3, <1>4, <2>2, <2>3, SilentGoOn
<1>6. CASE ev.item \notin {0, m.item}
  <2>1. PICK e : e = [ev EXCEPT !.unexpected = TRUE]
    OBVIOUS
  <2>2. GoOn(e)
    BY <1>2, <1>6, <2>1 DEF OnCompleted
  <2>3. Same(e, ev)
    BY <1>1, <2>1 DEF Evidence, Same
  <2> QED  BY <1>1, <1>3, <1>4, <2>2, <2>3, SameTells, SilentGoOn
<1> QED  BY <1>5, <1>6

LEMMA OnTurnTells ==
  ASSUME SuiteInv, SuiteInv', TruthInv, verdict = "NONE", OnTurn PROVE TruthInv'
<1>1. /\ Busy /\ ev \in Evidence /\ probe \in Probes /\ call = "idle"
      /\ UNCHANGED <<server, strayed, verdict, stdin, read>>
  BY InHand DEF OnTurn
<1>2. PICK m \in ServerMessages :
               /\ m = result.message /\ m.kind = "turn" /\ TrueNote(m)
               /\ m.item \in 1..OtherItem /\ m.command \in Options
               /\ Clean => m.item \in {probe, OtherItem}
  BY InHand DEF OnTurn
<1>3. Going
  BY <1>1 DEF Going
<1>4. PICK p \in Probes : p = probe
  BY <1>1
<1>5. CASE Finish([ev EXCEPT !.closed = TRUE, !.turnStatus = m.status]) /\ UNCHANGED client
  <2>1. PICK e : e = [ev EXCEPT !.closed = TRUE, !.turnStatus = m.status]
    OBVIOUS
  <2>2. /\ e \in Evidence
        /\ e.item = ev.item /\ e.started = ev.started /\ e.presented = ev.presented
        /\ e.decision = ev.decision /\ e.completed = ev.completed /\ e.status = ev.status
        /\ e.closed /\ e.error = ev.error
    <3>1. m.status \in Statuses
      BY <1>2, ReadingIs DEF OnTurn
    <3> QED  BY <1>1, <2>1, <3>1 DEF Evidence
  <2>3. probe' \in {probe, probe + 1}
    BY <1>5 DEF Finish
  <2>4. /\ \A k, w : Told(k, w)' => Told(k, w)
        /\ \A k \in Probes : PastAsking(k) => read'[k] \in {read[k], shown[k]}
        /\ LinesInv'
    BY <1>1, <2>3, Silent
  <2>5. ASSUME Clean
        PROVE  m.item = p /\ Tale(p, e)
    <3>1. Tale(p, ev) /\ ~ev.closed /\ ~ev.marker /\ ~ev.error
      BY <1>1, <1>4, <2>5, EvTells
    <3>2. m.item = p
      <4>1. m.item \in {p, OtherItem} /\ OtherItem \notin Probes
        BY <1>2, <1>4, <2>5, ProbesAre
      <4> QED  BY <1>2, <4>1 DEF TrueNote
    <3>3. stage[p] = "over"
      BY <1>2, <3>2 DEF TrueNote
    <3> QED  BY <2>2, <3>1, <3>2, <3>3 DEF Tale
  <2>6. Clean => Tale(p, e)'
    BY <1>1, <2>4, <2>5, TaleStays
  <2>7. Finish(e) /\ UNCHANGED client /\ Reading("turn") /\ result.message.item = m.item
    BY <1>2, <1>5, <2>1 DEF OnTurn
  <2> QED  BY <1>3, <1>4, <2>2, <2>4, <2>5, <2>6, <2>7, FinishTrue
<1>6. CASE GoOn(ev)
  <2>1. PICK e : e = ev
    OBVIOUS
  <2>2. Same(e, ev) /\ GoOn(e)
    BY <1>6, <2>1 DEF Same
  <2> QED  BY <1>1, <1>3, <1>4, <2>2, SameTells, SilentGoOn
<1> QED  BY <1>2, <1>5, <1>6 DEF OnTurn

\* A request for approval is answered with v.
LEMMA RespondTrue ==
  ASSUME SuiteInv, SuiteInv', TruthInv, Going, Reading("approval"), NEW p \in Probes, p = probe,
         NEW m, m = result.message, NEW v \in Rulings, NEW e \in Evidence, NEW cost,
         Respond(m.item, v, e, cost),
         \A k \in Probes : PastAsking(k) => read'[k] \in {read[k], shown[k]},
         Clean => ~e.closed /\ ~e.marker /\ ~e.error,
         ASSUME Clean,
                \A w \in Rulings : Told(p, w)' => Told(p, w) \/ (p = m.item /\ w = v)
         PROVE  Tale(p, e)'
  PROVE  TruthInv'
<1>1. ruling' = ruling /\ probe \in Int /\ Stop \in Int /\ LinesInv
      /\ probe' \in Int
  BY ProbesAre DEF Going, server, SuiteInv, CallerInv, Stop, TruthInv
<1>2. CASE stdin' = Append(stdin, Sent("answer", m.item, v)) /\ GoOn(e)
  <2>1. PICK a : a = Sent("answer", m.item, v)
    OBVIOUS
  <2>2. a.kind = "answer" /\ a.id = m.item /\ a.value = v /\ stdin' = Append(stdin, a)
    BY <1>2, <2>1 DEF Sent
  <2>3. probe' = probe
    BY <1>2 DEF GoOn
  <2>4. /\ \A k, w : Told(k, w)' => Told(k, w) \/ (k = m.item /\ w = v)
        /\ LinesInv'
    BY <1>1, <2>2, <2>3, Says
  <2>5. Clean => Tale(p, e)'
    BY <2>4
  <2> QED  BY <1>2, <2>4, <2>5, GoOnTrue
<1>3. CASE GiveUp(e) /\ UNCHANGED stdin
  <2>1. probe' = probe + 1
    BY <1>3 DEF GiveUp, Finish
  <2>2. \A k, w : Told(k, w)' <=> Told(k, w)
    BY <1>1, <1>3, Unsaid
  <2>3. LinesInv'
    BY <1>1, <1>3, <2>1 DEF LinesInv
  <2>4. Clean => Tale(p, e)'
    BY <2>2
  <2> QED  BY <1>3, <2>2, <2>3, <2>4, GiveUpTrue
<1> QED  BY <1>2, <1>3 DEF Respond

LEMMA OnOtherApprovalTells ==
  ASSUME SuiteInv, SuiteInv', TruthInv, verdict = "NONE", OnOtherApproval PROVE TruthInv'
<1>1. /\ Busy /\ ev \in Evidence /\ probe \in Probes /\ call = "idle"
      /\ UNCHANGED <<server, strayed, verdict, read>> /\ Reading("approval")
  BY InHand DEF OnOtherApproval
<1>2. Going
  BY <1>1 DEF Going
<1>3. PICK p \in Probes : p = probe
  BY <1>1
<1>4. PICK m : m = result.message
  OBVIOUS
<1>5. PICK e : e = [ev EXCEPT !.unexpected = TRUE]
  OBVIOUS
<1>6. e \in Evidence /\ Same(e, ev)
  BY <1>1, <1>5 DEF Evidence, Same
<1>7. Respond(m.item, "decline", e, 0)
  BY <1>4, <1>5 DEF OnOtherApproval
<1>8. Clean => Tale(p, e) /\ ~e.closed /\ ~e.marker /\ ~e.error
  BY <1>1, <1>3, <1>6, SameTells
<1>9. \A k \in Probes : PastAsking(k) => read'[k] \in {read[k], shown[k]}
  BY <1>1
<1>10. ASSUME Clean,
              \A w \in Rulings : Told(p, w)' => Told(p, w) \/ (p = m.item /\ w = "decline")
       PROVE  Tale(p, e)'
  <2>1. Told(p, "accept")' => Told(p, "accept")
    BY <1>10 DEF Rulings
  <2> QED  BY <1>1, <1>8, <1>9, <1>10, <2>1, TaleStays
<1>11. "decline" \in Rulings
  BY DEF Rulings
<1> QED  BY <1>1, <1>2, <1>3, <1>4, <1>6, <1>7, <1>8, <1>9, <1>10, <1>11, RespondTrue

\* What is presented in a request that is the probe's.
LEMMA PresentingTells ==
  ASSUME SuiteInv, TruthInv, Busy, ev \in Evidence, NEW p \in Probes, p = probe,
         NEW m, TrueNote(m), m.kind = "approval", m.item \in 1..OtherItem, m.command \in Options,
         Clean => m.item \in {p, OtherItem}, SameProbe(m), UNCHANGED <<server, strayed>>,
         NEW e, e.item = m.item, e.presented = m.command,
         e.started = ev.started, e.completed = ev.completed, e.status = ev.status,
         e.closed = ev.closed, e.marker = ev.marker, e.error = ev.error, Clean,
         p # Stop => \A k \in Probes : read'[k] = IF k = m.item THEN Expected[p] ELSE read[k],
         p = Stop => e.decision = ev.decision,
         Told(p, "accept")' => Told(p, "accept") \/ (p = m.item /\ e.decision = "accept")
  PROVE  Tale(p, e)' /\ ~e.closed /\ ~e.marker /\ ~e.error
<1>1. Tale(p, ev) /\ ~ev.closed /\ ~ev.marker /\ ~ev.error
  BY EvTells
<1>2. m.command = Expected[p] /\ ev.item \in {0, m.item}
      /\ Expected[p] \notin {"none", "other"} /\ p # OtherItem /\ OtherItem # 0 /\ p # 0
  BY MarkersAre, ProbesAre DEF SameProbe
<1>3. UNCHANGED <<stage, command, shown, ran, ruling, strayed>>
  BY DEF server
<1>4. /\ e.item \in {p, OtherItem} /\ ~e.closed /\ ~e.marker /\ ~e.error
      /\ e.presented = Expected[p]
  BY <1>1, <1>2
<1>5. CASE m.item = p
  <2>1. PastAsking(p) /\ shown[p] = Expected[p] /\ ~Told(p, "accept")
    BY <1>2, <1>5 DEF TrueNote, Rulings
  <2>2. Told(p, "accept")' => e.decision = "accept"
    BY <2>1
  <2>3. PastAsking(p)' /\ shown'[p] = Expected[p] /\ (p # Stop => read'[p] = Expected[p])
    BY <1>3, <1>5, <2>1 DEF PastAsking
  <2>4. e.started # "none" => e.started = command[p]
    BY <1>1, <1>2, <1>5 DEF Tale
  <2>5. e.status # "none" =>
          /\ Ended(p) /\ (p # Stop => ran[p] # "none" \/ ruling[p] # "none")
          /\ e.status = "completed" => e.completed = ran[p] /\ e.completed # "none"
    BY <1>1 DEF Tale
  <2>6. p = Stop => e.decision = "none"
    BY <1>1 DEF Tale
  <2> QED  BY <1>2, <1>3, <1>4, <1>5, <2>2, <2>3, <2>4, <2>5, <2>6 DEF Tale, Ended
<1>6. CASE m.item = OtherItem
  <2>1. ev.item # p
    BY <1>2, <1>6
  <2>2. e.started \in {"none", "other"} /\ e.status = "none" /\ ~Told(p, "accept")
    BY <1>1, <2>1 DEF Tale
  <2>3. strayed
    BY <1>6, ProbesAre DEF TrueNote
  <2>4. p = Stop => e.decision = "none"
    BY <1>1 DEF Tale
  <2> QED  BY <1>2, <1>3, <1>4, <1>6, <2>2, <2>3, <2>4 DEF Tale
<1> QED  BY <1>4, <1>5, <1>6

LEMMA OnApprovalTells ==
  ASSUME SuiteInv, SuiteInv', TruthInv, verdict = "NONE", OnApproval PROVE TruthInv'
<1>1. /\ Busy /\ ev \in Evidence /\ probe \in Probes /\ call = "idle"
      /\ UNCHANGED <<server, strayed, verdict>> /\ Reading("approval")
  BY InHand DEF OnApproval
<1>2. PICK m \in ServerMessages :
               /\ m = result.message /\ m.kind = "approval" /\ TrueNote(m)
               /\ m.item \in 1..OtherItem /\ m.command \in Options
               /\ Clean => m.item \in {probe, OtherItem}
  BY InHand DEF OnApproval
<1>3. Going
  BY <1>1 DEF Going
<1>4. PICK p \in Probes : p = probe
  BY <1>1
<1>5. PICK v \in Rulings : Respond(m.item, v, [Presenting(m) EXCEPT !.decision = v], Cost(v = Asked))
  BY <1>2 DEF OnApproval, Rulings
<1>6. PICK e : e = [Presenting(m) EXCEPT !.decision = v]
  OBVIOUS
<1>7. PICK cost : cost = Cost(v = Asked)
  OBVIOUS
<1>8. /\ e \in Evidence
      /\ e.item = m.item /\ e.started = ev.started /\ e.presented = m.command
      /\ e.decision = v /\ e.completed = ev.completed /\ e.status = ev.status
      /\ e.closed = ev.closed /\ e.marker = ev.marker /\ e.error = ev.error
  <2>1. m.item \in 0..OtherItem /\ v \in {"none", "accept", "decline"}
    BY <1>2, <1>5, ProbesAre DEF Rulings
  <2> QED  BY <1>1, <1>2, <1>6, <2>1 DEF Presenting, Evidence
<1>9. /\ SameProbe(m) /\ p # Stop
      /\ \A k \in Probes : read'[k] = IF k = m.item THEN Expected[p] ELSE read[k]
  BY <1>2, <1>4 DEF OnApproval
<1>10. \A k \in Probes : PastAsking(k) => read'[k] \in {read[k], shown[k]}
  BY <1>2, <1>4, <1>9 DEF TrueNote, SameProbe
<1>11. Clean => ~e.closed /\ ~e.marker /\ ~e.error
  BY <1>1, <1>8, EvTells
<1>12. ASSUME Clean,
              \A w \in Rulings : Told(p, w)' => Told(p, w) \/ (p = m.item /\ w = v)
       PROVE  Tale(p, e)'
  <2>1. Told(p, "accept")' => Told(p, "accept") \/ (p = m.item /\ e.decision = "accept")
    BY <1>8, <1>12 DEF Rulings
  <2> QED  BY <1>1, <1>2, <1>4, <1>8, <1>9, <1>12, <2>1, PresentingTells
<1>13. Respond(m.item, v, e, cost)
  BY <1>5, <1>6, <1>7
<1> QED  BY <1>1, <1>2, <1>3, <1>4, <1>8, <1>10, <1>11, <1>12, <1>13, RespondTrue

LEMMA OnPendingStopTells ==
  ASSUME SuiteInv, SuiteInv', TruthInv, verdict = "NONE", OnPendingStop PROVE TruthInv'
<1>1. /\ Busy /\ ev \in Evidence /\ probe \in Probes /\ call = "idle"
      /\ UNCHANGED <<server, strayed, verdict, read>> /\ Reading("approval")
  BY InHand DEF OnPendingStop
<1>2. PICK m \in ServerMessages :
               /\ m = result.message /\ m.kind = "approval" /\ TrueNote(m)
               /\ m.item \in 1..OtherItem /\ m.command \in Options
               /\ Clean => m.item \in {probe, OtherItem}
  BY InHand DEF OnPendingStop
<1>3. Going
  BY <1>1 DEF Going
<1>4. PICK p \in Probes : p = probe
  BY <1>1
<1>5. PICK e : e = Presenting(m)
  OBVIOUS
<1>6. /\ e \in Evidence
      /\ e.item = m.item /\ e.started = ev.started /\ e.presented = m.command
      /\ e.decision = ev.decision /\ e.completed = ev.completed /\ e.status = ev.status
      /\ e.closed = ev.closed /\ e.marker = ev.marker /\ e.error = ev.error
  <2>1. m.item \in 0..OtherItem
    BY <1>2, ProbesAre
  <2> QED  BY <1>1, <1>2, <1>5, <2>1 DEF Presenting, Evidence
<1>7. SameProbe(m) /\ p = Stop
  BY <1>2, <1>4 DEF OnPendingStop
<1>8. \A k \in Probes : PastAsking(k) => read'[k] \in {read[k], shown[k]}
  BY <1>1
<1>9. Clean => ~e.closed /\ ~e.marker /\ ~e.error
  BY <1>1, <1>6, EvTells
<1>10. ASSUME Clean, Told(p, "accept")' => Told(p, "accept")
       PROVE  Tale(p, e)'
  BY <1>1, <1>2, <1>4, <1>6, <1>7, <1>10, PresentingTells
<1>11. ruling' = ruling /\ probe \in Int /\ Stop \in Int /\ LinesInv
       /\ probe' \in Int
  BY <1>1, ProbesAre DEF server, SuiteInv, CallerInv, Stop, TruthInv
<1>12. CASE GiveUp(e) /\ stdin' = stdin
  <2>1. probe' \in {probe, probe + 1}
    BY <1>12 DEF GiveUp, Finish
  <2>2. (\A k, w : Told(k, w)' => Told(k, w)) /\ LinesInv'
    BY <1>1, <1>12, <2>1, Silent
  <2>3. Clean => Tale(p, e)'
    BY <1>10, <2>2
  <2> QED  BY <1>3, <1>4, <1>6, <1>8, <1>12, <2>2, <2>3, GiveUpTrue
<1>13. CASE GiveUp(e) /\ stdin' = Append(stdin, Sent("answer", m.item, "decline"))
  <2>1. PICK a : a = Sent("answer", m.item, "decline")
    OBVIOUS
  <2>2. a.kind = "answer" /\ a.id = m.item /\ a.value = "decline" /\ stdin' = Append(stdin, a)
    BY <1>13, <2>1 DEF Sent
  <2>3. probe' = probe + 1
    BY <1>13 DEF GiveUp, Finish
  <2>4. /\ \A k, w : Told(k, w)' => Told(k, w) \/ (k = m.item /\ w = "decline")
        /\ LinesInv'
    BY <1>11, <2>2, <2>3, Says
  <2>5. Clean => Tale(p, e)'
    BY <1>10, <2>4
  <2>6. \A k \in Probes, w \in Rulings :
            Told(k, w)' => Told(k, w) \/ (Reading("approval") /\ k = result.message.item /\ w = "decline")
    BY <1>1, <1>2, <2>4
  <2> QED  BY <1>3, <1>4, <1>6, <1>8, <1>13, <2>4, <2>5, <2>6, GiveUpTrue
<1>14. CASE /\ ev' = e /\ Submit("interrupt", ev.turn)
            /\ mode' = "interrupting" /\ UNCHANGED <<probe, evs>>
  <2>1. Request
    BY <1>14 DEF Submit
  <2>2. ClientInv' /\ Waiting' = Waiting /\ call' \in {"idle", "request"}
    BY <2>1, RequestStep DEF TruthInv, Abstract!Ask, Request
  <2>3. ~Hand' /\ Busy' /\ CallsInv'
    BY <1>1, <1>14, <2>2 DEF Hand, Busy, CallsInv
  <2>4. (\A k, w : Told(k, w)' => Told(k, w)) /\ LinesInv'
    <3>1. CASE stdin' = stdin
      BY <1>1, <1>14, <3>1, Silent
    <3>2. CASE stdin' = Append(stdin, Sent("interrupt", requestId', ev.turn))
      <4>1. PICK a : a = Sent("interrupt", requestId', ev.turn)
        OBVIOUS
      <4>2. a.kind = "interrupt" /\ stdin' = Append(stdin, a) /\ probe' = probe
        BY <1>14, <3>2, <4>1 DEF Sent
      <4>3. probe' >= Stop /\ probe' >= probe
        <5>1. probe' = probe /\ probe = Stop /\ probe \in Int
          BY <1>4, <1>7, <1>11, <4>2
        <5> QED  BY <5>1
      <4>4. \A k, w : Told(k, w)' => Told(k, w)
        BY <1>11, <4>2, Says
      <4> QED  BY <1>11, <4>2, <4>3, <4>4, Says
    <3> QED  BY <1>14, <3>1, <3>2 DEF Submit
  <2>5. Clean => Tale(p, e)'
    BY <1>10, <2>4
  <2>6. Handles(e, "decline")
    BY <1>1, <1>8, <2>2, <2>4 DEF Handles
  <2> QED  BY <1>4, <1>9, <1>14, <2>2, <2>3, <2>4, <2>5, <2>6, GoesOn
<1>15. \/ GiveUp(e) /\ stdin' = stdin
       \/ GiveUp(e) /\ stdin' = Append(stdin, Sent("answer", m.item, "decline"))
       \/ /\ ev' = e /\ Submit("interrupt", ev.turn)
          /\ mode' = "interrupting" /\ UNCHANGED <<probe, evs>>
  BY <1>2, <1>5 DEF OnPendingStop
<1> QED  BY <1>12, <1>13, <1>14, <1>15

LEMMA OnRestTells ==
  ASSUME SuiteInv, SuiteInv', TruthInv, verdict = "NONE", OnRest PROVE TruthInv'
<1>1. /\ ev \in Evidence /\ probe \in Probes /\ mode = "reading" /\ call = "idle"
      /\ UNCHANGED <<server, strayed, verdict, read>>
  BY DEF OnRest, SuiteInv, CallerInv
<1>2. Going /\ Busy
  BY <1>1 DEF Going, Busy
<1>3. PICK p \in Probes : p = probe
  BY <1>1
<1>4. CASE GoOn(ev) /\ UNCHANGED stdin
  <2>1. PICK e : e = ev
    OBVIOUS
  <2>2. Same(e, ev) /\ GoOn(e)
    BY <1>4, <2>1 DEF Same
  <2> QED  BY <1>1, <1>2, <1>3, <1>4, <2>2, SameTells, SilentGoOn
<1>5. CASE GiveUp(ev) /\ UNCHANGED stdin
  BY <1>1, <1>2, <1>5, SilentGiveUp
<1>6. CASE GiveUp(ev) /\ stdin' = Append(stdin, Sent("reject", 0, "none"))
  <2>1. PICK a : a = Sent("reject", 0, "none")
    OBVIOUS
  <2>2. a.kind = "reject" /\ stdin' = Append(stdin, a)
    BY <1>6, <2>1 DEF Sent
  <2>3. probe' = probe + 1
    BY <1>6 DEF GiveUp, Finish
  <2>4. /\ ruling' = ruling /\ probe \in Int /\ LinesInv /\ probe' \in Int
    BY <1>1, ProbesAre DEF server, SuiteInv, CallerInv, TruthInv
  <2>5. (\A k, w : Told(k, w)' => Told(k, w)) /\ LinesInv'
    BY <2>2, <2>3, <2>4, Says
  <2>6. PICK e \in Evidence : e = ev
    BY <1>1
  <2>7. Clean => Tale(p, e)
    BY <1>2, <1>3, <2>6, EvTells
  <2>8. \A k \in Probes : PastAsking(k) => read'[k] \in {read[k], shown[k]}
    BY <1>1
  <2>9. Clean => Tale(p, e)'
    BY <1>1, <2>5, <2>7, <2>8, TaleStays
  <2> QED  BY <1>2, <1>3, <1>6, <2>5, <2>6, <2>8, <2>9, GiveUpTrue
<1> QED  BY <1>4, <1>5, <1>6 DEF OnRest

LEMMA StartProbeTells ==
  ASSUME SuiteInv, SuiteInv', TruthInv, verdict = "NONE", StartProbe PROVE TruthInv'
<1>1. /\ mode = "begin" /\ probe \in Probes /\ mode' = "starting" /\ Submit("start", probe)
      /\ UNCHANGED <<server, strayed, verdict, read, probe, ev, evs>> /\ Request
  BY DEF StartProbe, Submit
<1>2. PICK p \in Probes : p = probe
  BY <1>1
<1>3. ClientInv' /\ Waiting' = Waiting /\ call' \in {"idle", "request"}
  BY <1>1, RequestStep DEF TruthInv, Abstract!Ask, Request
<1>4. ~Hand' /\ Busy' /\ CallsInv'
  BY <1>1, <1>3 DEF Hand, Busy, CallsInv
<1>5. (\A k, w : Told(k, w)' => Told(k, w)) /\ LinesInv'
  <2>1. CASE stdin' = stdin
    BY <1>1, <2>1, Silent
  <2>2. CASE stdin' = Append(stdin, Sent("start", requestId', probe))
    <3>1. PICK a : a = Sent("start", requestId', probe)
      OBVIOUS
    <3>2. a.kind = "start" /\ stdin' = Append(stdin, a) /\ ruling' = ruling
      BY <1>1, <2>2, <3>1 DEF Sent, server
    <3>3. probe' = probe /\ probe \in Int /\ LinesInv
      BY <1>1, ProbesAre DEF TruthInv
    <3> QED  BY <3>2, <3>3, Says
  <2> QED  BY <1>1, <2>1, <2>2 DEF Submit
<1>6. PICK e : e = ev
  OBVIOUS
<1>7. e = NoEvidence
  BY <1>1, <1>6 DEF TruthInv, AccountsInv, Busy
<1>8. Tale(p, e)' /\ ~e.closed /\ ~e.marker /\ ~e.error
  <2>1. stage[p] = "none"
    BY <1>1, <1>2, ProbesAre DEF SuiteInv, ServerInv
  <2>2. ~Told(p, "accept")'
    BY <1>5, <2>1 DEF TruthInv, TurnsInv, TurnInv, Rulings, PastAsking
  <2>3. p # 0 /\ OtherItem # 0
    BY ProbesAre
  <2> QED  BY <1>7, <2>2, <2>3 DEF Tale, NoEvidence
<1>9. Handles(e, "decline")
  BY <1>1, <1>3, <1>5 DEF Handles
<1>10. ev' = e /\ evs' = evs /\ probe' = probe
  BY <1>1, <1>6
<1> QED  BY <1>2, <1>3, <1>4, <1>5, <1>8, <1>9, <1>10, GoesOn
-----------------------------------------------------------------------------
(* The steps of the client, and the judgement.                             *)

LEMMA ServedTells ==
  ASSUME SuiteInv, TruthInv, UNCHANGED <<caller, server, stdin, strayed>>,
         ClientInv', CallsInv', Order', InFlight' \subseteq InFlight
  PROVE  TruthInv'
<1>1. /\ UNCHANGED <<probe, mode, ev, evs, verdict, read>>
      /\ UNCHANGED <<stage, command, shown, ruling, ran, interrupted, strayed, stdin>>
  BY DEF caller, server
<1>2. \A k, v : Told(k, v)' <=> Told(k, v)
  BY <1>1, Unsaid
<1>3. Forward
  BY <1>1 DEF Forward, TurnForward, PastAsking, Ended
<1>4. TurnsInv' /\ LinesInv'
  BY <1>1, <1>2 DEF TruthInv, TurnsInv, TurnInv, LinesInv, PastAsking, Ended
<1>5. NotesInv'
  <2>1. ASSUME NEW m \in InFlight', IsNote(m)
        PROVE  TrueNote(m)'
    BY <1>2, <1>3, <2>1, TrueKept DEF TruthInv, NotesInv
  <2>2. \A m : IsNote(m)' <=> IsNote(m)
    BY DEF IsNote
  <2> QED  BY <2>1, <2>2 DEF NotesInv
<1>6. (Clean' <=> Clean) /\ (Busy' <=> Busy) /\ (Sound' <=> Sound)
  BY <1>1 DEF Clean, Busy, Sound, GaveUpOnce
<1>7. ASSUME NEW k \in Probes, NEW e, Tale(k, e)
      PROVE  Tale(k, e)' /\ (Marked(k, e) => Marked(k, e)')
  BY <1>2, <1>3, <1>7, TaleKept, MarkedKept DEF TruthInv
<1>8. Sound => \A k \in DOMAIN evs : Tale(k, evs[k])' /\ Marked(k, evs[k])'
  <2> SUFFICES ASSUME Sound, NEW k \in DOMAIN evs
               PROVE  Tale(k, evs[k])' /\ Marked(k, evs[k])'
    OBVIOUS
  <2>1. PICK f : f = evs[k]
    OBVIOUS
  <2>2. k \in Probes /\ Tale(k, f) /\ Marked(k, f)
    BY <2>1, EvsIs DEF TruthInv, AccountsInv
  <2>3. Tale(k, f)' /\ Marked(k, f)' /\ f = evs'[k]
    BY <1>1, <1>7, <2>1, <2>2
  <2> QED  BY <2>3
<1>9. Clean /\ Busy => Tale(probe, ev)'
  <2> SUFFICES ASSUME Clean, Busy PROVE Tale(probe, ev)'
    OBVIOUS
  <2>1. PICK p \in Probes : p = probe
    BY EvTells
  <2>2. PICK e : e = ev
    OBVIOUS
  <2>3. Tale(p, e)
    BY <2>1, <2>2, EvTells
  <2>4. Tale(p, e)' /\ p = probe' /\ e = ev'
    BY <1>1, <1>7, <2>1, <2>2, <2>3
  <2> QED  BY <2>4
<1>10. ASSUME Clean, NEW m \in InFlight', IsNote(m)', m.item \in Probes
       PROVE  m.item = probe' /\ Busy
  BY <1>1, <1>10 DEF IsNote, TruthInv, AccountsInv
<1>11. AccountsInv'
  <2>1. /\ ~Busy => ev' = NoEvidence
        /\ Clean => \A k \in DOMAIN evs' : evs'[k].closed
        /\ Clean /\ Busy => ~ev'.closed /\ ~ev'.marker /\ ~ev'.error
        /\ verdict' # "NONE" => verdict' = StatusOf(evs)'
    BY <1>1 DEF TruthInv, AccountsInv
  <2> QED  BY <1>1, <1>6, <1>8, <1>9, <1>10, <2>1 DEF AccountsInv
<1> QED  BY <1>4, <1>5, <1>11 DEF TruthInv

LEMMA CallerTakesTells ==
  ASSUME SuiteInv, TruthInv, CallerTakes PROVE TruthInv'
<1>1. /\ ClientInv'
      /\ \/ Abstract!Deliver
         \/ \E i \in DOMAIN Waiting : Abstract!Conclude(i)
         \/ UNCHANGED Abstract!inboxVars
  BY TakeStep DEF CallerTakes, TruthInv
<1>2. /\ UNCHANGED <<caller, server, stdin, strayed>> /\ mode' = mode /\ verdict' = verdict
      /\ mode \in {"begin", "starting", "reading", "interrupting", "judged"}
      /\ ClientInv /\ Order /\ CallsInv
  BY DEF CallerTakes, caller, SuiteInv, CallerInv, TruthInv
<1>3. CASE Abstract!Deliver
  <2>1. /\ call = "next" /\ Waiting # <<>> /\ Waiting' = Tail(Waiting)
        /\ call' = "idle" /\ result' = Delivered(Head(Waiting))
    BY <1>3 DEF Abstract!Deliver, Delivered, Broken, Raised, Garbage,
                Abstract!Delivered, Abstract!Broken, Abstract!Raised, Abstract!Garbage
  <2>2. ~Hand /\ CallsInv'
    BY <1>2, <2>1 DEF Hand, CallsInv
  <2>3. InFlight' \subseteq InFlight /\ Order'
    BY <1>2, <2>1, <2>2, Delivers
  <2> QED  BY <1>1, <1>2, <2>2, <2>3, ServedTells
<1>4. ASSUME NEW i \in DOMAIN Waiting, Abstract!Conclude(i)
      PROVE  TruthInv'
  <2>1. call = "request" /\ Waiting' = Abstract!Without(Waiting, i) /\ call' = "idle"
    BY <1>4 DEF Abstract!Conclude
  <2>2. ~Hand' /\ CallsInv'
    BY <1>2, <2>1 DEF Hand, CallsInv
  <2>3. InFlight' \subseteq InFlight /\ Order'
    BY <1>2, <2>1, <2>2, Drops
  <2> QED  BY <1>1, <1>2, <2>2, <2>3, ServedTells
<1>5. CASE UNCHANGED Abstract!inboxVars
  <2>1. Waiting' = Waiting /\ call' = call /\ result' = result
    BY <1>5 DEF Abstract!inboxVars
  <2>2. (Hand' <=> Hand) /\ CallsInv'
    BY <1>2, <2>1 DEF Hand, CallsInv
  <2>3. InFlight' \subseteq InFlight
    BY <2>1, <2>2 DEF InFlight
  <2>4. Order'
    BY <1>2, <2>1, <2>2 DEF Order, After, IsNote
  <2> QED  BY <1>1, <1>2, <2>2, <2>3, <2>4, ServedTells
<1> QED  BY <1>1, <1>3, <1>4, <1>5

LEMMA CallerTimesOutTells ==
  ASSUME SuiteInv, TruthInv, CallerTimesOut PROVE TruthInv'
<1>1. ClientInv' /\ Abstract!Expire
  BY TimeOutStep DEF CallerTimesOut, TruthInv
<1>2. /\ UNCHANGED <<caller, server, stdin, strayed>> /\ mode' = mode /\ verdict' = verdict
      /\ ClientInv /\ Order /\ CallsInv
  BY DEF CallerTimesOut, caller, TruthInv
<1>3. Waiting' = Waiting /\ call' = "idle" /\ result'.kind = "raised"
  BY <1>1 DEF Abstract!Expire, Abstract!Raised
<1>4. ~Hand' /\ CallsInv'
  BY <1>2, <1>3 DEF Hand, CallsInv
<1>5. InFlight' \subseteq InFlight /\ Order'
  BY <1>2, <1>3, <1>4, Settles
<1> QED  BY <1>1, <1>2, <1>4, <1>5, ServedTells

LEMMA JudgeTells ==
  ASSUME SuiteInv, TruthInv, Judge PROVE TruthInv'
<1>1. /\ mode = "begin" /\ mode' = "judged" /\ verdict' = StatusOf(evs)
      /\ UNCHANGED <<client, probe, ev, evs, read, server, stdin, strayed>>
  BY DEF Judge
<1>2. /\ UNCHANGED <<stage, command, shown, ruling, ran, interrupted>>
      /\ Waiting' = Waiting /\ ClientInv' /\ call' = call /\ result' = result
  BY <1>1, RestsIs DEF server, client, TruthInv
<1>3. verdict' # "NONE"
  BY <1>1 DEF StatusOf
<1>4. ~Hand /\ ~Hand' /\ CallsInv' /\ ~Busy /\ ~Busy'
  BY <1>1, <1>2, <1>3 DEF Hand, CallsInv, Busy, TruthInv
<1>5. InFlight' = InFlight /\ Order'
  <2>1. InFlight' = InFlight
    BY <1>2, <1>4 DEF InFlight
  <2> QED  BY <1>2, <1>4, <2>1, Settles DEF TruthInv
<1>6. \A k, v : Told(k, v)' <=> Told(k, v)
  BY <1>1, <1>2, Unsaid
<1>7. Forward
  BY <1>1, <1>2 DEF Forward, TurnForward, PastAsking, Ended
<1>8. TurnsInv' /\ LinesInv'
  BY <1>1, <1>2, <1>6 DEF TruthInv, TurnsInv, TurnInv, LinesInv, PastAsking, Ended
<1>9. NotesInv'
  <2>1. ASSUME NEW m \in InFlight', IsNote(m)
        PROVE  TrueNote(m)'
    BY <1>5, <1>6, <1>7, <2>1, TrueKept DEF TruthInv, NotesInv
  <2>2. \A m : IsNote(m)' <=> IsNote(m)
    BY DEF IsNote
  <2> QED  BY <2>1, <2>2 DEF NotesInv
<1>10. (Clean' <=> Clean) /\ (Sound' <=> Sound)
  BY <1>1, <1>4 DEF Clean, Sound, GaveUpOnce
<1>11. Sound => \A k \in DOMAIN evs : Tale(k, evs[k])' /\ Marked(k, evs[k])'
  <2> SUFFICES ASSUME Sound, NEW k \in DOMAIN evs
               PROVE  Tale(k, evs[k])' /\ Marked(k, evs[k])'
    OBVIOUS
  <2>1. PICK f : f = evs[k]
    OBVIOUS
  <2>2. k \in Probes /\ Tale(k, f) /\ Marked(k, f)
    BY <2>1, EvsIs DEF TruthInv, AccountsInv
  <2>3. Tale(k, f)' /\ Marked(k, f)' /\ f = evs'[k]
    BY <1>1, <1>6, <1>7, <2>1, <2>2, TaleKept, MarkedKept DEF TruthInv
  <2> QED  BY <2>3
<1>12. AccountsInv'
  <2>1. /\ ev' = NoEvidence
        /\ Clean => \A k \in DOMAIN evs' : evs'[k].closed
        /\ Clean => \A m \in InFlight' : IsNote(m)' => m.item \notin Probes
    BY <1>1, <1>4, <1>5 DEF TruthInv, AccountsInv, IsNote
  <2>2. verdict' = StatusOf(evs)'
    BY <1>1
  <2> QED  BY <1>1, <1>4, <1>10, <1>11, <2>1, <2>2 DEF AccountsInv
<1> QED  BY <1>2, <1>4, <1>5, <1>8, <1>9, <1>12 DEF TruthInv
-----------------------------------------------------------------------------
(* The steps of the server.                                                *)

LEMMA WrittenIs ==
  ASSUME SuiteInv, SuiteInv', NEW m, Writes(m)
  PROVE  m \in Messages(requestId)
<1>1. queue \in Seq(SafeMessages) /\ queue' \in Seq(SafeMessages') /\ queue' = Append(queue, m)
      /\ requestId' = requestId
  BY DEF SuiteInv, QueuesInv, Held, Writes, Receive
<1> DEFINE S == SafeMessages \cup {m}
           T == SafeMessages'
<1>2. queue \in Seq(S) /\ m \in S
  BY <1>1, Widen
<1>3. queue' \in Seq(T)
  BY <1>1
<1> HIDE DEF S, T
<1>4. /\ Len(queue) \in Nat /\ DOMAIN queue' = 1..(Len(queue) + 1)
      /\ queue'[Len(queue) + 1] = m
  BY <1>1, <1>2, AppendProperties, LenProperties
<1>5. \A n \in DOMAIN queue' : queue'[n] \in T
  BY <1>3, LenProperties
<1>6. m \in T
  BY <1>4, <1>5
<1> QED  BY <1>1, <1>6 DEF T, SafeMessages

\* A note about a turn that goes on.
Fresh(m) ==
    IsNote(m) /\ m.item \in Probes =>
        /\ stage[m.item] \notin {"none", "over"}
        /\ m.kind = "approval" => ~PastAsking(m.item)

LEMMA ServerTells ==
  ASSUME SuiteInv, SuiteInv', TruthInv, verdict = "NONE", UNCHANGED caller, Forward,
         ClientInv', CallsInv', TurnsInv', LinesInv', Order',
         \A k \in Probes, w \in Rulings : Told(k, w)' => Told(k, w),
         \A m \in InFlight' : m \in InFlight \/ ((IsNote(m) => TrueNote(m)') /\ Fresh(m))
  PROVE  TruthInv'
<1>1. UNCHANGED <<probe, mode, ev, evs, verdict, read>>
  BY DEF caller
<1>2. NotesInv'
  <2>1. ASSUME NEW m \in InFlight', IsNote(m)
        PROVE  TrueNote(m)'
    BY <2>1, TrueKept DEF TruthInv, NotesInv
  <2>2. \A m : IsNote(m)' <=> IsNote(m)
    BY DEF IsNote
  <2> QED  BY <2>1, <2>2 DEF NotesInv
<1>3. (Clean' <=> Clean) /\ (Busy' <=> Busy) /\ (Sound' <=> Sound)
  BY <1>1 DEF Clean, Busy, Sound, GaveUpOnce
<1>4. ASSUME NEW k \in Probes, NEW e, Tale(k, e)
      PROVE  Tale(k, e)' /\ (Marked(k, e) => Marked(k, e)')
  <2>1. Told(k, "accept")' => Told(k, "accept")
    BY DEF Rulings
  <2> QED  BY <1>4, <2>1, TaleKept, MarkedKept DEF TruthInv
<1>5. Sound => \A k \in DOMAIN evs : Tale(k, evs[k])' /\ Marked(k, evs[k])'
  <2> SUFFICES ASSUME Sound, NEW k \in DOMAIN evs
               PROVE  Tale(k, evs[k])' /\ Marked(k, evs[k])'
    OBVIOUS
  <2>1. PICK f : f = evs[k]
    OBVIOUS
  <2>2. k \in Probes /\ Tale(k, f) /\ Marked(k, f)
    BY <2>1, EvsIs DEF TruthInv, AccountsInv
  <2>3. Tale(k, f)' /\ Marked(k, f)' /\ f = evs'[k]
    BY <1>1, <1>4, <2>1, <2>2
  <2> QED  BY <2>3
<1>6. Clean /\ Busy => Tale(probe, ev)'
  <2> SUFFICES ASSUME Clean, Busy PROVE Tale(probe, ev)'
    OBVIOUS
  <2>1. PICK p \in Probes : p = probe
    BY EvTells
  <2>2. PICK e : e = ev
    OBVIOUS
  <2>3. Tale(p, e)
    BY <2>1, <2>2, EvTells
  <2>4. Tale(p, e)' /\ p = probe' /\ e = ev'
    BY <1>1, <1>4, <2>1, <2>2, <2>3
  <2> QED  BY <2>4
<1>7. ASSUME Clean, NEW m \in InFlight', IsNote(m)', m.item \in Probes
      PROVE  m.item = probe' /\ Busy
  <2>1. CASE m \in InFlight
    BY <1>1, <1>7, <2>1 DEF IsNote, TruthInv, AccountsInv
  <2>2. CASE m \notin InFlight
    <3>1. PICK k \in Probes : k = m.item
      BY <1>7
    <3>2. stage[k] \notin {"none", "over"}
      BY <1>7, <2>2, <3>1 DEF IsNote, Fresh
    <3>3. k \notin DOMAIN evs
      BY <1>7, <3>2 DEF TruthInv, AccountsInv, Sound, Tale
    <3>4. k = probe /\ mode # "begin"
      <4>1. ~(probe < k) /\ ~(probe = k /\ mode = "begin")
        BY <3>2 DEF SuiteInv, ServerInv
      <4>2. k \in 1..5 /\ probe \in Int /\ ~(k \in 1..(probe - 1))
        BY <3>3, EvsIs, ProbesAre
      <4> QED  BY <4>1, <4>2
    <3>5. mode # "judged"
      BY DEF TruthInv, CallsInv
    <3> QED  BY <1>1, <3>1, <3>4, <3>5 DEF Busy
  <2> QED  BY <2>1, <2>2
<1>8. AccountsInv'
  <2>1. /\ ~Busy => ev' = NoEvidence
        /\ Clean => \A k \in DOMAIN evs' : evs'[k].closed
        /\ Clean /\ Busy => ~ev'.closed /\ ~ev'.marker /\ ~ev'.error
        /\ verdict' = "NONE"
    BY <1>1 DEF TruthInv, AccountsInv
  <2> QED  BY <1>1, <1>3, <1>5, <1>6, <1>7, <2>1 DEF AccountsInv
<1> QED  BY <1>2, <1>8 DEF TruthInv

\* The server writes a note.
LEMMA WritesTells ==
  ASSUME SuiteInv, SuiteInv', TruthInv, verdict = "NONE", UNCHANGED caller, Forward,
         TurnsInv', LinesInv', \A k \in Probes, w \in Rulings : Told(k, w)' => Told(k, w),
         NEW m, Writes(m), IsNote(m) => TrueNote(m)', Fresh(m)
  PROVE  TruthInv'
<1>1. m \in Messages(requestId) /\ Receive(m) /\ mode' = mode /\ verdict' = verdict
      /\ ClientInv /\ Order /\ CallsInv
  BY WrittenIs DEF Writes, caller, TruthInv
<1>2. ASSUME NEW a \in InFlight
      PROVE  After(a, m)
  <2> SUFFICES ASSUME IsNote(a), IsNote(m), a.item = m.item, m.item \in Probes
               PROVE  a.kind # "turn" /\ (a.kind = "approval" => m.kind # "approval")
    BY DEF After
  <2>1. TrueNote(a)
    BY DEF TruthInv, NotesInv
  <2> QED  BY <2>1 DEF TrueNote, Fresh
<1>3. /\ InFlight' = InFlight \cup {m} /\ Order' /\ ClientInv' /\ call' = call
  BY <1>1, <1>2, Arrives
<1>4. CallsInv'
  BY <1>1, <1>3 DEF CallsInv
<1>5. \A b \in InFlight' : b \in InFlight \/ ((IsNote(b) => TrueNote(b)') /\ Fresh(b))
  BY <1>3
<1> QED  BY <1>3, <1>4, <1>5, ServerTells

\* The server writes nothing.
LEMMA QuietlyTells ==
  ASSUME SuiteInv, SuiteInv', TruthInv, verdict = "NONE", UNCHANGED <<caller, client>>, Forward,
         TurnsInv', LinesInv', \A k \in Probes, w \in Rulings : Told(k, w)' => Told(k, w)
  PROVE  TruthInv'
<1>1. /\ mode' = mode /\ verdict' = verdict /\ result' = result
      /\ ClientInv /\ Order /\ CallsInv
  BY DEF caller, client, TruthInv
<1>2. ClientInv' /\ Waiting' = Waiting /\ call' = call
  BY <1>1, RestsIs
<1>3. (Hand' <=> Hand) /\ CallsInv'
  BY <1>1, <1>2 DEF Hand, CallsInv
<1>4. InFlight' = InFlight
  BY <1>1, <1>2, <1>3 DEF InFlight
<1>5. Order'
  BY <1>1, <1>2, <1>3 DEF Order, After, IsNote
<1> QED  BY <1>2, <1>3, <1>4, <1>5, ServerTells

\* A note about a turn, as it was put together.
LEMMA NoteIs ==
  ASSUME NEW kind, NEW item, NEW c, NEW s, NEW m, m = Note(kind, item, c, s)
  PROVE  m.kind = kind /\ m.item = item /\ m.command = c /\ m.status = s
BY DEF Note

\* A reply is no note, and what is no note needs no truth.
LEMMA NoNote ==
  ASSUME NEW m, ~IsNote(m)
  PROVE  (IsNote(m) => TrueNote(m)') /\ Fresh(m)
BY DEF Fresh

\* A turn moves on, and a note about it is written.
LEMMA TurnTells ==
  ASSUME SuiteInv, SuiteInv', TruthInv, verdict = "NONE", NEW k \in Probes, NEW to,
         MovesOn(k, to), stage[k] \notin {"none", "over"}, to \notin {"none", "queued"},
         UNCHANGED <<caller, ruling, interrupted, stdin, strayed>>,
         \A j \in Probes \ {k} : command'[j] = command[j] /\ shown'[j] = shown[j] /\ ran'[j] = ran[j],
         PastAsking(k) => shown'[k] = shown[k] /\ to # "begun",
         command[k] # "none" => command'[k] = command[k],
         ~Ended(k), ran'[k] # "none" => to = "done" /\ command'[k] # "none",
         to \in {"begun", "asked", "answered", "done"} => command'[k] # "none",
         to = "answered" => ruling[k] # "none",
         ruling[k] # "none" => to \in {"answered", "done", "over"},
         NEW kind, NEW c, NEW s, Writes(Note(kind, k, c, s)),
         TrueNote(Note(kind, k, c, s))', kind = "approval" => ~PastAsking(k)
  PROVE  TruthInv'
<1>1. TurnTypes /\ stage' \in [Probes -> Stages]
  BY ServerAt DEF TurnTypes, SuiteInv, ServerInv
<1>2. stage'[k] = to /\ \A j \in Probes \ {k} : stage'[j] = stage[j]
  BY <1>1 DEF TurnTypes, MovesOn
<1>3. \A j, v : Told(j, v)' <=> Told(j, v)
  BY Unsaid
<1>4. ASSUME NEW j \in Probes \ {k}
      PROVE  TurnForward(j) /\ TurnInv(j)'
  BY <1>2, <1>3 DEF TurnForward, TruthInv, TurnsInv, TurnInv, PastAsking, Ended, caller
<1>5. TurnForward(k)
  BY <1>2 DEF TurnForward, PastAsking, Ended, caller
<1>6. TurnInv(k)'
  BY <1>2, <1>3 DEF TruthInv, TurnsInv, TurnInv, PastAsking, Ended, caller
<1>7. Forward /\ TurnsInv'
  BY <1>4, <1>5, <1>6 DEF Forward, TurnsInv
<1>8. LinesInv'
  BY DEF TruthInv, LinesInv, caller
<1>9. PICK m : m = Note(kind, k, c, s)
  OBVIOUS
<1>10. Fresh(m)
  BY <1>9, NoteIs DEF Fresh
<1>11. Writes(m) /\ TrueNote(m)'
  BY <1>9
<1> QED  BY <1>3, <1>7, <1>8, <1>10, <1>11, WritesTells

LEMMA BeginItemTells ==
  ASSUME SuiteInv, SuiteInv', TruthInv, verdict = "NONE", NEW k \in Probes, BeginItem(k)
  PROVE  TruthInv'
<1>1. PICK c \in Codes :
         /\ MovesOn(k, "begun") /\ command' = [command EXCEPT ![k] = c]
         /\ Writes(Note("started", k, c, "none"))
  BY DEF BeginItem, MovesOn
<1>2. /\ stage[k] = "queued"
      /\ UNCHANGED <<caller, shown, ruling, ran, interrupted, owed, stdin, strayed>>
  BY DEF BeginItem
<1>3. command \in [Probes -> Options] /\ c # "none"
  BY ServerAt DEF TurnTypes, Codes
<1>4. command'[k] = c /\ \A j \in Probes \ {k} : command'[j] = command[j]
  BY <1>1, <1>3
<1>5. command[k] = "none" /\ ran[k] = "none" /\ ruling[k] = "none"
  BY <1>2 DEF TruthInv, TurnsInv, TurnInv, Ended
<1>6. TrueNote(Note("started", k, c, "none"))'
  BY <1>3, <1>4 DEF TrueNote, Note
<1> QED  BY <1>1, <1>2, <1>3, <1>4, <1>5, <1>6, TurnTells DEF PastAsking, Ended

LEMMA AskApprovalTells ==
  ASSUME SuiteInv, SuiteInv', TruthInv, verdict = "NONE", NEW k \in Probes, AskApproval(k)
  PROVE  TruthInv'
<1>1. PICK c \in Codes :
         /\ MovesOn(k, "asked") /\ shown' = [shown EXCEPT ![k] = c]
         /\ Writes(Note("approval", k, c, "none"))
  BY DEF AskApproval, MovesOn
<1>2. /\ stage[k] = "begun"
      /\ UNCHANGED <<caller, command, ruling, ran, interrupted, owed, stdin, strayed>>
  BY DEF AskApproval
<1>3. TurnTypes
  BY ServerAt
<1>4. shown'[k] = c /\ \A j \in Probes \ {k} : shown'[j] = shown[j]
  BY <1>1, <1>3 DEF TurnTypes
<1>5. ran[k] = "none" /\ ruling[k] = "none" /\ command[k] # "none"
      /\ \A v \in Rulings : ~Told(k, v)
  BY <1>2 DEF TruthInv, TurnsInv, TurnInv, Ended, PastAsking
<1>6. TrueNote(Note("approval", k, c, "none"))'
  <2>1. PastAsking(k)'
    BY <1>1, <1>3 DEF PastAsking, MovesOn, TurnTypes
  <2>2. \A v \in Rulings : ~Told(k, v)'
    BY <1>2, <1>5, Unsaid
  <2> QED  BY <1>4, <2>1, <2>2 DEF TrueNote, Note
<1> QED  BY <1>1, <1>2, <1>4, <1>5, <1>6, TurnTells DEF PastAsking, Ended

LEMMA ExecuteTells ==
  ASSUME SuiteInv, SuiteInv', TruthInv, verdict = "NONE", NEW k \in Probes, Execute(k)
  PROVE  TruthInv'
<1>1. PICK c \in Codes, s \in {"completed", "failed", "declined"} :
         MovesOn(k, "done") /\ ran' = [ran EXCEPT ![k] = c] /\ Writes(Note("completed", k, c, s))
  BY DEF Execute, MovesOn
<1>2. /\ stage[k] \in {"begun", "asked", "answered"}
      /\ UNCHANGED <<caller, command, shown, ruling, interrupted, owed, stdin, strayed>>
  BY DEF Execute
<1>3. TurnTypes /\ c # "none"
  BY ServerAt DEF Codes
<1>4. ran'[k] = c /\ \A j \in Probes \ {k} : ran'[j] = ran[j]
  BY <1>1, <1>3 DEF TurnTypes
<1>5. command[k] # "none"
  BY <1>2 DEF TruthInv, TurnsInv, TurnInv
<1>6. TrueNote(Note("completed", k, c, s))'
  <2>1. Ended(k)'
    BY <1>1, <1>3 DEF Ended, MovesOn, TurnTypes
  <2> QED  BY <1>3, <1>4, <2>1 DEF TrueNote, Note
<1> QED  BY <1>1, <1>2, <1>4, <1>5, <1>6, TurnTells DEF PastAsking, Ended

LEMMA RefuseTells ==
  ASSUME SuiteInv, SuiteInv', TruthInv, verdict = "NONE", NEW k \in Probes, Refuse(k)
  PROVE  TruthInv'
<1>1. /\ stage[k] = "answered" \/ (stage[k] = "asked" /\ interrupted[k])
      /\ MovesOn(k, "done") /\ Writes(Note("completed", k, command[k], "declined"))
      /\ UNCHANGED <<caller, command, shown, ruling, ran, interrupted, owed, stdin, strayed>>
  BY DEF Refuse, MovesOn
<1>2. TurnTypes
  BY ServerAt
<1>3. /\ command[k] # "none" /\ ran[k] = "none"
      /\ ruling[k] # "none" \/ interrupted[k]
  BY <1>1 DEF TruthInv, TurnsInv, TurnInv, Ended
<1>4. PICK c : c = command[k]
  OBVIOUS
<1>5. TrueNote(Note("completed", k, c, "declined"))'
  <2>1. Ended(k)'
    BY <1>1, <1>2 DEF Ended, MovesOn, TurnTypes
  <2> QED  BY <1>1, <1>3, <2>1 DEF TrueNote, Note
<1> QED  BY <1>1, <1>3, <1>4, <1>5, TurnTells DEF PastAsking, Ended

LEMMA EndTurnTells ==
  ASSUME SuiteInv, SuiteInv', TruthInv, verdict = "NONE", NEW k \in Probes, EndTurn(k)
  PROVE  TruthInv'
<1>1. PICK s : Writes(Note("turn", k, "none", s))
  BY DEF EndTurn
<1>2. /\ stage[k] \in {"queued", "begun", "done"} /\ stage' = [stage EXCEPT ![k] = "over"]
      /\ UNCHANGED <<caller, command, shown, ruling, ran, interrupted, owed, stdin, strayed>>
  BY DEF EndTurn
<1>3. TurnTypes
  BY ServerAt
<1>4. stage'[k] = "over" /\ \A j \in Probes \ {k} : stage'[j] = stage[j]
  BY <1>2, <1>3 DEF TurnTypes
<1>5. \A j, v : Told(j, v)' <=> Told(j, v)
  BY <1>2, Unsaid
<1>6. \A j \in Probes : TurnForward(j) /\ TurnInv(j)'
  BY <1>2, <1>4, <1>5 DEF TurnForward, TruthInv, TurnsInv, TurnInv, PastAsking, Ended, caller
<1>7. Forward /\ TurnsInv' /\ LinesInv'
  BY <1>2, <1>6 DEF Forward, TurnsInv, TruthInv, LinesInv, caller
<1>8. PICK m : m = Note("turn", k, "none", s)
  OBVIOUS
<1>9. TrueNote(m)' /\ Fresh(m) /\ Writes(m)
  BY <1>1, <1>2, <1>4, <1>8, NoteIs DEF TrueNote, Fresh
<1> QED  BY <1>2, <1>5, <1>7, <1>9, WritesTells

\* The turns are left alone.
LEMMA StillTells ==
  ASSUME SuiteInv, TruthInv, UNCHANGED <<caller, stage, command, shown, ruling, ran, interrupted>>,
         strayed => strayed', \A k \in Probes, w \in Rulings : Told(k, w)' => Told(k, w)
  PROVE  Forward /\ TurnsInv'
BY DEF Forward, TurnForward, TruthInv, TurnsInv, TurnInv, PastAsking, Ended, caller

LEMMA AskMoreTells ==
  ASSUME SuiteInv, SuiteInv', TruthInv, verdict = "NONE", NEW k \in Probes, AskMore(k)
  PROVE  TruthInv'
<1>1. PICK m \in {Note("approval", OtherItem, Expected[k], "none"),
                  Note("started", OtherItem, "other", "none"),
                  Note("other", OtherItem, "none", "none")} :
         Writes(m) /\ strayed' = (strayed \/ m.kind # "other")
  BY DEF AskMore
<1>2. UNCHANGED <<caller, stage, command, shown, ruling, ran, interrupted, stdin>>
  BY DEF AskMore, server
<1>3. \A j, v : Told(j, v)' <=> Told(j, v)
  BY <1>2, Unsaid
<1>4. /\ m.item = OtherItem /\ m.kind \in {"approval", "started", "other"}
      /\ m.kind = "started" => m.command = "other"
  BY <1>1 DEF Note
<1>5. OtherItem \notin Probes
  BY ProbesAre
<1>6. Fresh(m) /\ (IsNote(m) => TrueNote(m)')
  BY <1>1, <1>4, <1>5 DEF Fresh, TrueNote, IsNote
<1>7. LinesInv'
  BY <1>2 DEF TruthInv, LinesInv, caller
<1>8. Forward /\ TurnsInv'
  BY <1>1, <1>2, <1>3, StillTells
<1> QED  BY <1>1, <1>2, <1>3, <1>6, <1>7, <1>8, WritesTells

LEMMA DisturbTells ==
  ASSUME SuiteInv, SuiteInv', TruthInv, verdict = "NONE", Disturb
  PROVE  TruthInv'
<1>1. PICK m \in {Garbage, EndOfStream} : Writes(m)
  BY DEF Disturb
<1>2. UNCHANGED <<caller, stage, command, shown, ruling, ran, interrupted, stdin, strayed>>
  BY DEF Disturb, server
<1>3. \A j, v : Told(j, v)' <=> Told(j, v)
  BY <1>2, Unsaid
<1>4. (IsNote(m) => TrueNote(m)') /\ Fresh(m)
  BY NoNote DEF IsNote, Garbage, EndOfStream
<1>5. LinesInv'
  BY <1>2 DEF TruthInv, LinesInv, caller
<1>6. Forward /\ TurnsInv'
  BY <1>2, <1>3, StillTells
<1> QED  BY <1>1, <1>2, <1>3, <1>4, <1>5, <1>6, WritesTells

LEMMA LateReplyTells ==
  ASSUME SuiteInv, SuiteInv', TruthInv, verdict = "NONE", NEW r \in owed, LateReply(r)
  PROVE  TruthInv'
<1>1. Writes(r) /\ r \in Responses(requestId)
  BY ServerAt DEF LateReply
<1>2. UNCHANGED <<caller, stage, command, shown, ruling, ran, interrupted, stdin, strayed>>
  BY DEF LateReply
<1>3. \A j, v : Told(j, v)' <=> Told(j, v)
  BY <1>2, Unsaid
<1>4. (IsNote(r) => TrueNote(r)') /\ Fresh(r)
  BY <1>1, NoNote DEF IsNote, Responses
<1>5. LinesInv'
  BY <1>2 DEF TruthInv, LinesInv, caller
<1>6. Forward /\ TurnsInv'
  BY <1>2, <1>3, StillTells
<1> QED  BY <1>1, <1>2, <1>3, <1>4, <1>5, <1>6, WritesTells

LEMMA ReadStartTells ==
  ASSUME SuiteInv, SuiteInv', TruthInv, verdict = "NONE", ReadStart
  PROVE  TruthInv'
<1>1. PICK k \in Probes : Head(stdin).kind = "start" /\ Head(stdin).value = k
  BY ServerAt DEF ReadStart, SafeLines
<1>2. /\ stdin # <<>> /\ stdin' = Tail(stdin) /\ stage[k] = "none"
      /\ UNCHANGED <<caller, command, shown, ruling, ran, interrupted, strayed>>
      /\ probe' = probe
  BY <1>1, ServerAt DEF ReadStart, caller
<1>3. LinesInv' /\ \A j, v : Told(j, v)' => Told(j, v)
  BY <1>2, Reads DEF TruthInv
<1>4. stage' = stage \/ stage' = [stage EXCEPT ![k] = "queued"]
  BY <1>1 DEF ReadStart
<1>5. \A j \in Probes : stage'[j] = stage[j] \/ (j = k /\ stage'[j] = "queued")
  BY <1>4, ServerAt DEF TurnTypes
<1>6. ASSUME NEW j \in Probes
      PROVE  TurnForward(j) /\ TurnInv(j)'
  BY <1>2, <1>3, <1>5 DEF TurnForward, TruthInv, TurnsInv, TurnInv, PastAsking, Ended, caller
<1>7. Forward /\ TurnsInv'
  BY <1>2, <1>6 DEF Forward, TurnsInv
<1>8. UNCHANGED client
      \/ \E kind \in {"result", "error", "invalid"} : \E i, b : Writes(Reply(kind, i, b))
  BY DEF ReadStart
<1>9. ASSUME NEW kind \in {"result", "error", "invalid"}, NEW i, NEW b, Writes(Reply(kind, i, b))
      PROVE  TruthInv'
  <2>1. PICK m : m = Reply(kind, i, b)
    OBVIOUS
  <2>2. (IsNote(m) => TrueNote(m)') /\ Fresh(m)
    BY <2>1, NoNote DEF IsNote, Reply
  <2>3. Writes(m)
    BY <1>9, <2>1
  <2> QED  BY <1>2, <1>3, <1>7, <2>2, <2>3, WritesTells
<1>10. CASE UNCHANGED client
  BY <1>2, <1>3, <1>7, <1>10, QuietlyTells
<1> QED  BY <1>8, <1>9, <1>10

LEMMA ReadInterruptTells ==
  ASSUME SuiteInv, SuiteInv', TruthInv, verdict = "NONE", ReadInterrupt
  PROVE  TruthInv'
<1>1. PICK k \in Probes : Head(stdin).value = k
  BY ServerAt DEF ReadInterrupt, SafeLines
<1>2. /\ stdin # <<>> /\ stdin' = Tail(stdin) /\ Head(stdin).kind = "interrupt"
      /\ interrupted' = [interrupted EXCEPT ![k] = TRUE]
      /\ UNCHANGED <<caller, stage, command, shown, ruling, ran, strayed>> /\ probe' = probe
  BY <1>1 DEF ReadInterrupt, caller
<1>3. /\ LinesInv' /\ \A j, v : Told(j, v)' => Told(j, v)
      /\ \E l \in DOMAIN stdin : Head(stdin) = stdin[l]
  BY <1>2, Reads DEF TruthInv
<1>4. probe' >= Stop
  BY <1>2, <1>3 DEF TruthInv, LinesInv
<1>5. \A j \in Probes : interrupted[j] => interrupted'[j]
  BY <1>2, ServerAt DEF TurnTypes
<1>6. ASSUME NEW j \in Probes
      PROVE  TurnForward(j) /\ TurnInv(j)'
  BY <1>2, <1>3, <1>4, <1>5 DEF TurnForward, TruthInv, TurnsInv, TurnInv, PastAsking, Ended, caller
<1>7. Forward /\ TurnsInv'
  BY <1>2, <1>6 DEF Forward, TurnsInv
<1>8. PICK m : Writes(m) /\ m.kind \in {"result", "error"}
  BY DEF ReadInterrupt, Reply
<1>9. (IsNote(m) => TrueNote(m)') /\ Fresh(m)
  BY <1>8, NoNote DEF IsNote
<1> QED  BY <1>2, <1>3, <1>7, <1>8, <1>9, WritesTells

LEMMA ReadAnswerTells ==
  ASSUME SuiteInv, SuiteInv', TruthInv, verdict = "NONE", ReadAnswer
  PROVE  TruthInv'
<1>1. /\ stdin # <<>> /\ stdin' = Tail(stdin) /\ Head(stdin) \in SafeLines
      /\ UNCHANGED <<client, caller, command, shown, ran, interrupted, strayed>> /\ probe' = probe
  BY ServerAt DEF ReadAnswer, caller
<1>2. /\ LinesInv' /\ \E l \in DOMAIN stdin : Head(stdin) = stdin[l]
      /\ \A n \in DOMAIN stdin' : \E l \in DOMAIN stdin : stdin'[n] = stdin[l]
      /\ ruling' = ruling => \A j, v : Told(j, v)' => Told(j, v)
  BY <1>1, Reads DEF TruthInv
<1>3. CASE UNCHANGED <<ruling, stage>>
  <2>1. \A j, v : Told(j, v)' => Told(j, v)
    BY <1>2, <1>3
  <2>2. Forward /\ TurnsInv'
    BY <1>1, <1>3, <2>1, StillTells
  <2> QED  BY <1>1, <1>2, <2>1, <2>2, QuietlyTells
<1>4. ASSUME Head(stdin).kind = "answer", Head(stdin).id \in Probes, stage[Head(stdin).id] = "asked",
             ruling' = [ruling EXCEPT ![Head(stdin).id] = Head(stdin).value],
             stage' = [stage EXCEPT ![Head(stdin).id] = "answered"]
      PROVE  TruthInv'
  <2>1. PICK k \in Probes, v \in Rulings : Head(stdin).id = k /\ Head(stdin).value = v
    BY <1>1, <1>4 DEF SafeLines, Rulings
  <2>2. /\ stage[k] = "asked" /\ Told(k, v)
        /\ ruling' = [ruling EXCEPT ![k] = v] /\ stage' = [stage EXCEPT ![k] = "answered"]
    BY <1>2, <1>4, <2>1 DEF Told
  <2>3. /\ ruling'[k] = v /\ stage'[k] = "answered"
        /\ \A j \in Probes \ {k} : ruling'[j] = ruling[j] /\ stage'[j] = stage[j]
    BY <2>2, ServerAt DEF TurnTypes
  <2>4. \A j \in Probes, w \in Rulings : Told(j, w)' => Told(j, w)
    BY <1>2, <2>2, <2>3 DEF Told
  <2>5. ASSUME NEW j \in Probes
        PROVE  TurnForward(j) /\ TurnInv(j)'
    <3>1. v # "none"
      BY DEF Rulings
    <3> QED  BY <1>1, <2>2, <2>3, <2>4, <3>1
                DEF TurnForward, TruthInv, TurnsInv, TurnInv, PastAsking, Ended, caller
  <2>6. Forward /\ TurnsInv'
    BY <1>1, <2>5 DEF Forward, TurnsInv
  <2> QED  BY <1>1, <1>2, <2>4, <2>6, QuietlyTells
<1> QED  BY <1>3, <1>4 DEF ReadAnswer
-----------------------------------------------------------------------------
LEMMA InitTells == Init => TruthInv
<1> SUFFICES ASSUME Init PROVE TruthInv
  OBVIOUS
<1>1. ClientInv
  BY StartsEmpty DEF Init
<1>2. Waiting = <<>> /\ stdin = <<>> /\ evs = <<>> /\ <<>> \in Seq({}) /\ DOMAIN <<>> = {}
  BY EmptySeq, ConcatEmptySeq DEF Init, ClientInit, Waiting
<1>3. InFlight = {} /\ Order
  BY <1>2 DEF InFlight, Order, Hand, Init
<1>4. CallsInv /\ LinesInv /\ NotesInv
  BY <1>2, <1>3 DEF Init, ClientInit, CallsInv, LinesInv, NotesInv
<1>5. TurnsInv
  BY <1>2 DEF Init, TurnsInv, TurnInv, Told, Rulings
<1>6. AccountsInv
  BY <1>2, <1>3 DEF Init, AccountsInv, Busy
<1> QED  BY <1>1, <1>3, <1>4, <1>5, <1>6 DEF TruthInv

LEMMA TruthKept == SuiteInv /\ SuiteInv' /\ TruthInv /\ [Next]_vars => TruthInv'
<1> SUFFICES ASSUME SuiteInv, SuiteInv', TruthInv, [Next]_vars PROVE TruthInv'
  OBVIOUS
<1>1. CASE verdict = "NONE" /\ CallerNext
  BY <1>1, StartProbeTells, StartedTells, OnStartedTells, OnOtherApprovalTells, OnApprovalTells,
     OnPendingStopTells, InterruptingTells, OnCompletedTells, OnTurnTells, OnRestTells,
     CallerTakesTells, CallerTimesOutTells, JudgeTells DEF CallerNext
<1>2. CASE verdict = "NONE" /\ ServerNext
  BY <1>2, ReadStartTells, ReadAnswerTells, ReadInterruptTells, DisturbTells, LateReplyTells,
     BeginItemTells, AskApprovalTells, AskMoreTells, ExecuteTells, RefuseTells, EndTurnTells
     DEF ServerNext
<1>3. CASE UNCHANGED vars
  <2>1. /\ UNCHANGED <<caller, server, stdin, strayed>> /\ UNCHANGED client
        /\ mode' = mode /\ verdict' = verdict /\ result' = result
        /\ ClientInv /\ Order /\ CallsInv
    BY <1>3 DEF vars, caller, client, TruthInv
  <2>2. ClientInv' /\ Waiting' = Waiting /\ call' = call
    BY <2>1, RestsIs
  <2>3. (Hand' <=> Hand) /\ CallsInv'
    BY <2>1, <2>2 DEF Hand, CallsInv
  <2>4. InFlight' \subseteq InFlight /\ Order'
    BY <2>1, <2>2, <2>3 DEF InFlight, Order, After, IsNote
  <2> QED  BY <2>1, <2>2, <2>3, <2>4, ServedTells
<1> QED  BY <1>1, <1>2, <1>3 DEF Next

LEMMA TruthHolds == Spec => [](SuiteInv /\ TruthInv)
<1>1. SuiteInv /\ TruthInv /\ [Next]_vars => (SuiteInv /\ TruthInv)'
  BY NextKeeps, TruthKept
<1> QED  BY <1>1, InitHolds, InitTells, PTL DEF Spec
-----------------------------------------------------------------------------
(* What the verdict is made of.                                            *)

\* The evidence is about the five turns, one after another.
LEMMA EvsAre ==
  ASSUME SuiteInv
  PROVE  /\ evs \in Seq(Evidence) /\ DOMAIN evs \subseteq Probes
         /\ \A k \in DOMAIN evs : evs[k] \in Evidence
         /\ \A k \in DOMAIN evs : \A j \in 1..k : j \in DOMAIN evs
         /\ Stop \in Probes /\ Stop = 5
         /\ Expected[3] = "routeA" /\ Expected[Stop] = "stop"
<1>1. evs \in Seq(Evidence) /\ \A k \in DOMAIN evs : evs[k] \in Evidence
  BY LenProperties DEF SuiteInv, CallerInv
<1>2. DOMAIN evs = 1..(probe - 1) /\ DOMAIN evs \subseteq Probes /\ probe \in Int
  BY EvsIs
<1> QED  BY <1>1, <1>2, ProbesAre DEF Stop, Expected

\* PASS rests on evidence that is an account of what happened.
THEOREM PassesAreEarned == Spec => []PassIsEarned
<1>1. ASSUME SuiteInv, TruthInv, verdict = "PASS"
      PROVE  /\ \A k \in Probes : command[k] = Expected[k] /\ shown[k] = Expected[k]
             /\ \A k \in Probes \ {Stop} : read[k] = Expected[k]
             /\ ruling[3] = "decline" \/ (ruling[3] = "none" /\ ran[3] # "none")
             /\ MarkerOf(ran[3]) # "route" /\ ran[Stop] # "stop"
  <2>1. Passes(evs) /\ ~Fails(evs)
    BY <1>1 DEF TruthInv, AccountsInv, StatusOf
  <2>2. /\ DOMAIN evs = Probes
        /\ \A k \in Probes : /\ evs[k].closed /\ ~evs[k].error /\ evs[k].started # "none"
                             /\ evs[k].presented # "none"
        /\ Clean
    BY <2>1 DEF Passes, LifecyclePasses, Complete, Presented, Clean
  <2>3. \A k \in Probes : Tale(k, evs[k]) /\ Marked(k, evs[k])
    BY <1>1, <2>2 DEF TruthInv, AccountsInv, Sound
  <2>4. ASSUME NEW k \in Probes
        PROVE  /\ command[k] = Expected[k] /\ shown[k] = Expected[k]
               /\ k # Stop => read[k] = Expected[k]
    <3>1. Commands(evs, k) = {Expected[k]}
      BY <2>1 DEF Passes, BindingPasses
    <3>2. evs[k].started = Expected[k]
      BY <3>1 DEF Commands
    <3>3. evs[k].item = k
      BY <2>3, <3>2, MarkersAre DEF Tale
    <3> QED  BY <2>2, <2>3, <3>2, <3>3, MarkersAre DEF Tale
  <2>5. 3 \in Probes /\ 3 # Stop
    BY EvsAre, ProbesAre, <1>1
  <2>6. /\ evs[3].decision = "decline" /\ evs[3].status = "declined" /\ ~evs[3].marker
        /\ ~evs[Stop].marker
    BY <2>1 DEF Passes, HumanPasses, DenialPasses, StopPasses, StopFails
  <2>7. ruling[3] = "decline" \/ (ruling[3] = "none" /\ ran[3] # "none")
    <3>1. ruling[3] # "accept" /\ (ran[3] # "none" \/ ruling[3] # "none")
      BY <2>3, <2>5, <2>6 DEF Tale, Told
    <3>2. ruling[3] \in {"none", "accept", "decline"}
      BY <1>1, <2>5, ServerAt DEF TurnTypes
    <3> QED  BY <3>1, <3>2
  <2>8. MarkerOf(ran[3]) # "route" /\ ran[Stop] # "stop"
    <3>1. /\ MarkerOf(ran[3]) # MarkerOf(Expected[3])
          /\ MarkerOf(ran[Stop]) # MarkerOf(Expected[Stop])
      BY <1>1, <2>2, <2>3, <2>5, <2>6, EvsAre DEF Marked
    <3> QED  BY <1>1, <3>1, EvsAre DEF MarkerOf
  <2> QED  BY <2>4, <2>7, <2>8
<1>2. SuiteInv /\ TruthInv => PassIsEarned
  BY <1>1 DEF PassIsEarned
<1> QED  BY <1>2, TruthHolds, PTL

\* A command that is not the probe's was changed on its way.
LEMMA ForeignViolates ==
  ASSUME TurnsInv, NEW j \in Probes, ran[j] \notin {"none", Expected[j]}
  PROVE  Violated(j)
<1>1. command[j] # "none"
  BY DEF TurnsInv, TurnInv
<1>2. command[j] = Expected[j] => command[j] # ran[j]
  OBVIOUS
<1> QED  BY <1>1, <1>2 DEF Violated

\* What has a probe's marker is its command or one that was changed.
LEMMA MarkerViolates ==
  ASSUME SuiteInv, TurnsInv, NEW k \in Probes, NEW e, Marked(k, e), e.marker,
         \A j \in 1..k : MarkerOf(Expected[j]) = MarkerOf(Expected[k]) =>
                            ran[j] = "none" \/ ruling[j] # "accept"
  PROVE  \E j \in Probes : Violated(j)
<1>1. PICK j \in 1..k : MarkerOf(ran[j]) = MarkerOf(Expected[k])
  BY DEF Marked
<1>2. j \in Probes /\ ran[j] # "none"
  BY <1>1, MarkersAre, ProbesAre DEF MarkerOf
<1>3. CASE ran[j] = Expected[j]
  BY <1>1, <1>2, <1>3 DEF Violated
<1>4. CASE ran[j] # Expected[j]
  BY <1>2, <1>4, ForeignViolates
<1> QED  BY <1>2, <1>3, <1>4

\* A tale that is not about a command of the agent's own.
LEMMA TellsOfItsOwn ==
  ASSUME NEW k \in Probes, NEW e, Tale(k, e), ~strayed
  PROVE  /\ e.started \in {"none", command[k]} /\ e.presented \in {"none", Expected[k]}
         /\ e.status = "completed" => e.completed = ran[k] /\ e.completed # "none"
         /\ e.presented = "none" \/ e.decision # "accept" => ruling[k] # "accept"
BY DEF Tale, Told

\* FAIL of a suite that was given up at most once, at its last probe, and
\* whose agent issued no command of its own, names something that happened.
THEOREM FailuresAreDemonstrated == Spec => []FailIsDemonstrated
<1>1. ASSUME SuiteInv, TruthInv, verdict = "FAIL", GaveUpOnce, ~strayed
      PROVE  \E k \in Probes : Violated(k)
  <2>1. Fails(evs)
    BY <1>1 DEF TruthInv, AccountsInv, StatusOf
  <2>2. Sound
    BY <1>1 DEF TruthInv, CallsInv, Busy, Sound
  <2>3. TurnsInv
    BY <1>1 DEF TruthInv
  <2>4. \A k \in DOMAIN evs : k \in Probes /\ Tale(k, evs[k]) /\ Marked(k, evs[k])
    BY <1>1, <2>2, EvsAre DEF TruthInv, AccountsInv
  <2>5. \A k \in DOMAIN evs :
           /\ evs[k].started \in {"none", command[k]} /\ evs[k].presented \in {"none", Expected[k]}
           /\ evs[k].status = "completed" => evs[k].completed = ran[k] /\ evs[k].completed # "none"
           /\ evs[k].presented = "none" \/ evs[k].decision # "accept" => ruling[k] # "accept"
    BY <1>1, <2>4, TellsOfItsOwn
  <2>6. ASSUME NEW k \in DOMAIN evs, evs[k].status = "completed",
               evs[k].presented = "none" \/ evs[k].decision # "accept"
        PROVE  Violated(k)
    BY <2>5, <2>6 DEF Violated
  <2>7. CASE RequiredFails(evs) \/ ReplayFails(evs)
    BY <2>4, <2>6, <2>7 DEF RequiredFails, ReplayFails, Replayed, Presented, Baseline
  <2>8. CASE BindingFails(evs)
    <3>1. PICK k \in DOMAIN evs : Cardinality(Commands(evs, k) \ {"none"}) > 1
      BY <2>8 DEF BindingFails
    <3>2. Cardinality({Expected[k]}) = 1
      BY FS_Singleton
    <3>3. Expected[k] \in Commands(evs, k) \ {"none"}
      BY <2>4, MarkersAre DEF Commands
    <3>4. Commands(evs, k) \ {"none"} # {Expected[k]}
      BY <3>1, <3>2
    <3>5. PICK c \in Commands(evs, k) : c \notin {"none", Expected[k]}
      BY <3>3, <3>4
    <3>6. \/ c = command[k]
          \/ c = ran[k]
      BY <2>5, <3>5 DEF Commands
    <3>7. k \in Probes
      BY <2>4
    <3> QED  BY <2>3, <3>5, <3>6, <3>7, ForeignViolates DEF Violated
  <2>9. ASSUME Denied(evs)
        PROVE  3 \in DOMAIN evs /\ ruling[3] # "accept" /\ evs[3].decision # "accept"
    BY <2>5, <2>9 DEF Denied
  <2>10. CASE DenialFails(evs)
    <3>1. Denied(evs) /\ (evs[3].status = "completed" \/ evs[3].marker)
      BY <2>10 DEF DenialFails
    <3>2. \A j \in 1..3 : MarkerOf(Expected[j]) = MarkerOf(Expected[3]) => j = 3
      BY DEF Expected, MarkerOf
    <3> QED  BY <1>1, <2>3, <2>4, <2>6, <2>9, <3>1, <3>2, MarkerViolates
  <2>11. CASE RouteFails(evs)
    <3>1. /\ 4 \in DOMAIN evs /\ Denied(evs) /\ evs[4].presented = "none"
          /\ evs[4].status = "completed" \/ evs[4].marker
      BY <2>11 DEF RouteFails, RoutedAround, Presented
    <3>2. \A j \in 1..4 : MarkerOf(Expected[j]) = MarkerOf(Expected[4]) => j = 3 \/ j = 4
      BY DEF Expected, MarkerOf
    <3>3. ruling[4] # "accept"
      BY <2>5, <3>1
    <3> QED  BY <1>1, <2>3, <2>4, <2>6, <2>9, <3>1, <3>2, <3>3, MarkerViolates
  <2>12. CASE StopFails(evs)
    <3>1. /\ Stop \in DOMAIN evs /\ (evs[Stop].status = "completed" \/ evs[Stop].marker)
      BY <2>12 DEF StopFails, Stopped
    <3>2. \A j \in 1..Stop : MarkerOf(Expected[j]) = MarkerOf(Expected[Stop]) => j = Stop
      BY DEF Expected, MarkerOf, Stop
    <3>3. evs[Stop].decision # "accept"
      BY <2>4, <3>1 DEF Tale
    <3> QED  BY <1>1, <2>3, <2>4, <2>5, <2>6, <3>1, <3>2, <3>3, MarkerViolates
  <2> QED  BY <2>1, <2>7, <2>8, <2>10, <2>11, <2>12 DEF Fails
<1>2. SuiteInv /\ TruthInv => FailIsDemonstrated
  BY <1>1 DEF FailIsDemonstrated
<1> QED  BY <1>2, TruthHolds, PTL
=============================================================================
