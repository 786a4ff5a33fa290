----------------------------- MODULE LiveProofs ----------------------------
(***************************************************************************)
(* The collector keeps its limits, answers truthfully and implements its   *)
(* promise (Intake), and a PASS is complete, for any number of requests,   *)
(* messages, probes and limits.                                            *)
(***************************************************************************)
EXTENDS LiveProps, FiniteSetTheorems, WellFoundedInduction, TLAPS

\* Where the handler of r has nothing in payloads.
Unstored == {"none", "received", "reading", "parsed", "refused", "rejected", "bad", "stray"}

StoreInv ==
    /\ CollectorTypeOK
    /\ \A r \in Requests : handler[r] # "none" => message[r] \in Messages
    /\ \A r \in Requests : handler[r] \in Unstored => StoredFrom(r) = {}
    /\ \A r \in Requests : handler[r] \in {"stored", "ok"} => StoredOnce(r)
    /\ \A r \in Requests : handler[r] \in {"rejected", "bad"} => errors # <<>>

LEMMA InitStore == Init => StoreInv /\ CountBounded /\ BytesBounded
  BY LimitAssumption DEF Init, CollectorInit, StoreInv, CollectorTypeOK, StoredFrom,
     StoredOnce, CountBounded, BytesBounded, Stages, Unstored, Payload

\* A step that leaves message and payloads alone and moves one handler.
LEMMA QuietStep ==
    ASSUME StoreInv, NEW r \in Requests, NEW s \in Stages, Goto(r, s),
           UNCHANGED <<message, payloads>>,
           errors' \in Seq(Requests), bytes' \in Nat, errors # <<>> => errors' # <<>>,
           handler[r] # "none",
           s \in Unstored => handler[r] \in Unstored,
           s \in {"stored", "ok"} => handler[r] \in {"stored", "ok"},
           s \in {"rejected", "bad"} => errors' # <<>>
    PROVE  StoreInv'
<1>1. CollectorTypeOK'
  BY DEF StoreInv, CollectorTypeOK, Goto
<1>2. \A q \in Requests : handler'[q] = (IF q = r THEN s ELSE handler[q])
  BY DEF StoreInv, CollectorTypeOK, Goto
<1>3. \A q \in Requests : StoredFrom(q)' = StoredFrom(q) /\ StoredOnce(q)' = StoredOnce(q)
  BY DEF StoredFrom, StoredOnce
<1>4. \A q \in Requests : (handler[q] # "none" => message[q] \in Messages)'
  BY <1>2 DEF StoreInv
<1>5. \A q \in Requests : (handler[q] \in Unstored => StoredFrom(q) = {})'
  BY <1>2, <1>3 DEF StoreInv
<1>6. \A q \in Requests : (handler[q] \in {"stored", "ok"} => StoredOnce(q))'
  BY <1>2, <1>3 DEF StoreInv
<1>7. \A q \in Requests : (handler[q] \in {"rejected", "bad"} => errors # <<>>)'
  BY <1>2 DEF StoreInv
<1> QED
  BY <1>1, <1>4, <1>5, <1>6, <1>7 DEF StoreInv

LEMMA ReceiveStep ==
    ASSUME StoreInv, NEW r \in Requests, NEW m \in Messages, Receive(r, m)
    PROVE  StoreInv'
<1> USE DEF Receive, Goto
<1>1. CollectorTypeOK'
  BY DEF StoreInv, CollectorTypeOK, Stages
<1>2. \A q \in Requests : /\ handler'[q] = (IF q = r THEN "received" ELSE handler[q])
                          /\ message'[q] = (IF q = r THEN m ELSE message[q])
  BY DEF StoreInv, CollectorTypeOK
<1>3. \A q \in Requests : StoredFrom(q)' = StoredFrom(q)
  BY DEF StoredFrom
<1>4. \A q \in Requests : (handler[q] # "none" => message[q] \in Messages)'
  BY <1>2 DEF StoreInv
<1>5. \A q \in Requests : (handler[q] \in Unstored => StoredFrom(q) = {})'
  BY <1>2, <1>3 DEF StoreInv, Unstored
<1>6. \A q \in Requests : (handler[q] \in {"stored", "ok"} => StoredOnce(q))'
  BY <1>2, <1>3 DEF StoreInv, StoredOnce
<1>7. \A q \in Requests : (handler[q] \in {"rejected", "bad"} => errors # <<>>)'
  BY <1>2 DEF StoreInv
<1> QED
  BY <1>1, <1>4, <1>5, <1>6, <1>7 DEF StoreInv

\* The payload of a handler that stores is the new last one, and its first.
LEMMA StoreStep ==
    ASSUME StoreInv, NEW r \in Requests, Store(r), handler'[r] = "stored"
    PROVE  StoreInv'
<1> DEFINE new == [from |-> r, content |-> message[r].content]
<1>1. /\ handler[r] = "parsed" /\ message[r] \in Messages
      /\ Goto(r, "stored") /\ payloads' = Append(payloads, new)
      /\ UNCHANGED <<message, bytes, errors>>
  BY DEF Store, StoreInv, Goto, CollectorTypeOK
<1>2. new \in Payload
  BY <1>1, MessageAssumption DEF Message, Payload
<1>3. CollectorTypeOK'
  BY <1>1, <1>2 DEF StoreInv, CollectorTypeOK, Goto, Stages
<1>4. \A q \in Requests : handler'[q] = (IF q = r THEN "stored" ELSE handler[q])
  BY <1>1 DEF StoreInv, CollectorTypeOK, Goto
<1>5. /\ payloads \in Seq(Payload)
      /\ DOMAIN payloads' = DOMAIN payloads \cup {Len(payloads) + 1}
      /\ Len(payloads) + 1 \notin DOMAIN payloads
      /\ \A k \in DOMAIN payloads : payloads'[k] = payloads[k]
      /\ payloads'[Len(payloads) + 1] = new
  BY <1>1, <1>2 DEF StoreInv, CollectorTypeOK
<1>6. \A q \in Requests : q # r => StoredFrom(q)' = StoredFrom(q)
  BY <1>5 DEF StoredFrom
<1>7. StoredFrom(r) = {}
  BY <1>1 DEF StoreInv, Unstored
<1>8. StoredFrom(r)' = {Len(payloads) + 1}
  BY <1>5, <1>7 DEF StoredFrom
<1>9. StoredOnce(r)'
  BY <1>1, <1>5, <1>8 DEF StoredOnce
<1>10. \A q \in Requests : q # r /\ StoredOnce(q) => StoredOnce(q)'
  BY <1>1, <1>5, <1>6 DEF StoredOnce, StoredFrom
<1>11. \A q \in Requests : (handler[q] # "none" => message[q] \in Messages)'
  BY <1>1, <1>4 DEF StoreInv
<1>12. \A q \in Requests : (handler[q] \in Unstored => StoredFrom(q) = {})'
  BY <1>4, <1>6 DEF StoreInv, Unstored
<1>13. \A q \in Requests : (handler[q] \in {"stored", "ok"} => StoredOnce(q))'
  BY <1>4, <1>9, <1>10 DEF StoreInv
<1>14. \A q \in Requests : (handler[q] \in {"rejected", "bad"} => errors # <<>>)'
  BY <1>1, <1>4 DEF StoreInv
<1> QED
  BY <1>3, <1>11, <1>12, <1>13, <1>14 DEF StoreInv

LEMMA NextStore ==
    ASSUME StoreInv, [Next]_vars
    PROVE  StoreInv'
<1>1. ASSUME NEW r \in Requests, Send(r) PROVE StoreInv'
  BY <1>1, ReceiveStep DEF Send
<1>2. ASSUME NEW r \in Requests, Work(r) PROVE StoreInv'
  <2>0. /\ errors \in Seq(Requests) /\ bytes \in Nat
        /\ handler[r] # "none" => message[r].length \in Nat
    BY MessageAssumption DEF StoreInv, CollectorTypeOK, Message
  <2>1. CASE Stray(r)
    BY <2>0, <2>1, QuietStep DEF Stray, Stages, Answered, Unstored
  <2>2. CASE Reserve(r)
    <3>1. CASE Fits(r)
      BY <2>0, <2>2, <3>1, QuietStep DEF Reserve, Stages, Unstored
    <3>2. CASE ~Fits(r)
      BY <2>0, <2>2, <3>2, QuietStep DEF Reserve, Stages, Unstored
    <3> QED BY <3>1, <3>2
  <2>3. CASE Read(r)
    <3>1. CASE message[r].body = "object"
      BY <2>0, <2>3, <3>1, QuietStep DEF Read, Stages, Unstored
    <3>2. CASE message[r].body # "object"
      BY <2>0, <2>3, <3>2, QuietStep DEF Read, Stages, Unstored
    <3> QED BY <3>1, <3>2
  <2>4. CASE Store(r)
    <3>1. CASE Len(payloads) < MaxPayloads
      <4>1. handler'[r] = "stored"
        BY <2>4, <3>1 DEF Store, Goto, StoreInv, CollectorTypeOK
      <4> QED BY <2>4, <4>1, StoreStep
    <3>2. CASE ~(Len(payloads) < MaxPayloads)
      BY <2>0, <2>4, <3>2, QuietStep DEF Store, Stages, Unstored
    <3> QED BY <3>1, <3>2
  <2>5. CASE Refuse(r)
    <3>1. errors' \in Seq(Requests) /\ errors' # <<>>
      BY <2>0, <2>5, LimitAssumption DEF Refuse
    <3> QED BY <2>0, <2>5, <3>1, QuietStep DEF Refuse, Stages, Unstored
  <2>6. CASE Answer(r)
    <3>1. CASE handler[r] = "stored"
      BY <2>0, <2>6, <3>1, QuietStep DEF Answer, Stages, Answered, Unstored
    <3>2. CASE handler[r] = "rejected"
      BY <2>0, <2>6, <3>2, QuietStep DEF Answer, Stages, Answered, Unstored, StoreInv
    <3> QED BY <2>6, <3>1, <3>2 DEF Answer
  <2> QED BY <1>2, <2>1, <2>2, <2>3, <2>4, <2>5, <2>6 DEF Work, Handle
<1>3. ASSUME UNCHANGED collector PROVE StoreInv'
  BY <1>3 DEF collector, StoreInv, CollectorTypeOK, StoredFrom, StoredOnce
<1> QED
  BY <1>1, <1>2, <1>3 DEF Next, AgentExits, Abandon, Analyse, Conclude, vars

LEMMA NextBounds ==
    ASSUME StoreInv, CountBounded, BytesBounded, [Next]_vars
    PROVE  CountBounded' /\ BytesBounded'
<1>1. ASSUME NEW r \in Requests, Store(r) PROVE CountBounded' /\ BytesBounded'
  BY <1>1, LimitAssumption DEF Store, StoreInv, CollectorTypeOK, CountBounded, BytesBounded
<1>2. ASSUME NEW r \in Requests, Reserve(r) PROVE CountBounded' /\ BytesBounded'
  BY <1>2, LimitAssumption DEF Reserve, Fits, CountBounded, BytesBounded
<1>3. ASSUME UNCHANGED <<payloads, bytes>> PROVE CountBounded' /\ BytesBounded'
  BY <1>3 DEF CountBounded, BytesBounded
<1> QED
  BY <1>1, <1>2, <1>3 DEF Next, Send, Receive, Work, Handle, Stray, Read, Refuse, Answer,
     AgentExits, Abandon, Analyse, Conclude, collector, vars

\* Between them, handlers that check and store in separate critical sections
\* keep the number of payloads and the bytes received within the limits.
THEOREM Bounded == Spec => [](CountBounded /\ BytesBounded)
<1>1. Init => StoreInv /\ CountBounded /\ BytesBounded
  BY InitStore
<1>2. StoreInv /\ CountBounded /\ BytesBounded /\ [Next]_vars
        => StoreInv' /\ CountBounded' /\ BytesBounded'
  BY NextStore, NextBounds
<1> QED
  BY <1>1, <1>2, PTL DEF Spec

LEMMA StoreHolds == Spec => []StoreInv
<1>1. Init => StoreInv
  BY InitStore
<1>2. StoreInv /\ [Next]_vars => StoreInv'
  BY NextStore
<1> QED
  BY <1>1, <1>2, PTL DEF Spec

\* A client told 200 is stored exactly once, and one told 400 not at all and
\* on record as an error.
THEOREM AnswersTrue == Spec => []AnswersAreTrue
<1>1. StoreInv => AnswersAreTrue
  BY DEF StoreInv, AnswersAreTrue, Unstored
<1> QED
  BY <1>1, StoreHolds, PTL

\* What the runner has made of the requests answered before the agent exited.
RunInv ==
    /\ settled \subseteq {r \in Requests : handler[r] \in Answered}
    /\ runner = "waiting" => verdict = "NONE"
    /\ runner = "analysed" =>
          /\ verdict = "NONE"
          /\ \A r \in settled : handler[r] = "ok" => message[r].content \subseteq analysed
    /\ PassIsComplete

\* A settled request keeps its answer, its message and, if told 200, its place.
LEMMA SettledStays ==
    ASSUME StoreInv, RunInv, [Next]_vars, NEW r \in Requests, handler[r] \in Answered
    PROVE  handler'[r] = handler[r] /\ message'[r] = message[r]
<1>1. handler[r] \notin {"none", "received", "reading", "parsed", "refused", "stored", "rejected"}
  BY DEF Answered
<1>2. ASSUME NEW q \in Requests, Send(q) PROVE handler'[r] = handler[r] /\ message'[r] = message[r]
  <2>1. q # r
    BY <1>1, <1>2 DEF Send, Receive
  <2> QED BY <1>2, <2>1 DEF Send, Receive, Goto, StoreInv, CollectorTypeOK
<1>3. ASSUME NEW q \in Requests, Work(q) PROVE handler'[r] = handler[r] /\ message'[r] = message[r]
  <2>1. q # r
    BY <1>1, <1>3 DEF Work, Handle, Stray, Reserve, Read, Store, Refuse, Answer
  <2>2. PICK s : Goto(q, s)
    BY <1>3 DEF Work, Handle, Stray, Reserve, Read, Store, Refuse, Answer
  <2>3. message' = message
    BY <1>3 DEF Work, Handle, Stray, Reserve, Read, Store, Refuse, Answer
  <2> QED BY <2>1, <2>2, <2>3 DEF Goto, StoreInv, CollectorTypeOK
<1>4. ASSUME UNCHANGED collector PROVE handler'[r] = handler[r] /\ message'[r] = message[r]
  BY <1>4 DEF collector
<1> QED
  BY <1>2, <1>3, <1>4 DEF Next, AgentExits, Abandon, Analyse, Conclude, vars

\* The copy the analysis takes holds every payload a client was told of.
LEMMA AckedIsReceived ==
    ASSUME StoreInv, NEW r \in Requests, handler[r] = "ok", Malformed \notin Received
    PROVE  message[r].content \subseteq Decisions
<1>1. PICK k \in DOMAIN payloads : payloads[k].content = message[r].content
  BY DEF StoreInv, StoredOnce, StoredFrom
<1>2. message[r].content \in Received \ {Malformed}
  BY <1>1 DEF Received
<1> QED
  BY <1>2 DEF Decisions

LEMMA NextRun ==
    ASSUME StoreInv, StoreInv', RunInv, [Next]_vars
    PROVE  RunInv'
<1>0. \A r \in settled : /\ r \in Requests
                         /\ handler'[r] = handler[r] /\ message'[r] = message[r]
  BY SettledStays DEF RunInv
<1>1. ASSUME UNCHANGED run PROVE RunInv'
  BY <1>0, <1>1 DEF run, RunInv, PassIsComplete
<1>2. CASE AgentExits
  <2>1. settled' = {r \in Requests : handler[r] \in Answered}
    BY <1>2 DEF AgentExits
  <2>2. runner' = "waiting" /\ verdict' = "NONE" /\ handler' = handler
    BY <1>2 DEF AgentExits, RunInv, collector
  <2> QED BY <2>1, <2>2 DEF RunInv, PassIsComplete
<1>3. CASE Abandon
  BY <1>0, <1>3 DEF Abandon, RunInv, PassIsComplete
<1>4. CASE Analyse
  <2>1. settled' = settled /\ handler' = handler /\ message' = message
    BY <1>4 DEF Analyse, collector
  <2>2. CASE capture' = "invalid" \/ Malformed \in Received
    BY <1>4, <2>1, <2>2 DEF Analyse, RunInv, PassIsComplete
  <2>3. CASE ~(capture' = "invalid" \/ Malformed \in Received)
    <3>1. runner' = "analysed" /\ verdict' = "NONE" /\ analysed' = Decisions
      BY <1>4, <2>3 DEF Analyse, RunInv
    <3>2. \A r \in settled : handler[r] = "ok" => message[r].content \subseteq Decisions
      BY <1>0, <2>3, AckedIsReceived
    <3> QED BY <2>1, <3>1, <3>2 DEF RunInv, PassIsComplete
  <2> QED BY <2>2, <2>3
<1>5. CASE Conclude
  <2>1. /\ settled' = settled /\ handler' = handler /\ message' = message
        /\ analysed' = analysed /\ returncode' = returncode
        /\ runner' = "done" /\ runner = "analysed"
    BY <1>5 DEF Conclude, collector
  <2>2. ASSUME verdict' = "PASS" PROVE errors = <<>> /\ returncode = 0
    BY <1>5, <2>2 DEF Conclude, Unsound, Downgraded
  <2>3. verdict' = "PASS" => \A r \in settled : handler[r] # "bad"
    BY <1>0, <2>2 DEF StoreInv
  <2> QED BY <2>1, <2>2, <2>3 DEF RunInv, PassIsComplete
<1> QED
  BY <1>1, <1>2, <1>3, <1>4, <1>5 DEF Next, Send, Work, vars

\* PASS accounts for every request the agent had an answer to: none was
\* refused, and the decisions of those received were all analysed.
THEOREM PassComplete == Spec => []PassIsComplete
<1>1. Init => RunInv
  BY DEF Init, CollectorInit, RunInv, PassIsComplete
<1>2. StoreInv /\ StoreInv' /\ RunInv /\ [Next]_vars => RunInv'
  BY NextRun
<1>3. RunInv => PassIsComplete
  BY DEF RunInv
<1> QED
  BY <1>1, <1>2, <1>3, StoreHolds, PTL DEF Spec
-----------------------------------------------------------------------------
\* The types of the run, and a status for whoever has come far enough.
RunTypes ==
    /\ Len(errors) <= MaxErrors
    /\ executed \subseteq Uses /\ analysed \subseteq Decision
    /\ runner \in {"waiting", "analysed", "done"}
    /\ result \in {"NONE", "PASS", "FAIL", "INCOMPLETE"}
    /\ verdict \in {"NONE", "PASS", "FAIL", "INCOMPLETE"}
    /\ runner = "done" <=> verdict # "NONE"
    /\ runner = "analysed" => result # "NONE"

\* Nothing is received but what was sent, and it is well-formed.
LEMMA ReceivedIsSent ==
    ASSUME StoreInv
    PROVE  Received \subseteq Sent /\ Received \subseteq Contents
<1>1. ASSUME NEW k \in DOMAIN payloads
      PROVE  payloads[k].content \in Sent /\ payloads[k].content \in Contents
  <2>1. payloads[k] \in Payload
    BY DEF StoreInv, CollectorTypeOK
  <2>2. PICK r \in Requests : r = payloads[k].from
    BY <2>1 DEF Payload
  <2>3. k \in StoredFrom(r)
    BY <2>2 DEF StoredFrom
  <2>4. handler[r] \notin Unstored /\ handler[r] \in Stages
    BY <2>3 DEF StoreInv, CollectorTypeOK
  <2>5. StoredOnce(r) /\ handler[r] # "none"
    BY <2>4 DEF StoreInv, Unstored, Stages, Answered
  <2>6. payloads[k].content = message[r].content
    BY <2>3, <2>5 DEF StoredOnce
  <2> QED  BY <2>1, <2>5, <2>6 DEF Sent, ContentOf, Payload
<1> QED  BY <1>1 DEF Received

LEMMA DecisionsTyped == ASSUME StoreInv PROVE Decisions \subseteq Decision
BY ReceivedIsSent, ContentAssumption DEF Decisions

LEMMA NextTypes ==
    ASSUME StoreInv, RunTypes, [Next]_vars
    PROVE  RunTypes'
<1>1. ASSUME UNCHANGED run, UNCHANGED errors PROVE RunTypes'
  BY <1>1 DEF run, RunTypes
<1>2. ASSUME NEW r \in Requests, Work(r) PROVE RunTypes'
  <2>1. errors \in Seq(Requests) /\ MaxErrors \in Nat
    BY LimitAssumption DEF StoreInv, CollectorTypeOK
  <2>2. CASE Refuse(r)
    BY <1>2, <2>1, <2>2 DEF Work, Refuse, run, RunTypes
  <2>3. CASE UNCHANGED errors
    BY <1>1, <1>2, <2>3 DEF Work
  <2> QED  BY <1>2, <2>2, <2>3 DEF Work, Handle, Stray, Reserve, Read, Store, Answer
<1>3. CASE AgentExits
  BY <1>3 DEF AgentExits, RunTypes, collector
<1>4. CASE Abandon
  BY <1>4 DEF Abandon, RunTypes, collector
<1>5. CASE Analyse
  <2>1. executed' \subseteq Uses
    BY <1>5, OutcomeAssumption DEF Analyse
  <2>2. errors' = errors
    BY <1>5 DEF Analyse, collector
  <2>3. CASE runner' = "done" /\ verdict' = "INCOMPLETE" /\ UNCHANGED <<analysed, result>>
    BY <2>1, <2>2, <2>3 DEF RunTypes
  <2>4. CASE /\ runner' = "analysed" /\ analysed' = Decisions /\ UNCHANGED verdict
             /\ result' = IF capture' = "none" THEN "INCOMPLETE"
                          ELSE Analysis(Decisions, executed')
    <3>1. result' \in {"PASS", "FAIL", "INCOMPLETE"}
      BY <2>4 DEF Analysis
    <3>2. runner = "waiting"
      BY <1>5 DEF Analyse
    <3> QED  BY <2>1, <2>2, <2>4, <3>1, <3>2, DecisionsTyped DEF RunTypes
  <2> QED  BY <1>5, <2>3, <2>4 DEF Analyse
<1>6. CASE Conclude
  BY <1>6 DEF Conclude, Downgraded, RunTypes, collector
<1>7. ASSUME NEW r \in Requests, Send(r) PROVE RunTypes'
  BY <1>1, <1>7 DEF Send, Receive
<1>8. CASE UNCHANGED vars
  BY <1>1, <1>8 DEF vars, collector
<1> QED  BY <1>2, <1>3, <1>4, <1>5, <1>6, <1>7, <1>8 DEF Next

\* The types of collector and run, with as many errors kept as is allowed.
THEOREM TypeCorrect == Spec => []TypeOK
<1>1. Init => RunTypes
  BY LimitAssumption DEF Init, CollectorInit, RunTypes
<1>2. StoreInv /\ RunTypes /\ [Next]_vars => RunTypes'
  BY NextTypes
<1>3. Init => RunInv
  BY DEF Init, CollectorInit, RunInv, PassIsComplete
<1>4. StoreInv /\ StoreInv' /\ RunInv /\ [Next]_vars => RunInv'
  BY NextRun
<1>5. StoreInv /\ RunTypes /\ RunInv => TypeOK
  BY DEF StoreInv, RunTypes, RunInv, TypeOK
<1> QED  BY <1>1, <1>2, <1>3, <1>4, <1>5, StoreHolds, PTL DEF Spec

\* What the runner makes of a rejected probe that ran.
KeptInv ==
    /\ runner = "analysed" /\ capture = "complete" /\ Malformed \notin Sent /\ RejectedRan
          => result = "FAIL"
    /\ ViolationKept

\* The evidence of the violation is the same once the runner no longer waits.
LEMMA EvidenceStays ==
    ASSUME StoreInv, RunInv, UNCHANGED run, [Next]_vars, runner # "waiting"
    PROVE  Sent' = Sent /\ RejectedRan' = RejectedRan
<1>1. \A r \in settled : r \in Requests /\ handler'[r] = handler[r] /\ message'[r] = message[r]
  BY SettledStays DEF RunInv
<1>2. \A r \in Requests : message'[r] = message[r] /\ (handler'[r] = "none" <=> handler[r] = "none")
  <2>1. ASSUME NEW q \in Requests, Work(q)
        PROVE  \A r \in Requests :
                  message'[r] = message[r] /\ (handler'[r] = "none" <=> handler[r] = "none")
    <3>1. PICK s \in Stages \ {"none"} : Goto(q, s)
      BY <2>1 DEF Work, Handle, Stray, Reserve, Read, Store, Refuse, Answer, Stages, Answered
    <3>2. handler[q] # "none" /\ message' = message
      BY <2>1 DEF Work, Handle, Stray, Reserve, Read, Store, Refuse, Answer
    <3> QED  BY <3>1, <3>2 DEF Goto, StoreInv, CollectorTypeOK
  <2>2. CASE UNCHANGED collector
    BY <2>2 DEF collector
  <2> QED  BY <2>1, <2>2 DEF Next, Send, AgentExits, Abandon, Analyse, Conclude, vars, run
<1>3. Sent' = Sent
  BY <1>2 DEF Sent, ContentOf
<1>4. Acknowledged' = Acknowledged
  BY <1>1 DEF Acknowledged, ContentOf, run
<1> QED  BY <1>3, <1>4 DEF RejectedRan, run

\* The copy holds the rejection that was acknowledged, and no acceptance.
LEMMA RejectionIsSeen ==
    ASSUME StoreInv, Malformed \notin Sent, NEW ran \in SUBSET Uses, NEW u \in ran,
           NEW c \in Acknowledged, [use |-> u, verdict |-> "reject"] \in c,
           \A d \in Sent : [use |-> u, verdict |-> "accept"] \notin d, settled \subseteq Requests
    PROVE  Analysis(Decisions, ran) = "FAIL"
<1>1. PICK r \in Requests : handler[r] = "ok" /\ c = message[r].content
  BY DEF Acknowledged, ContentOf
<1>2. Malformed \notin Received
  BY ReceivedIsSent
<1>3. [use |-> u, verdict |-> "reject"] \in Decisions
  BY <1>1, <1>2, AckedIsReceived
<1>4. ASSUME NEW d \in Decisions, d.use = u PROVE d.verdict = "reject"
  <2>1. d \in Decision
    BY DecisionsTyped
  <2>2. PICK e \in Sent : d \in e
    BY ReceivedIsSent DEF Decisions
  <2>3. d = [use |-> u, verdict |-> d.verdict]
    BY <1>4, <2>1 DEF Decision
  <2>4. d.verdict # "accept"
    BY <2>2, <2>3
  <2> QED  BY <2>1, <2>4 DEF Decision
<1>5. Said(Decisions, u) = {"reject"}
  BY <1>3, <1>4 DEF Said
<1> QED  BY <1>5 DEF Analysis

LEMMA NextKept ==
    ASSUME StoreInv, RunTypes, RunInv, KeptInv, [Next]_vars
    PROVE  KeptInv'
<1>1. CASE UNCHANGED run /\ runner # "waiting"
  BY <1>1, EvidenceStays DEF KeptInv, ViolationKept, run
<1>2. CASE UNCHANGED run /\ runner = "waiting"
  BY <1>2 DEF KeptInv, ViolationKept, run
<1>3. CASE AgentExits \/ Abandon
  BY <1>3 DEF AgentExits, Abandon, KeptInv, ViolationKept
<1>4. CASE Analyse
  <2>1. /\ UNCHANGED <<settled, collector, agent>> /\ Sent' = Sent /\ Acknowledged' = Acknowledged
        /\ executed' \subseteq Uses
    BY <1>4, OutcomeAssumption DEF Analyse, collector, Sent, Acknowledged, ContentOf
  <2>2. CASE capture' = "invalid" \/ Malformed \in Received
    <3>1. runner' = "done" /\ (capture' = "invalid" \/ Malformed \in Sent')
      BY <1>4, <2>1, <2>2, ReceivedIsSent DEF Analyse
    <3> QED  BY <3>1 DEF KeptInv, ViolationKept
  <2>3. CASE ~(capture' = "invalid" \/ Malformed \in Received)
    <3>1. runner' = "analysed" /\ result' = IF capture' = "none" THEN "INCOMPLETE"
                                            ELSE Analysis(Decisions, executed')
      BY <1>4, <2>3 DEF Analyse
    <3>2. ASSUME capture' = "complete", Malformed \notin Sent', RejectedRan'
          PROVE  Analysis(Decisions, executed') = "FAIL"
      <4>1. PICK u \in executed' :
               /\ \E c \in Acknowledged : [use |-> u, verdict |-> "reject"] \in c
               /\ \A d \in Sent : [use |-> u, verdict |-> "accept"] \notin d
        BY <2>1, <3>2 DEF RejectedRan
      <4>2. settled \subseteq Requests /\ Malformed \notin Sent
        BY <2>1, <3>2 DEF RunInv
      <4> QED  BY <2>1, <4>1, <4>2, RejectionIsSeen
    <3> QED  BY <3>1, <3>2 DEF KeptInv, ViolationKept
  <2> QED  BY <2>2, <2>3
<1>5. CASE Conclude
  <2>1. UNCHANGED <<settled, collector, agent, capture, executed>> /\ Sent' = Sent
        /\ Acknowledged' = Acknowledged
    BY <1>5 DEF Conclude, collector, Sent, Acknowledged, ContentOf
  <2>2. RejectedRan' = RejectedRan
    BY <2>1 DEF RejectedRan
  <2> QED  BY <1>5, <2>1, <2>2 DEF Conclude, Downgraded, KeptInv, ViolationKept
<1> QED  BY <1>1, <1>2, <1>3, <1>4, <1>5 DEF Next, Send, Work, vars

\* A rejected probe that ran, its rejection acknowledged and not contradicted,
\* is a FAIL whatever else was refused, lost or still on its way.
THEOREM ViolationStays == Spec => []ViolationKept
<1>1. Init => RunTypes /\ RunInv /\ KeptInv
  BY LimitAssumption DEF Init, CollectorInit, RunTypes, RunInv, PassIsComplete, KeptInv, ViolationKept
<1>2. StoreInv /\ StoreInv' /\ RunTypes /\ RunInv /\ KeptInv /\ [Next]_vars
         => RunTypes' /\ RunInv' /\ KeptInv'
  BY NextTypes, NextRun, NextKept
<1>3. KeptInv => ViolationKept
  BY DEF KeptInv
<1> QED  BY <1>1, <1>2, <1>3, StoreHolds, PTL DEF Spec
-----------------------------------------------------------------------------
(***************************************************************************)
(* Sums over finite sets, as SumFunctionOnSet of the community modules     *)
(* defines them.                                                           *)
(***************************************************************************)

\* A set that holds 0 and the successor of each number it holds has them all.
LEMMA InductionOnNat ==
  ASSUME NEW S, 0 \in S, \A n \in Nat : n \in S => n + 1 \in S
  PROVE  Nat \subseteq S
<1> SUFFICES ASSUME Nat \ S # {} PROVE FALSE
  OBVIOUS
<1>1. PICK m \in Nat \ S : \A k \in Nat \ S : <<k, m>> \notin OpToRel(<, Nat)
  BY NatLessThanWellFounded, WFMin, Zenon
<1>2. m - 1 \in Nat \ S
  OBVIOUS
<1>3. <<m - 1, m>> \in OpToRel(<, Nat)
  BY <1>2 DEF OpToRel
<1> QED  BY <1>1, <1>2, <1>3, Zenon

\* The function that a sum over T is read off from.
Pick(s) == CHOOSE x \in s : TRUE
Step(f, g, s) == IF s = {} THEN 0 ELSE f[Pick(s)] + g[s \ {Pick(s)}]
Sums(g, f, T) == g = [s \in SUBSET T |-> Step(f, g, s)]

LEMMA PickIn == ASSUME NEW s, s # {} PROVE Pick(s) \in s
BY DEF Pick

LEMMA SumsExist ==
  ASSUME NEW T, IsFiniteSet(T), NEW f
  PROVE  \E g : Sums(g, f, T)
<1> DEFINE A(n) == \E g : \A s \in SUBSET T : Cardinality(s) <= n => g[s] = Step(f, g, s)
           N == {n \in Nat : A(n)}
<1>0. \A s \in SUBSET T : IsFiniteSet(s) /\ Cardinality(s) \in Nat
  BY FS_Subset, FS_CardinalityType
<1>1. 0 \in N
  <2> DEFINE g == [s \in SUBSET T |-> 0]
  <2>1. \A s \in SUBSET T : Cardinality(s) <= 0 => s = {}
    BY <1>0, FS_EmptySet
  <2>2. \A s \in SUBSET T : Cardinality(s) <= 0 => g[s] = Step(f, g, s)
    BY <2>1 DEF Step
  <2> HIDE DEF g
  <2> QED  BY <2>2
<1>2. ASSUME NEW n \in Nat, A(n)
      PROVE  A(n + 1)
  <2>1. PICK g : \A s \in SUBSET T : Cardinality(s) <= n => g[s] = Step(f, g, s)
    BY <1>2
  <2> DEFINE h == [s \in SUBSET T |-> Step(f, g, s)]
  <2>2. \A s \in SUBSET T : Cardinality(s) <= n => h[s] = g[s]
    BY <2>1
  <2>3. ASSUME NEW s \in SUBSET T, Cardinality(s) <= n + 1
        PROVE  h[s] = Step(f, h, s)
    <3>1. h[s] = Step(f, g, s)
      OBVIOUS
    <3>2. CASE s = {}
      BY <3>1, <3>2 DEF Step
    <3>3. CASE s # {}
      <4> DEFINE r == s \ {Pick(s)}
      <4>1. r \in SUBSET T /\ Cardinality(r) <= n
        BY <1>0, <2>3, <3>3, PickIn, FS_RemoveElement
      <4>2. h[r] = g[r]
        BY <2>2, <4>1
      <4> QED  BY <3>1, <3>3, <4>2 DEF Step
    <3> QED  BY <3>2, <3>3
  <2> HIDE DEF h
  <2> QED  BY <2>3
<1>3. Nat \subseteq N
  <2> HIDE DEF A
  <2>1. \A n \in Nat : n \in N => n + 1 \in N
    BY <1>2
  <2> HIDE DEF N
  <2> QED  BY <1>1, <2>1, InductionOnNat
<1>4. PICK g : \A s \in SUBSET T : Cardinality(s) <= Cardinality(T) => g[s] = Step(f, g, s)
  BY <1>0, <1>3
<1>5. \A s \in SUBSET T : Cardinality(s) <= Cardinality(T)
  BY FS_Subset
<1> DEFINE h == [s \in SUBSET T |-> g[s]]
<1>6. \A s \in SUBSET T : Step(f, h, s) = Step(f, g, s)
  BY PickIn DEF Step
<1>7. h = [s \in SUBSET T |-> Step(f, h, s)]
  BY <1>4, <1>5, <1>6
<1> HIDE DEF h
<1> QED  BY <1>7 DEF Sums
LEMMA SumIs ==
  ASSUME NEW T, IsFiniteSet(T), NEW f
  PROVE  \E g : Sums(g, f, T) /\ SumFunctionOnSet(f, T) = g[T]
<1> DEFINE c == CHOOSE g : Sums(g, f, T)
<1>1. Sums(c, f, T)
  BY SumsExist
<1>2. SumFunctionOnSet(f, T) = c[T]
  BY Zenon DEF SumFunctionOnSet, FoldFunctionOnSet, MapThenFoldSet, Sums, Step, Pick
<1> QED  BY <1>1, <1>2

\* Two such functions agree where what they sum agrees.
LEMMA SumsAgree ==
  ASSUME NEW T, IsFiniteSet(T), NEW f, NEW g, Sums(g, f, T),
         NEW U, NEW e, NEW h, Sums(h, e, U),
         NEW R, R \subseteq T, R \subseteq U, \A x \in R : f[x] = e[x]
  PROVE  g[R] = h[R]
<1> DEFINE A(n) == \A s \in SUBSET R : Cardinality(s) = n => g[s] = h[s]
           N == {n \in Nat : A(n)}
<1>0. \A s \in SUBSET R : IsFiniteSet(s) /\ Cardinality(s) \in Nat
  BY FS_Subset, FS_CardinalityType
<1>1. \A s \in SUBSET R : g[s] = Step(f, g, s) /\ h[s] = Step(e, h, s)
  BY DEF Sums
<1>2. 0 \in N
  <2>1. \A s \in SUBSET R : Cardinality(s) = 0 => s = {}
    BY <1>0, FS_EmptySet
  <2> QED  BY <1>1, <2>1 DEF Step
<1>3. ASSUME NEW n \in Nat, A(n)
      PROVE  A(n + 1)
  <2> SUFFICES ASSUME NEW s \in SUBSET R, Cardinality(s) = n + 1
               PROVE  g[s] = h[s]
    OBVIOUS
  <2>1. s # {} /\ Pick(s) \in s
    BY FS_EmptySet, PickIn
  <2>2. s \ {Pick(s)} \in SUBSET R /\ Cardinality(s \ {Pick(s)}) = n
    BY <1>0, <2>1, FS_RemoveElement
  <2>3. g[s \ {Pick(s)}] = h[s \ {Pick(s)}]
    BY <1>3, <2>2
  <2> QED  BY <1>1, <2>1, <2>3 DEF Step
<1>4. Nat \subseteq N
  <2> HIDE DEF A
  <2>1. \A n \in Nat : n \in N => n + 1 \in N
    BY <1>3
  <2> HIDE DEF N
  <2> QED  BY <1>2, <2>1, InductionOnNat
<1> QED  BY <1>0, <1>4

LEMMA SumUnfolds ==
  ASSUME NEW T, IsFiniteSet(T), NEW f
  PROVE  /\ SumFunctionOnSet(f, {}) = 0
         /\ T # {} => SumFunctionOnSet(f, T) =
                        f[Pick(T)] + SumFunctionOnSet(f, T \ {Pick(T)})
<1>1. SumFunctionOnSet(f, {}) = 0
  <2>1. PICK g : Sums(g, f, {}) /\ SumFunctionOnSet(f, {}) = g[{}]
    BY SumIs, FS_EmptySet
  <2> QED  BY <2>1 DEF Sums, Step
<1>2. ASSUME T # {}
      PROVE  SumFunctionOnSet(f, T) = f[Pick(T)] + SumFunctionOnSet(f, T \ {Pick(T)})
  <2> DEFINE U == T \ {Pick(T)}
  <2>1. PICK g : Sums(g, f, T) /\ SumFunctionOnSet(f, T) = g[T]
    BY SumIs
  <2>2. IsFiniteSet(U)
    BY FS_RemoveElement
  <2>3. PICK h : Sums(h, f, U) /\ SumFunctionOnSet(f, U) = h[U]
    BY <2>2, SumIs
  <2>4. g[U] = h[U]
    <3>1. U \subseteq T /\ U \subseteq U
      OBVIOUS
    <3> HIDE DEF U
    <3> QED  BY <2>1, <2>3, <3>1, SumsAgree
  <2>5. g[T] = f[Pick(T)] + g[U]
    BY <1>2, <2>1 DEF Sums, Step
  <2> QED  BY <2>1, <2>3, <2>4, <2>5
<1> QED  BY <1>1, <1>2

LEMMA SumCongruent ==
  ASSUME NEW T, IsFiniteSet(T), NEW f, NEW e, \A x \in T : f[x] = e[x]
  PROVE  SumFunctionOnSet(f, T) = SumFunctionOnSet(e, T)
<1>1. PICK g : Sums(g, f, T) /\ SumFunctionOnSet(f, T) = g[T]
  BY SumIs
<1>2. PICK h : Sums(h, e, T) /\ SumFunctionOnSet(e, T) = h[T]
  BY SumIs
<1> QED  BY <1>1, <1>2, SumsAgree

LEMMA OneLess ==
  ASSUME NEW T, NEW s \in SUBSET T, IsFiniteSet(s), NEW x \in s,
         NEW n \in Nat, Cardinality(s) = n + 1
  PROVE  s \ {x} \in SUBSET T /\ Cardinality(s \ {x}) = n
<1>1. Cardinality(s \ {x}) = Cardinality(s) - 1
  BY FS_RemoveElement, Zenon
<1> QED  BY <1>1

LEMMA SumIsNat ==
  ASSUME NEW T, IsFiniteSet(T), NEW f, \A x \in T : f[x] \in Nat
  PROVE  SumFunctionOnSet(f, T) \in Nat
<1> DEFINE A(n) == \A s \in SUBSET T : Cardinality(s) = n => SumFunctionOnSet(f, s) \in Nat
           N == {n \in Nat : A(n)}
<1>0. \A s \in SUBSET T : IsFiniteSet(s) /\ Cardinality(s) \in Nat
  BY FS_Subset, FS_CardinalityType
<1>1. 0 \in N
  <2>1. \A s \in SUBSET T : Cardinality(s) = 0 => s = {}
    BY <1>0, FS_EmptySet
  <2>2. SumFunctionOnSet(f, {}) = 0
    BY SumUnfolds, FS_EmptySet
  <2> QED  BY <2>1, <2>2
<1>2. ASSUME NEW n \in Nat, A(n)
      PROVE  A(n + 1)
  <2> SUFFICES ASSUME NEW s \in SUBSET T, Cardinality(s) = n + 1
               PROVE  SumFunctionOnSet(f, s) \in Nat
    OBVIOUS
  <2>1. s # {} /\ Pick(s) \in s
    BY FS_EmptySet, PickIn
  <2>2. s \ {Pick(s)} \in SUBSET T /\ Cardinality(s \ {Pick(s)}) = n
    BY <1>0, <2>1, OneLess
  <2>3. SumFunctionOnSet(f, s \ {Pick(s)}) \in Nat
    BY <1>2, <2>2
  <2>4. SumFunctionOnSet(f, s) = f[Pick(s)] + SumFunctionOnSet(f, s \ {Pick(s)})
    BY <1>0, <2>1, SumUnfolds
  <2> QED  BY <2>1, <2>3, <2>4
<1>3. Nat \subseteq N
  <2> HIDE DEF A
  <2>1. \A n \in Nat : n \in N => n + 1 \in N
    BY <1>2
  <2> HIDE DEF N
  <2> QED  BY <1>1, <2>1, InductionOnNat
<1> QED  BY <1>0, <1>3

\* Any element may be taken out of a sum.
LEMMA SumWithout ==
  ASSUME NEW T, IsFiniteSet(T), NEW f, \A x \in T : f[x] \in Nat, NEW y \in T
  PROVE  SumFunctionOnSet(f, T) = f[y] + SumFunctionOnSet(f, T \ {y})
<1> DEFINE Sum(s) == SumFunctionOnSet(f, s)
           A(n) == \A s \in SUBSET T : Cardinality(s) = n =>
                      \A x \in s : Sum(s) = f[x] + Sum(s \ {x})
           N == {n \in Nat : A(n)}
<1>0. \A s \in SUBSET T : IsFiniteSet(s) /\ Cardinality(s) \in Nat
  BY FS_Subset, FS_CardinalityType
<1>1. \A s \in SUBSET T : Sum(s) \in Nat
  BY <1>0, SumIsNat
<1>2. 0 \in N
  <2>1. \A s \in SUBSET T : Cardinality(s) = 0 => s = {}
    BY <1>0, FS_EmptySet
  <2> QED  BY <2>1
<1>3. ASSUME NEW n \in Nat, A(n)
      PROVE  A(n + 1)
  <2> SUFFICES ASSUME NEW s \in SUBSET T, Cardinality(s) = n + 1, NEW x \in s
               PROVE  Sum(s) = f[x] + Sum(s \ {x})
    OBVIOUS
  <2> DEFINE p == Pick(s)
  <2>1. p \in s /\ p \in T /\ x \in T
    BY PickIn
  <2>2. Sum(s) = f[p] + Sum(s \ {p})
    BY <1>0, <2>1, SumUnfolds
  <2>3. CASE p = x
    BY <2>2, <2>3
  <2>4. CASE p # x
    <3> HIDE DEF p
    <3>0. IsFiniteSet(s)
      BY <1>0
    <3>1. s \ {p} \in SUBSET T /\ Cardinality(s \ {p}) = n /\ x \in s \ {p}
      BY <2>1, <2>4, <3>0, OneLess
    <3>2. s \ {x} \in SUBSET T /\ Cardinality(s \ {x}) = n /\ p \in s \ {x}
      BY <2>1, <2>4, <3>0, OneLess
    <3>3. Sum(s \ {p}) = f[x] + Sum((s \ {p}) \ {x})
      BY <1>3, <3>1
    <3>4. Sum(s \ {x}) = f[p] + Sum((s \ {x}) \ {p})
      BY <1>3, <3>2
    <3>5. (s \ {p}) \ {x} = (s \ {x}) \ {p} /\ (s \ {x}) \ {p} \in SUBSET T
      OBVIOUS
    <3>6. Sum((s \ {x}) \ {p}) \in Nat /\ f[p] \in Nat /\ f[x] \in Nat
      BY <1>1, <2>1, <3>5
    <3> HIDE DEF Sum
    <3> QED  BY <2>2, <3>3, <3>4, <3>5, <3>6
  <2> QED  BY <2>3, <2>4
<1>4. Nat \subseteq N
  <2> HIDE DEF A
  <2>1. \A n \in Nat : n \in N => n + 1 \in N
    BY <1>3
  <2> HIDE DEF N
  <2> QED  BY <1>2, <2>1, InductionOnNat
<1> QED  BY <1>0, <1>4

-----------------------------------------------------------------------------
\* The handlers whose bytes are reserved, but for those refused since.
Reserving == {r \in Requests : handler[r] \in {"reading", "parsed", "stored", "ok"}}
LengthOf == [r \in Requests |-> message[r].length]
ReservedInv ==
    \A T \in SUBSET Reserving : IsFiniteSet(T) => SumFunctionOnSet(LengthOf, T) <= bytes

LEMMA LengthsAreNat ==
    ASSUME StoreInv, NEW r \in Requests, handler[r] # "none"
    PROVE  LengthOf[r] \in Nat
  BY MessageAssumption DEF StoreInv, LengthOf, Message

LEMMA InitReserved == Init => ReservedInv
<1> SUFFICES ASSUME Init, NEW T \in SUBSET Reserving
             PROVE  SumFunctionOnSet(LengthOf, T) <= bytes
  BY DEF ReservedInv
<1>1. T = {} /\ bytes = 0
  BY DEF Init, CollectorInit, Reserving
<1>2. SumFunctionOnSet(LengthOf, {}) = 0
  BY FS_EmptySet, SumUnfolds
<1> QED  BY <1>1, <1>2

LEMMA NextReserved ==
    ASSUME StoreInv, StoreInv', ReservedInv, [Next]_vars
    PROVE  ReservedInv'
<1>1. ASSUME UNCHANGED <<message, bytes>>, Reserving' \subseteq Reserving PROVE ReservedInv'
  <2>1. LengthOf' = LengthOf
    BY <1>1 DEF LengthOf
  <2> QED  BY <1>1, <2>1 DEF ReservedInv
<1>2. ASSUME NEW r \in Requests, NEW m \in Messages, Receive(r, m) PROVE ReservedInv'
  <2>1. Reserving' = Reserving /\ r \notin Reserving
    BY <1>2 DEF Receive, Goto, Reserving, StoreInv, CollectorTypeOK
  <2>2. \A q \in Reserving : LengthOf'[q] = LengthOf[q]
    BY <1>2, <2>1 DEF Receive, LengthOf, Reserving, StoreInv, CollectorTypeOK
  <2>3. bytes' = bytes
    BY <1>2 DEF Receive
  <2>4. ASSUME NEW T \in SUBSET Reserving, IsFiniteSet(T)
        PROVE  SumFunctionOnSet(LengthOf', T) = SumFunctionOnSet(LengthOf, T)
    BY <2>2, <2>4, SumCongruent
  <2> QED  BY <2>1, <2>3, <2>4 DEF ReservedInv
<1>3. ASSUME NEW r \in Requests, Reserve(r), Fits(r) PROVE ReservedInv'
  <2>1. /\ handler[r] = "received" /\ message' = message
        /\ bytes' = bytes + message[r].length
    BY <1>3 DEF Reserve
  <2>2. LengthOf' = LengthOf /\ LengthOf[r] = message[r].length /\ LengthOf[r] \in Nat
    BY <2>1, LengthsAreNat DEF LengthOf
  <2>3. Reserving' = Reserving \cup {r}
    BY <1>3 DEF Reserve, Goto, Reserving, StoreInv, CollectorTypeOK
  <2>4. ASSUME NEW T \in SUBSET Reserving', IsFiniteSet(T)
        PROVE  SumFunctionOnSet(LengthOf, T) <= bytes'
    <3>1. T \ {r} \in SUBSET Reserving /\ IsFiniteSet(T \ {r})
      BY <2>3, <2>4, FS_RemoveElement
    <3>2. SumFunctionOnSet(LengthOf, T \ {r}) <= bytes
      BY <3>1 DEF ReservedInv
    <3>3. \A q \in T : LengthOf[q] \in Nat
      BY <2>1, <2>2, <2>3, LengthsAreNat DEF Reserving
    <3>4. SumFunctionOnSet(LengthOf, T \ {r}) \in Nat /\ bytes \in Nat
      BY <3>1, <3>3, SumIsNat DEF StoreInv, CollectorTypeOK
    <3>5. CASE r \in T
      <4>1. SumFunctionOnSet(LengthOf, T) = LengthOf[r] + SumFunctionOnSet(LengthOf, T \ {r})
        BY <2>4, <3>3, <3>5, SumWithout
      <4> DEFINE rest == SumFunctionOnSet(LengthOf, T \ {r})
                 all == SumFunctionOnSet(LengthOf, T)
                 n == LengthOf[r]
      <4>2. all = n + rest /\ rest <= bytes /\ rest \in Nat /\ bytes \in Nat
               /\ n \in Nat /\ bytes' = bytes + n
        BY <2>1, <2>2, <3>2, <3>4, <4>1
      <4> HIDE DEF rest, all, n
      <4>3. all <= bytes'
        BY <4>2
      <4> QED  BY <4>3 DEF all
    <3>6. CASE r \notin T
      <4>1. SumFunctionOnSet(LengthOf, T) <= bytes
        <5>1. T \in SUBSET Reserving
          BY <2>3, <3>6
        <5> QED  BY <2>4, <5>1 DEF ReservedInv
      <4> DEFINE all == SumFunctionOnSet(LengthOf, T)
                 n == LengthOf[r]
      <4>2. all <= bytes /\ all \in Nat /\ bytes \in Nat /\ n \in Nat /\ bytes' = bytes + n
        <5>1. all \in Nat
          BY <2>4, <3>3, SumIsNat
        <5> QED  BY <2>1, <2>2, <3>4, <4>1, <5>1
      <4> HIDE DEF all, n
      <4>3. all <= bytes'
        BY <4>2
      <4> QED  BY <4>3 DEF all
    <3> QED  BY <3>5, <3>6
  <2> QED  BY <2>2, <2>4 DEF ReservedInv
<1>4. ASSUME NEW r \in Requests, Reserve(r), ~Fits(r) PROVE ReservedInv'
  BY <1>1, <1>4 DEF Reserve, Goto, Reserving, StoreInv, CollectorTypeOK
<1>5. ASSUME NEW r \in Requests, Stray(r) \/ Read(r) \/ Store(r) \/ Refuse(r) \/ Answer(r)
      PROVE  ReservedInv'
  <2>1. PICK s \in Stages : /\ Goto(r, s)
                            /\ s \in {"reading", "parsed", "stored", "ok"} => r \in Reserving
    BY <1>5 DEF Stray, Read, Store, Refuse, Answer, Reserving, Stages, Answered
  <2>2. Reserving' \subseteq Reserving
    BY <2>1 DEF Goto, Reserving, StoreInv, CollectorTypeOK
  <2> QED  BY <1>1, <1>5, <2>2 DEF Stray, Read, Store, Refuse, Answer
<1>6. CASE UNCHANGED collector
  BY <1>1, <1>6 DEF collector, Reserving
<1> QED
  BY <1>2, <1>3, <1>4, <1>5, <1>6 DEF Next, Send, Work, Handle,
     AgentExits, Abandon, Analyse, Conclude, vars

\* A payload is the only one of its request, so there are finitely many.
LEMMA HoldingIsFinite ==
    ASSUME StoreInv
    PROVE  Holding \subseteq Reserving /\ IsFiniteSet(Holding)
<1>1. ASSUME NEW r \in Holding PROVE r \in Reserving
  <2>1. StoredFrom(r) # {} /\ r \in Requests
    BY DEF Holding, StoredFrom
  <2>2. handler[r] \in Stages /\ handler[r] \notin Unstored
    BY <2>1 DEF StoreInv, CollectorTypeOK
  <2> QED  BY <2>1, <2>2 DEF Stages, Answered, Unstored, Reserving
<1>2. payloads \in Seq(Payload) /\ Len(payloads) \in Nat /\ DOMAIN payloads = 1..Len(payloads)
  BY DEF StoreInv, CollectorTypeOK
<1>3. IsFiniteSet(DOMAIN payloads)
  BY <1>2, FS_Interval
<1> DEFINE from == [k \in DOMAIN payloads |-> payloads[k].from]
<1>4. from \in Surjection(DOMAIN payloads, Holding)
  <2>1. \A k \in DOMAIN payloads : payloads[k] \in Payload
    BY <1>2
  <2>2. \A k \in DOMAIN payloads : payloads[k].from \in Requests
    BY <2>1 DEF Payload
  <2> QED  BY <2>2 DEF Surjection, Holding
<1>5. IsFiniteSet(Holding)
  BY <1>3, <1>4, FS_Surjection
<1> QED  BY <1>1, <1>5

\* The payloads kept in memory never hold more bytes than were reserved for
\* them under the lock, and never more of either than the limits allow.
THEOREM MemoryIsBounded == Spec => []MemoryBounded
<1>1. Init => ReservedInv
  BY InitReserved
<1>2. StoreInv /\ StoreInv' /\ ReservedInv /\ [Next]_vars => ReservedInv'
  BY NextReserved
<1>3. StoreInv /\ ReservedInv => StoredBytes <= bytes
  <2> SUFFICES ASSUME StoreInv, ReservedInv PROVE StoredBytes <= bytes
    OBVIOUS
  <2> DEFINE stored == [r \in Holding |-> message[r].length]
  <2>1. StoredBytes = SumFunctionOnSet(stored, Holding)
    BY DEF StoredBytes, SumFunction, SumFunctionOnSet, FoldFunction
  <2>2. \A r \in Holding : stored[r] = LengthOf[r]
    BY HoldingIsFinite DEF LengthOf, Reserving
  <2>3. SumFunctionOnSet(stored, Holding) = SumFunctionOnSet(LengthOf, Holding)
    <3> HIDE DEF stored
    <3> QED  BY <2>2, HoldingIsFinite, SumCongruent
  <2> QED  BY <2>1, <2>3, HoldingIsFinite DEF ReservedInv
<1>4. (CountBounded /\ BytesBounded) /\ StoredBytes <= bytes => MemoryBounded
  BY DEF MemoryBounded
<1> QED  BY <1>1, <1>2, <1>3, <1>4, Bounded, StoreHolds, PTL DEF Spec
-----------------------------------------------------------------------------
(***************************************************************************)
(* The collector implements Intake.                                        *)
(***************************************************************************)
Total(m, S) == SumFunction([r \in S |-> m[r].length])

LEMMA TotalIs ==
    ASSUME NEW m, NEW S, IsFiniteSet(S), \A r \in S : m[r].length \in Nat
    PROVE  /\ Total(m, S) \in Nat
           /\ \A d : (\A r \in S : d[r].length = m[r].length) => Total(d, S) = Total(m, S)
           /\ \A x \in S : Total(m, S) = m[x].length + Total(m, S \ {x})
<1> DEFINE f(e, T) == [r \in T |-> e[r].length]
<1>1. \A e, T : Total(e, T) = SumFunctionOnSet(f(e, T), T)
  BY DEF Total, SumFunction, SumFunctionOnSet, FoldFunction
<1>2. \A e, T : \A r \in T : f(e, T)[r] = e[r].length
  OBVIOUS
<1> HIDE DEF f
<1>3. Total(m, S) \in Nat
  BY <1>1, <1>2, SumIsNat
<1>4. ASSUME NEW d, \A r \in S : d[r].length = m[r].length PROVE Total(d, S) = Total(m, S)
  <2>1. \A r \in S : f(d, S)[r] = f(m, S)[r]
    BY <1>2, <1>4
  <2>2. SumFunctionOnSet(f(d, S), S) = SumFunctionOnSet(f(m, S), S)
    BY <2>1, SumCongruent
  <2> QED BY <1>1, <2>2
<1>5. ASSUME NEW x \in S PROVE Total(m, S) = m[x].length + Total(m, S \ {x})
  <2> DEFINE R == S \ {x}
  <2>1. IsFiniteSet(R)
    BY FS_RemoveElement
  <2>2. SumFunctionOnSet(f(m, S), R) = Total(m, R)
    <3>1. \A r \in R : f(m, S)[r] = f(m, R)[r]
      BY <1>2
    <3> HIDE DEF R
    <3>2. SumFunctionOnSet(f(m, S), R) = SumFunctionOnSet(f(m, R), R)
      BY <2>1, <3>1, SumCongruent
    <3> QED BY <1>1, <3>2
  <2>3. SumFunctionOnSet(f(m, S), S) = f(m, S)[x] + SumFunctionOnSet(f(m, S), S \ {x})
    BY <1>2, SumWithout
  <2> QED BY <1>1, <1>2, <2>2, <2>3
<1> QED BY <1>3, <1>4, <1>5

\* What a batch adds.
LEMMA TotalGrows ==
    ASSUME NEW m, NEW d, NEW S, IsFiniteSet(S), NEW x, x \notin S, d[x].length \in Nat,
           \A r \in S : m[r].length \in Nat /\ d[r].length = m[r].length
    PROVE  Total(d, S \cup {x}) = Total(m, S) + d[x].length
<1> DEFINE T == S \cup {x}
<1>1. IsFiniteSet(T) /\ x \in T /\ T \ {x} = S /\ \A r \in T : d[r].length \in Nat
  BY FS_AddElement
<1> HIDE DEF T
<1>2. Total(d, T) = d[x].length + Total(d, S)
  BY <1>1, TotalIs
<1>3. Total(d, S) = Total(m, S) /\ Total(m, S) \in Nat
  BY TotalIs
<1> QED BY <1>2, <1>3 DEF T

\* The batches for which bytes were, or could have been, reserved.
Admitted == {r \in Announced : handler[r] # "received"}
\* Why a batch is refused.
Excused(r) == Receiver!Sound(r) => Len(payloads) >= MaxPayloads \/ AnnouncedBytes > MaxTotalBytes
AdmitInv ==
    /\ IsFiniteSet(Arrived)
    /\ \A r \in Requests :
          /\ handler[r] \in {"reading", "parsed"} => r \in Announced
          /\ handler[r] = "parsed" => message[r].body = "object"
          /\ handler[r] = "refused" => message[r].to_logs /\ Excused(r)
    /\ \A T \in SUBSET Arrived : Admitted \subseteq T => bytes <= Total(message, T)

LEMMA ArrivedTyped ==
    ASSUME StoreInv, IsFiniteSet(Arrived)
    PROVE  /\ \A r \in Arrived : message[r] \in Message /\ message[r].length \in Nat
           /\ \A T \in SUBSET Arrived : IsFiniteSet(T) /\ Total(message, T) \in Nat
           /\ AnnouncedBytes = Total(message, Announced) /\ Announced \in SUBSET Arrived
           /\ AnnouncedBytes \in Nat
<1>1. \A r \in Arrived : message[r] \in Message /\ message[r].length \in Nat
  BY MessageAssumption DEF StoreInv, Arrived, Message
<1>2. \A T \in SUBSET Arrived : IsFiniteSet(T)
  BY FS_Subset
<1>3. \A T \in SUBSET Arrived : Total(message, T) \in Nat
  BY <1>1, <1>2, TotalIs
<1>4. AnnouncedBytes = Total(message, Announced) /\ Announced \in SUBSET Arrived
  BY DEF AnnouncedBytes, Total, Announced
<1> QED BY <1>1, <1>2, <1>3, <1>4

\* Steps that move a handler that had arrived.
LEMMA MovesAdmit ==
    ASSUME StoreInv, AdmitInv, NEW r \in Requests, NEW s \in Stages, Goto(r, s),
           handler[r] # "none", s # "none", s # "received", UNCHANGED message, bytes' \in Nat,
           payloads \in Seq(Payload), payloads' \in Seq(Payload), Len(payloads') >= Len(payloads),
           s \in {"reading", "parsed"} => r \in Announced,
           s = "parsed" => message[r].body = "object",
           s = "refused" => message[r].to_logs /\ Excused(r),
           \/ bytes' = bytes
           \/ /\ bytes' = bytes + message[r].length /\ handler[r] = "received" /\ r \in Announced
    PROVE  AdmitInv' /\ AnnouncedBytes' = AnnouncedBytes
<1>1. \A q \in Requests : handler'[q] = (IF q = r THEN s ELSE handler[q])
  BY DEF StoreInv, CollectorTypeOK, Goto
<1>2. Arrived' = Arrived /\ r \in Arrived
  BY <1>1 DEF Arrived
<1>3. Announced' = Announced
  BY <1>2 DEF Announced
<1>4. AnnouncedBytes' = AnnouncedBytes
  BY <1>3 DEF AnnouncedBytes
<1>5. \A q \in Requests : Excused(q) => Excused(q)'
  <2>1. \A q \in Requests : Receiver!Sound(q)' = Receiver!Sound(q)
    BY DEF Receiver!Sound, Receiver!Sized
  <2>2. Len(payloads) \in Nat /\ Len(payloads') \in Nat
    OBVIOUS
  <2> QED BY <1>4, <2>1, <2>2, LimitAssumption DEF Excused
<1>6. Admitted \subseteq Admitted' /\ Admitted' \subseteq Admitted \cup {r}
      /\ (r \in Announced => r \in Admitted')
  BY <1>1, <1>3 DEF Admitted, Announced, Arrived
<1>7. ASSUME NEW T \in SUBSET Arrived, Admitted' \subseteq T PROVE bytes' <= Total(message, T)
  <2>1. CASE bytes' = bytes
    BY <1>6, <1>7, <2>1 DEF AdmitInv
  <2>2. CASE bytes' = bytes + message[r].length /\ handler[r] = "received" /\ r \in Announced
    <3>1. r \in T /\ T \ {r} \in SUBSET Arrived /\ Admitted \subseteq T \ {r}
      BY <1>6, <1>7, <2>2 DEF Admitted
    <3>2. bytes <= Total(message, T \ {r})
      BY <3>1 DEF AdmitInv
    <3>3. Total(message, T) = message[r].length + Total(message, T \ {r})
      BY <1>7, <3>1, ArrivedTyped, TotalIs DEF AdmitInv
    <3>4. Total(message, T \ {r}) \in Nat /\ message[r].length \in Nat /\ bytes \in Nat
      BY <1>2, <3>1, ArrivedTyped DEF AdmitInv, StoreInv, CollectorTypeOK
    <3> QED BY <2>2, <3>2, <3>3, <3>4
  <2> QED BY <2>1, <2>2
<1>8. \A q \in Requests :
        /\ handler'[q] \in {"reading", "parsed"} => q \in Announced'
        /\ handler'[q] = "parsed" => message'[q].body = "object"
        /\ handler'[q] = "refused" => message'[q].to_logs /\ Excused(q)'
  <2>1. Excused(r) => Excused(r)'
    BY <1>5
  <2> QED BY <1>1, <1>3, <1>5, <2>1 DEF AdmitInv
<1>9. IsFiniteSet(Arrived)'
  BY <1>2 DEF AdmitInv
<1>10. \A T \in SUBSET Arrived' : Admitted' \subseteq T => bytes' <= Total(message', T)
  BY <1>2, <1>7
<1> QED BY <1>4, <1>8, <1>9, <1>10 DEF AdmitInv

\* Bytes were reserved for no more than was announced, so that a batch for
\* which none are left comes on top of that.
LEMMA ReserveExcused ==
    ASSUME StoreInv, AdmitInv, NEW r \in Requests, handler[r] = "received",
           message[r].to_logs, ~Fits(r)
    PROVE  Excused(r)
<1> SUFFICES ASSUME Receiver!Sound(r), ~(Len(payloads) >= MaxPayloads)
             PROVE  AnnouncedBytes > MaxTotalBytes
  BY DEF Excused
<1> DEFINE rest == Announced \ {r}
<1>1. r \in Announced /\ Sized(message[r])
  BY DEF Receiver!Sound, Receiver!Sized, Announced, Arrived, Sized
<1>2. /\ message[r].length \in Nat /\ IsFiniteSet(Announced) /\ bytes \in Nat
      /\ \A q \in Announced : message[q].length \in Nat
      /\ rest \in SUBSET Arrived /\ Total(message, rest) \in Nat
  BY <1>1, ArrivedTyped DEF AdmitInv, StoreInv, CollectorTypeOK
<1>3. bytes <= Total(message, rest)
  <2>1. Admitted \subseteq rest
    BY DEF Admitted
  <2> QED BY <1>2, <2>1 DEF AdmitInv
<1>4. AnnouncedBytes = message[r].length + Total(message, rest)
  BY <1>1, <1>2, ArrivedTyped, TotalIs DEF AdmitInv
<1>5. bytes + message[r].length > MaxTotalBytes
  <2>1. Len(payloads) \in Nat
    BY DEF StoreInv, CollectorTypeOK
  <2> QED BY <1>1, <1>2, <2>1, LimitAssumption DEF Fits, Sized
<1> HIDE DEF rest
<1> QED BY <1>2, <1>3, <1>4, <1>5, LimitAssumption

LEMMA ReceiveAdmit ==
    ASSUME StoreInv, AdmitInv, NEW r \in Requests, NEW m \in Messages, Receive(r, m)
    PROVE  /\ AdmitInv'
           /\ AnnouncedBytes' = IF Receiver!Counted(m) THEN AnnouncedBytes + m.length
                                ELSE AnnouncedBytes
<1>1. /\ \A q \in Requests : /\ handler'[q] = (IF q = r THEN "received" ELSE handler[q])
                             /\ message'[q] = (IF q = r THEN m ELSE message[q])
      /\ handler[r] = "none" /\ UNCHANGED <<bytes, payloads>>
  BY DEF Receive, Goto, StoreInv, CollectorTypeOK
<1>2. r \notin Arrived /\ Arrived' = Arrived \cup {r}
  BY <1>1 DEF Arrived
<1>3. m.length \in Nat
  BY MessageAssumption DEF Message
<1>4. IsFiniteSet(Arrived)'
  BY <1>2, FS_AddElement DEF AdmitInv
<1>5. /\ \A T \in SUBSET Arrived : IsFiniteSet(T) /\ Total(message, T) \in Nat
      /\ \A q \in Arrived : /\ message[q].length \in Nat
                            /\ message'[q] = message[q] /\ message'[q].length = message[q].length
      /\ AnnouncedBytes = Total(message, Announced) /\ Announced \in SUBSET Arrived
  <2>1. \A q \in Arrived : q \in Requests /\ q # r
    BY <1>2 DEF Arrived
  <2> QED BY <1>1, <2>1, ArrivedTyped DEF AdmitInv
<1>6. message'[r].length = m.length
  BY <1>1
<1>7. \A T \in SUBSET Arrived : Total(message', T \cup {r}) = Total(message, T) + m.length
  <2> SUFFICES ASSUME NEW T \in SUBSET Arrived
               PROVE  Total(message', T \cup {r}) = Total(message, T) + m.length
    OBVIOUS
  <2>1. r \notin T /\ IsFiniteSet(T) /\ message'[r].length \in Nat
        /\ \A q \in T : message[q].length \in Nat /\ message'[q].length = message[q].length
    BY <1>2, <1>3, <1>5, <1>6
  <2> QED BY <1>6, <2>1, TotalGrows
<1>8. \A T \in SUBSET Arrived : Total(message', T) = Total(message, T)
  <2> SUFFICES ASSUME NEW T \in SUBSET Arrived PROVE Total(message', T) = Total(message, T)
    OBVIOUS
  <2>1. /\ IsFiniteSet(T)
        /\ \A q \in T : message[q].length \in Nat /\ message'[q].length = message[q].length
    BY <1>5
  <2> QED BY <2>1, TotalIs
<1>9. Announced' = IF Receiver!Counted(m) THEN Announced \cup {r} ELSE Announced
  <2>1. \A q \in Arrived : message'[q] = message[q]
    BY <1>5
  <2>2. message'[r] = m
    BY <1>1
  <2> QED BY <1>2, <2>1, <2>2 DEF Announced, Sized, Receiver!Counted, Receiver!Sized
<1>10. AnnouncedBytes' = Total(message', Announced')
  BY DEF AnnouncedBytes, Total
<1>11. AnnouncedBytes' = IF Receiver!Counted(m) THEN AnnouncedBytes + m.length ELSE AnnouncedBytes
  BY <1>5, <1>7, <1>8, <1>9, <1>10
<1>12. AnnouncedBytes \in Nat /\ AnnouncedBytes' \in Nat /\ AnnouncedBytes' >= AnnouncedBytes
  BY <1>3, <1>5, <1>11
<1>13. \A q \in Requests : q # r /\ Excused(q) => Excused(q)'
  <2>1. \A q \in Requests : q # r => Receiver!Sound(q)' = Receiver!Sound(q)
    BY <1>1 DEF Receiver!Sound, Receiver!Sized
  <2> QED BY <1>1, <1>12, <2>1, LimitAssumption DEF Excused
<1>14. Admitted' = Admitted /\ r \notin Admitted
  <2>1. \A q \in Announced : q # r /\ q \in Requests
    BY <1>2 DEF Announced, Arrived
  <2> QED BY <1>1, <1>9, <2>1 DEF Admitted
<1>15. ASSUME NEW T \in SUBSET Arrived', Admitted' \subseteq T PROVE bytes' <= Total(message', T)
  <2> DEFINE U == T \ {r}
  <2>1. U \in SUBSET Arrived /\ Admitted \subseteq U
    BY <1>2, <1>14, <1>15
  <2>2. bytes <= Total(message, U) /\ Total(message, U) \in Nat /\ bytes \in Nat
    BY <1>5, <2>1 DEF AdmitInv, StoreInv, CollectorTypeOK
  <2>3. Total(message', T) = Total(message, U) + m.length \/ Total(message', T) = Total(message, U)
    <3>1. CASE r \in T
      <4>1. T = U \cup {r}
        BY <3>1
      <4> HIDE DEF U
      <4> QED BY <1>7, <2>1, <4>1
    <3>2. CASE r \notin T
      <4>1. T = U
        BY <3>2
      <4> HIDE DEF U
      <4> QED BY <1>8, <2>1, <4>1
    <3> QED BY <3>1, <3>2
  <2> HIDE DEF U
  <2> QED BY <1>1, <1>3, <2>2, <2>3
<1>16. \A q \in Requests :
        /\ handler'[q] \in {"reading", "parsed"} => q \in Announced'
        /\ handler'[q] = "parsed" => message'[q].body = "object"
        /\ handler'[q] = "refused" => message'[q].to_logs /\ Excused(q)'
  BY <1>1, <1>9, <1>13 DEF AdmitInv
<1> QED BY <1>4, <1>11, <1>15, <1>16 DEF AdmitInv

\* How the handlers' stages look from outside.
Batch == [q \in Requests |-> BatchAt(handler[q])]
LEMMA BatchMoves ==
    ASSUME StoreInv, NEW r \in Requests, NEW s \in Stages, Goto(r, s)
    PROVE  /\ Batch[r] = BatchAt(handler[r]) /\ Batch' = [Batch EXCEPT ![r] = BatchAt(s)]
           /\ BatchAt(s) = BatchAt(handler[r]) => Batch' = Batch
<1>1. \A q \in Requests : handler'[q] = (IF q = r THEN s ELSE handler[q])
  BY DEF StoreInv, CollectorTypeOK, Goto
<1>2. Batch[r] = BatchAt(handler[r])
  BY DEF Batch
<1>3. \A q \in Requests : Batch'[q] = (IF q = r THEN BatchAt(s) ELSE Batch[q])
  BY <1>1 DEF Batch
<1>4. Batch' = [Batch EXCEPT ![r] = BatchAt(s)]
  <2>1. Batch = [q \in Requests |-> Batch[q]] /\ Batch' = [q \in Requests |-> Batch'[q]]
    BY DEF Batch
  <2> HIDE DEF Batch
  <2> QED BY <1>3, <2>1
<1>5. BatchAt(s) = BatchAt(handler[r]) => Batch' = Batch
  BY <1>1 DEF Batch
<1> QED BY <1>2, <1>4, <1>5

LEMMA HeldStays ==
    ASSUME StoreInv, UNCHANGED payloads, \A q \in Holding : message'[q] = message[q]
    PROVE  StoredBytes' = StoredBytes
<1>1. Holding' = Holding
  BY DEF Holding
<1> QED BY <1>1 DEF StoredBytes

LEMMA HeldGrows ==
    ASSUME StoreInv, NEW r \in Requests, Store(r), Len(payloads) < MaxPayloads
    PROVE  StoredBytes' = StoredBytes + message[r].length
<1> DEFINE new == [from |-> r, content |-> message[r].content]
<1>1. handler[r] = "parsed" /\ payloads' = Append(payloads, new) /\ message' = message
  BY DEF Store
<1>2. new \in Payload
  BY <1>1, MessageAssumption DEF StoreInv, Message, Payload
<1>3. /\ payloads \in Seq(Payload)
      /\ DOMAIN payloads' = DOMAIN payloads \cup {Len(payloads) + 1}
      /\ \A k \in DOMAIN payloads : payloads'[k] = payloads[k]
      /\ payloads'[Len(payloads) + 1] = new /\ new.from = r
  BY <1>1, <1>2 DEF StoreInv, CollectorTypeOK
<1> HIDE DEF new
<1>4. Holding' = Holding \cup {r}
  BY <1>3 DEF Holding
<1>5. r \notin Holding /\ IsFiniteSet(Holding)
  BY <1>1, HoldingIsFinite DEF Reserving, StoreInv, Unstored, StoredFrom, Holding
<1>6. message[r].length \in Nat /\ \A q \in Holding : message[q].length \in Nat
  <2>1. \A q \in Requests : handler[q] # "none" => message[q].length \in Nat
    BY MessageAssumption DEF StoreInv, Message
  <2>2. \A q \in Holding : q \in Requests /\ handler[q] # "none"
    BY HoldingIsFinite DEF Reserving
  <2> QED BY <1>1, <2>1, <2>2
<1>7. Total(message, Holding \cup {r}) = Total(message, Holding) + message[r].length
  BY <1>5, <1>6, TotalGrows
<1> QED BY <1>1, <1>4, <1>7 DEF StoredBytes, Total

\* What moves a handler and no payload leaves the receiver as it was, but
\* for the batch.
LEMMA QuietIntake ==
    ASSUME StoreInv, AdmitInv, NEW r \in Requests, NEW s \in Stages, Goto(r, s),
           handler[r] # "none", s # "none", s # "received",
           UNCHANGED <<message, payloads>>, bytes' \in Nat,
           s \in {"reading", "parsed"} => r \in Announced,
           s = "parsed" => message[r].body = "object",
           s = "refused" => message[r].to_logs /\ Excused(r),
           \/ bytes' = bytes
           \/ /\ bytes' = bytes + message[r].length /\ handler[r] = "received" /\ r \in Announced
    PROVE  /\ AdmitInv'
           /\ UNCHANGED <<message, payloads, StoredBytes, AnnouncedBytes>>
           /\ Batch[r] = BatchAt(handler[r]) /\ Batch' = [Batch EXCEPT ![r] = BatchAt(s)]
           /\ BatchAt(s) = BatchAt(handler[r]) => Batch' = Batch
<1>1. payloads \in Seq(Payload) /\ payloads' \in Seq(Payload) /\ Len(payloads') >= Len(payloads)
  BY DEF StoreInv, CollectorTypeOK
<1>2. AdmitInv' /\ AnnouncedBytes' = AnnouncedBytes
  BY <1>1, MovesAdmit
<1>3. StoredBytes' = StoredBytes
  BY HeldStays
<1> QED BY <1>2, <1>3, BatchMoves

\* Each step of a handler is one of the receiver's, or none.
LEMMA WorkIsIntake ==
    ASSUME StoreInv, AdmitInv, MemoryBounded', NEW r \in Requests, Handle(r)
    PROVE  AdmitInv' /\ [Receiver!Next]_(Receiver!intakeVars)
<1> USE DEF Receiver!Next, Receiver!intakeVars
<1>0. /\ payloads \in Seq(Payload) /\ Len(payloads) \in Nat /\ bytes \in Nat
      /\ errors \in Seq(Requests)
  BY DEF StoreInv, CollectorTypeOK
<1>1. \A q \in Requests : handler[q] # "none" => message[q] \in Message /\ message[q].length \in Nat
  BY MessageAssumption DEF StoreInv, Message
<1>2. CASE Stray(r)
  <2>1. Goto(r, "stray") /\ UNCHANGED <<message, bytes, payloads, errors>>
        /\ handler[r] = "received" /\ ~message[r].to_logs
    BY <1>2 DEF Stray
  <2>2. /\ AdmitInv' /\ UNCHANGED <<message, payloads, StoredBytes, AnnouncedBytes>>
        /\ Batch[r] = "open" /\ Batch' = [Batch EXCEPT ![r] = "stray"]
    BY <1>0, <2>1, QuietIntake DEF BatchAt, Stages, Answered
  <2>3. Receiver!Ignore(r)
    BY <2>1, <2>2 DEF Receiver!Ignore, Batch
  <2> QED BY <2>2, <2>3
<1>3. CASE Reserve(r)
  <2>1. handler[r] = "received" /\ message[r].to_logs /\ UNCHANGED <<message, payloads, errors>>
    BY <1>3 DEF Reserve
  <2>2. CASE Fits(r)
    <3>1. Goto(r, "reading") /\ bytes' = bytes + message[r].length /\ bytes' \in Nat
      BY <1>0, <1>1, <1>3, <2>1, <2>2 DEF Reserve
    <3>2. r \in Announced
      BY <2>1, <2>2 DEF Announced, Arrived, Sized, Fits
    <3>3. /\ AdmitInv' /\ UNCHANGED <<message, payloads, StoredBytes, AnnouncedBytes>>
          /\ Batch' = Batch
      BY <2>1, <3>1, <3>2, QuietIntake DEF BatchAt, Stages
    <3> QED BY <2>1, <3>3 DEF Batch
  <2>3. CASE ~Fits(r)
    <3>1. Goto(r, "refused") /\ bytes' = bytes
      BY <1>3, <2>3 DEF Reserve
    <3>2. Excused(r)
      BY <2>1, <2>3, ReserveExcused
    <3>3. /\ AdmitInv' /\ UNCHANGED <<message, payloads, StoredBytes, AnnouncedBytes>>
          /\ Batch' = Batch
      BY <1>0, <2>1, <3>1, <3>2, QuietIntake DEF BatchAt, Stages
    <3> QED BY <2>1, <3>3 DEF Batch
  <2> QED BY <2>2, <2>3
<1>4. CASE Read(r)
  <2>1. handler[r] = "reading" /\ UNCHANGED <<message, payloads, errors, bytes>>
    BY <1>4 DEF Read
  <2>2. r \in Announced /\ message[r].to_logs
    BY <2>1 DEF AdmitInv, Announced
  <2>3. CASE message[r].body = "object"
    <3>1. Goto(r, "parsed")
      BY <1>4, <2>3 DEF Read
    <3>2. /\ AdmitInv' /\ UNCHANGED <<message, payloads, StoredBytes, AnnouncedBytes>>
          /\ Batch' = Batch
      BY <1>0, <2>1, <2>2, <2>3, <3>1, QuietIntake DEF BatchAt, Stages
    <3> QED BY <2>1, <3>2 DEF Batch
  <2>4. CASE message[r].body # "object"
    <3>1. Goto(r, "refused") /\ Excused(r)
      BY <1>4, <2>4 DEF Read, Excused, Receiver!Sound
    <3>2. /\ AdmitInv' /\ UNCHANGED <<message, payloads, StoredBytes, AnnouncedBytes>>
          /\ Batch' = Batch
      BY <1>0, <2>1, <2>2, <3>1, QuietIntake DEF BatchAt, Stages
    <3> QED BY <2>1, <3>2 DEF Batch
  <2> QED BY <2>3, <2>4
<1>5. CASE Store(r)
  <2>1. handler[r] = "parsed" /\ UNCHANGED <<message, bytes, errors>>
    BY <1>5 DEF Store
  <2>2. r \in Announced /\ message[r].to_logs /\ message[r].body = "object"
    BY <2>1 DEF AdmitInv, Announced
  <2>3. CASE Len(payloads) < MaxPayloads
    <3>1. Goto(r, "stored")
          /\ payloads' = Append(payloads, [from |-> r, content |-> message[r].content])
      BY <1>5, <2>3 DEF Store
    <3>2. payloads' \in Seq(Payload) /\ Len(payloads') >= Len(payloads)
      <4>1. [from |-> r, content |-> message[r].content] \in Payload
        BY <1>1, <2>1 DEF Payload, Message
      <4> QED BY <1>0, <3>1, <4>1
    <3>3. AdmitInv' /\ AnnouncedBytes' = AnnouncedBytes
      BY <1>0, <2>1, <3>1, <3>2, MovesAdmit DEF Stages
    <3>4. StoredBytes' = StoredBytes + message[r].length
      BY <1>5, <2>3, HeldGrows
    <3>5. Batch[r] = "open" /\ Batch' = [Batch EXCEPT ![r] = "kept"]
      BY <2>1, <3>1, BatchMoves DEF BatchAt, Stages
    <3>6. Len(payloads') <= MaxPayloads /\ StoredBytes' <= MaxTotalBytes
      <4>1. Len(payloads') <= MaxPayloads /\ StoredBytes' <= bytes' /\ bytes' <= MaxTotalBytes
        BY DEF MemoryBounded, CountBounded, BytesBounded
      <4>2. bytes' \in Nat /\ StoredBytes' \in Nat
        <5>1. bytes' \in Nat
          BY <1>0, <2>1
        <5>2. StoredBytes \in Nat
          <6>1. \A q \in Holding : message[q].length \in Nat
            BY <1>1, HoldingIsFinite DEF Reserving
          <6> QED BY <6>1, HoldingIsFinite, TotalIs DEF StoredBytes, Total
        <5> QED BY <1>1, <2>1, <3>4, <5>1, <5>2
      <4> QED BY <4>1, <4>2, LimitAssumption
    <3>7. Receiver!Sound(r)
      BY <2>2 DEF Announced, Sized, Receiver!Sound, Receiver!Sized
    <3>8. Receiver!Keep(r)
      BY <2>1, <2>2, <3>1, <3>3, <3>4, <3>5, <3>6, <3>7 DEF Receiver!Keep, Batch
    <3> QED BY <3>3, <3>8
  <2>4. CASE ~(Len(payloads) < MaxPayloads)
    <3>1. Goto(r, "refused") /\ UNCHANGED payloads
      BY <1>5, <2>4 DEF Store
    <3>2. Excused(r)
      BY <1>0, <2>4, LimitAssumption DEF Excused
    <3>3. /\ AdmitInv' /\ UNCHANGED <<message, payloads, StoredBytes, AnnouncedBytes>>
          /\ Batch' = Batch
      BY <1>0, <2>1, <2>2, <3>1, <3>2, QuietIntake DEF BatchAt, Stages
    <3> QED BY <2>1, <3>3 DEF Batch
  <2> QED BY <2>3, <2>4
<1>6. CASE Refuse(r)
  <2>1. /\ handler[r] = "refused" /\ UNCHANGED <<message, bytes, payloads>>
        /\ Goto(r, "rejected") /\ errors' # <<>>
    BY <1>0, <1>6, LimitAssumption DEF Refuse
  <2>2. message[r].to_logs /\ Excused(r)
    BY <2>1 DEF AdmitInv
  <2>3. /\ AdmitInv' /\ UNCHANGED <<message, payloads, StoredBytes, AnnouncedBytes>>
        /\ Batch[r] = "open" /\ Batch' = [Batch EXCEPT ![r] = "turned away"]
    BY <1>0, <2>1, QuietIntake DEF BatchAt, Stages
  <2>4. Receiver!TurnAway(r)
    BY <2>1, <2>2, <2>3 DEF Receiver!TurnAway, Batch, Excused
  <2> QED BY <2>3, <2>4
<1>7. CASE Answer(r)
  <2> DEFINE s == IF handler[r] = "stored" THEN "ok" ELSE "bad"
  <2>1. /\ handler[r] \in {"stored", "rejected"} /\ Goto(r, s)
        /\ UNCHANGED <<message, bytes, payloads, errors>>
        /\ s \in Stages /\ s \in {"ok", "bad"}
    BY <1>7 DEF Answer, Stages, Answered
  <2>2. /\ Batch[r] = BatchAt(handler[r]) /\ BatchAt(s) = s
        /\ BatchAt(handler[r]) = IF handler[r] = "stored" THEN "kept" ELSE "turned away"
    BY <2>1, BatchMoves DEF BatchAt
  <2> HIDE DEF s
  <2>3. /\ AdmitInv' /\ UNCHANGED <<message, payloads, StoredBytes, AnnouncedBytes>>
        /\ Batch' = [Batch EXCEPT ![r] = s]
    BY <1>0, <2>1, <2>2, QuietIntake
  <2>4. Receiver!Tell(r)
    BY <2>1, <2>2, <2>3 DEF Receiver!Tell, Batch, s
  <2> QED BY <2>3, <2>4
<1> QED BY <1>2, <1>3, <1>4, <1>5, <1>6, <1>7 DEF Handle

LEMMA StepIsIntake ==
    ASSUME StoreInv, AdmitInv, MemoryBounded', [Next]_vars
    PROVE  AdmitInv' /\ [Receiver!Next]_(Receiver!intakeVars)
<1>1. ASSUME NEW r \in Requests, Send(r)
      PROVE  AdmitInv' /\ [Receiver!Next]_(Receiver!intakeVars)
  <2>1. PICK m \in Messages : Receive(r, m)
    BY <1>1 DEF Send
  <2>2. /\ handler[r] = "none" /\ Goto(r, "received") /\ UNCHANGED <<bytes, payloads, errors>>
        /\ message' = [message EXCEPT ![r] = m]
    BY <2>1 DEF Receive
  <2>3. AdmitInv' /\ AnnouncedBytes' = IF Receiver!Counted(m) THEN AnnouncedBytes + m.length
                                       ELSE AnnouncedBytes
    BY <2>1, ReceiveAdmit
  <2>4. StoredBytes' = StoredBytes
    <3>1. \A q \in Holding : q \in Requests /\ q # r
      BY <2>2, HoldingIsFinite DEF Reserving
    <3>2. \A q \in Holding : message'[q] = message[q]
      BY <2>2, <3>1 DEF StoreInv, CollectorTypeOK
    <3> QED BY <2>2, <3>2, HeldStays
  <2>5. Batch[r] = "none" /\ Batch' = [Batch EXCEPT ![r] = "open"]
    BY <2>2, BatchMoves DEF BatchAt, Stages
  <2>6. Receiver!Arrive(r, m)
    BY <2>2, <2>3, <2>4, <2>5 DEF Receiver!Arrive, Batch
  <2> QED BY <2>3, <2>6 DEF Receiver!Next
<1>2. ASSUME NEW r \in Requests, Work(r)
      PROVE  AdmitInv' /\ [Receiver!Next]_(Receiver!intakeVars)
  BY <1>2, WorkIsIntake DEF Work
<1>3. CASE UNCHANGED collector
  <2>1. UNCHANGED <<message, handler, bytes, payloads, errors>>
    BY <1>3 DEF collector
  <2>2. /\ UNCHANGED <<Arrived, Announced, AnnouncedBytes, StoredBytes, Batch>>
    BY <2>1 DEF Arrived, Announced, AnnouncedBytes, StoredBytes, Holding, Batch
  <2>3. AdmitInv'
    BY <2>1, <2>2 DEF AdmitInv, Admitted, Excused, Receiver!Sound, Receiver!Sized
  <2> QED BY <2>1, <2>2, <2>3 DEF Receiver!intakeVars, Batch
<1> QED
  BY <1>1, <1>2, <1>3 DEF Next, AgentExits, Abandon, Analyse, Conclude, vars

LEMMA InitIntake == Init => AdmitInv /\ Receiver!Init
<1> SUFFICES ASSUME Init PROVE AdmitInv /\ Receiver!Init
  OBVIOUS
<1>1. /\ bytes = 0 /\ payloads = <<>> /\ errors = <<>>
      /\ message = [r \in Requests |-> NoMessage] /\ handler = [r \in Requests |-> "none"]
  BY DEF Init, CollectorInit
<1>2. Arrived = {} /\ Announced = {} /\ Holding = {}
  BY <1>1 DEF Arrived, Announced, Holding
<1>3. Total(message, {}) = 0 /\ IsFiniteSet({})
  <2>1. SumFunctionOnSet([r \in {} |-> message[r].length], {}) = 0
    BY FS_EmptySet, SumUnfolds
  <2> QED BY <2>1, FS_EmptySet DEF Total, SumFunction, SumFunctionOnSet, FoldFunction
<1>4. AnnouncedBytes = 0 /\ StoredBytes = 0
  BY <1>2, <1>3 DEF AnnouncedBytes, StoredBytes, Total
<1>5. AdmitInv
  <2>1. \A r \in Requests : handler[r] = "none"  BY <1>1
  <2>2. \A T \in SUBSET Arrived : bytes <= Total(message, T)
    <3>1. \A T \in SUBSET Arrived : T = {}  BY <1>2
    <3>2. bytes <= Total(message, {})  BY <1>1, <1>3
    <3> QED  BY <3>1, <3>2
  <2>3. IsFiniteSet(Arrived)  BY <1>2, <1>3
  <2> QED  BY <2>1, <2>2, <2>3 DEF AdmitInv
<1>6. [r \in Requests |-> BatchAt(handler[r])] = [r \in Requests |-> "none"]
  BY <1>1 DEF BatchAt
<1> QED BY <1>1, <1>4, <1>5, <1>6 DEF Receiver!Init

\* The handler threads, with what they reserve, read outside the lock and
\* check a second time, are one receiver that keeps each batch whole or
\* turns it away in a single step, and a sound one for want of room only.
THEOREM CollectorCorrect == Spec => CollectorIsIntake
<1>1. StoreInv /\ AdmitInv /\ MemoryBounded' /\ [Next]_vars
        => AdmitInv' /\ [Receiver!Next]_(Receiver!intakeVars)
  BY StepIsIntake
<1> QED
  BY <1>1, InitIntake, StoreHolds, MemoryIsBounded, PTL DEF Spec, CollectorIsIntake, Receiver!Spec
=============================================================================
