---------------------------- MODULE CodexProofs ----------------------------
(***************************************************************************)
(* The client of the Codex App Server implements an ordered inbox, for any *)
(* number of requests, whatever the server writes and however calls end.   *)
(***************************************************************************)
EXTENDS CodexClient, SequenceTheorems, TLAPS

Anything == UNION {Messages(n) : n \in Nat}

\* What is set aside belongs to a request in progress and does not decide it.
ClientInv ==
    /\ queue \in Seq(Anything) /\ pending \in Seq(Anything) /\ deferred \in Seq(Anything)
    /\ requestId \in Nat
    /\ call \in {"idle", "request", "next"}
    /\ call # "request" => deferred = <<>>
    /\ \A j \in DOMAIN deferred : ~Broken(deferred[j]) /\ ~Answers(deferred[j], requestId)

\* The part of the inbox that _next takes from.
Ahead == pending \o queue

LEMMA WaitingIs ==
    ASSUME ClientInv
    PROVE  /\ Ahead \in Seq(Anything)
           /\ Waiting = deferred \o Ahead
  BY ConcatProperties, ConcatAssociative DEF ClientInv, Waiting, Ahead

\* Removing the head of r from d \o r.
LEMMA RemoveHead ==
    ASSUME NEW S, NEW d \in Seq(S), NEW r \in Seq(S), r # <<>>
    PROVE  /\ Len(d) + 1 \in DOMAIN (d \o r)
           /\ (d \o r)[Len(d) + 1] = Head(r)
           /\ \A j \in 1..Len(d) : (d \o r)[j] = d[j]
           /\ Abstract!Without(d \o r, Len(d) + 1) = d \o Tail(r)
<1> DEFINE w == d \o r
           v == d \o Tail(r)
           n == Len(d) + 1
<1>1. /\ Len(r) \in Nat \ {0} /\ Len(d) \in Nat
      /\ Tail(r) \in Seq(S) /\ Len(Tail(r)) = Len(r) - 1
      /\ \A i \in 1..Len(Tail(r)) : Tail(r)[i] = r[i + 1]
  BY HeadTailProperties, EmptySeq, LenProperties
<1>2. /\ w \in Seq(S) /\ Len(w) = Len(d) + Len(r)
      /\ \A i \in 1..(Len(d) + Len(r)) : w[i] = IF i <= Len(d) THEN d[i] ELSE r[i - Len(d)]
  BY ConcatProperties
<1>3. /\ v \in Seq(S) /\ Len(v) = Len(d) + Len(r) - 1
      /\ \A i \in 1..(Len(d) + Len(r) - 1) :
            v[i] = IF i <= Len(d) THEN d[i] ELSE Tail(r)[i - Len(d)]
  <2>1. /\ v \in Seq(S) /\ Len(v) = Len(d) + Len(Tail(r))
        /\ \A i \in 1..(Len(d) + Len(Tail(r))) :
              v[i] = IF i <= Len(d) THEN d[i] ELSE Tail(r)[i - Len(d)]
    BY <1>1, ConcatProperties
  <2> QED  BY <1>1, <2>1
<1>4. n \in DOMAIN w
  BY <1>1, <1>2, LenProperties
<1>5. w[n] = Head(r)
  BY <1>1, <1>2
<1>6. \A j \in 1..Len(d) : w[j] = d[j]
  BY <1>1, <1>2
<1>7. DOMAIN v = 1..(Len(w) - 1)
  BY <1>1, <1>2, <1>3, LenProperties
<1>8. \A i \in 1..(Len(w) - 1) : v[i] = IF i < n THEN w[i] ELSE w[i + 1]
  <2> SUFFICES ASSUME NEW i \in 1..(Len(w) - 1)
               PROVE  v[i] = IF i < n THEN w[i] ELSE w[i + 1]
    OBVIOUS
  <2>1. CASE i <= Len(d)
    BY <1>1, <1>2, <1>3, <2>1
  <2>2. CASE i > Len(d)
    <3>1. v[i] = Tail(r)[i - Len(d)]
      BY <1>1, <1>2, <1>3, <2>2
    <3>2. Tail(r)[i - Len(d)] = r[i - Len(d) + 1]
      BY <1>1, <1>2, <2>2
    <3>3. w[i + 1] = r[i + 1 - Len(d)]
      BY <1>1, <1>2, <2>2
    <3>4. i - Len(d) + 1 = i + 1 - Len(d)
      BY <1>1, <1>2
    <3> QED  BY <1>1, <2>2, <3>1, <3>2, <3>3, <3>4
  <2> QED  BY <1>1, <2>1, <2>2
<1>9. Abstract!Without(w, n) = v
  <2>1. v = [i \in 1..(Len(w) - 1) |-> v[i]]
    BY <1>3, <1>7, LenProperties
  <2>2. Abstract!Without(w, n) = [i \in 1..(Len(w) - 1) |-> IF i < n THEN w[i] ELSE w[i + 1]]
    BY DEF Abstract!Without
  <2> QED  BY <1>8, <2>1, <2>2
<1> QED  BY <1>4, <1>5, <1>6, <1>9

\* A message that arrives is the last of the inbox.
LEMMA ReceiveStep ==
    ASSUME ClientInv, NEW m \in Messages(requestId), Receive(m)
    PROVE  ClientInv' /\ Abstract!Arrive
<1>1. m \in Anything
  BY DEF ClientInv, Anything
<1>2. queue' \in Seq(Anything) /\ queue' = queue \o <<m>> /\ <<m>> \in Seq(Anything)
  BY <1>1, AppendProperties, AppendIsConcat DEF ClientInv, Receive
<1>3. ClientInv'
  BY <1>2 DEF ClientInv, Receive
<1>4. Waiting' = Waiting \o <<m>>
  <2>1. deferred \o pending \in Seq(Anything)
    BY ConcatProperties DEF ClientInv
  <2>2. (deferred \o pending) \o (queue \o <<m>>) = ((deferred \o pending) \o queue) \o <<m>>
    BY <1>2, <2>1, ConcatAssociative DEF ClientInv
  <2> QED  BY <1>2, <2>2 DEF Waiting, Receive
<1>5. Waiting \in Seq(Anything)
  BY WaitingIs, ConcatProperties DEF ClientInv
<1>6. Waiting' = Append(Waiting, m)
  BY <1>1, <1>4, <1>5, AppendIsConcat
<1>7. /\ Waiting' # <<>> /\ Len(Waiting') = Len(Waiting) + 1
      /\ Waiting'[Len(Waiting) + 1] = m
  BY <1>1, <1>5, <1>6, AppendProperties
<1>8. m \in Abstract!Messages(requestId)
  BY DEF Messages, Responses, Garbage, EndOfStream, Abstract!Messages, Abstract!Responses,
     Abstract!Garbage, Abstract!EndOfStream
<1>9. requestId' = requestId /\ call' = call /\ result' = result
  BY DEF Receive
<1> QED
  BY <1>3, <1>6, <1>7, <1>8, <1>9 DEF Abstract!Arrive

LEMMA RequestStep ==
    ASSUME ClientInv, Request
    PROVE  ClientInv' /\ Abstract!Ask
<1>1. ClientInv'
  BY DEF ClientInv, Request
<1>2. Waiting' = Waiting
  BY DEF Waiting, Request
<1> QED
  BY <1>1, <1>2 DEF Request, Abstract!Ask, Raised, Garbage, Abstract!Raised, Abstract!Garbage

LEMMA NextMessageStep ==
    ASSUME ClientInv, NextMessage
    PROVE  ClientInv' /\ Abstract!Listen
<1>1. ClientInv'
  BY DEF ClientInv, NextMessage
<1>2. Waiting' = Waiting
  BY DEF Waiting, NextMessage
<1> QED
  BY <1>1, <1>2 DEF NextMessage, Abstract!Listen

LEMMA TimeOutStep ==
    ASSUME ClientInv, TimeOut
    PROVE  ClientInv' /\ Abstract!Expire
<1>1. /\ queue = <<>> /\ pending = <<>> /\ queue' = <<>> /\ deferred' = <<>>
      /\ pending' = deferred \o <<>> /\ call' = "idle" /\ result' = Raised
      /\ requestId' = requestId
  BY DEF TimeOut, End, PutBack
<1>2. /\ deferred \o <<>> = deferred /\ <<>> \o deferred = deferred
      /\ <<>> \in Seq(Anything)
  BY ConcatEmptySeq, EmptySeq DEF ClientInv
<1>3. Waiting = deferred /\ Waiting' = deferred
  BY <1>1, <1>2 DEF Waiting
<1>4. ClientInv'
  BY <1>1, <1>2 DEF ClientInv
<1>5. call = "request" => \A i \in DOMAIN Waiting : ~Abstract!Decides(i)
  BY <1>3 DEF ClientInv, Abstract!Decides, Broken, Answers, Abstract!Broken, Abstract!Answers
<1>6. call = "request" \/ (call = "next" /\ Waiting = <<>>)
  BY <1>3 DEF ClientInv, TimeOut
<1> QED
  BY <1>1, <1>3, <1>4, <1>5, <1>6
  DEF Abstract!Expire, Raised, Garbage, Abstract!Raised, Abstract!Garbage

\* What _next takes, and what remains of the two queues.
Taken == IF pending # <<>> THEN Head(pending) ELSE Head(queue)
Left == IF pending # <<>> THEN Tail(pending) ELSE <<>>
Rest == IF pending # <<>> THEN queue ELSE Tail(queue)

\* What _next takes is the head of the part ahead.
LEMMA TakeIs ==
    ASSUME ClientInv, pending # <<>> \/ queue # <<>>
    PROVE  /\ Ahead # <<>> /\ Taken = Head(Ahead) /\ Taken \in Anything
           /\ Left \in Seq(Anything) /\ Rest \in Seq(Anything)
           /\ Left \o Rest = Tail(Ahead)
<1> USE DEF Taken, Left, Rest
<1>1. CASE pending = <<>>
  <2>1. Ahead = queue /\ Left = <<>> /\ Rest = Tail(queue)
    BY <1>1, ConcatEmptySeq DEF Ahead, ClientInv
  <2>2. Head(queue) \in Anything /\ Tail(queue) \in Seq(Anything) /\ <<>> \in Seq(Anything)
    BY <1>1, HeadTailProperties, EmptySeq DEF ClientInv
  <2> QED  BY <1>1, <2>1, <2>2, ConcatEmptySeq
<1>2. CASE pending # <<>>
  <2>1. /\ Head(pending) \in Anything /\ Tail(pending) \in Seq(Anything)
        /\ queue \in Seq(Anything) /\ pending \in Seq(Anything)
    BY <1>2, HeadTailProperties DEF ClientInv
  <2>2. pending = <<Head(pending)>> \o Tail(pending) /\ <<Head(pending)>> \in Seq(Anything)
    <3>1. <<Head(pending)>> \in Seq(Anything)
      BY <2>1
    <3>2. pending = <<Head(pending)>> \o Tail(pending)
      BY <1>2, <2>1
    <3> QED  BY <3>1, <3>2
  <2>3. Ahead = <<Head(pending)>> \o (Tail(pending) \o queue)
    BY <2>1, <2>2, ConcatAssociative DEF Ahead
  <2>4. Tail(pending) \o queue \in Seq(Anything)
    BY <2>1, ConcatProperties
  <2>5. Ahead # <<>> /\ Head(Ahead) = Head(pending) /\ Tail(Ahead) = Tail(pending) \o queue
    BY <2>1, <2>3, <2>4
  <2> QED  BY <1>2, <2>1, <2>5
<1> QED  BY <1>1, <1>2

\* A message taken is delivered, decides the request or is set aside.
LEMMA TakeStep ==
    ASSUME ClientInv, Take
    PROVE  /\ ClientInv'
           /\ \/ Abstract!Deliver
              \/ \E i \in DOMAIN Waiting : Abstract!Conclude(i)
              \/ UNCHANGED Abstract!inboxVars
<1>1. /\ Ahead # <<>> /\ Taken = Head(Ahead) /\ Taken \in Anything
      /\ Left \in Seq(Anything) /\ Rest \in Seq(Anything) /\ Left \o Rest = Tail(Ahead)
  <2>1. pending # <<>> \/ queue # <<>>
    BY DEF Take
  <2> QED  BY <2>1, TakeIs
<1>2. Ahead \in Seq(Anything) /\ Waiting = deferred \o Ahead /\ deferred \in Seq(Anything)
  BY WaitingIs DEF ClientInv
<1>3. queue' = Rest /\ requestId' = requestId
  BY DEF Take, Rest
<1>4. /\ Len(deferred) + 1 \in DOMAIN Waiting /\ Waiting[Len(deferred) + 1] = Taken
      /\ \A j \in 1..Len(deferred) : Waiting[j] = deferred[j]
      /\ Abstract!Without(Waiting, Len(deferred) + 1) = deferred \o Tail(Ahead)
  BY <1>1, <1>2, RemoveHead
<1>5. /\ deferred \o Left \in Seq(Anything)
      /\ (deferred \o Left) \o Rest = deferred \o Tail(Ahead)
      /\ <<>> \in Seq(Anything) /\ <<>> \o (deferred \o Left) = deferred \o Left
  <2>1. deferred \o Left \in Seq(Anything)
    BY <1>1, <1>2, ConcatProperties
  <2>2. (deferred \o Left) \o Rest = deferred \o (Left \o Rest)
    <3>1. deferred \in Seq(Anything) /\ Left \in Seq(Anything) /\ Rest \in Seq(Anything)
      BY <1>1, <1>2
    <3> QED  BY ONLY <3>1, ConcatAssociative
  <2>3. <<>> \in Seq(Anything) /\ <<>> \o (deferred \o Left) = deferred \o Left
    BY <2>1, EmptySeq, ConcatEmptySeq
  <2> QED  BY <1>1, <2>1, <2>2, <2>3
<1>6. ASSUME NEW outcome, End(outcome, Left)
      PROVE  /\ ClientInv' /\ Waiting' = deferred \o Tail(Ahead)
             /\ call' = "idle" /\ result' = outcome
  <2>1. /\ pending' = deferred \o Left /\ deferred' = <<>>
        /\ call' = "idle" /\ result' = outcome
    BY <1>6 DEF End, PutBack
  <2>2. Waiting' = deferred \o Tail(Ahead)
    BY <1>3, <1>5, <2>1 DEF Waiting
  <2>3. ClientInv'
    BY <1>1, <1>3, <1>5, <2>1 DEF ClientInv
  <2> QED  BY <2>1, <2>2, <2>3
<1>7. CASE call = "next" /\ End(Delivered(Taken), Left)
  <2>1. deferred = <<>>
    BY <1>7 DEF ClientInv
  <2>2. Waiting = Ahead /\ deferred \o Tail(Ahead) = Tail(Ahead)
    <3>1. Tail(Ahead) \in Seq(Anything)
      BY <1>1, <1>2, HeadTailProperties
    <3> QED  BY <1>2, <2>1, <3>1, ConcatEmptySeq
  <2>3. /\ ClientInv' /\ Waiting' = Tail(Waiting)
        /\ call' = "idle" /\ result' = Delivered(Head(Waiting)) /\ Waiting # <<>>
    BY <1>1, <1>6, <1>7, <2>2
  <2>4. Abstract!Deliver
    BY <1>3, <1>7, <2>3
    DEF Abstract!Deliver, Delivered, Broken, Raised, Garbage,
        Abstract!Delivered, Abstract!Broken, Abstract!Raised, Abstract!Garbage
  <2> QED  BY <2>3, <2>4
<1>8. CASE /\ call = "request" /\ (Broken(Taken) \/ Answers(Taken, requestId))
           /\ End(Returned(Taken), Left)
  <2> DEFINE i == Len(deferred) + 1
  <2>1. /\ ClientInv' /\ Waiting' = Abstract!Without(Waiting, i)
        /\ call' = "idle" /\ result' = Returned(Waiting[i])
    BY <1>4, <1>6, <1>8
  <2>2. Abstract!Decides(i)
    BY <1>4, <1>8
    DEF Abstract!Decides, Broken, Answers, Abstract!Broken, Abstract!Answers
  <2>3. \A j \in 1..(i - 1) : ~Abstract!Decides(j)
    <3>1. Len(deferred) \in Nat /\ DOMAIN deferred = 1..Len(deferred)
      BY <1>2, LenProperties
    <3>2. 1..(i - 1) = 1..Len(deferred)
      BY <3>1
    <3> QED  BY <1>4, <3>1, <3>2
        DEF ClientInv, Abstract!Decides, Broken, Answers, Abstract!Broken, Abstract!Answers
  <2>4. result' = Abstract!Returned(Waiting[i])
    BY <2>1 DEF Returned, Raised, Garbage, Abstract!Returned, Abstract!Raised, Abstract!Garbage
  <2>5. Abstract!Conclude(i)
    <3>1. call = "request" /\ requestId' = requestId
      BY <1>3, <1>8
    <3> HIDE DEF i
    <3> QED  BY <2>1, <2>2, <2>3, <2>4, <3>1, Zenon DEF Abstract!Conclude
  <2> QED  BY <1>4, <2>1, <2>5
<1>9. CASE /\ call = "request" /\ ~Broken(Taken) /\ ~Answers(Taken, requestId)
           /\ deferred' = Append(deferred, Taken) /\ pending' = Left
           /\ UNCHANGED <<call, result>>
  <2>1. /\ deferred' \in Seq(Anything) /\ Len(deferred') = Len(deferred) + 1
        /\ \A j \in 1..Len(deferred) : deferred'[j] = deferred[j]
        /\ deferred'[Len(deferred) + 1] = Taken
        /\ deferred' = deferred \o <<Taken>> /\ <<Taken>> \in Seq(Anything)
    BY <1>1, <1>2, <1>9, AppendProperties, AppendIsConcat
  <2>2. \A j \in DOMAIN deferred' : ~Broken(deferred'[j]) /\ ~Answers(deferred'[j], requestId)
    <3>1. Len(deferred) \in Nat /\ DOMAIN deferred = 1..Len(deferred) /\ DOMAIN deferred' = 1..Len(deferred')
      BY <1>2, <2>1, LenProperties
    <3>2. \A j \in DOMAIN deferred' : j \in DOMAIN deferred \/ j = Len(deferred) + 1
      BY <2>1, <3>1
    <3> QED  BY <1>9, <2>1, <3>1, <3>2 DEF ClientInv
  <2>3. ClientInv'
    BY <1>1, <1>3, <1>9, <2>1, <2>2 DEF ClientInv
  <2>4. Waiting' = Waiting
    <3>1. Tail(Ahead) \in Seq(Anything) /\ Ahead = <<Taken>> \o Tail(Ahead)
      BY <1>1, <1>2, HeadTailProperties
    <3>2. Waiting' = ((deferred \o <<Taken>>) \o Left) \o Rest
      BY <1>3, <1>9, <2>1 DEF Waiting
    <3>3. deferred \o <<Taken>> \in Seq(Anything)
      BY <2>1
    <3>4. ((deferred \o <<Taken>>) \o Left) \o Rest = (deferred \o <<Taken>>) \o (Left \o Rest)
      <4>1. /\ deferred \o <<Taken>> \in Seq(Anything)
            /\ Left \in Seq(Anything) /\ Rest \in Seq(Anything)
        BY <1>1, <3>3
      <4> QED  BY ONLY <4>1, ConcatAssociative
    <3>5. (deferred \o <<Taken>>) \o Tail(Ahead) = deferred \o (<<Taken>> \o Tail(Ahead))
      BY <1>2, <2>1, <3>1, ConcatAssociative
    <3> QED  BY <1>1, <1>2, <3>1, <3>2, <3>4, <3>5
  <2>5. UNCHANGED Abstract!inboxVars
    BY <1>3, <1>9, <2>4 DEF Abstract!inboxVars
  <2> QED  BY <2>3, <2>5
<1>10. \/ call = "next" /\ End(Delivered(Taken), Left)
       \/ /\ call = "request" /\ (Broken(Taken) \/ Answers(Taken, requestId))
          /\ End(Returned(Taken), Left)
       \/ /\ call = "request" /\ ~Broken(Taken) /\ ~Answers(Taken, requestId)
          /\ deferred' = Append(deferred, Taken) /\ pending' = Left
          /\ UNCHANGED <<call, result>>
  BY DEF Take, Taken, Left
<1> QED  BY <1>7, <1>8, <1>9, <1>10

LEMMA StartsEmpty == ClientInit => ClientInv /\ Abstract!Init
<1> SUFFICES ASSUME ClientInit PROVE ClientInv /\ Abstract!Init
  OBVIOUS
<1>1. Waiting = <<>> /\ <<>> \in Seq(Anything)
  BY EmptySeq, ConcatEmptySeq DEF ClientInit, Waiting
<1> QED
  BY <1>1 DEF ClientInit, ClientInv, Abstract!Init, Raised, Garbage,
     Abstract!Raised, Abstract!Garbage

LEMMA StepSimulation ==
    ASSUME ClientInv, [ClientNext]_client
    PROVE  ClientInv' /\ [Abstract!Next]_(Abstract!inboxVars)
<1>1. ASSUME NEW m \in Messages(requestId), Receive(m)
      PROVE  ClientInv' /\ Abstract!Next
  BY <1>1, ReceiveStep DEF Abstract!Next
<1>2. CASE Request
  BY <1>2, RequestStep DEF Abstract!Next
<1>3. CASE NextMessage
  BY <1>3, NextMessageStep DEF Abstract!Next
<1>4. CASE Take
  BY <1>4, TakeStep DEF Abstract!Next
<1>5. CASE TimeOut
  BY <1>5, TimeOutStep DEF Abstract!Next
<1>6. CASE UNCHANGED client
  BY <1>6 DEF client, ClientInv, Waiting, Abstract!inboxVars
<1> QED  BY <1>1, <1>2, <1>3, <1>4, <1>5, <1>6 DEF ClientNext

\* CodexAppServer is an ordered inbox: no call loses a message, delivers it
\* twice or lets a later one overtake it, and a call times out only when
\* nothing that arrived could end it.
THEOREM ClientCorrect == ClientSpec => ClientIsInbox
<1>1. ClientInit => ClientInv /\ Abstract!Init
  BY StartsEmpty
<1>2. ClientInv /\ [ClientNext]_client => ClientInv' /\ [Abstract!Next]_(Abstract!inboxVars)
  BY StepSimulation
<1> QED
  BY <1>1, <1>2, PTL DEF ClientSpec, ClientIsInbox, Abstract!Spec
=============================================================================
