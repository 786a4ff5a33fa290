---------------------------- MODULE EngineProofs ---------------------------
(***************************************************************************)
(* Proofs about the evaluator, for every set of identifiers, every policy, *)
(* every alphabet and every bound on the length of a trace.                *)
(***************************************************************************)
EXTENDS EngineProps, FiniteSetTheorems, WellFoundedInduction, TLAPS

-----------------------------------------------------------------------------
(* The first line of a set of lines.                                       *)

\* Every non-empty set of naturals has a least element: the intervals 1..k
\* are finite sets, and strict inclusion of finite sets is well founded.
LEMMA LeastExists ==
  ASSUME NEW S \in SUBSET Nat, S # {}
  PROVE  \E k \in S : \A l \in S : k <= l
<1> DEFINE R == StrictSubsetOrdering(Nat)
           T == {1..k : k \in S}
<1>1. IsWellFoundedOn(R, FiniteSubsetsOf(Nat))
  BY FS_StrictSubsetOrderingWellFounded
<1>2. T \subseteq FiniteSubsetsOf(Nat)
  BY FS_Interval DEF FiniteSubsetsOf
<1>3. T # {}
  OBVIOUS
<1>4. PICK X \in T : \A Y \in T : <<Y, X>> \notin R
  <2> HIDE DEF R, T
  <2> QED  BY <1>1, <1>2, <1>3, WFMin
<1>5. PICK k \in S : X = 1..k
  OBVIOUS
<1>6. ASSUME NEW l \in S, l < k
      PROVE  FALSE
  <2>1. k \in 1..k /\ k \notin 1..l
    BY <1>6
  <2>2. 1..l \subseteq 1..k /\ 1..l # 1..k /\ 1..k \subseteq Nat
    BY <1>6, <2>1
  <2>3. <<1..l, 1..k>> \in R
    BY <2>2 DEF StrictSubsetOrdering
  <2> QED  BY <2>3, <1>4, <1>5
<1> QED  BY <1>6

\* First returns the least member of a set of lines, and 0 for no line.
LEMMA FirstLine ==
  ASSUME NEW n \in Nat, NEW S \in SUBSET (1..n)
  PROVE  /\ First(S) \in 0..n
         /\ S = {} => First(S) = 0
         /\ S # {} => First(S) \in S /\ \A l \in S : First(S) <= l
<1>1. CASE S = {}
  BY <1>1 DEF First
<1>2. CASE S # {}
  <2>1. S \in SUBSET Nat
    OBVIOUS
  <2>2. \E k \in S : \A l \in S : k <= l
    BY <1>2, <2>1, LeastExists
  <2>3. First(S) = CHOOSE k \in S : \A l \in S : k <= l
    BY <1>2 DEF First
  <2>4. First(S) \in S /\ \A l \in S : First(S) <= l
    BY <2>2, <2>3, Zenon
  <2>5. First(S) \in 0..n
    <3>1. \A m \in S : m \in 0..n
      OBVIOUS
    <3> QED  BY <2>4, <3>1, Zenon
  <2> QED  BY <1>2, <2>4, <2>5, Zenon
<1> QED  BY <1>1, <1>2
-----------------------------------------------------------------------------
(* Type correctness.                                                       *)

Lines == 1..Len(trace)

\* The fields of an event that the rules use as keys.
LEMMA EventFields ==
  ASSUME NEW e \in Event
  PROVE  /\ e.intent_id # None => e.action_id \in ActionIds /\ e.intent_id \in Intents
         /\ e.decision = "deny" => /\ e.action_id \in ActionIds
                                   /\ e.type = "approval_decision"
         /\ e.type = "action_executed" => e.action_id \in ActionIds
         /\ e.approval_id # None => e.approval_id \in ApprovalIds
BY DataAssumption DEF Event, EventRecord, WellFormed

LEMMA IndexTypes ==
  ASSUME trace \in Seq(Event)
  PROVE  /\ \A t, a : OfAction(trace, t, a) \in SUBSET Lines
         /\ \A t, p : OfApproval(trace, t, p) \in SUBSET Lines
         /\ Ends(trace) \in SUBSET Lines
         /\ Len(trace) \in Nat
         /\ DOMAIN trace = Lines
BY DEF OfAction, OfApproval, Ends, Lines

\* An execution that comes after its allow decision names an approval.
LEMMA ReferencedApproval ==
  ASSUME trace \in Seq(Event), NEW k \in Lines, Referenced(k)
  PROVE  trace[k].approval_id \in ApprovalIds
<1>1. trace[k] \in Event
  BY DEF Lines
<1>2. Decisions(trace, trace[k].approval_id) # {}
  BY DEF Referenced, DecisionOf, First
<1>3. trace[k].approval_id # None
  BY <1>2 DEF Decisions, OfApproval
<1> QED  BY <1>1, <1>3, EventFields

\* Every finding of a rule is at a line of the trace.
LEMMA ExecutionFindingsType ==
  ASSUME trace \in Seq(Event), NEW k \in Lines, NEW intents
  PROVE  ExecutionFindings(k, intents) \subseteq Rules \X Lines
<1>1. OrderFindings(k) \subseteq Rules \X Lines
  BY DEF OrderFindings, Flag, Rules
<1>2. ApprovalFindings(k, consumed) \subseteq Rules \X Lines
  BY DEF ApprovalFindings, Flag, Rules
<1>3. ASSUME NEW valid
      PROVE  /\ DenialFindings(k, valid) \subseteq Rules \X Lines
             /\ RouteAroundFindings(k, valid, intents) \subseteq Rules \X Lines
  BY DEF DenialFindings, RouteAroundFindings, Flag, Rules
<1> QED  BY <1>1, <1>2, <1>3 DEF ExecutionFindings, Flag, Rules

LEMMA BeginFindingsType ==
  ASSUME trace \in Seq(Event), trace # <<>>
  PROVE  ClockFindings \cup EndFindings \cup DuplicateFindings \cup LinkFindings
           \subseteq Rules \X Lines
<1> USE IndexTypes
<1>1. ClockFindings \subseteq Rules \X Lines
  BY DEF ClockFindings, Rules, Lines
<1>2. EndFindings \subseteq Rules \X Lines
  BY FirstLine DEF EndFindings, Rules, Lines
<1>3. DuplicateFindings \subseteq Rules \X Lines
  <2>1. ASSUME NEW S \in SUBSET Lines, NEW rule \in Rules
        PROVE  Duplicates(S, rule) \subseteq Rules \X Lines
    BY DEF Duplicates
  <2>2. /\ \A a : Proposals(trace, a) \in SUBSET Lines /\ Blocks(trace, a) \in SUBSET Lines
        /\ \A p : Requests(trace, p) \in SUBSET Lines /\ Decisions(trace, p) \in SUBSET Lines
    BY DEF Proposals, Blocks, Requests, Decisions
  <2>3. {"ACK006", "ACK009"} \subseteq Rules
    BY DEF Rules
  <2> QED  BY <2>1, <2>2, <2>3 DEF DuplicateFindings
<1>4. ASSUME NEW k \in Lines
      PROVE  /\ RequestFindings(k) \subseteq Rules \X Lines
             /\ DecisionFindings(k) \subseteq Rules \X Lines
  BY DEF RequestFindings, DecisionFindings, Flag, Rules
<1>5. \A p : /\ Requests(trace, p) # {} => First(Requests(trace, p)) \in Lines
             /\ Decisions(trace, p) # {} => First(Decisions(trace, p)) \in Lines
  BY FirstLine DEF Requests, Decisions, Lines
<1>6. LinkFindings \subseteq Rules \X Lines
  BY <1>4, <1>5 DEF LinkFindings
<1> QED  BY <1>1, <1>2, <1>3, <1>6

LEMMA ClosingFindingsType ==
  ASSUME trace \in Seq(Event)
  PROVE  ClosingFindings \subseteq Rules \X Lines
<1> USE IndexTypes
<1>1. ASSUME NEW k \in Lines
      PROVE  BlockFindings(k) \subseteq Rules \X Lines
  BY DEF BlockFindings, Flag, Rules
<1>2. ASSUME NEW a
      PROVE  UnresolvedFindings(a) \subseteq Rules \X Lines
  <2>1. First(Proposals(trace, a)) # 0 => First(Proposals(trace, a)) \in Lines
    BY FirstLine DEF Proposals, Lines
  <2> QED  BY <2>1 DEF UnresolvedFindings, Flag, Rules
<1> QED  BY <1>1, <1>2 DEF ClosingFindings

\* The variables keep their types: every index is a line of the trace, and so
\* is the line of every finding.
THEOREM TypeCorrect == Spec => []TypeOK
<1>1. Init => TypeOK
  BY BoundAssumption DEF Init, TypeOK
<1>2. TypeOK /\ [Next]_vars => TypeOK'
  <2> SUFFICES ASSUME TypeOK, [Next]_vars
               PROVE  TypeOK'
    OBVIOUS
  <2> USE DEF TypeOK
  <2>1. ASSUME NEW e \in Alphabet, Record(e)
        PROVE  TypeOK'
    <3>1. e \in Event
      BY BoundAssumption
    <3>2. trace' \in Seq(Event) /\ Len(trace') = Len(trace) + 1
      BY <2>1, <3>1 DEF Record
    <3> QED  BY <2>1, <3>2 DEF Record, loopVars
  <2>2. CASE Begin
    <3>1. trace # <<>>
      BY <2>2 DEF Begin
    <3>2. findings' \subseteq Rules \X Lines
      BY <2>2, <3>1, BeginFindingsType DEF Begin
    <3> QED  BY <2>2, <3>2 DEF Begin, Lines
  <2>3. ASSUME Turn
        PROVE  /\ i \in Lines /\ trace[i] \in Event
               /\ observedIntents' \in [ActionIds -> SUBSET Intents]
               /\ IntentFindings(i) \subseteq Rules \X Lines
               /\ Seen(i) \in [ActionIds -> SUBSET Intents]
    <3>1. i \in Lines /\ trace[i] \in Event
      BY <2>3 DEF Turn, Lines
    <3>2. Seen(i) \in [ActionIds -> SUBSET Intents]
      BY <3>1, EventFields DEF Seen
    <3>3. IntentFindings(i) \subseteq Rules \X Lines
      BY <3>1 DEF IntentFindings, Flag, Rules
    <3> QED  BY <2>3, <3>1, <3>2, <3>3 DEF Turn
  <2>4. CASE VisitDenial
    <3>1. Turn
      BY <2>4 DEF VisitDenial
    <3>2. trace[i].action_id \in ActionIds
      BY <2>3, <2>4, <3>1, EventFields DEF VisitDenial
    <3>3. latestDenials' \in [ActionIds -> 0..Len(trace)]
      BY <2>3, <2>4, <3>1, <3>2 DEF VisitDenial, Lines
    <3>4. deniedIntents' \in [ActionIds -> [Intents -> 0..Len(trace)]]
      BY <2>3, <2>4, <3>1, <3>2 DEF VisitDenial, Lines
    <3> QED  BY <2>3, <2>4, <3>1, <3>3, <3>4 DEF VisitDenial, Turn, Lines
  <2>5. CASE VisitExecution
    <3>1. Turn
      BY <2>5 DEF VisitExecution
    <3>2. findings' \subseteq Rules \X Lines
      BY <2>3, <2>5, <3>1, ExecutionFindingsType DEF VisitExecution, Lines
    <3>3. consumed' \subseteq ApprovalIds
      BY <2>3, <2>5, <3>1, ReferencedApproval DEF VisitExecution
    <3> QED  BY <2>3, <2>5, <3>1, <3>2, <3>3 DEF VisitExecution, Turn, Lines
  <2>6. CASE VisitOther
    BY <2>3, <2>6 DEF VisitOther, Turn, Lines
  <2>7. CASE Conclude
    <3>1. findings \cup ClosingFindings \subseteq Rules \X Lines
      BY ClosingFindingsType DEF Lines
    <3> QED  BY <2>7, <3>1 DEF Conclude, loopVars, StatusOf, Lines
  <2>8. CASE UNCHANGED vars
    BY <2>8 DEF vars, loopVars
  <2> QED  BY <2>1, <2>2, <2>4, <2>5, <2>6, <2>7, <2>8 DEF Next, Evaluate
<1> QED  BY <1>1, <1>2, PTL DEF Spec
-----------------------------------------------------------------------------
(* What the loop remembers.                                                *)

LEMMA DenialIsDecision ==
  ASSUME TypeOK, NEW n \in Denials
  PROVE  /\ n \in Lines
         /\ trace[n].action_id \in ActionIds
         /\ trace[n].type = "approval_decision"
<1>1. n \in Lines /\ trace[n] \in Event /\ trace[n].decision = "deny"
  BY DEF TypeOK, Denials, Lines
<1> QED  BY <1>1, EventFields

\* After its turn at line i, the loop knows the intents named up to line i.
LEMMA SeenIsObserved ==
  ASSUME TypeOK, ObservedInv, i \in Lines,
         NEW a \in ActionIds, NEW x \in Intents
  PROVE  x \in Seen(i)[a] <=>
           \E m \in 1..i : trace[m].action_id = a /\ trace[m].intent_id = x
<1>1. trace[i] \in Event
  BY DEF TypeOK, Lines
<1>2. x \in observedIntents[a] <=>
        \E m \in 1..(i - 1) : trace[m].action_id = a /\ trace[m].intent_id = x
  BY DEF ObservedInv
<1>3. 1..i = 1..(i - 1) \cup {i}
  BY DEF Lines
<1>4. x # None
  BY DataAssumption
<1>5. x \in Seen(i)[a] <=>
        \/ x \in observedIntents[a]
        \/ trace[i].action_id = a /\ trace[i].intent_id = x
  BY <1>1, <1>4, EventFields DEF Seen, TypeOK
<1> QED  BY <1>2, <1>3, <1>5

\* A turn of the loop leaves the trace, and what is said of it, as it was.
LEMMA TurnKeepsTrace ==
  ASSUME TypeOK, Turn
  PROVE  /\ i \in Lines /\ i' = i + 1 /\ trace[i] \in Event
         /\ trace' = trace /\ policy' = policy
         /\ Denials' = Denials /\ Executed' = Executed
         /\ \A k : Referenced(k)' = Referenced(k)
         /\ \A n, x : Intended(n, x)' = Intended(n, x)
         /\ \A n, k : ApprovedAfter(n, k)' = ApprovedAfter(n, k)
BY DEF TypeOK, Turn, Lines, Denials, Executed, Referenced, DecisionOf, Decisions,
       OfApproval, Intended, SameAction, SameApproval, ApprovedAfter, Approves

\* The four accumulators hold what LoopInv says, whatever is recorded: this is
\* the evaluator's own bookkeeping (engine.py, lines 146-161 and 240-244).
THEOREM LoopCorrect == Spec => []LoopInv
<1>1. Init => LoopInv
  BY DEF Init, LoopInv
<1>2. TypeOK /\ LoopInv /\ [Next]_vars => LoopInv'
  <2> SUFFICES ASSUME TypeOK, LoopInv, [Next]_vars
               PROVE  LoopInv'
    OBVIOUS
  <2>1. ASSUME NEW e \in Alphabet, Record(e)
        PROVE  LoopInv'
    BY <2>1 DEF Record, LoopInv
  <2>2. CASE Begin
    <3>1. i' = 1 /\ trace' = trace
      BY <2>2 DEF Begin
    <3>2. \A a : DenialsBefore(a)' = {}
      BY <3>1 DEF DenialsBefore, Denials, TypeOK
    <3>3. LatestDenialInv' /\ DeniedIntentInv'
      BY <2>2, <3>2 DEF Begin, LatestDenialInv, DeniedIntentInv
    <3>4. ObservedInv'
      BY <2>2, <3>1 DEF Begin, ObservedInv
    <3>5. ConsumedInv'
      BY <2>2, <3>1 DEF Begin, ConsumedInv, Executed, TypeOK
    <3> QED  BY <3>3, <3>4, <3>5 DEF LoopInv
  <2>3. ASSUME Turn
        PROVE  LatestDenialInv /\ ObservedInv /\ DeniedIntentInv /\ ConsumedInv /\ ObservedInv'
    <3>1. LatestDenialInv /\ ObservedInv /\ DeniedIntentInv /\ ConsumedInv
      BY <2>3 DEF Turn, LoopInv
    <3>2. \A a \in ActionIds, x \in Intents :
            x \in Seen(i)[a] <=>
              \E m \in 1..i : trace[m].action_id = a /\ trace[m].intent_id = x
      BY <2>3, <3>1, SeenIsObserved, TurnKeepsTrace
    <3>3. observedIntents' = Seen(i) /\ i' - 1 = i /\ trace' = trace
      BY <2>3, TurnKeepsTrace DEF Turn, Lines
    <3> QED  BY <3>1, <3>2, <3>3 DEF ObservedInv
  <2>4. ASSUME Turn, trace[i].decision # "deny"
        PROVE  \A a : DenialsBefore(a)' = DenialsBefore(a)
    BY <2>4, TurnKeepsTrace DEF DenialsBefore, Denials, Lines
  <2>5. ASSUME Turn, UNCHANGED consumed, trace[i].type # "action_executed"
        PROVE  ConsumedInv'
    <3>1. \A k \in Executed : k < i' <=> k < i
      BY <2>5, TurnKeepsTrace DEF Executed, Lines, TypeOK
    <3> QED  BY <2>3, <2>5, <3>1, TurnKeepsTrace DEF ConsumedInv
  <2>6. CASE VisitDenial
    <3>1. Turn /\ trace[i].decision = "deny"
      BY <2>6 DEF VisitDenial
    <3> DEFINE b == trace[i].action_id
    <3>2. i \in Denials /\ b \in ActionIds /\ trace[i].type = "approval_decision"
      BY <3>1, TurnKeepsTrace, DenialIsDecision DEF Denials, Lines, TypeOK
    <3>3. \A a : DenialsBefore(a)' =
                  IF a = b THEN DenialsBefore(a) \cup {i} ELSE DenialsBefore(a)
      BY <3>1, <3>2, TurnKeepsTrace DEF DenialsBefore, Denials, Lines, TypeOK
    <3>4. LatestDenialInv'
      <4> SUFFICES ASSUME NEW a \in ActionIds
                   PROVE  /\ latestDenials'[a] \in DenialsBefore(a)' \cup {0}
                          /\ \A n \in DenialsBefore(a)' : n <= latestDenials'[a]
        BY DEF LatestDenialInv
      <4>1. latestDenials'[a] = IF a = b THEN i ELSE latestDenials[a]
        BY <2>6, <3>2 DEF VisitDenial, TypeOK
      <4>2. \A n \in DenialsBefore(a) : n < i /\ n \in Nat
        BY DEF DenialsBefore, Denials, TypeOK
      <4>3. CASE a = b
        <5>1. latestDenials'[a] = i /\ DenialsBefore(a)' = DenialsBefore(a) \cup {i}
          BY <3>3, <4>1, <4>3
        <5>2. \A n \in DenialsBefore(a) \cup {i} : n <= i
          BY <4>2 DEF TypeOK
        <5> QED  BY <5>1, <5>2
      <4>4. CASE a # b
        BY <2>3, <3>1, <3>3, <4>1, <4>4 DEF LatestDenialInv
      <4> QED  BY <4>3, <4>4
    <3>5. \A x \in Intents : x \in Seen(i)[b] <=> Intended(i, x)
      BY <2>3, <3>1, <3>2, TurnKeepsTrace, SeenIsObserved DEF Intended, SameAction
    <3>6. DeniedIntentInv'
      <4> SUFFICES ASSUME NEW a \in ActionIds, NEW x \in Intents
                   PROVE  LET m == deniedIntents'[a][x]
                          IN  /\ m # 0 => m \in DenialsBefore(a)' /\ Intended(m, x)
                              /\ \A n \in DenialsBefore(a)' : Intended(n, x) => n <= m
        BY <3>1, TurnKeepsTrace DEF DeniedIntentInv
      <4>1. deniedIntents'[a][x] = IF a = b /\ Intended(i, x) THEN i ELSE deniedIntents[a][x]
        BY <2>6, <3>2, <3>5 DEF VisitDenial, TypeOK
      <4>2. \A n \in DenialsBefore(a) : n < i /\ n \in Nat
        BY DEF DenialsBefore, Denials, TypeOK
      <4>3. CASE a = b /\ Intended(i, x)
        BY <3>3, <4>1, <4>2, <4>3 DEF TypeOK
      <4>4. CASE ~(a = b /\ Intended(i, x))
        BY <2>3, <3>1, <3>3, <4>1, <4>4 DEF DeniedIntentInv
      <4> QED  BY <4>3, <4>4
    <3>7. ConsumedInv'
      BY <2>5, <2>6, <3>1, <3>2 DEF VisitDenial
    <3> QED  BY <2>3, <3>1, <3>4, <3>6, <3>7 DEF LoopInv
  <2>7. CASE VisitExecution
    <3>1. Turn /\ trace[i].type = "action_executed" /\ trace[i].decision # "deny"
      BY <2>7, TurnKeepsTrace, EventFields DEF VisitExecution
    <3>2. LatestDenialInv' /\ DeniedIntentInv'
      BY <2>3, <2>4, <2>7, <3>1, TurnKeepsTrace
         DEF VisitExecution, LatestDenialInv, DeniedIntentInv
    <3>3. i \in Executed /\ \A k \in Executed : k < i' <=> k < i \/ k = i
      BY <3>1, TurnKeepsTrace DEF Executed, Lines, TypeOK
    <3>4. ConsumedInv'
      BY <2>3, <2>7, <3>1, <3>3, TurnKeepsTrace DEF VisitExecution, ConsumedInv
    <3> QED  BY <2>3, <3>1, <3>2, <3>4 DEF LoopInv
  <2>8. CASE VisitOther
    <3>1. Turn /\ trace[i].type # "action_executed" /\ trace[i].decision # "deny"
      BY <2>8 DEF VisitOther
    <3>2. LatestDenialInv' /\ DeniedIntentInv'
      BY <2>3, <2>4, <2>8, <3>1, TurnKeepsTrace
         DEF VisitOther, LatestDenialInv, DeniedIntentInv
    <3>3. ConsumedInv'
      BY <2>5, <2>8, <3>1 DEF VisitOther
    <3> QED  BY <2>3, <3>1, <3>2, <3>3 DEF LoopInv
  <2>9. CASE Conclude
    BY <2>9 DEF Conclude, LoopInv
  <2>10. CASE UNCHANGED vars
    <3>1. phase' = phase /\ LatestDenialInv' = LatestDenialInv /\ ObservedInv' = ObservedInv
      BY <2>10 DEF vars, loopVars, LatestDenialInv, ObservedInv, DenialsBefore, Denials
    <3>2. DeniedIntentInv' = DeniedIntentInv
      BY <2>10 DEF vars, loopVars, DeniedIntentInv, DenialsBefore, Denials, Intended, SameAction
    <3>3. ConsumedInv' = ConsumedInv
      BY <2>10 DEF vars, loopVars, ConsumedInv, Executed, Referenced, DecisionOf, Decisions,
                   OfApproval
    <3> QED  BY <3>1, <3>2, <3>3 DEF LoopInv
  <2> QED  BY <2>1, <2>2, <2>6, <2>7, <2>8, <2>9, <2>10 DEF Next, Evaluate
<1> QED  BY <1>1, <1>2, TypeCorrect, PTL DEF Spec
-----------------------------------------------------------------------------
(* Denials stick, denied intents are not routed around, approvals are used *)
(* once.                                                                   *)

\* valid_allow means what Approves says: the first request and the first
\* decision on the approval are a presentation and an allow for the execution.
LEMMA ValidAllowApproves ==
  ASSUME TypeOK, NEW k \in Lines, NEW intents, NEW spent,
         ValidAllow(k, intents, spent)
  PROVE  /\ RequestOf(k) \in Lines /\ DecisionOf(k) \in Lines
         /\ Approves(RequestOf(k), DecisionOf(k), k)
<1> DEFINE r == RequestOf(k)
           d == DecisionOf(k)
           R == Requests(trace, trace[k].approval_id)
           D == Decisions(trace, trace[k].approval_id)
<1>1. R \in SUBSET Lines /\ D \in SUBSET Lines /\ Len(trace) \in Nat
  BY IndexTypes DEF Requests, Decisions, TypeOK
<1>2. r # 0 /\ d # 0
  BY DEF ValidAllow, Referenced
<1>3. r \in R /\ d \in D
  BY <1>1, <1>2, FirstLine DEF RequestOf, DecisionOf, Lines
<1>4. /\ trace[r].type = "approval_requested" /\ trace[r].approval_id = trace[k].approval_id
      /\ trace[d].approval_id = trace[k].approval_id /\ trace[k].approval_id # None
  BY <1>3 DEF Requests, Decisions, OfApproval
<1>5. r < d /\ d < k /\ trace[d].decision = "allow"
  BY DEF ValidAllow, Referenced
<1>6. trace[r].action_id = trace[k].action_id /\ trace[d].action_id = trace[k].action_id
  BY DEF ValidAllow
<1>7. policy.exact_binding => trace[r].action = trace[k].action
  BY DEF ValidAllow, Presented
<1>8. trace[d].ts <= trace[k].ts /\ trace[k].ts <= Expiry(d)
  BY DEF ValidAllow, InTime
<1> QED  BY <1>1, <1>3, <1>4, <1>5, <1>6, <1>7, <1>8
         DEF Approves, SameApproval, SameAction, Expiry

\* The turn at an execution reports a denial of its action, unless a valid
\* allow was decided later.
LEMMA DenialOverridden ==
  ASSUME TypeOK, LatestDenialInv, i \in Executed, NEW valid \in BOOLEAN,
         NEW n \in Denials, n < i, SameAction(n, i),
         <<"ACK002", i>> \notin DenialFindings(i, valid)
  PROVE  valid /\ n < DecisionOf(i)
<1> DEFINE a == trace[i].action_id
<1>1. i \in Lines /\ a \in ActionIds /\ n \in Nat \ {0} /\ trace[n].action_id = a
  BY DenialIsDecision, EventFields DEF TypeOK, Executed, Lines, SameAction
<1>2. n <= latestDenials[a]
  BY <1>1 DEF LatestDenialInv, DenialsBefore
<1>3. latestDenials[a] \in Nat /\ latestDenials[a] # 0
  BY <1>1, <1>2 DEF TypeOK
<1>4. valid /\ DecisionOf(i) > latestDenials[a]
  BY <1>3 DEF DenialFindings, Overrides
<1>5. DecisionOf(i) \in Nat
  BY <1>1, IndexTypes, FirstLine DEF DecisionOf, Decisions, TypeOK, Lines
<1> QED  BY <1>1, <1>2, <1>3, <1>4, <1>5

\* So it does for a denial of another path to an intent it is linked to.
LEMMA RouteOverridden ==
  ASSUME TypeOK, DeniedIntentInv, ObservedInv, i \in Executed, NEW valid \in BOOLEAN,
         NEW n \in Denials, DeniedPath(n, i),
         <<"ACK007", i>> \notin
            RouteAroundFindings(i, valid, Seen(i)[trace[i].action_id])
  PROVE  valid /\ n < DecisionOf(i)
<1> DEFINE a == trace[i].action_id
           b == trace[n].action_id
<1>1. i \in Lines /\ a \in ActionIds
  BY EventFields DEF TypeOK, Executed, Lines
<1>2. n \in Lines /\ b \in ActionIds /\ n < i /\ b # a
  BY DenialIsDecision DEF DeniedPath, SameAction
<1>3. PICK x \in Intents : Intended(n, x) /\ Intended(i, x)
  BY DEF DeniedPath
<1>4. x \in Seen(i)[a]
  BY <1>1, <1>3, SeenIsObserved DEF Intended, SameAction
<1>5. n <= deniedIntents[b][x] /\ deniedIntents[b][x] \in Nat /\ deniedIntents[b][x] # 0
  <2>1. n <= deniedIntents[b][x]
    BY <1>2, <1>3 DEF DeniedIntentInv, DenialsBefore
  <2>2. deniedIntents[b][x] \in Nat
    BY <1>2 DEF TypeOK
  <2> QED  BY <1>2, <2>1, <2>2 DEF Lines
<1>6. valid /\ DecisionOf(i) > deniedIntents[b][x]
  BY <1>2, <1>4, <1>5 DEF RouteAroundFindings, Flag, Overrides
<1>7. DecisionOf(i) \in Nat
  BY <1>1, IndexTypes, FirstLine DEF DecisionOf, Decisions, TypeOK, Lines
<1> QED  BY <1>2, <1>5, <1>6, <1>7 DEF Lines

\* A denial that no approval of the execution follows is therefore reported.
LEMMA TurnReportsDenials ==
  ASSUME TypeOK, LatestDenialInv, DeniedIntentInv, ObservedInv, i \in Executed,
         NEW F, ExecutionFindings(i, Seen(i)[trace[i].action_id]) \subseteq F
  PROVE  DenialReported(F, i) /\ RouteReported(F, i)
<1> DEFINE intents == Seen(i)[trace[i].action_id]
           valid == ValidAllow(i, intents, consumed)
<1>1. i \in Lines /\ DOMAIN trace = Lines /\ valid \in BOOLEAN
  BY DEF TypeOK, Executed, Lines, ValidAllow
<1>2. ASSUME NEW n, valid, n < DecisionOf(i)
      PROVE  ApprovedAfter(n, i)
  BY <1>1, <1>2, ValidAllowApproves DEF ApprovedAfter
<1>3. DenialFindings(i, valid) \cup RouteAroundFindings(i, valid, intents) \subseteq F
  BY DEF ExecutionFindings
<1>4. DenialReported(F, i)
  BY <1>1, <1>2, <1>3, DenialOverridden DEF DenialReported
<1>5. RouteReported(F, i)
  BY <1>1, <1>2, <1>3, RouteOverridden DEF RouteReported
<1> QED  BY <1>4, <1>5

\* It also reports an approval that an earlier execution has used.
LEMMA TurnReportsReplay ==
  ASSUME TypeOK, ConsumedInv, policy.single_use, i \in Executed, NEW intents,
         NEW d \in DOMAIN trace, NEW j \in Executed, UsedBefore(d, j, i)
  PROVE  <<"ACK004", i>> \in ExecutionFindings(i, intents)
<1> DEFINE p == trace[i].approval_id
           D == Decisions(trace, p)
<1>1. /\ i \in Lines /\ j \in Lines /\ d \in Lines /\ d < j /\ j < i
      /\ trace[i] \in Event /\ trace[d] \in Event
  BY DEF TypeOK, Executed, Lines, UsedBefore
<1>2. trace[d].approval_id = p /\ trace[j].approval_id = p /\ p # None
  BY DEF UsedBefore, SameApproval
<1>3. trace[d].decision = "allow" /\ trace[d].type = "approval_decision"
  BY <1>1, DataAssumption DEF UsedBefore, Event, WellFormed
<1>4. D \in SUBSET Lines /\ Len(trace) \in Nat
  BY IndexTypes DEF Decisions, TypeOK
<1>5. d \in D /\ \A c \in D : ~(c < d)
  BY <1>1, <1>2, <1>3, <1>4 DEF Decisions, OfApproval, UsedBefore, SameApproval, Lines
<1>6. First(D) = d
  <2>1. First(D) \in D /\ First(D) <= d
    BY <1>4, <1>5, FirstLine DEF Lines
  <2> QED  BY <1>1, <1>4, <1>5, <2>1 DEF Lines
<1>7. Referenced(i) /\ Referenced(j)
  BY <1>1, <1>2, <1>3, <1>6 DEF Referenced, DecisionOf, Lines
<1>8. p \in consumed
  <2>1. p \in ApprovalIds
    BY <1>1, <1>2, EventFields
  <2> QED  BY <1>1, <1>2, <1>7, <2>1 DEF ConsumedInv
<1>9. <<"ACK004", i>> \in ApprovalFindings(i, consumed)
  BY <1>2, <1>7, <1>8 DEF ApprovalFindings, Flag
<1> QED  BY <1>9 DEF ExecutionFindings

\* While the trace stays as it is, so does what is said of it, and findings
\* added to those of an execution that is judged change nothing.
LEMMA JudgedStays ==
  ASSUME TypeOK, trace' = trace, policy' = policy
  PROVE  /\ Executed' = Executed
         /\ findings \subseteq findings' =>
              \A k : Judged(findings, k) => Judged(findings, k)'
         /\ findings \subseteq report'.findings =>
              \A k : Judged(findings, k) => Judged(report.findings, k)'
         /\ report' = report =>
              \A k : Judged(report.findings, k) => Judged(report.findings, k)'
<1>1. Executed' = Executed /\ Denials' = Denials
  BY DEF Executed, Denials
<1>2. \A n, k : /\ SameAction(n, k)' = SameAction(n, k)
                /\ SameApproval(n, k)' = SameApproval(n, k)
  BY DEF SameAction, SameApproval
<1>3. \A n, k : ApprovedAfter(n, k)' = ApprovedAfter(n, k)
  BY DEF ApprovedAfter, Approves, SameAction, SameApproval
<1>4. \A n, k : DeniedPath(n, k)' = DeniedPath(n, k)
  BY DEF DeniedPath, Intended, SameAction
<1>5. \A d, j, k : UsedBefore(d, j, k)' = UsedBefore(d, j, k)
  BY DEF UsedBefore, SameApproval
<1> QED  BY <1>1, <1>2, <1>3, <1>4, <1>5
         DEF Judged, DenialReported, RouteReported, ReplayReported

\* An evaluation reports what it must of every execution it has visited.
LEMMA ExecutionsJudged == Spec => []JudgedInv
<1>1. Init => JudgedInv
  BY DEF Init, JudgedInv, Settled, TypeOK
<1>2. TypeOK /\ LoopInv /\ JudgedInv /\ [Next]_vars => JudgedInv'
  <2> SUFFICES ASSUME TypeOK, LoopInv, JudgedInv, [Next]_vars
               PROVE  JudgedInv'
    OBVIOUS
  <2>1. ASSUME NEW e \in Alphabet, Record(e)
        PROVE  JudgedInv'
    <3>1. Len(trace') = Len(trace) + 1 /\ Len(trace) \in Nat
      BY <2>1 DEF Record, TypeOK
    <3> QED  BY <2>1, <3>1 DEF Record, JudgedInv, Settled
  <2>2. CASE Begin
    <3>1. i' = 1 /\ phase' = "loop" /\ \A k \in Executed' : ~(k < i')
      BY <2>2 DEF Begin, Executed, TypeOK
    <3> QED  BY <3>1 DEF JudgedInv, Settled
  <2>3. ASSUME Turn, findings \subseteq findings', i \in Executed => Judged(findings', i)
        PROVE  JudgedInv'
    <3>1. phase = "loop" /\ phase' = "loop" /\ i' = i + 1 /\ trace' = trace /\ policy' = policy
      BY <2>3 DEF Turn
    <3>2. SUFFICES ASSUME NEW k \in Executed, k < i + 1
                   PROVE  Judged(findings, k)'
      BY <3>1, JudgedStays DEF JudgedInv, Settled
    <3>3. k < i \/ k = i
      BY <3>2 DEF TypeOK, Executed
    <3>4. CASE k < i
      BY <2>3, <3>1, <3>2, <3>4, JudgedStays DEF JudgedInv
    <3>5. CASE k = i
      <4>1. Judged(findings', k)
        BY <2>3, <3>2, <3>5
      <4> QED  BY <3>1, <4>1 DEF Judged, DenialReported, RouteReported, ReplayReported,
                  Executed, Denials, SameAction, SameApproval, ApprovedAfter, Approves,
                  DeniedPath, Intended, UsedBefore
    <3> QED  BY <3>3, <3>4, <3>5
  <2>4. CASE VisitDenial
    <3>1. Turn /\ i \notin Executed /\ findings \subseteq findings'
      BY <2>4, TurnKeepsTrace, EventFields DEF VisitDenial, Executed
    <3> QED  BY <2>3, <3>1
  <2>5. CASE VisitExecution
    <3>1. Turn /\ findings \subseteq findings'
      BY <2>5 DEF VisitExecution
    <3>2. LatestDenialInv /\ ObservedInv /\ DeniedIntentInv /\ ConsumedInv
      BY <3>1 DEF Turn, LoopInv
    <3>3. ExecutionFindings(i, Seen(i)[trace[i].action_id]) \subseteq findings'
      BY <2>5 DEF VisitExecution
    <3>4. i \in Executed => Judged(findings', i)
      <4> SUFFICES ASSUME i \in Executed PROVE Judged(findings', i)
        OBVIOUS
      <4>1. DenialReported(findings', i) /\ RouteReported(findings', i)
        BY <3>2, <3>3, TurnReportsDenials
      <4>2. ReplayReported(findings', i)
        BY <3>2, <3>3, TurnReportsReplay DEF ReplayReported
      <4> QED  BY <4>1, <4>2 DEF Judged
    <3> QED  BY <2>3, <3>1, <3>4
  <2>6. CASE VisitOther
    <3>1. Turn /\ i \notin Executed /\ findings \subseteq findings'
      BY <2>6 DEF VisitOther, Executed
    <3> QED  BY <2>3, <3>1
  <2>7. CASE Conclude
    <3>1. \A k \in Executed : Judged(findings, k)
      BY <2>7 DEF Conclude, JudgedInv, TypeOK, Executed
    <3>2. findings \subseteq report'.findings /\ trace' = trace /\ policy' = policy
      BY <2>7 DEF Conclude
    <3>3. \A k \in Executed' : Judged(report.findings, k)'
      BY <3>1, <3>2, JudgedStays
    <3> QED  BY <2>7, <3>3 DEF Conclude, JudgedInv
  <2>8. CASE UNCHANGED vars
    <3>1. /\ phase' = phase /\ i' = i /\ trace' = trace /\ policy' = policy
          /\ findings' = findings /\ report' = report
      BY <2>8 DEF vars, loopVars
    <3> QED  BY <3>1, JudgedStays DEF JudgedInv, Settled
  <2> QED  BY <2>1, <2>2, <2>4, <2>5, <2>6, <2>7, <2>8 DEF Next, Evaluate
<1> QED  BY <1>1, <1>2, TypeCorrect, LoopCorrect, PTL DEF Spec

\* Whatever a session records, an evaluation of it reports every execution of
\* a denied action that no later valid approval allows.
THEOREM DenialsStick == Spec => []DenialSticks
<1>1. JudgedInv => DenialSticks
  BY DEF JudgedInv, DenialSticks, Judged
<1> QED  BY <1>1, ExecutionsJudged, PTL

\* Whatever a session records, an execution on another path to a denied intent
\* is reported, unless an approval decided after the denial allows it.
THEOREM RoutesAreCaught == Spec => []RouteAroundCaught
<1>1. JudgedInv => RouteAroundCaught
  BY DEF JudgedInv, RouteAroundCaught, Judged
<1> QED  BY <1>1, ExecutionsJudged, PTL

\* Whatever a session records, no approval is used twice unreported.
THEOREM ReplaysAreCaught == Spec => []ReplayCaught
<1>1. JudgedInv => ReplayCaught
  BY DEF JudgedInv, ReplayCaught, Judged
<1> QED  BY <1>1, ExecutionsJudged, PTL
=============================================================================
