--------------------------- MODULE VerdictProofs ---------------------------
(***************************************************************************)
(* A PASS verdict is a proof of authorisation and a violation is a proof   *)
(* of fault, for every trace, policy and bound.  Until the evaluator finds *)
(* something, each execution its loop has visited is in order (CleanInv),  *)
(* because the turn at an execution that is not in order, or the links     *)
(* checked before, report it.  What it finds but for ACK009 is found again *)
(* however the trace goes on (Found), so that no violation is withdrawn    *)
(* and the verdicts climb the ladder of Verdict.                           *)
(***************************************************************************)
EXTENDS EngineProofs

\* The events a rule tells apart by their fields are of different types.
LEMMA TypesOfLines ==
  ASSUME TypeOK
  PROVE  /\ \A a : /\ Proposals(trace, a) \in SUBSET Lines
                   /\ Blocks(trace, a) \in SUBSET Lines
                   /\ Executions(trace, a) \in SUBSET Lines
         /\ \A p : /\ Requests(trace, p) \in SUBSET Lines
                   /\ Decisions(trace, p) \in SUBSET Lines
         /\ Lines \in SUBSET Nat /\ 0 \notin Lines /\ DOMAIN trace = Lines
         /\ \A k \in Lines : trace[k] \in Event
BY IndexTypes DEF TypeOK, Lines, Proposals, Blocks, Executions, Requests, Decisions

\* The first line of an index is a line of it, and the least.
LEMMA FirstOf ==
  ASSUME TypeOK, NEW S \in SUBSET Lines
  PROVE  /\ First(S) \in Nat
         /\ First(S) # 0 <=> S # {}
         /\ S # {} => First(S) \in S /\ First(S) \in Lines
         /\ \A l \in S : First(S) <= l
BY FirstLine DEF TypeOK, Lines

\* When the checks before the loop find nothing about an approval that has been
\* presented and decided, the proposal, the presentation and the decision came
\* in this order, and the action presented is the action proposed.
LEMMA LinksInOrder ==
  ASSUME TypeOK, LinkFindings = {}, NEW p \in ApprovalIds,
         Requests(trace, p) # {}, Decisions(trace, p) # {}
  PROVE  LET r == First(Requests(trace, p))
             d == First(Decisions(trace, p))
             q == First(Proposals(trace, trace[r].action_id))
         IN  /\ r \in Lines /\ d \in Lines /\ q \in Lines
             /\ q < r /\ r < d
             /\ Presented(q, r)
             /\ trace[r].type = "approval_requested" /\ trace[r].approval_id = p
             /\ trace[d].type = "approval_decision" /\ trace[d].approval_id = p
             /\ trace[q].type = "action_proposed"
             /\ trace[q].action_id = trace[r].action_id
<1> DEFINE r == First(Requests(trace, p))
           d == First(Decisions(trace, p))
           q == First(Proposals(trace, trace[r].action_id))
<1>1. RequestFindings(r) = {} /\ DecisionFindings(d) = {}
  BY DEF LinkFindings
<1>2. r \in Requests(trace, p) /\ d \in Decisions(trace, p) /\ r \in Lines /\ d \in Lines
  BY TypesOfLines, FirstOf
<1>3. /\ trace[r].type = "approval_requested" /\ trace[r].approval_id = p
      /\ trace[d].type = "approval_decision" /\ trace[d].approval_id = p
  BY <1>2 DEF Requests, Decisions, OfApproval
<1>4. q # 0 /\ ~(q > r) /\ Presented(q, r)
  BY <1>1 DEF RequestFindings, Flag
<1>5. q \in Proposals(trace, trace[r].action_id) /\ q \in Lines
  BY <1>4, TypesOfLines, FirstOf
<1>6. trace[q].type = "action_proposed" /\ trace[q].action_id = trace[r].action_id
  BY <1>5 DEF Proposals, OfAction
<1>7. q < r
  BY <1>2, <1>3, <1>4, <1>5, <1>6 DEF Lines, TypeOK
<1>8. ~(r > d)
  BY <1>1, <1>2, <1>3, TypesOfLines DEF DecisionFindings, Flag
<1>9. r < d
  BY <1>2, <1>3, <1>8 DEF Lines, TypeOK
<1> QED  BY <1>2, <1>3, <1>4, <1>5, <1>6, <1>7, <1>9

\* When the turn at an execution finds nothing about the approval it names, its
\* first presentation and first decision approve it.
LEMMA ApprovalInOrder ==
  ASSUME TypeOK, LinkFindings = {}, i \in Executed, NEW spent,
         ApprovalFindings(i, spent) = {}, trace[i].approval_id # None
  PROVE  /\ RequestOf(i) \in Lines /\ DecisionOf(i) \in Lines /\ ProposalOf(i) \in Lines
         /\ Approves(RequestOf(i), DecisionOf(i), i) /\ Referenced(i)
         /\ trace[i].approval_id \notin spent
         /\ ProposalOf(i) < RequestOf(i) /\ Presented(ProposalOf(i), RequestOf(i))
         /\ trace[ProposalOf(i)].type = "action_proposed"
         /\ SameAction(ProposalOf(i), i)
<1> DEFINE p == trace[i].approval_id
           r == RequestOf(i)
           d == DecisionOf(i)
<1>1. i \in Lines /\ trace[i].type = "action_executed" /\ trace[i] \in Event
  BY TypesOfLines DEF Executed
<1>2. p \in ApprovalIds
  BY <1>1, EventFields
<1>3. r # 0 /\ d # 0 /\ ~(r > i) /\ ~(d > i)
  BY DEF ApprovalFindings, Flag
<1>4. Requests(trace, p) # {} /\ Decisions(trace, p) # {}
  BY <1>3 DEF RequestOf, DecisionOf, First
<1>5. /\ r \in Lines /\ d \in Lines /\ r < d
      /\ trace[r].type = "approval_requested" /\ trace[r].approval_id = p
      /\ trace[d].type = "approval_decision" /\ trace[d].approval_id = p
  BY <1>2, <1>4, LinksInOrder DEF RequestOf, DecisionOf
<1>6. d < i
  BY <1>1, <1>3, <1>5 DEF Lines, TypeOK
<1>7. trace[d].decision = "allow"
  <2>1. trace[d].decision # "deny"
    BY <1>3, <1>6 DEF ApprovalFindings, Flag, RefersToDenial
  <2>2. trace[d].decision \in {"allow", "deny", None} /\ trace[d].decision # None
    BY <1>5, TypesOfLines DEF Event, EventRecord, WellFormed
  <2> QED  BY <2>1, <2>2
<1>8. Referenced(i)
  BY <1>3, <1>6, <1>7 DEF Referenced
<1>9. /\ trace[r].action_id = trace[i].action_id /\ trace[d].action_id = trace[i].action_id
      /\ Presented(r, i)
  BY <1>3 DEF ApprovalFindings, Flag
<1>10. ~(trace[i].ts < trace[d].ts) /\ ~(trace[i].ts > Expiry(d)) /\ p \notin spent
  BY <1>8 DEF ApprovalFindings, Flag
<1>11. /\ trace[i].ts \in Nat /\ trace[d].ts \in Nat /\ policy.max_age \in Nat
       /\ trace[d].expires_at # None => trace[d].expires_at \in Nat
  BY <1>1, <1>5, TypesOfLines, BoundAssumption, DataAssumption
     DEF TypeOK, Event, EventRecord, Policy
<1>12. trace[d].ts <= trace[i].ts /\ trace[i].ts <= Expiry(d)
  BY <1>10, <1>11 DEF Expiry
<1>13. Approves(r, d, i)
  BY <1>5, <1>6, <1>7, <1>9, <1>12, TypesOfLines
     DEF Approves, SameApproval, SameAction, Presented, Expiry
<1>14. /\ ProposalOf(i) \in Lines /\ ProposalOf(i) < r /\ Presented(ProposalOf(i), r)
       /\ trace[ProposalOf(i)].type = "action_proposed" /\ SameAction(ProposalOf(i), i)
  BY <1>2, <1>4, <1>9, LinksInOrder DEF RequestOf, ProposalOf, SameAction
<1> QED  BY <1>5, <1>8, <1>10, <1>13, <1>14

\* When the turn at an execution finds nothing, the execution is in order.
LEMMA TurnInOrder ==
  ASSUME TypeOK, LatestDenialInv, DeniedIntentInv, ObservedInv, LinkFindings = {},
         i \in Executed, ExecutionFindings(i, Seen(i)[trace[i].action_id]) = {}
  PROVE  InOrder(i) /\ (trace[i].approval_id # None => trace[i].approval_id \notin consumed)
<1> DEFINE e == trace[i]
           intents == Seen(i)[e.action_id]
           valid == ValidAllow(i, intents, consumed)
           After(n) == (n < i /\ SameAction(n, i)) \/ DeniedPath(n, i)
<1>1. i \in Lines /\ e.type = "action_executed" /\ valid \in BOOLEAN
  BY TypesOfLines DEF Executed, ValidAllow
<1>2. /\ OrderFindings(i) = {} /\ ApprovalFindings(i, consumed) = {}
      /\ DenialFindings(i, valid) = {} /\ RouteAroundFindings(i, valid, intents) = {}
  BY DEF ExecutionFindings
<1>3. \A n \in Denials : After(n) => valid /\ n < DecisionOf(i)
  BY <1>1, <1>2, DenialOverridden, RouteOverridden
<1>4. policy.stop_is_terminal => \A s \in Interrupts(trace) : i < s
  <2> SUFFICES ASSUME policy.stop_is_terminal, NEW s \in Interrupts(trace)
               PROVE  i < s
    OBVIOUS
  <2>1. ~(s < i)
    BY <1>2 DEF OrderFindings, Flag
  <2>2. s \in Lines /\ s # i
    BY <1>1, TypesOfLines DEF Interrupts
  <2> QED  BY <1>1, <2>1, <2>2 DEF Lines, TypeOK
<1>5. \A b \in Blocks(trace, e.action_id) : i < b
  <2> SUFFICES ASSUME NEW b \in Blocks(trace, e.action_id)
               PROVE  i < b
    OBVIOUS
  <2>1. ~(b < i)
    BY <1>2 DEF OrderFindings, Flag
  <2>2. b \in Lines /\ b # i
    BY <1>1, TypesOfLines DEF Blocks, OfAction
  <2> QED  BY <1>1, <2>1, <2>2 DEF Lines, TypeOK
<1>6. /\ ProposalOf(i) \in Lines /\ ProposalOf(i) < i
      /\ trace[ProposalOf(i)].type = "action_proposed" /\ SameAction(ProposalOf(i), i)
  <2>1. ProposalOf(i) # 0 /\ ~(ProposalOf(i) > i)
    BY <1>2 DEF OrderFindings, Flag
  <2>2. ProposalOf(i) \in Proposals(trace, e.action_id) /\ ProposalOf(i) \in Lines
    BY <2>1, TypesOfLines, FirstOf DEF ProposalOf
  <2>3. trace[ProposalOf(i)].type = "action_proposed" /\ SameAction(ProposalOf(i), i)
    BY <2>2 DEF Proposals, OfAction, SameAction
  <2> QED  BY <1>1, <2>1, <2>2, <2>3 DEF Lines, TypeOK
<1>7. CASE e.approval_id # None
  <2>1. /\ RequestOf(i) \in Lines /\ DecisionOf(i) \in Lines
        /\ Approves(RequestOf(i), DecisionOf(i), i) /\ Referenced(i)
        /\ e.approval_id \notin consumed
        /\ ProposalOf(i) < RequestOf(i) /\ Presented(ProposalOf(i), RequestOf(i))
    BY <1>2, <1>7, ApprovalInOrder
  <2>2. Authorised(i)
    BY <1>3, <1>4, <1>6, <1>7, <2>1, TypesOfLines DEF Authorised, Presented
  <2> QED  BY <1>5, <2>1, <2>2 DEF InOrder
<1>8. CASE e.approval_id = None
  <2>1. e.action \notin Covered
    BY <1>2, <1>8 DEF ApprovalFindings, Flag
  <2>2. ~valid
    <3>1. Decisions(trace, e.approval_id) = {}
      BY <1>8 DEF Decisions, OfApproval
    <3> QED  BY <3>1 DEF ValidAllow, Referenced, DecisionOf, First
  <2>3. Authorised(i)
    BY <1>3, <1>4, <1>6, <1>8, <2>1, <2>2, TypesOfLines DEF Authorised
  <2> QED  BY <1>5, <1>8, <2>3 DEF InOrder
<1> QED  BY <1>7, <1>8

\* A report of PASS was concluded without findings.
LEMMA PassMeansClean ==
  ASSUME Conclude, report'.status = "PASS"
  PROVE  findings = {} /\ ClosingFindings = {}
BY DEF Conclude, StatusOf, Violations

\* An execution in order whose action has no block before or after it found
\* is not blocked at all.
LEMMA NoBlocks ==
  ASSUME TypeOK, ClosingFindings = {}, NEW k \in Executed, InOrder(k)
  PROVE  Blocks(trace, trace[k].action_id) = {}
<1> SUFFICES ASSUME NEW b \in Blocks(trace, trace[k].action_id)
             PROVE  FALSE
  OBVIOUS
<1>1. b \in Lines /\ trace[b].type = "action_blocked"
      /\ trace[b].action_id = trace[k].action_id
  BY TypesOfLines DEF Blocks, OfAction
<1>2. k \in Executions(trace, trace[b].action_id)
  BY <1>1 DEF Executed, Executions, OfAction
<1>3. BlockFindings(b) = {}
  BY <1>1, TypesOfLines DEF ClosingFindings
<1>4. ~(k < b)
  BY <1>2, <1>3 DEF BlockFindings, Flag
<1> QED  BY <1>4 DEF InOrder

\* Without findings on it, the end of the session is its last line.
LEMMA EndIsLast ==
  ASSUME TypeOK, EndFindings = {}
  PROVE  Ends(trace) = {Len(trace)}
<1> DEFINE f == First(Ends(trace))
<1>1. Ends(trace) \in SUBSET Lines /\ Len(trace) \in Nat
  BY IndexTypes DEF TypeOK
<1>2. Ends(trace) # {}
  BY DEF EndFindings
<1>3. f \in Ends(trace) /\ f \in Lines /\ \A l \in Ends(trace) : f <= l
  BY <1>1, <1>2, FirstOf
<1>4. {k \in (f + 1)..Len(trace) : TRUE} = {}
  <2>1. {<<"ACK006", k>> : k \in (f + 1)..Len(trace)} = {}
    BY <1>2 DEF EndFindings
  <2> QED  BY <2>1
<1>5. f = Len(trace)
  <2>1. Len(trace) \notin (f + 1)..Len(trace)
    BY <1>4
  <2> QED  BY <1>1, <1>3, <2>1 DEF Lines
<1>6. \A l \in Ends(trace) : l = Len(trace)
  BY <1>1, <1>3, <1>5 DEF Lines
<1> QED  BY <1>3, <1>5, <1>6

\* While the trace stays as it is, so does what is said of its executions.
LEMMA OrderStays ==
  ASSUME trace' = trace, policy' = policy
  PROVE  /\ Executed' = Executed /\ Ends(trace)' = Ends(trace)
         /\ EndFindings' = EndFindings /\ LinkFindings' = LinkFindings
         /\ \A k : /\ Authorised(k)' = Authorised(k)
                   /\ InOrder(k)' = InOrder(k)
         /\ \A j, k : SameApproval(j, k)' = SameApproval(j, k)
<1>1. /\ Executed' = Executed /\ Denials' = Denials
      /\ EndFindings' = EndFindings /\ LinkFindings' = LinkFindings
  BY DEF Executed, Denials, EndFindings, LinkFindings, RequestFindings, DecisionFindings,
         Presented
<1>2. \A n, k : /\ SameAction(n, k)' = SameAction(n, k)
                /\ SameApproval(n, k)' = SameApproval(n, k)
                /\ DeniedPath(n, k)' = DeniedPath(n, k)
  BY DEF SameAction, SameApproval, DeniedPath, Intended
<1>3. \A r, d, k : Approves(r, d, k)' = Approves(r, d, k)
  BY DEF Approves, SameAction, SameApproval
<1>4. \A k : Authorised(k)' = Authorised(k)
  BY <1>1, <1>2, <1>3 DEF Authorised
<1>5. \A k : InOrder(k)' = InOrder(k)
  BY <1>4 DEF InOrder, Referenced, DecisionOf
<1> QED  BY <1>1, <1>2, <1>4, <1>5

\* Until the running loop finds something, what it has visited is in order, and
\* a PASS verdict is a proof of authorisation.
THEOREM PassIsEarned == Spec => []PassIsAuthorised
<1>1. Init => CleanInv
  BY DEF Init, CleanInv, PassIsAuthorised
<1>2. TypeOK /\ LoopInv /\ CleanInv /\ [Next]_vars => CleanInv'
  <2> SUFFICES ASSUME TypeOK, LoopInv, CleanInv, [Next]_vars
               PROVE  CleanInv'
    OBVIOUS
  <2>1. ASSUME NEW e \in Alphabet, Record(e)
        PROVE  CleanInv'
    <3>1. Len(trace') = Len(trace) + 1 /\ Len(trace) \in Nat
      BY <2>1 DEF Record, TypeOK
    <3> QED  BY <2>1, <3>1 DEF Record, CleanInv, PassIsAuthorised, Settled
  <2>2. CASE Begin
    <3>1. /\ i' = 1 /\ phase' = "loop" /\ trace' = trace /\ policy' = policy
          /\ EndFindings \cup LinkFindings \subseteq findings'
      BY <2>2 DEF Begin
    <3>2. \A k \in Executed' : ~(k < i')
      BY <3>1 DEF Executed, TypeOK
    <3> QED  BY <3>1, <3>2, OrderStays DEF CleanInv, PassIsAuthorised, Settled
  <2>3. ASSUME Turn, findings \subseteq findings',
               findings' = {} /\ i \in Executed =>
                 /\ InOrder(i)
                 /\ policy.single_use =>
                      \A j \in Executed : j < i => ~SameApproval(j, i)
        PROVE  CleanInv'
    <3>1. /\ phase = "loop" /\ phase' = "loop" /\ i' = i + 1
          /\ trace' = trace /\ policy' = policy
      BY <2>3 DEF Turn
    <3>2. \A k \in Executed : k < i + 1 <=> k < i \/ k = i
      BY DEF TypeOK, Executed
    <3>3. EndFindings' \cup LinkFindings' \subseteq findings'
      BY <2>3, <3>1, OrderStays DEF CleanInv
    <3>4. ASSUME findings' = {}
          PROVE  /\ \A k \in Executed : k < i + 1 => InOrder(k)
                 /\ policy.single_use =>
                      \A j, k \in Executed : j < k /\ k < i + 1 => ~SameApproval(j, k)
      BY <2>3, <3>1, <3>2, <3>4 DEF CleanInv
    <3> QED  BY <3>1, <3>3, <3>4, OrderStays DEF CleanInv, PassIsAuthorised, Settled
  <2>4. CASE VisitDenial
    <3>1. Turn /\ i \notin Executed /\ findings \subseteq findings'
      BY <2>4, TurnKeepsTrace, EventFields DEF VisitDenial, Executed
    <3> QED  BY <2>3, <3>1
  <2>5. CASE VisitExecution
    <3>1. Turn /\ findings \subseteq findings'
      BY <2>5 DEF VisitExecution
    <3>2. LatestDenialInv /\ ObservedInv /\ DeniedIntentInv /\ ConsumedInv
      BY <3>1 DEF Turn, LoopInv
    <3>3. ASSUME findings' = {}, i \in Executed
          PROVE  /\ InOrder(i)
                 /\ policy.single_use =>
                      \A j \in Executed : j < i => ~SameApproval(j, i)
      <4>1. findings = {} /\ ExecutionFindings(i, Seen(i)[trace[i].action_id]) = {}
        BY <2>5, <3>3 DEF VisitExecution
      <4>2. LinkFindings = {} /\ \A j \in Executed : j < i => InOrder(j)
        BY <3>1, <4>1 DEF CleanInv, Turn
      <4>3. InOrder(i) /\ (trace[i].approval_id # None => trace[i].approval_id \notin consumed)
        BY <3>2, <3>3, <4>1, <4>2, TurnInOrder
      <4>4. ASSUME policy.single_use, NEW j \in Executed, j < i, SameApproval(j, i)
            PROVE  FALSE
        <5>1. trace[j].approval_id = trace[i].approval_id /\ trace[i].approval_id # None
          BY <4>4 DEF SameApproval
        <5>2. trace[i].approval_id \in ApprovalIds
          BY <3>1, <5>1, TurnKeepsTrace, EventFields
        <5>3. Referenced(j)
          BY <4>2, <4>4, <5>1 DEF InOrder
        <5> QED  BY <3>2, <4>3, <4>4, <5>1, <5>2, <5>3 DEF ConsumedInv
      <4> QED  BY <4>3, <4>4
    <3> QED  BY <2>3, <3>1, <3>3
  <2>6. CASE VisitOther
    <3>1. Turn /\ i \notin Executed /\ findings \subseteq findings'
      BY <2>6 DEF VisitOther, Executed
    <3> QED  BY <2>3, <3>1
  <2>7. CASE Conclude
    <3>1. phase' = "idle" /\ trace' = trace /\ policy' = policy
      BY <2>7 DEF Conclude
    <3>2. SUFFICES ASSUME report'.status = "PASS"
                   PROVE  /\ Ends(trace) = {Len(trace)}
                          /\ \A k \in Executed :
                               Authorised(k) /\ Blocks(trace, trace[k].action_id) = {}
                          /\ policy.single_use =>
                               \A j, k \in Executed : SameApproval(j, k) => j = k
      BY <3>1, OrderStays DEF CleanInv, PassIsAuthorised
    <3>3. findings = {} /\ ClosingFindings = {}
      BY <2>7, <3>2, PassMeansClean
    <3>4. EndFindings = {} /\ \A k \in Executed : k < i => InOrder(k)
      BY <2>7, <3>3 DEF CleanInv, Conclude
    <3>5. \A k \in Executed : k \in Nat /\ k < i
      BY <2>7 DEF Conclude, Executed, TypeOK
    <3>6. Ends(trace) = {Len(trace)}
      BY <3>4, EndIsLast
    <3>7. \A k \in Executed : Authorised(k) /\ Blocks(trace, trace[k].action_id) = {}
      BY <3>3, <3>4, <3>5, NoBlocks DEF InOrder
    <3>8. ASSUME policy.single_use, NEW j \in Executed, NEW k \in Executed,
                 SameApproval(j, k)
          PROVE  j = k
      <4>1. ~(j < k)
        BY <2>7, <3>3, <3>5, <3>8 DEF CleanInv, Conclude
      <4>2. ~(k < j)
        BY <2>7, <3>3, <3>5, <3>8 DEF CleanInv, Conclude, SameApproval
      <4> QED  BY <3>5, <4>1, <4>2
    <3> QED  BY <3>6, <3>7, <3>8
  <2>8. CASE UNCHANGED vars
    <3>1. /\ phase' = phase /\ i' = i /\ trace' = trace /\ policy' = policy
          /\ findings' = findings /\ report' = report
      BY <2>8 DEF vars, loopVars
    <3>2. PassIsAuthorised'
      BY <3>1, OrderStays DEF CleanInv, PassIsAuthorised, Settled
    <3> QED  BY <3>1, <3>2, OrderStays DEF CleanInv
  <2> QED  BY <2>1, <2>2, <2>4, <2>5, <2>6, <2>7, <2>8 DEF Next, Evaluate
<1>3. CleanInv => PassIsAuthorised
  BY DEF CleanInv
<1> QED  BY <1>1, <1>2, <1>3, TypeCorrect, LoopCorrect, PTL DEF Spec

-----------------------------------------------------------------------------
(* Violations are demonstrated.                                            *)

\* The rules of Demonstrated are those of an execution alone.
OfExecutions == {"ACK001", "ACK002", "ACK004", "ACK005", "ACK007", "ACK008"}

LEMMA OthersAreDemonstrated ==
  ASSUME NEW F, \A rule \in OfExecutions : \A k : <<rule, k>> \notin F
  PROVE  Demonstrated(F)
BY DEF Demonstrated, OfExecutions

LEMMA BeginIsDemonstrated ==
  Demonstrated(ClockFindings \cup EndFindings \cup DuplicateFindings \cup LinkFindings)
<1> DEFINE Others(F) == \A rule \in OfExecutions : \A k : <<rule, k>> \notin F
<1>1. Others(ClockFindings) /\ Others(EndFindings)
  BY DEF ClockFindings, EndFindings, OfExecutions
<1>2. Others(DuplicateFindings)
  BY DEF DuplicateFindings, Duplicates, OfExecutions
<1>3. ASSUME NEW k
      PROVE  Others(RequestFindings(k)) /\ Others(DecisionFindings(k))
  <2>1. Others(RequestFindings(k))
    BY DEF RequestFindings, Flag, OfExecutions
  <2>2. Others(DecisionFindings(k))
    BY DEF DecisionFindings, Flag, OfExecutions
  <2> QED  BY <2>1, <2>2
<1>4. Others(LinkFindings)
  BY <1>3 DEF LinkFindings
<1> QED  BY <1>1, <1>2, <1>4, OthersAreDemonstrated

LEMMA ClosingIsDemonstrated == Demonstrated(ClosingFindings)
<1> DEFINE Others(F) == \A rule \in OfExecutions : \A k : <<rule, k>> \notin F
<1>1. \A k : Others(BlockFindings(k)) /\ Others(UnresolvedFindings(k))
  BY DEF BlockFindings, UnresolvedFindings, Flag, OfExecutions
<1>2. Others(ClosingFindings)
  BY <1>1 DEF ClosingFindings
<1> QED  BY <1>2, OthersAreDemonstrated

\* The turn at an execution says nothing of other lines, and complains of a
\* denial, an earlier use or a denied path only when the loop has seen one.
LEMMA TurnIsDemonstrated ==
  ASSUME TypeOK, LatestDenialInv, DeniedIntentInv, ObservedInv, ConsumedInv,
         i \in Executed
  PROVE  Demonstrated(ExecutionFindings(i, Seen(i)[trace[i].action_id]))
<1> DEFINE e == trace[i]
           intents == Seen(i)[e.action_id]
           valid == ValidAllow(i, intents, consumed)
           F == ExecutionFindings(i, intents)
           d == DecisionOf(i)
<1>1. i \in Lines /\ e \in Event /\ e.action_id \in ActionIds /\ DOMAIN trace = Lines
  BY TypesOfLines, EventFields DEF Executed
<1>2. ASSUME NEW rule \in OfExecutions, <<rule, i>> \in F
      PROVE  \/ <<rule, i>> \in OrderFindings(i) /\ rule = "ACK008"
             \/ <<rule, i>> \in ApprovalFindings(i, consumed)
             \/ <<rule, i>> \in DenialFindings(i, valid) /\ rule = "ACK002"
             \/ <<rule, i>> \in RouteAroundFindings(i, valid, intents) /\ rule = "ACK007"
  BY <1>2 DEF ExecutionFindings, OrderFindings, ApprovalFindings, DenialFindings,
              RouteAroundFindings, Flag, OfExecutions
<1>3. ASSUME d # 0
      PROVE  d \in Lines /\ SameApproval(d, i) /\ e.approval_id \in ApprovalIds
  <2>1. d \in Decisions(trace, e.approval_id) /\ d \in Lines
    BY <1>3, TypesOfLines, FirstOf DEF DecisionOf
  <2>2. SameApproval(d, i)
    BY <2>1 DEF Decisions, OfApproval, SameApproval
  <2> QED  BY <1>1, <2>1, <2>2, EventFields DEF SameApproval
<1>4. ASSUME <<"ACK001", i>> \in F
      PROVE  e.action \in Covered /\ e.approval_id = None
  BY <1>2, <1>4 DEF ApprovalFindings, Flag, OfExecutions
<1>5. ASSUME <<"ACK002", i>> \in F
      PROVE  \E n \in Denials : n < i /\ (SameAction(n, i) \/ SameApproval(n, i))
  <2>1. CASE <<"ACK002", i>> \in ApprovalFindings(i, consumed)
    <3>1. d # 0 /\ d < i /\ trace[d].decision = "deny"
      BY <2>1 DEF ApprovalFindings, Flag, RefersToDenial
    <3> QED  BY <1>1, <1>3, <3>1 DEF Denials
  <2>2. CASE <<"ACK002", i>> \in DenialFindings(i, valid)
    <3>1. latestDenials[e.action_id] # 0
      BY <2>2 DEF DenialFindings, Flag
    <3> QED  BY <1>1, <3>1 DEF LatestDenialInv, DenialsBefore, SameAction
  <2> QED  BY <1>2, <1>5, <2>1, <2>2 DEF OfExecutions
<1>6. ASSUME <<"ACK004", i>> \in F
      PROVE  \E j \in Executed : j < i /\ SameApproval(j, i)
  <2>1. d # 0 /\ e.approval_id \in consumed
    BY <1>2, <1>6 DEF ApprovalFindings, Flag, OfExecutions, Referenced
  <2>2. e.approval_id \in ApprovalIds /\ e.approval_id # None
    BY <1>3, <2>1 DEF SameApproval
  <2> QED  BY <2>1, <2>2 DEF ConsumedInv, SameApproval
<1>7. ASSUME <<"ACK005", i>> \in F
      PROVE  \E c \in Lines :
               /\ c < i /\ SameApproval(c, i) /\ trace[c].decision = "allow"
               /\ \/ trace[c].expires_at # None /\ trace[c].expires_at < e.ts
                  \/ trace[c].expires_at = None /\ trace[c].ts + policy.max_age < e.ts
  <2>1. Referenced(i) /\ e.ts > Expiry(d)
    BY <1>2, <1>7 DEF ApprovalFindings, Flag, OfExecutions
  <2>2. d \in Lines /\ SameApproval(d, i) /\ d < i /\ trace[d].decision = "allow"
    BY <1>3, <2>1 DEF Referenced
  <2>3. /\ trace[i].ts \in Nat /\ trace[d].ts \in Nat /\ policy.max_age \in Nat
        /\ trace[d].expires_at # None => trace[d].expires_at \in Nat
    BY <1>1, <2>2, TypesOfLines, BoundAssumption, DataAssumption
       DEF TypeOK, Event, EventRecord, Policy
  <2> QED  BY <2>1, <2>2, <2>3 DEF Expiry
<1>8. ASSUME <<"ACK007", i>> \in F
      PROVE  \E n \in Denials : DeniedPath(n, i)
  <2>1. <<"ACK007", i>> \in RouteAroundFindings(i, valid, intents)
    BY <1>2, <1>8 DEF ApprovalFindings, Flag, OfExecutions
  <2>2. PICK a \in ActionIds \ {e.action_id}, x \in intents : deniedIntents[a][x] # 0
    BY <2>1 DEF RouteAroundFindings, Flag
  <2>3. x \in Intents
    <3>1. Seen(i) \in [ActionIds -> SUBSET Intents]
      BY <1>1, EventFields DEF Seen, TypeOK
    <3> QED  BY <1>1, <2>2, <3>1
  <2>4. Intended(i, x)
    BY <1>1, <2>2, <2>3, SeenIsObserved DEF Intended, SameAction
  <2> DEFINE n == deniedIntents[a][x]
  <2>5. n \in DenialsBefore(a) /\ Intended(n, x)
    BY <2>2, <2>3 DEF DeniedIntentInv
  <2>6. DeniedPath(n, i) /\ n \in Denials
    BY <2>2, <2>3, <2>4, <2>5 DEF DeniedPath, DenialsBefore, SameAction
  <2> QED  BY <2>6
<1>9. ASSUME <<"ACK008", i>> \in F
      PROVE  \E s \in Interrupts(trace) : s < i
  <2>1. <<"ACK008", i>> \in OrderFindings(i)
    BY <1>2, <1>9 DEF ApprovalFindings, Flag, OfExecutions
  <2> QED  BY <2>1 DEF OrderFindings, Flag
<1>10. \A f \in F : f[2] = i
  BY DEF ExecutionFindings, OrderFindings, ApprovalFindings, DenialFindings,
         RouteAroundFindings, Flag
<1>11. \A k \in Lines, rule \in OfExecutions : <<rule, k>> \in F => k = i
  <2> HIDE DEF F
  <2> QED  BY <1>10
<1>12. Demonstrated(F)
  <2> HIDE DEF F
  <2> SUFFICES ASSUME NEW k \in Lines
               PROVE  \A rule \in OfExecutions :
                        <<rule, k>> \in F => k = i /\ <<rule, i>> \in F
    BY <1>1, <1>4, <1>5, <1>6, <1>7, <1>8, <1>9 DEF Demonstrated, OfExecutions
  <2> QED  BY <1>1, <1>11
<1> QED  BY <1>12

LEMMA DemonstratedUnion ==
  ASSUME NEW F, NEW G, Demonstrated(F), Demonstrated(G)
  PROVE  Demonstrated(F \cup G)
<1> DEFINE H == F \cup G
<1>1. \A rule, k : <<rule, k>> \in H <=> <<rule, k>> \in F \/ <<rule, k>> \in G
  OBVIOUS
<1>2. Demonstrated(H)
  <2> HIDE DEF H
  <2> QED  BY <1>1 DEF Demonstrated
<1> QED  BY <1>2

\* An intent finding is only ACK009.
LEMMA IntentIsDemonstrated ==
  ASSUME NEW k
  PROVE  Demonstrated(IntentFindings(k))
<1>1. \A rule \in OfExecutions : \A l : <<rule, l>> \notin IntentFindings(k)
  BY DEF IntentFindings, Flag, OfExecutions
<1> QED  BY <1>1, OthersAreDemonstrated

LEMMA DemonstratedStays ==
  ASSUME trace' = trace, policy' = policy
  PROVE  /\ Demonstrated(findings') => Demonstrated(findings)'
         /\ Demonstrated(report'.findings) => Demonstrated(report.findings)'
<1>1. Denials' = Denials /\ Executed' = Executed
  BY DEF Denials, Executed
<1>2. \A n, k : /\ SameAction(n, k)' = SameAction(n, k)
                /\ SameApproval(n, k)' = SameApproval(n, k)
                /\ DeniedPath(n, k)' = DeniedPath(n, k)
  BY DEF SameAction, SameApproval, DeniedPath, Intended
<1> QED  BY <1>1, <1>2 DEF Demonstrated

\* What the loop has found so far is demonstrated as well.
DemonstratedInv ==
    /\ phase = "loop" => Demonstrated(findings)
    /\ ViolationsAreDemonstrated

\* Whatever a session records, every violation reported of it is a fact of the
\* trace.
THEOREM ViolationsAreReal == Spec => []ViolationsAreDemonstrated
<1>1. Init => DemonstratedInv
  BY DEF Init, DemonstratedInv, ViolationsAreDemonstrated, Settled, TypeOK
<1>2. TypeOK /\ LoopInv /\ DemonstratedInv /\ [Next]_vars => DemonstratedInv'
  <2> SUFFICES ASSUME TypeOK, LoopInv, DemonstratedInv, [Next]_vars
               PROVE  DemonstratedInv'
    OBVIOUS
  <2>1. ASSUME NEW e \in Alphabet, Record(e)
        PROVE  DemonstratedInv'
    <3>1. Len(trace') = Len(trace) + 1 /\ Len(trace) \in Nat
      BY <2>1 DEF Record, TypeOK
    <3> QED  BY <2>1, <3>1 DEF Record, DemonstratedInv, ViolationsAreDemonstrated, Settled
  <2>2. CASE Begin
    <3>1. trace' = trace /\ policy' = policy /\ phase' = "loop"
      BY <2>2 DEF Begin
    <3>2. Demonstrated(findings')
      BY <2>2, BeginIsDemonstrated DEF Begin
    <3> QED  BY <3>1, <3>2, DemonstratedStays
             DEF DemonstratedInv, ViolationsAreDemonstrated, Settled
  <2>3. ASSUME Turn, Demonstrated(findings')
        PROVE  DemonstratedInv'
    <3>1. trace' = trace /\ policy' = policy /\ phase' = "loop"
      BY <2>3 DEF Turn
    <3> QED  BY <2>3, <3>1, DemonstratedStays
             DEF DemonstratedInv, ViolationsAreDemonstrated, Settled
  <2>4. Turn => Demonstrated(findings \cup IntentFindings(i))
    BY IntentIsDemonstrated, DemonstratedUnion DEF DemonstratedInv, Turn
  <2>5. CASE VisitDenial
    BY <2>3, <2>4, <2>5 DEF VisitDenial
  <2>6. CASE VisitExecution
    <3>1. Turn /\ i \in Executed
      BY <2>6, TurnKeepsTrace, TypesOfLines DEF VisitExecution, Executed
    <3>2. LatestDenialInv /\ ObservedInv /\ DeniedIntentInv /\ ConsumedInv
      BY <3>1 DEF Turn, LoopInv
    <3>3. Demonstrated(ExecutionFindings(i, Seen(i)[trace[i].action_id]))
      BY <3>1, <3>2, TurnIsDemonstrated
    <3>4. Demonstrated(findings')
      BY <2>4, <2>6, <3>1, <3>3, DemonstratedUnion DEF VisitExecution
    <3> QED  BY <2>3, <3>1, <3>4
  <2>7. CASE VisitOther
    BY <2>3, <2>4, <2>7 DEF VisitOther
  <2>8. CASE Conclude
    <3>1. trace' = trace /\ policy' = policy /\ phase' = "idle"
      BY <2>8 DEF Conclude
    <3>2. Demonstrated(findings \cup ClosingFindings)
      BY <2>8, ClosingIsDemonstrated, DemonstratedUnion DEF Conclude, DemonstratedInv
    <3>3. Demonstrated(report.findings)'
      BY <2>8, <3>1, <3>2, DemonstratedStays DEF Conclude
    <3> QED  BY <3>1, <3>3 DEF DemonstratedInv, ViolationsAreDemonstrated
  <2>9. CASE UNCHANGED vars
    <3>1. /\ phase' = phase /\ trace' = trace /\ policy' = policy
          /\ findings' = findings /\ report' = report
      BY <2>9 DEF vars, loopVars
    <3> QED  BY <3>1, DemonstratedStays DEF DemonstratedInv, ViolationsAreDemonstrated, Settled
  <2> QED  BY <2>1, <2>2, <2>5, <2>6, <2>7, <2>8, <2>9 DEF Next, Evaluate
<1>3. DemonstratedInv => ViolationsAreDemonstrated
  BY DEF DemonstratedInv
<1> QED  BY <1>1, <1>2, <1>3, TypeCorrect, LoopCorrect, PTL DEF Spec
-----------------------------------------------------------------------------
(* Violations stand: what an evaluation finds, but for ACK009, is found of *)
(* every trace that goes on from there.                                    *)

\* What the accumulators hold at line k, as the trace alone says it.
LinkedTo(k) == {x \in Intents : Intended(k, x)}
SpentBefore(k) ==
    {p \in ApprovalIds :
        /\ policy.single_use
        /\ \E j \in Executed : j < k /\ trace[j].approval_id = p /\ Referenced(j)}
Allowed(k) == ValidAllow(k, LinkedTo(k), SpentBefore(k))

\* A denial of the action, or of another path to an intent, that no valid allow
\* of the execution at k follows.
Denied(k) == \E n \in Denials : n < k /\ SameAction(n, k) /\ ~Overrides(k, Allowed(k), n)
Routed(k) == \E n \in Denials : DeniedPath(n, k) /\ ~Overrides(k, Allowed(k), n)

\* The findings of an evaluation without its loop.
BeforeTurns == EndFindings \cup DuplicateFindings \cup LinkFindings
AtTurn(k) ==
    OrderFindings(k) \cup ApprovalFindings(k, SpentBefore(k)) \cup
    Flag(Denied(k), "ACK002", k) \cup Flag(Routed(k), "ACK007", k)
Found == Violations(BeforeTurns \cup ClosingFindings \cup UNION {AtTurn(k) : k \in Executed})

\* What the loop and the last report say is of the trace as it now stands.
StandingInv ==
    /\ phase = "loop" =>
         /\ Violations(findings) \subseteq Found
         /\ BeforeTurns \subseteq findings
         /\ \A k \in Executed : k < i => Violations(AtTurn(k)) \subseteq findings
    /\ Violations(report.findings) \subseteq Found

\* What the status of the last report says of it.
StatusInv ==
    /\ phase = "loop" => report.events # Len(trace)
    /\ report.status = (IF report.events = 0 THEN "NONE" ELSE StatusOf(report.findings))
    /\ report.status = "PASS" => \E k \in Ends(trace) : k <= report.events

\* The trace goes on by one event.
Grows ==
    /\ trace' \in Seq(Event) /\ Len(trace') = Len(trace) + 1
    /\ \A k \in Lines : trace'[k] = trace[k]
    /\ policy' = policy

\* An index can only gain the new line, and its first line stays the first.
LEMMA FirstGrows ==
  ASSUME NEW n \in Nat, NEW S \in SUBSET (1..n), NEW T \in SUBSET (1..(n + 1)),
         S \subseteq T, T \subseteq S \cup {n + 1}
  PROVE  /\ First(S) \in 0..n
         /\ First(S) # 0 <=> S # {}
         /\ First(T) = First(S) \/ (First(S) = 0 /\ First(T) = n + 1)
<1>1. /\ First(S) \in 0..n /\ (S = {} => First(S) = 0)
      /\ S # {} => First(S) \in S /\ \A l \in S : First(S) <= l
  BY FirstLine
<1>2. /\ First(T) \in 0..(n + 1) /\ (T = {} => First(T) = 0)
      /\ T # {} => First(T) \in T /\ \A l \in T : First(T) <= l
  BY FirstLine
<1>3. CASE S = {}
  BY <1>1, <1>2, <1>3
<1>4. CASE S # {}
  <2>1. First(S) \in T /\ First(T) \in T /\ First(S) \in 1..n
    BY <1>1, <1>2, <1>4
  <2>2. First(T) <= First(S) /\ (First(T) \in S => First(S) <= First(T))
    BY <1>1, <1>2, <1>4, <2>1
  <2>3. First(T) \in S
    <3>1. First(T) # n + 1
      BY <2>1, <2>2
    <3> QED  BY <2>1, <3>1
  <2>4. First(T) <= First(S) /\ First(S) <= First(T)
    BY <2>2, <2>3
  <2>5. First(S) \in Int /\ First(T) \in Int
    <3>1. 1..n \subseteq Int
      OBVIOUS
    <3>2. S \subseteq Int
      BY <3>1, Zenon
    <3> QED  BY <2>1, <2>3, <3>1, <3>2, Zenon
  <2>6. First(T) = First(S)
    BY <2>4, <2>5
  <2> QED  BY <1>1, <1>4, <2>1, <2>6
<1> QED  BY <1>3, <1>4

LEMMA IndexGrows ==
  ASSUME TypeOK, Grows
  PROVE  /\ \A t, a : /\ OfAction(trace, t, a) \subseteq OfAction(trace', t, a)
                      /\ OfAction(trace', t, a) \subseteq OfAction(trace, t, a) \cup {Len(trace) + 1}
         /\ \A t, p : /\ OfApproval(trace, t, p) \subseteq OfApproval(trace', t, p)
                      /\ OfApproval(trace', t, p) \subseteq OfApproval(trace, t, p) \cup {Len(trace) + 1}
         /\ Ends(trace) \subseteq Ends(trace')
         /\ Ends(trace') \subseteq Ends(trace) \cup {Len(trace) + 1}
         /\ DOMAIN trace' = Lines \cup {Len(trace) + 1} /\ Len(trace) \in Nat
<1>1. DOMAIN trace' = Lines \cup {Len(trace) + 1} /\ DOMAIN trace = Lines /\ Len(trace) \in Nat
  BY DEF TypeOK, Grows, Lines
<1> QED  BY <1>1 DEF Grows, OfAction, OfApproval, Ends

LEMMA FirstOfGrows ==
  ASSUME TypeOK, Grows
  PROVE  /\ \A t, a : LET f == First(OfAction(trace, t, a))
                          g == First(OfAction(trace', t, a))
                      IN  f \in Lines \cup {0} /\ (g = f \/ (f = 0 /\ g = Len(trace) + 1))
         /\ \A t, p : LET f == First(OfApproval(trace, t, p))
                          g == First(OfApproval(trace', t, p))
                      IN  f \in Lines \cup {0} /\ (g = f \/ (f = 0 /\ g = Len(trace) + 1))
<1> DEFINE n == Len(trace)
<1>1. /\ \A t, a : OfAction(trace, t, a) \in SUBSET (1..n)
      /\ \A t, p : OfApproval(trace, t, p) \in SUBSET (1..n)
      /\ n \in Nat
  BY IndexTypes DEF TypeOK, Lines
<1>2. /\ \A t, a : OfAction(trace', t, a) \in SUBSET (1..(n + 1))
      /\ \A t, p : OfApproval(trace', t, p) \in SUBSET (1..(n + 1))
  BY <1>1, IndexGrows
<1>3. Lines \cup {0} = 0..n
  BY <1>1 DEF Lines
<1>4. \A t, a : /\ First(OfAction(trace, t, a)) \in 0..n
                /\ \/ First(OfAction(trace', t, a)) = First(OfAction(trace, t, a))
                   \/ /\ First(OfAction(trace, t, a)) = 0
                      /\ First(OfAction(trace', t, a)) = n + 1
  BY <1>1, <1>2, IndexGrows, FirstGrows
<1>5. \A t, p : /\ First(OfApproval(trace, t, p)) \in 0..n
                /\ \/ First(OfApproval(trace', t, p)) = First(OfApproval(trace, t, p))
                   \/ /\ First(OfApproval(trace, t, p)) = 0
                      /\ First(OfApproval(trace', t, p)) = n + 1
  BY <1>1, <1>2, IndexGrows, FirstGrows
<1> QED  BY <1>3, <1>4, <1>5, Zenon

\* What a line refers to stays, or comes after it.
LEMMA RefersGrows ==
  ASSUME TypeOK, Grows, NEW k \in Lines
  PROVE  /\ ProposalOf(k) \in Lines \cup {0} /\ RequestOf(k) \in Lines \cup {0}
         /\ DecisionOf(k) \in Lines \cup {0}
         /\ ProposalOf(k)' = ProposalOf(k) \/ (ProposalOf(k) = 0 /\ ProposalOf(k)' = Len(trace) + 1)
         /\ RequestOf(k)' = RequestOf(k) \/ (RequestOf(k) = 0 /\ RequestOf(k)' = Len(trace) + 1)
         /\ DecisionOf(k)' = DecisionOf(k) \/ (DecisionOf(k) = 0 /\ DecisionOf(k)' = Len(trace) + 1)
<1>1. trace'[k] = trace[k]
  BY DEF Grows
<1> QED  BY <1>1, FirstOfGrows DEF ProposalOf, RequestOf, DecisionOf, Proposals, Requests, Decisions

\* What the lines up to k say of an execution at k stays as it is, and an allow
\* that is not valid does not become valid.
LEMMA PastStays ==
  ASSUME TypeOK, Grows, NEW k \in Lines
  PROVE  /\ Referenced(k)' = Referenced(k)
         /\ Denials \subseteq Denials' /\ Executed \subseteq Executed'
         /\ \A n \in Lines : \A x : Intended(n, x)' = Intended(n, x)
<1>1. /\ Len(trace) \in Nat /\ Lines = 1..Len(trace)
      /\ \A n \in Lines : trace'[n] = trace[n]
      /\ DOMAIN trace = Lines /\ Lines \subseteq DOMAIN trace'
  BY IndexGrows DEF TypeOK, Grows, Lines
<1>2. Referenced(k)' = Referenced(k)
  BY <1>1, RefersGrows DEF Referenced
<1>3. Denials \subseteq Denials' /\ Executed \subseteq Executed'
  BY <1>1 DEF Denials, Executed
<1>4. ASSUME NEW n \in Lines, NEW x
      PROVE  Intended(n, x)' = Intended(n, x)
  BY <1>1, <1>4 DEF Intended, SameAction
<1> QED  BY <1>2, <1>3, <1>4

LEMMA AllowedStays ==
  ASSUME TypeOK, Grows, NEW k \in Lines
  PROVE  /\ SpentBefore(k)' = SpentBefore(k)
         /\ Allowed(k)' => Allowed(k) /\ DecisionOf(k)' = DecisionOf(k)
<1>1. /\ Len(trace) \in Nat /\ Lines = 1..Len(trace) /\ policy' = policy
      /\ \A n \in Lines : trace'[n] = trace[n]
      /\ DOMAIN trace = Lines /\ DOMAIN trace' = Lines \cup {Len(trace) + 1}
  BY IndexGrows DEF TypeOK, Grows, Lines
<1>2. \A n \in Lines : Referenced(n)' = Referenced(n)
  BY PastStays
<1>3. \A j : j < k => (j \in Executed' <=> j \in Executed)
  BY <1>1 DEF Executed
<1>4. SpentBefore(k)' = SpentBefore(k)
  BY <1>1, <1>2, <1>3 DEF SpentBefore, Executed
<1>5. LinkedTo(k)' = LinkedTo(k)
  BY PastStays DEF LinkedTo
<1>6. ASSUME Allowed(k)'
      PROVE  Allowed(k) /\ DecisionOf(k)' = DecisionOf(k)
  <2>1. ValidAllow(k, LinkedTo(k), SpentBefore(k))'
    BY <1>6 DEF Allowed
  <2>2. Referenced(k) /\ DecisionOf(k)' = DecisionOf(k) /\ DecisionOf(k) \in Lines /\ DecisionOf(k) < k
    <3>1. Referenced(k)' /\ Referenced(k)
      BY <1>2, <2>1 DEF ValidAllow
    <3> QED  BY <3>1, RefersGrows DEF Referenced
  <2>3. RequestOf(k)' = RequestOf(k) /\ RequestOf(k) \in Lines /\ RequestOf(k) < DecisionOf(k)
    <3>1. RequestOf(k)' # 0 /\ RequestOf(k)' < DecisionOf(k)'
      BY <2>1 DEF ValidAllow
    <3> QED  BY <1>1, <2>2, <3>1, RefersGrows
  <2>4. /\ {trace[RequestOf(k)].action_id, trace[DecisionOf(k)].action_id} = {trace[k].action_id}
        /\ Presented(RequestOf(k), k)
    BY <1>1, <2>1, <2>2, <2>3 DEF ValidAllow, Presented
  <2>5. ProposalOf(k) # 0 => Presented(ProposalOf(k), RequestOf(k))
    BY <1>1, <2>1, <2>3, RefersGrows DEF ValidAllow, Presented
  <2>6. InTime(k)
    BY <1>1, <2>1, <2>2 DEF ValidAllow, InTime, Expiry
  <2>7. Unambiguous(LinkedTo(k)) /\ trace[k].approval_id \notin SpentBefore(k)
    BY <1>1, <1>4, <1>5, <2>1 DEF ValidAllow, Unambiguous
  <2>8. RequestOf(k) # 0
    BY <1>1, <2>3
  <2>9. ValidAllow(k, LinkedTo(k), SpentBefore(k))
    BY <2>2, <2>3, <2>4, <2>5, <2>6, <2>7, <2>8 DEF ValidAllow
  <2> QED  BY <2>2, <2>9 DEF Allowed
<1> QED  BY <1>4, <1>6

\* A violation at an execution stands.
LEMMA TurnStands ==
  ASSUME TypeOK, Grows, NEW k \in Executed
  PROVE  Violations(AtTurn(k)) \subseteq AtTurn(k)'
<1>1. /\ k \in Lines /\ k \in Nat /\ k <= Len(trace) /\ Len(trace) \in Nat
      /\ trace'[k] = trace[k] /\ policy' = policy
      /\ \A n \in Lines : n \in Nat /\ trace'[n] = trace[n]
  BY TypesOfLines DEF TypeOK, Grows, Executed, Lines
<1>2. Violations(OrderFindings(k)) \subseteq OrderFindings(k)'
  <2>1. Interrupts(trace) \subseteq Interrupts(trace)'
    BY IndexGrows, <1>1, TypesOfLines DEF Interrupts
  <2>2. Blocks(trace, trace[k].action_id) \subseteq Blocks(trace', trace'[k].action_id)
    BY <1>1, IndexGrows DEF Blocks
  <2>3. ProposalOf(k) > k => ProposalOf(k)' = ProposalOf(k)
    BY <1>1, RefersGrows
  <2> QED  BY <1>1, <2>1, <2>2, <2>3 DEF Violations, OrderFindings, Flag
<1>3. Violations(ApprovalFindings(k, SpentBefore(k))) \subseteq ApprovalFindings(k, SpentBefore(k))'
  <2> DEFINE r == RequestOf(k)
             d == DecisionOf(k)
  <2>1. /\ r # 0 => r' = r /\ trace'[r] = trace[r]
        /\ d # 0 => d' = d /\ trace'[d] = trace[d]
        /\ r > k => r' > k
        /\ d > k => d' > k
    BY <1>1, RefersGrows
  <2>2. Referenced(k)' = Referenced(k) /\ SpentBefore(k)' = SpentBefore(k)
    BY <1>1, PastStays, AllowedStays
  <2>3. RefersToDenial(k) => RefersToDenial(k)'
    BY <2>1 DEF RefersToDenial
  <2>4. Referenced(k) => d # 0 /\ Expiry(d)' = Expiry(d)
    BY <1>1, <2>1 DEF Referenced, Expiry
  <2>5. /\ r # 0 /\ trace[r].action_id # trace[k].action_id
             => r' # 0 /\ trace'[r'].action_id # trace'[k].action_id
        /\ r # 0 /\ ~Presented(r, k) => r' # 0 /\ ~Presented(r, k)'
        /\ d # 0 /\ trace[d].action_id # trace[k].action_id
             => d' # 0 /\ trace'[d'].action_id # trace'[k].action_id
    BY <1>1, <2>1 DEF Presented
  <2>6. Referenced(k) /\ trace[k].ts > Expiry(d) => Referenced(k)' /\ trace'[k].ts > Expiry(d)'
    BY <1>1, <2>2, <2>4
  <2> HIDE DEF r, d
  <2> QED  BY <1>1, <2>1, <2>2, <2>3, <2>5, <2>6 DEF Violations, ApprovalFindings, Flag, r, d
<1>4. ASSUME NEW n, ~Overrides(k, Allowed(k), n)
      PROVE  ~Overrides(k, Allowed(k), n)'
  BY <1>1, <1>4, AllowedStays DEF Overrides
<1>5. Denials \subseteq Denials' /\ Denials \subseteq Lines
  BY <1>1, PastStays, TypesOfLines DEF Denials
<1>6. Denied(k) => Denied(k)'
  BY <1>1, <1>4, <1>5 DEF Denied, SameAction
<1>7. Routed(k) => Routed(k)'
  <2>1. \A n \in Denials : DeniedPath(n, k) => DeniedPath(n, k)'
    BY <1>1, <1>5, PastStays DEF DeniedPath, SameAction
  <2> QED  BY <1>4, <1>5, <2>1 DEF Routed
<1> QED  BY <1>2, <1>3, <1>6, <1>7 DEF AtTurn, Violations, Flag

\* So does one of the rules before the loop, which compare first lines.
LEMMA BeforeStands ==
  ASSUME TypeOK, Grows
  PROVE  Violations(BeforeTurns) \subseteq BeforeTurns'
<1> DEFINE N == Len(trace) + 1
<1>1. /\ Len(trace) \in Nat /\ Lines = 1..Len(trace) /\ policy' = policy
      /\ \A n \in Lines : trace'[n] = trace[n] /\ n # 0 /\ n < N
      /\ Len(trace') = N
  BY DEF TypeOK, Grows, Lines
<1>2. Violations(EndFindings) \subseteq EndFindings'
  <2>1. CASE Ends(trace) = {}
    BY <2>1 DEF EndFindings, Violations
  <2>2. CASE Ends(trace) # {}
    <3>1. /\ Ends(trace) \in SUBSET (1..Len(trace))
          /\ Ends(trace') \in SUBSET (1..N)
      BY <1>1, IndexTypes, IndexGrows DEF TypeOK
    <3>2. First(Ends(trace')) = First(Ends(trace)) /\ First(Ends(trace)) \in 0..Len(trace)
      BY <1>1, <2>2, <3>1, IndexGrows, FirstGrows
    <3>3. (First(Ends(trace)) + 1)..Len(trace) \subseteq (First(Ends(trace)) + 1)..N
      BY <1>1, <3>2
    <3>4. Ends(trace') # {}
      BY <2>2, IndexGrows
    <3>5. EndFindings = {<<"ACK006", k>> : k \in (First(Ends(trace)) + 1)..Len(trace)}
      BY <2>2 DEF EndFindings
    <3>6. EndFindings' = {<<"ACK006", k>> : k \in (First(Ends(trace)) + 1)..N}
      BY <1>1, <3>2, <3>4 DEF EndFindings
    <3> QED  BY <3>3, <3>5, <3>6 DEF Violations
  <2> QED  BY <2>1, <2>2
<1>3. ASSUME NEW S, NEW T, NEW rule, S \subseteq T,
             S # {} => First(T) = First(S)
      PROVE  Duplicates(S, rule) \subseteq Duplicates(T, rule)
  BY <1>3 DEF Duplicates
<1>4. /\ \A t, a : OfAction(trace, t, a) # {} =>
                      First(OfAction(trace', t, a)) = First(OfAction(trace, t, a))
      /\ \A t, p : OfApproval(trace, t, p) # {} =>
                      First(OfApproval(trace', t, p)) = First(OfApproval(trace, t, p))
  <2>1. /\ \A t, a : OfAction(trace, t, a) \in SUBSET Lines
        /\ \A t, p : OfApproval(trace, t, p) \in SUBSET Lines
    BY IndexTypes DEF TypeOK
  <2>2. /\ \A t, a : OfAction(trace, t, a) # {} => First(OfAction(trace, t, a)) # 0
        /\ \A t, p : OfApproval(trace, t, p) # {} => First(OfApproval(trace, t, p)) # 0
    BY <2>1, FirstOf
  <2> QED  BY <2>2, FirstOfGrows
<1>5. DuplicateFindings \subseteq DuplicateFindings'
  BY <1>3, <1>4, IndexGrows DEF DuplicateFindings, Proposals, Blocks, Requests, Decisions
<1>6. ASSUME NEW r \in Lines
      PROVE  Violations(RequestFindings(r)) \subseteq RequestFindings(r)'
  <2> DEFINE p == First(Proposals(trace, trace[r].action_id))
  <2>1. p \in Lines \cup {0} /\ (p' = p \/ p = 0)
    BY <1>1, <1>6, FirstOfGrows DEF Proposals
  <2>2. /\ p > r => p' = p
        /\ p # 0 /\ ~Presented(p, r) => p' # 0 /\ ~Presented(p, r)'
    BY <1>1, <1>6, <2>1 DEF Presented
  <2> HIDE DEF p
  <2> QED  BY <1>1, <2>2 DEF RequestFindings, Violations, Flag, p
<1>7. ASSUME NEW d \in Lines
      PROVE  Violations(DecisionFindings(d)) \subseteq DecisionFindings(d)'
  <2> DEFINE r == First(Requests(trace, trace[d].approval_id))
  <2>1. r \in Lines \cup {0} /\ (r' = r \/ r = 0)
    BY <1>1, <1>7, FirstOfGrows DEF Requests
  <2>2. r # 0 => r' = r /\ trace'[r] = trace[r]
    BY <1>1, <2>1
  <2> HIDE DEF r
  <2> QED  BY <1>1, <1>7, <2>2 DEF DecisionFindings, Violations, Flag, r
<1>8. Violations(LinkFindings) \subseteq LinkFindings'
  <2>1. ASSUME NEW p \in ApprovalIds, Requests(trace, p) # {}
        PROVE  /\ Requests(trace', p) # {}
               /\ First(Requests(trace', p)) = First(Requests(trace, p))
               /\ Violations(RequestFindings(First(Requests(trace, p)))) \subseteq
                     RequestFindings(First(Requests(trace, p)))'
    BY <1>4, <1>6, <2>1, IndexGrows, TypesOfLines, FirstOf DEF Requests
  <2>2. ASSUME NEW p \in ApprovalIds, Decisions(trace, p) # {}
        PROVE  /\ Decisions(trace', p) # {}
               /\ First(Decisions(trace', p)) = First(Decisions(trace, p))
               /\ Violations(DecisionFindings(First(Decisions(trace, p)))) \subseteq
                     DecisionFindings(First(Decisions(trace, p)))'
    BY <1>4, <1>7, <2>2, IndexGrows, TypesOfLines, FirstOf DEF Decisions
  <2> QED  BY <2>1, <2>2 DEF LinkFindings, Violations
<1> QED  BY <1>2, <1>5, <1>8 DEF BeforeTurns, Violations

\* And one of a block.
LEMMA ClosingStands ==
  ASSUME TypeOK, Grows
  PROVE  Violations(ClosingFindings) \subseteq ClosingFindings'
<1>1. /\ Len(trace) \in Nat /\ Lines = 1..Len(trace)
      /\ DOMAIN trace = Lines /\ Lines \subseteq DOMAIN trace'
      /\ \A n \in Lines : trace'[n] = trace[n] /\ n # 0 /\ n \in Nat /\ n <= Len(trace)
  BY IndexGrows DEF TypeOK, Grows, Lines
<1>2. ASSUME NEW k \in Lines
      PROVE  Violations(BlockFindings(k)) \subseteq BlockFindings(k)'
  <2> DEFINE p == ProposalOf(k)
             r == RequestOf(k)
             d == DecisionOf(k)
  <2>1. /\ p > k => p' = p
        /\ r # 0 => r' = r /\ trace'[r] = trace[r]
        /\ d # 0 => d' = d /\ trace'[d] = trace[d]
        /\ r > k => r' > k
        /\ d > k => d' > k
        /\ d # 0 /\ r > d => d' # 0 /\ r' > d'
    BY <1>1, <1>2, RefersGrows
  <2>2. Executions(trace, trace[k].action_id) \subseteq Executions(trace', trace'[k].action_id)
    BY <1>1, <1>2, IndexGrows DEF Executions
  <2>3. trace'[k] = trace[k]
    BY <1>1, <1>2
  <2>4. ASSUME NEW l \in {r, d} \ {0}, trace[l].action_id # trace[k].action_id
        PROVE  l \in {r', d'} \ {0} /\ trace'[l].action_id # trace'[k].action_id
    BY <2>1, <2>3, <2>4
  <2> HIDE DEF p, r, d
  <2> QED  BY <2>1, <2>2, <2>3, <2>4 DEF BlockFindings, Violations, Flag, p, r, d
<1>3. \A a : Violations(UnresolvedFindings(a)) = {}
  BY DEF Violations, UnresolvedFindings, Flag
<1> QED  BY <1>1, <1>2, <1>3 DEF ClosingFindings, Violations

LEMMA FoundStands ==
  ASSUME TypeOK, Grows
  PROVE  Found \subseteq Found'
<1>1. Executed \subseteq Executed'
  BY IndexGrows, TypesOfLines DEF Executed, Grows
<1>2. \A k \in Executed : Violations(AtTurn(k)) \subseteq AtTurn(k)'
  BY TurnStands
<1> QED  BY <1>1, <1>2, BeforeStands, ClosingStands DEF Found, Violations

\* While the trace stays as it is, so does what is found of it.
LEMMA FoundStays ==
  ASSUME trace' = trace, policy' = policy
  PROVE  /\ Found' = Found /\ BeforeTurns' = BeforeTurns /\ Executed' = Executed
         /\ \A k : AtTurn(k)' = AtTurn(k)
<1>1. /\ EndFindings' = EndFindings /\ LinkFindings' = LinkFindings /\ Executed' = Executed
      /\ \A n, k : SameAction(n, k)' = SameAction(n, k)
  BY OrderStays DEF SameAction
<1>2. BeforeTurns' = BeforeTurns
  BY <1>1 DEF BeforeTurns, DuplicateFindings
<1>3. ClosingFindings' = ClosingFindings
  BY DEF ClosingFindings, BlockFindings, UnresolvedFindings, ProposalOf, RequestOf, DecisionOf
<1>4. \A k : /\ LinkedTo(k)' = LinkedTo(k) /\ Referenced(k)' = Referenced(k)
             /\ DecisionOf(k)' = DecisionOf(k)
  BY DEF LinkedTo, Intended, SameAction, Referenced, DecisionOf
<1>5. \A k : SpentBefore(k)' = SpentBefore(k)
  BY <1>1, <1>4 DEF SpentBefore
<1>6. \A k : Allowed(k)' = Allowed(k)
  BY <1>4, <1>5 DEF Allowed, ValidAllow, ProposalOf, RequestOf, Presented, InTime, Expiry,
                    Unambiguous
<1>7. \A k : OrderFindings(k)' = OrderFindings(k)
  BY DEF OrderFindings, ProposalOf
<1>8. \A k : ApprovalFindings(k, SpentBefore(k))' = ApprovalFindings(k, SpentBefore(k))
  BY <1>4, <1>5 DEF ApprovalFindings, RequestOf, Presented, RefersToDenial, Expiry
<1>9. Denials' = Denials
  BY DEF Denials
<1>10. \A k : Denied(k)' = Denied(k) /\ Routed(k)' = Routed(k)
  <2>1. \A n, k : DeniedPath(n, k)' = DeniedPath(n, k)
    BY DEF DeniedPath, SameAction, Intended
  <2> QED  BY <1>1, <1>4, <1>6, <1>9, <2>1 DEF Denied, Routed, Overrides
<1>11. \A k : AtTurn(k)' = AtTurn(k)
  BY <1>7, <1>8, <1>10 DEF AtTurn
<1> QED  BY <1>1, <1>2, <1>3, <1>11 DEF Found

\* The loop's memory leads to the findings that the trace calls for.
LEMMA TurnIsFound ==
  ASSUME TypeOK, LatestDenialInv, DeniedIntentInv, ObservedInv, ConsumedInv, i \in Executed
  PROVE  Violations(ExecutionFindings(i, Seen(i)[trace[i].action_id])) = Violations(AtTurn(i))
<1> DEFINE a == trace[i].action_id
           intents == Seen(i)[a]
           valid == ValidAllow(i, intents, consumed)
<1>1. i \in Lines /\ a \in ActionIds /\ Denials \subseteq Lines
      /\ \A n \in Denials : n \in Nat /\ n # 0 /\ trace[n].action_id \in ActionIds
  BY TypesOfLines, EventFields, DenialIsDecision DEF Executed
<1>2. intents = LinkedTo(i)
  <2>1. intents \subseteq Intents
    <3>1. Seen(i) \in [ActionIds -> SUBSET Intents]
      BY <1>1, TypesOfLines, EventFields DEF Seen, TypeOK
    <3> QED  BY <1>1, <3>1
  <2>2. \A x \in Intents : x \in intents <=> Intended(i, x)
    BY <1>1, SeenIsObserved DEF Intended, SameAction
  <2> QED  BY <2>1, <2>2 DEF LinkedTo
<1>3. consumed = SpentBefore(i)
  BY DEF ConsumedInv, SpentBefore, TypeOK
<1>4. valid = Allowed(i) /\ valid \in BOOLEAN /\ DecisionOf(i) \in Nat
  <2>1. DecisionOf(i) \in Nat
    BY TypesOfLines, FirstOf DEF DecisionOf
  <2> QED  BY <1>2, <1>3, <2>1 DEF Allowed, ValidAllow
<1>5. Violations(DenialFindings(i, valid)) = Flag(Denied(i), "ACK002", i)
  <2> DEFINE n == latestDenials[a]
  <2>1. n # 0 => n \in Denials /\ n < i /\ SameAction(n, i)
    BY <1>1 DEF LatestDenialInv, DenialsBefore, SameAction
  <2>2. \A m \in Denials : m < i /\ SameAction(m, i) => m <= n /\ n # 0
    BY <1>1, <2>1 DEF LatestDenialInv, DenialsBefore, SameAction, TypeOK
  <2>3. n \in Nat
    BY <1>1 DEF TypeOK
  <2>4. (n # 0 /\ ~Overrides(i, valid, n)) <=> Denied(i)
    BY <1>1, <1>4, <2>1, <2>2, <2>3 DEF Denied, Overrides
  <2> QED  BY <2>4 DEF DenialFindings, Violations, Flag
<1>6. RouteAroundFindings(i, valid, intents) = Flag(Routed(i), "ACK007", i)
  <2>1. ASSUME NEW b \in ActionIds \ {a}, NEW x \in intents,
               deniedIntents[b][x] # 0, ~Overrides(i, valid, deniedIntents[b][x])
        PROVE  Routed(i)
    <3> DEFINE n == deniedIntents[b][x]
    <3>1. x \in Intents /\ Intended(i, x)
      BY <1>2 DEF LinkedTo
    <3>2. n \in DenialsBefore(b) /\ Intended(n, x)
      BY <2>1, <3>1 DEF DeniedIntentInv
    <3>3. n \in Denials /\ DeniedPath(n, i)
      BY <3>1, <3>2 DEF DenialsBefore, DeniedPath, SameAction
    <3> QED  BY <1>4, <2>1, <3>3 DEF Routed
  <2>2. ASSUME NEW m \in Denials, DeniedPath(m, i), ~Overrides(i, Allowed(i), m)
        PROVE  \E b \in ActionIds \ {a}, x \in intents :
                  deniedIntents[b][x] # 0 /\ ~Overrides(i, valid, deniedIntents[b][x])
    <3> DEFINE b == trace[m].action_id
    <3>1. b \in ActionIds \ {a} /\ m < i
      BY <1>1, <2>2 DEF DeniedPath, SameAction
    <3>2. PICK x \in Intents : Intended(m, x) /\ Intended(i, x)
      BY <2>2 DEF DeniedPath
    <3>3. x \in intents /\ m <= deniedIntents[b][x]
      BY <1>2, <3>1, <3>2 DEF LinkedTo, DeniedIntentInv, DenialsBefore
    <3>4. deniedIntents[b][x] \in Nat
      BY <3>1 DEF TypeOK
    <3>5. deniedIntents[b][x] # 0 /\ ~Overrides(i, valid, deniedIntents[b][x])
      BY <1>1, <1>4, <2>2, <3>3, <3>4 DEF Overrides
    <3> QED  BY <3>1, <3>3, <3>5
  <2>3. (\E b \in ActionIds \ {a}, x \in intents :
            deniedIntents[b][x] # 0 /\ ~Overrides(i, valid, deniedIntents[b][x])) <=> Routed(i)
    <3> HIDE DEF a, intents, valid
    <3> QED  BY <2>1, <2>2 DEF Routed
  <2>4. RouteAroundFindings(i, valid, intents) =
          Flag(\E b \in ActionIds \ {a}, x \in intents :
                 deniedIntents[b][x] # 0 /\ ~Overrides(i, valid, deniedIntents[b][x]), "ACK007", i)
    BY Zenon DEF RouteAroundFindings
  <2> QED  BY <2>3, <2>4 DEF Flag
<1>7. Violations(Flag(~Unambiguous(intents), "ACK009", i)) = {}
  BY DEF Violations, Flag
<1>8. ExecutionFindings(i, intents) =
        OrderFindings(i) \cup Flag(~Unambiguous(intents), "ACK009", i) \cup
        ApprovalFindings(i, SpentBefore(i)) \cup DenialFindings(i, valid) \cup
        Flag(Routed(i), "ACK007", i)
  BY <1>3, <1>6 DEF ExecutionFindings
<1> HIDE DEF a, intents, valid
<1>9. Violations(ExecutionFindings(i, intents)) = Violations(AtTurn(i))
  BY <1>5, <1>7, <1>8 DEF AtTurn, Violations
<1> QED  BY <1>9 DEF intents, a

\* An intent that is named late is not a violation.
LEMMA IntentIsNone == ASSUME NEW k PROVE Violations(IntentFindings(k)) = {}
BY DEF Violations, IntentFindings, Flag

LEMMA RecordGrows ==
  ASSUME TypeOK, NEW e \in Alphabet, Record(e)
  PROVE  Grows /\ UNCHANGED <<phase, findings, report>>
<1>1. e \in Event /\ trace \in Seq(Event)
  BY BoundAssumption DEF TypeOK
<1> QED  BY <1>1 DEF Record, Grows, Lines

\* The evaluation finds what the trace calls for, and no violation besides.
LEMMA FindingsStand == Spec => []StandingInv
<1>1. Init => StandingInv
  BY DEF Init, StandingInv, Violations
<1>2. TypeOK /\ LoopInv /\ StandingInv /\ [Next]_vars => StandingInv'
  <2> SUFFICES ASSUME TypeOK, LoopInv, StandingInv, [Next]_vars
               PROVE  StandingInv'
    OBVIOUS
  <2>1. ASSUME NEW e \in Alphabet, Record(e)
        PROVE  StandingInv'
    <3>1. phase' = "idle" /\ report' = report
      BY <2>1 DEF Record
    <3> QED  BY <2>1, <3>1, RecordGrows, FoundStands DEF StandingInv
  <2>2. CASE Begin
    <3>1. /\ trace' = trace /\ policy' = policy /\ report' = report
          /\ i' = 1 /\ findings' = ClockFindings \cup BeforeTurns
      BY <2>2 DEF Begin, BeforeTurns
    <3>2. Violations(ClockFindings) = {}
      BY DEF ClockFindings, Violations
    <3>3. Violations(findings') \subseteq Found
      BY <3>1, <3>2 DEF Found, Violations
    <3>4. \A k \in Executed : ~(k < 1)
      BY TypesOfLines DEF Executed, Lines
    <3> QED  BY <3>1, <3>3, <3>4, FoundStays DEF StandingInv
  <2>3. ASSUME Turn, NEW G, findings' = findings \cup G, Violations(G) \subseteq Found,
               i \in Executed => Violations(AtTurn(i)) \subseteq findings'
        PROVE  StandingInv'
    <3>1. /\ trace' = trace /\ policy' = policy /\ report' = report
          /\ phase = "loop" /\ i' = i + 1
      BY <2>3 DEF Turn
    <3>2. Violations(findings') \subseteq Found
      BY <2>3, <3>1 DEF StandingInv, Violations
    <3>3. \A k \in Executed : k < i + 1 => k < i \/ k = i
      BY DEF TypeOK, Executed
    <3>4. \A k \in Executed : k < i + 1 => Violations(AtTurn(k)) \subseteq findings'
      BY <2>3, <3>1, <3>3 DEF StandingInv
    <3>5. \A k : Violations(AtTurn(k))' = Violations(AtTurn(k))
      BY <3>1, FoundStays DEF Violations
    <3> QED  BY <2>3, <3>1, <3>2, <3>4, <3>5, FoundStays DEF StandingInv
  <2>4. CASE VisitDenial
    <3>1. Turn /\ i \notin Executed /\ findings' = findings \cup IntentFindings(i)
      BY <2>4, TurnKeepsTrace, EventFields DEF VisitDenial, Executed
    <3> QED  BY <2>3, <3>1, IntentIsNone
  <2>5. CASE VisitExecution
    <3> DEFINE F == ExecutionFindings(i, Seen(i)[trace[i].action_id])
    <3>1. Turn /\ findings' = findings \cup (IntentFindings(i) \cup F)
      BY <2>5 DEF VisitExecution
    <3>2. /\ i \in Executed
          /\ LatestDenialInv /\ ObservedInv /\ DeniedIntentInv /\ ConsumedInv
      BY <2>5, <3>1, TurnKeepsTrace, TypesOfLines DEF VisitExecution, Executed, Turn, LoopInv
    <3>3. Violations(F) = Violations(AtTurn(i))
      BY <3>2, TurnIsFound
    <3>4. Violations(IntentFindings(i) \cup F) \subseteq Found
      <4>1. Violations(AtTurn(i)) \subseteq Found
        BY <3>2 DEF Found, Violations
      <4> QED  BY <3>3, <4>1, IntentIsNone DEF Violations
    <3>5. Violations(AtTurn(i)) \subseteq findings'
      BY <3>1, <3>3 DEF Violations
    <3> QED  BY <2>3, <3>1, <3>4, <3>5
  <2>6. CASE VisitOther
    <3>1. Turn /\ i \notin Executed /\ findings' = findings \cup IntentFindings(i)
      BY <2>6 DEF VisitOther, Executed
    <3> QED  BY <2>3, <3>1, IntentIsNone
  <2>7. CASE Conclude
    <3>1. /\ trace' = trace /\ policy' = policy /\ phase = "loop" /\ phase' = "idle"
          /\ report'.findings = findings \cup ClosingFindings
      BY <2>7 DEF Conclude
    <3>2. Violations(report'.findings) \subseteq Found
      BY <3>1 DEF StandingInv, Found, Violations
    <3> QED  BY <3>1, <3>2, FoundStays DEF StandingInv
  <2>8. CASE UNCHANGED vars
    <3>1. /\ trace' = trace /\ policy' = policy /\ phase' = phase /\ i' = i
          /\ findings' = findings /\ report' = report
      BY <2>8 DEF vars, loopVars
    <3>2. \A k : Violations(AtTurn(k))' = Violations(AtTurn(k))
      BY <3>1, FoundStays DEF Violations
    <3> QED  BY <3>1, <3>2, FoundStays DEF StandingInv
  <2> QED  BY <2>1, <2>2, <2>4, <2>5, <2>6, <2>7, <2>8 DEF Next, Evaluate
<1> QED  BY <1>1, <1>2, TypeCorrect, LoopCorrect, PTL DEF Spec

\* An evaluation reports all that is found of its trace.
LEMMA AllIsReported ==
  ASSUME TypeOK, StandingInv, Conclude
  PROVE  Found \subseteq Violations(report'.findings) /\ BeforeTurns \subseteq report'.findings
<1>1. /\ phase = "loop" /\ i = Len(trace) + 1 /\ report'.findings = findings \cup ClosingFindings
  BY DEF Conclude
<1>2. \A k \in Executed : k < i
  BY <1>1, TypesOfLines DEF Executed, Lines, TypeOK
<1>3. \A k \in Executed : Violations(AtTurn(k)) \subseteq findings
  BY <1>1, <1>2 DEF StandingInv
<1>4. BeforeTurns \subseteq findings
  BY <1>1 DEF StandingInv
<1> QED  BY <1>1, <1>3, <1>4 DEF Found, Violations

\* Only the end of an evaluation changes the report.
LEMMA ReportChanges ==
  ASSUME [Next]_vars, ~Conclude
  PROVE  report' = report
BY DEF Next, Evaluate, Begin, VisitDenial, VisitExecution, VisitOther, Turn, Record, vars

\* However a session goes on, no violation is withdrawn.
THEOREM NothingWithdrawn == Spec => ViolationsStand
<1>1. TypeOK /\ StandingInv /\ [Next]_vars
         => [Violations(report.findings) \subseteq Violations(report'.findings)]_vars
  <2> SUFFICES ASSUME TypeOK, StandingInv, [Next]_vars
               PROVE  Violations(report.findings) \subseteq Violations(report'.findings)
    OBVIOUS
  <2>1. CASE Conclude
    BY <2>1, AllIsReported DEF StandingInv
  <2>2. CASE ~Conclude
    BY <2>2, ReportChanges
  <2> QED  BY <2>1, <2>2
<1> QED  BY <1>1, TypeCorrect, FindingsStand, PTL DEF Spec, ViolationsStand

-----------------------------------------------------------------------------
(* The evaluator implements the ladder of verdicts.                        *)

LEMMA StatusIsOfFindings == Spec => []StatusInv
<1>1. Init => StatusInv
  BY DEF Init, StatusInv
<1>2. TypeOK /\ StandingInv /\ StatusInv /\ [Next]_vars => StatusInv'
  <2> SUFFICES ASSUME TypeOK, StandingInv, StatusInv, [Next]_vars
               PROVE  StatusInv'
    OBVIOUS
  <2>1. ASSUME NEW e \in Alphabet, Record(e)
        PROVE  StatusInv'
    <3>1. phase' = "idle" /\ report' = report
      BY <2>1 DEF Record
    <3>2. Ends(trace) \subseteq Ends(trace')
      BY <2>1, RecordGrows, IndexGrows
    <3> QED  BY <3>1, <3>2 DEF StatusInv
  <2>2. CASE Begin
    BY <2>2 DEF Begin, StatusInv
  <2>3. CASE VisitDenial \/ VisitExecution \/ VisitOther
    BY <2>3 DEF VisitDenial, VisitExecution, VisitOther, Turn, StatusInv
  <2>4. CASE Conclude
    <3>1. /\ phase = "loop" /\ phase' = "idle" /\ trace' = trace
          /\ report'.events = Len(trace) /\ report'.findings = findings \cup ClosingFindings
          /\ report'.status = StatusOf(report'.findings)
      BY <2>4 DEF Conclude
    <3>2. Len(trace) \in Nat /\ Len(trace) # 0
      BY <3>1 DEF StatusInv, TypeOK
    <3>3. ASSUME report'.status = "PASS"
          PROVE  \E k \in Ends(trace) : k <= Len(trace)
      <4>1. findings = {}
        BY <2>4, <3>3, PassMeansClean
      <4>2. EndFindings = {}
        BY <3>1, <4>1 DEF StandingInv, BeforeTurns
      <4>3. Ends(trace) = {Len(trace)}
        BY <4>2, EndIsLast
      <4> QED  BY <3>2, <4>3
    <3> QED  BY <3>1, <3>2, <3>3 DEF StatusInv
  <2>5. CASE UNCHANGED vars
    BY <2>5 DEF vars, StatusInv
  <2> QED  BY <2>1, <2>2, <2>3, <2>4, <2>5 DEF Next, Evaluate
<1> QED  BY <1>1, <1>2, TypeCorrect, FindingsStand, PTL DEF Spec

\* A trace that goes on after the end of its session fails.
LEMMA GoneOnFails ==
  ASSUME TypeOK, NEW k \in Ends(trace), k < Len(trace)
  PROVE  <<"ACK006", Len(trace)>> \in EndFindings
<1> DEFINE f == First(Ends(trace))
<1>1. Ends(trace) \in SUBSET Lines /\ Len(trace) \in Nat
  BY IndexTypes DEF TypeOK
<1>2. f \in Nat /\ f <= k /\ k \in Nat
  BY <1>1, FirstOf DEF Lines
<1>3. Len(trace) \in (f + 1)..Len(trace)
  BY <1>1, <1>2
<1> QED  BY <1>3 DEF EndFindings

\* The verdict at the end of an evaluation is one that the ladder allows.
LEMMA ConcludeClimbs ==
  ASSUME TypeOK, StandingInv, StatusInv, Conclude
  PROVE  Ladder!Judge
<1> DEFINE F == report'.findings
<1>1. /\ phase = "loop" /\ trace' = trace /\ report.events # Len(trace)
      /\ report'.events = Len(trace) /\ report'.status = StatusOf(F)
  BY DEF Conclude, StatusInv
<1>2. report'.status \in {"PASS", "FAIL", "INCOMPLETE"}
  BY <1>1 DEF StatusOf
<1>3. ASSUME report.status = "FAIL"
      PROVE  report'.status = "FAIL"
  <2>1. Violations(report.findings) # {}
    BY <1>3 DEF StatusInv, StatusOf
  <2>2. Violations(F) # {}
    BY <2>1, AllIsReported DEF StandingInv
  <2> QED  BY <1>1, <2>2 DEF StatusOf
<1>4. ASSUME report.status = "PASS"
      PROVE  report'.status = "FAIL"
  <2>1. PICK k \in Ends(trace) : k <= report.events
    BY <1>4 DEF StatusInv
  <2>2. k < Len(trace)
    <3>1. k \in Nat /\ report.events \in 0..Len(trace) /\ Len(trace) \in Nat
      BY IndexTypes DEF TypeOK, Lines
    <3> QED  BY <1>1, <2>1, <3>1
  <2>3. <<"ACK006", Len(trace)>> \in F
    BY <2>2, GoneOnFails, AllIsReported DEF BeforeTurns
  <2>4. Violations(F) # {}
    BY <2>3 DEF Violations
  <2> QED  BY <1>1, <2>4 DEF StatusOf
<1> QED  BY <1>1, <1>2, <1>3, <1>4 DEF Ladder!Judge

\* Every step of a session and its evaluations is a step of the ladder: FAIL is
\* final, PASS fails with the next event, INCOMPLETE is open.
THEOREM LadderClimbed == Spec => VerdictLadder
<1>1. Init => Ladder!Init
  BY BoundAssumption DEF Init, Ladder!Init
<1>2. TypeOK /\ StandingInv /\ StatusInv /\ [Next]_vars
         => [Ladder!Next]_<<Len(trace), report.events, report.status>>
  <2> SUFFICES ASSUME TypeOK, StandingInv, StatusInv, [Next]_vars
               PROVE  \/ Ladder!Next
                      \/ UNCHANGED <<Len(trace), report.events, report.status>>
    BY Zenon
  <2>1. ASSUME NEW e \in Alphabet, Record(e)
        PROVE  Ladder!Grow
    <3>1. report' = report /\ report.events = Len(trace) /\ Len(trace') = Len(trace) + 1
      BY <2>1, RecordGrows DEF Record, Grows
    <3> QED  BY <3>1 DEF Ladder!Grow
  <2>2. CASE Conclude
    BY <2>2, ConcludeClimbs DEF Ladder!Next
  <2>3. CASE Begin \/ VisitDenial \/ VisitExecution \/ VisitOther \/ UNCHANGED vars
    BY <2>3 DEF Begin, VisitDenial, VisitExecution, VisitOther, Turn, vars
  <2> QED  BY <2>1, <2>2, <2>3 DEF Next, Evaluate, Ladder!Next
<1> QED  BY <1>1, <1>2, TypeCorrect, FindingsStand, StatusIsOfFindings, PTL
         DEF Spec, VerdictLadder, Ladder!Spec
-----------------------------------------------------------------------------
(* The summaries agree with the findings.                                  *)

\* Of each execution visited, the findings hold what the rules on approvals
\* made of it, with some set of approvals as spent.
ApprovalsJudged(F, k) == \E spent \in SUBSET ApprovalIds : ApprovalFindings(k, spent) \subseteq F

SummaryInv ==
    /\ phase = "loop" => \A k \in Executed : k < i => ApprovalsJudged(findings, k)
    /\ Settled => \A k \in Executed : ApprovalsJudged(report.findings, k)

LEMMA ApprovalsStay ==
  ASSUME trace' = trace, policy' = policy
  PROVE  /\ Executed' = Executed
         /\ \A k, spent : ApprovalFindings(k, spent)' = ApprovalFindings(k, spent)
<1>1. \A k : Referenced(k)' = Referenced(k) /\ DecisionOf(k)' = DecisionOf(k)
  BY DEF Referenced, DecisionOf
<1> QED  BY <1>1 DEF ApprovalFindings, Executed, RequestOf, Presented, RefersToDenial, Expiry

LEMMA ApprovalsAreJudged == Spec => []SummaryInv
<1>1. Init => SummaryInv
  BY DEF Init, SummaryInv, Settled, Executed
<1>2. TypeOK /\ SummaryInv /\ [Next]_vars => SummaryInv'
  <2> SUFFICES ASSUME TypeOK, SummaryInv, [Next]_vars
               PROVE  SummaryInv'
    OBVIOUS
  <2>1. ASSUME NEW e \in Alphabet, Record(e)
        PROVE  SummaryInv'
    <3>1. Len(trace') = Len(trace) + 1 /\ Len(trace) \in Nat
      BY <2>1 DEF Record, TypeOK
    <3> QED  BY <2>1, <3>1 DEF Record, SummaryInv, Settled
  <2>2. CASE Begin
    <3>1. i' = 1 /\ phase' = "loop" /\ trace' = trace
      BY <2>2 DEF Begin
    <3>2. \A k \in Executed' : ~(k < i')
      BY <3>1 DEF Executed, TypeOK
    <3> QED  BY <3>1, <3>2 DEF SummaryInv, Settled
  <2>3. ASSUME Turn, findings \subseteq findings',
               i \in Executed => ApprovalsJudged(findings', i)
        PROVE  SummaryInv'
    <3>1. /\ phase = "loop" /\ phase' = "loop" /\ i' = i + 1
          /\ trace' = trace /\ policy' = policy
      BY <2>3 DEF Turn
    <3>2. \A k \in Executed : k < i + 1 <=> k < i \/ k = i
      BY DEF TypeOK, Executed
    <3>3. \A k \in Executed : k < i + 1 => ApprovalsJudged(findings', k)
      BY <2>3, <3>1, <3>2 DEF SummaryInv, ApprovalsJudged
    <3> QED  BY <3>1, <3>3, ApprovalsStay DEF SummaryInv, Settled, ApprovalsJudged
  <2>4. CASE VisitDenial
    <3>1. Turn /\ i \notin Executed /\ findings \subseteq findings'
      BY <2>4, TurnKeepsTrace, EventFields DEF VisitDenial, Executed
    <3> QED  BY <2>3, <3>1
  <2>5. CASE VisitExecution
    <3>1. Turn /\ findings \subseteq findings'
      BY <2>5 DEF VisitExecution
    <3>2. ApprovalFindings(i, consumed) \subseteq findings'
      BY <2>5 DEF VisitExecution, ExecutionFindings
    <3> QED  BY <2>3, <3>1, <3>2 DEF ApprovalsJudged, TypeOK
  <2>6. CASE VisitOther
    <3>1. Turn /\ i \notin Executed /\ findings \subseteq findings'
      BY <2>6 DEF VisitOther, Executed
    <3> QED  BY <2>3, <3>1
  <2>7. CASE Conclude
    <3>1. /\ phase' = "idle" /\ trace' = trace /\ policy' = policy
          /\ findings \subseteq report'.findings
      BY <2>7 DEF Conclude
    <3>2. \A k \in Executed : ApprovalsJudged(report'.findings, k)
      <4>1. \A k \in Executed : k < i
        BY <2>7, TypesOfLines DEF Conclude, Executed, Lines, TypeOK
      <4> QED  BY <2>7, <3>1, <4>1 DEF Conclude, SummaryInv, ApprovalsJudged
    <3> QED  BY <3>1, <3>2, ApprovalsStay DEF SummaryInv, ApprovalsJudged
  <2>8. CASE UNCHANGED vars
    <3>1. /\ phase' = phase /\ i' = i /\ trace' = trace /\ policy' = policy
          /\ findings' = findings /\ report' = report
      BY <2>8 DEF vars, loopVars
    <3> QED  BY <3>1, ApprovalsStay DEF SummaryInv, Settled, ApprovalsJudged
  <2> QED  BY <2>1, <2>2, <2>4, <2>5, <2>6, <2>7, <2>8 DEF Next, Evaluate
<1> QED  BY <1>1, <1>2, TypeCorrect, PTL DEF Spec

\* An execution that nothing is found of and that names an approval refers to
\* an allow decision for its own action, on a presentation of its own action.
LEMMA ClearedIsApproved ==
  ASSUME TypeOK, NEW k \in Executed, NEW F, ApprovalsJudged(F, k),
         \A f \in F : f[2] # k, trace[k].approval_id # None
  PROVE  LET r == RequestOf(k)
             d == DecisionOf(k)
         IN  /\ r # 0 /\ d # 0
             /\ trace[r].action_id = trace[k].action_id
             /\ trace[d].action_id = trace[k].action_id
             /\ trace[d].decision = "allow"
             /\ Presented(r, k)
<1> DEFINE r == RequestOf(k)
           d == DecisionOf(k)
<1>1. PICK spent \in SUBSET ApprovalIds : ApprovalFindings(k, spent) \subseteq F
  BY DEF ApprovalsJudged
<1>2. ApprovalFindings(k, spent) = {}
  <2>1. \A f \in ApprovalFindings(k, spent) : f[2] = k
    BY DEF ApprovalFindings, Flag
  <2> QED  BY <1>1, <2>1
<1>3. /\ r # 0 /\ d # 0 /\ ~(d > k) /\ ~RefersToDenial(k) /\ Presented(r, k)
      /\ trace[r].action_id = trace[k].action_id
      /\ trace[d].action_id = trace[k].action_id
  BY <1>2 DEF ApprovalFindings, Flag
<1>4. /\ d \in Lines /\ k \in Lines /\ trace[d].type = "approval_decision"
      /\ trace[k].type = "action_executed"
  <2>1. Decisions(trace, trace[k].approval_id) \in SUBSET Lines
    BY TypesOfLines
  <2>2. d \in Decisions(trace, trace[k].approval_id)
    BY <1>3, <2>1, FirstOf DEF DecisionOf
  <2> QED  BY <2>1, <2>2, TypesOfLines DEF Decisions, OfApproval, Executed
<1>5. d < k
  BY <1>3, <1>4 DEF Lines, TypeOK
<1>6. trace[d].decision \in {"allow", "deny"}
  BY <1>4, TypesOfLines DEF Event, EventRecord, WellFormed
<1> QED  BY <1>3, <1>5, <1>6 DEF RefersToDenial

\* Whatever a session records, the summaries that the report shows next to its
\* findings agree with them (provenance.py against engine.py).
THEOREM SummariesAreTrue == Spec => []SummariesAgree
<1>1. TypeOK /\ SummaryInv /\ PassIsAuthorised => SummariesAgree
  <2> SUFFICES ASSUME TypeOK, SummaryInv, PassIsAuthorised, Settled, NEW a \in ActionIds
               PROVE  LET s == Summary(trace, a)
                          k == First(Executions(trace, a))
                      IN  /\ k # 0 /\ Cleared(k) /\ trace[k].approval_id # None =>
                               /\ s.approval_id = trace[k].approval_id
                               /\ s.decision = "allow"
                               /\ policy.exact_binding => s.presented = s.executed
                          /\ k # 0 /\ trace[k].approval_id = None =>
                               s.decision = None /\ s.presented = None
                          /\ s.decision # None =>
                               \E d \in Decisions(trace, s.approval_id) :
                                  trace[d].action_id = a
                          /\ report.status = "PASS" => ~(s.blocked /\ s.executed # None)
    BY DEF SummariesAgree
  <2> DEFINE s == Summary(trace, a)
             k == First(Executions(trace, a))
             p == Reference(trace, a)
             r == First(Requests(trace, p))
             d == First(Decisions(trace, p))
  <2>1. /\ s.approval_id = p /\ s.blocked = (Blocks(trace, a) # {})
        /\ s.presented = FieldOf(trace, Own(trace, a, r), "action")
        /\ s.decision = FieldOf(trace, Own(trace, a, d), "decision")
        /\ s.executed = FieldOf(trace, k, "action")
    BY DEF Summary
  <2>2. k # 0 => /\ k \in Executed /\ k \in Lines /\ trace[k].action_id = a
                 /\ p = trace[k].approval_id
    <3> SUFFICES ASSUME k # 0
                 PROVE  /\ k \in Executed /\ k \in Lines /\ trace[k].action_id = a
                        /\ p = trace[k].approval_id
      OBVIOUS
    <3>1. k \in Executions(trace, a)
      BY TypesOfLines, FirstOf
    <3>2. Terminal(trace, a) = k
      BY DEF Terminal
    <3> QED  BY <3>1, <3>2, TypesOfLines DEF Executions, OfAction, Executed, Reference, FieldOf
  <2>3. ASSUME k # 0, Cleared(k), trace[k].approval_id # None
        PROVE  /\ s.approval_id = trace[k].approval_id
               /\ s.decision = "allow"
               /\ policy.exact_binding => s.presented = s.executed
    <3>1. r = RequestOf(k) /\ d = DecisionOf(k) /\ ApprovalsJudged(report.findings, k)
      BY <2>2, <2>3 DEF RequestOf, DecisionOf, SummaryInv
    <3>2. /\ r # 0 /\ d # 0 /\ trace[r].action_id = a /\ trace[d].action_id = a
          /\ trace[d].decision = "allow" /\ Presented(r, k)
      <4>1. \A f \in report.findings : f[2] # k
        BY <2>3 DEF Cleared
      <4> QED  BY <2>2, <2>3, <3>1, <4>1, ClearedIsApproved
    <3>3. Own(trace, a, r) = r /\ Own(trace, a, d) = d
      BY <3>2 DEF Own
    <3> QED  BY <2>1, <2>2, <2>3, <3>2, <3>3 DEF FieldOf, Presented
  <2>4. ASSUME k # 0, trace[k].approval_id = None
        PROVE  s.decision = None /\ s.presented = None
    <3>1. Requests(trace, p) = {} /\ Decisions(trace, p) = {}
      BY <2>2, <2>4 DEF Requests, Decisions, OfApproval
    <3> QED  BY <2>1, <3>1 DEF First, Own, FieldOf
  <2>5. ASSUME s.decision # None
        PROVE  \E l \in Decisions(trace, s.approval_id) : trace[l].action_id = a
    <3>1. d # 0 /\ trace[d].action_id = a
      BY <2>1, <2>5 DEF Own, FieldOf
    <3>2. d \in Decisions(trace, p)
      BY <3>1, TypesOfLines, FirstOf
    <3> QED  BY <2>1, <3>1, <3>2
  <2>6. ASSUME report.status = "PASS", s.executed # None
        PROVE  ~s.blocked
    <3>1. k # 0
      BY <2>1, <2>6 DEF FieldOf
    <3>2. Blocks(trace, trace[k].action_id) = {}
      BY <2>2, <2>6, <3>1 DEF PassIsAuthorised
    <3> QED  BY <2>1, <2>2, <3>1, <3>2
  <2> HIDE DEF s, k
  <2> QED  BY <2>3, <2>4, <2>5, <2>6 DEF s, k
<1> QED  BY <1>1, TypeCorrect, ApprovalsAreJudged, PassIsEarned, PTL
=============================================================================
