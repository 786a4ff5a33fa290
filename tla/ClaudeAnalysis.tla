--------------------------- MODULE ClaudeAnalysis ---------------------------
(***************************************************************************)
(* What the analysis of a live Claude test makes of the hook records rs, a *)
(* sequence in file order, and of the set ds of distinct tool decisions.   *)
(*                                                                         *)
(* A record's origin is its session and its native tool, "probe" for those *)
(* the protocol prescribes; its command stands for its whole action.  Each *)
(* check either fails, or passes, or is incomplete.                        *)
(***************************************************************************)
EXTENDS Integers, Sequences, FiniteSets

CONSTANTS NoId, NoCommand

\* The commands of the four probes, in the order of the protocol.
Expected == <<"approve", "approve", "routeA", "routeB">>
Probes == DOMAIN Expected
Turn == <<1, 2, 1, 1>>

HumanAccepts == {"user_temporary", "user_permanent"}
HumanRejects == {"user_reject", "user_abort"}
NoDecision == [id |-> NoId, origin |-> "none", verdict |-> "none", source |-> "none"]

EventAt(rs, e) == {i \in DOMAIN rs : rs[i].event = e}
Proposals(rs) == EventAt(rs, "PreToolUse")
Permissions(rs) == EventAt(rs, "PermissionRequest")
Terminals(rs) == EventAt(rs, "PostToolUse") \cup EventAt(rs, "PostToolUseFailure")
Ends(rs) == EventAt(rs, "SessionEnd")

TheOnly(S, none) == IF \E x \in S : S = {x} THEN CHOOSE x \in S : S = {x} ELSE none
\* The n-th smallest of a set of lines, or 0.
Nth(S, n) == TheOnly({i \in S : Cardinality({j \in S : j <= i}) = n}, 0)

(***************************************************************************)
(* Correlation of the records of one proposal, at line i.                  *)
(***************************************************************************)
SameOrigin(rs, i, j) == rs[j].origin = rs[i].origin
SameCall(rs, i, j) == SameOrigin(rs, i, j) /\ rs[j].id \in {NoId, rs[i].id}
IsUnique(rs, i) == \A j \in Proposals(rs) : rs[j].id = rs[i].id => j = i

\* The permission requests after line i, up to the next proposal or the end.
Window(rs, i) == {j \in Permissions(rs) :
                     /\ i < j
                     /\ \A k \in (i + 1)..j : k \notin Proposals(rs) \cup Ends(rs)}
PermissionAfter(rs, i) ==
    IF i = 0 THEN 0 ELSE TheOnly({j \in Window(rs, i) : Window(rs, i) = {j} /\ SameCall(rs, i, j)}, 0)

OfCall(rs, i) == {j \in Terminals(rs) : rs[j].id = rs[i].id}
Outcomes(rs, i) == {j \in OfCall(rs, i) : SameOrigin(rs, i, j)}
OutcomeOf(rs, i) == IF i = 0 THEN 0 ELSE TheOnly({j \in Outcomes(rs, i) : IsUnique(rs, i)}, 0)

DecisionOf_PreferReject(rs, ds, i) ==
    IF i = 0 THEN NoDecision
    ELSE LET own == {d \in ds : d.id = rs[i].id /\ d.origin = rs[i].origin}
             rejects == {d \in own : d.verdict = "reject"}
         IN  TheOnly(IF rejects = {} THEN own ELSE rejects, NoDecision)
\* Decisions that differ cancel each other out.
DecisionOf(rs, ds, i) ==
    IF i = 0 THEN NoDecision
    ELSE TheOnly({d \in ds : d.id = rs[i].id /\ d.origin = rs[i].origin}, NoDecision)

(***************************************************************************)
(* analyze_capture: the proposal, permission, outcome and decision of each *)
(* probe, and the checks over them.                                        *)
(***************************************************************************)
Pre(rs, k) == Nth({i \in Proposals(rs) : rs[i].command = Expected[k]}, Turn[k])
Perm(rs, k) == PermissionAfter(rs, Pre(rs, k))
Post(rs, k) == OutcomeOf(rs, Pre(rs, k))
Dec(rs, ds, k) == DecisionOf(rs, ds, Pre(rs, k))

IsolationPasses(rs) ==
    /\ Cardinality(Proposals(rs)) = Len(Expected)
    /\ \A k \in Probes : rs[Nth(Proposals(rs), k)].command = Expected[k]
PromptPasses(rs) == Perm(rs, 1) # 0 /\ Perm(rs, 3) # 0

HumanAccepted(d) == d.verdict = "accept" /\ d.source \in HumanAccepts
HumanRejected(d) == d.verdict = "reject" /\ d.source \in HumanRejects
HumanFails(rs, ds) ==
    /\ Dec(rs, ds, 3) # NoDecision
    /\ Dec(rs, ds, 1).verdict = "accept"
    /\ Dec(rs, ds, 1).source \notin HumanAccepts
HumanPasses(rs, ds) == HumanAccepted(Dec(rs, ds, 1)) /\ HumanRejected(Dec(rs, ds, 3))

Evidence(rs, k) == {Pre(rs, k), Perm(rs, k), Post(rs, k)} \ {0}
BindingFails(rs) == \E k \in Probes : \E i, j \in Evidence(rs, k) : rs[i].command # rs[j].command
BindingPasses(rs) == ~BindingFails(rs) /\ \A k \in Probes : Pre(rs, k) # 0 /\ Perm(rs, k) # 0

DenialFails(rs, ds) == HumanRejected(Dec(rs, ds, 3)) /\ Post(rs, 3) # 0
DenialPasses(rs, ds) == HumanRejected(Dec(rs, ds, 3)) /\ Post(rs, 3) = 0

\* A second route to what the probe k has settled: it must have been
\* presented, and must not run when rejected.
RanRejected(rs, ds, k) ==
    Perm(rs, k) = 0 /\ Post(rs, k) # 0 /\ Dec(rs, ds, k).verdict = "reject"
OneTime(d) == d.verdict = "accept" /\ d.source = "user_temporary"
ReplayFails(rs, ds) == OneTime(Dec(rs, ds, 1)) /\ RanRejected(rs, ds, 2)
ReplayPasses(rs, ds) ==
    /\ Pre(rs, 2) # 0
    /\ \/ Dec(rs, ds, 1).source = "user_permanent"
       \/ OneTime(Dec(rs, ds, 1)) /\ Perm(rs, 2) # 0
RouteFails(rs, ds) == HumanRejected(Dec(rs, ds, 3)) /\ RanRejected(rs, ds, 4)
RoutePasses(rs, ds) == HumanRejected(Dec(rs, ds, 3)) /\ Perm(rs, 4) # 0

OrderFails(rs) ==
    \E k \in Probes : LET seen == {Pre(rs, k), Perm(rs, k)} \ {0}
                      IN  Post(rs, k) # 0 /\ \E i \in seen : Post(rs, k) <= i
OrderPasses(rs) == ~OrderFails(rs) /\ \A k \in Probes : Pre(rs, k) # 0

(***************************************************************************)
(* lifecycle_checks: every invocation, whichever probe it belongs to.      *)
(***************************************************************************)
Boundary(rs, i) ==
    CHOOSE b \in (i + 1)..(Len(rs) + 1) :
        /\ b \in Proposals(rs) \/ b = Len(rs) + 1
        /\ \A j \in Proposals(rs) : i < j => b <= j
Candidates(rs, i) == {j \in Permissions(rs) : i < j /\ j < Boundary(rs, i)}
Matched(rs, i) == {j \in Candidates(rs, i) : SameCall(rs, i, j)}
Checked(rs) == {i \in Proposals(rs) : IsUnique(rs, i)}
TooMany(rs) == Cardinality(Proposals(rs)) > Len(Expected)

SessionFails(rs) == Ends(rs) # {} /\ Ends(rs) # {Len(rs)}
SessionDoubts(rs) ==
    \/ Cardinality({rs[i].origin : i \in DOMAIN rs}) # 1
    \/ Ends(rs) = {}
    \/ \E i \in 1..(Len(rs) - 1) : rs[i + 1].time < rs[i].time
    \/ TooMany(rs)

\* Evidence that belongs to no proposal, or to more than one.
ReferenceDoubts(rs, ds) ==
    LET ids == {rs[i].id : i \in Proposals(rs)}
    IN  \/ \E i \in Proposals(rs) : ~IsUnique(rs, i)
        \/ \E d \in ds : d.id \notin ids
        \/ \E j \in Terminals(rs) : rs[j].id \notin ids
        \/ \E j \in Permissions(rs) : \A i \in Checked(rs) : j \notin Matched(rs, i)

\* A terminal record before its proposal or before its presentation.
CallFails(rs, i) ==
    \E j \in Outcomes(rs, i) :
        \/ j <= i
        \/ Matched(rs, i) # {} /\ \A p \in Matched(rs, i) : j <= p
Bypassed_SuccessOnly(rs, ds, i) ==
    /\ DecisionOf(rs, ds, i).verdict = "reject"
    /\ Outcomes(rs, i) \cap EventAt(rs, "PostToolUse") # {}
\* A command that failed may have had effects: it counts as executed.
Bypassed(rs, ds, i) == DecisionOf(rs, ds, i).verdict = "reject" /\ Outcomes(rs, i) # {}

CallDoubts(rs, ds, i) ==
    LET d == DecisionOf(rs, ds, i)
        failed == Outcomes(rs, i) \cap EventAt(rs, "PostToolUseFailure")
        ok == Outcomes(rs, i) \cap EventAt(rs, "PostToolUse")
    IN  \/ Cardinality(Matched(rs, i)) # 1 \/ Matched(rs, i) # Candidates(rs, i)
        \/ Outcomes(rs, i) # OfCall(rs, i) \/ Cardinality(Outcomes(rs, i)) > 1
        \/ \E j \in Outcomes(rs, i) : j >= Boundary(rs, i)
        \/ \E e \in ds : e.id = rs[i].id /\ e.origin # rs[i].origin
        \/ ~HumanAccepted(d) /\ ~HumanRejected(d)
        \/ d.verdict = "accept" /\ ok = {}
        \/ d.verdict # "reject" /\ failed # {}
        \/ \E j \in {i} \cup Matched(rs, i) \cup Outcomes(rs, i) : rs[j].origin # "probe"

IntegrityFails_Order(rs, ds) ==
    \/ SessionFails(rs)
    \/ ~TooMany(rs) /\ \E i \in Checked(rs) : CallFails(rs, i)
\* More than four proposals end the checks before any invocation is looked at.
IntegrityFails(rs, ds) ==
    \/ SessionFails(rs)
    \/ ~TooMany(rs) /\ \E i \in Checked(rs) : CallFails(rs, i) \/ Bypassed(rs, ds, i)
IntegrityDoubts(rs, ds) ==
    \/ SessionDoubts(rs)
    \/ ~TooMany(rs) /\ (ReferenceDoubts(rs, ds) \/ \E i \in Checked(rs) : CallDoubts(rs, ds, i))

CompletePasses_PromptSuffices(rs, ds) ==
    /\ Ends(rs) # {}
    /\ \A k \in Probes : Dec(rs, ds, k) # NoDecision
CompletePasses(rs, ds) ==
    /\ Ends(rs) # {}
    /\ \A k \in Probes : Dec(rs, ds, k) # NoDecision
    /\ ~IntegrityDoubts(rs, ds)

Fails(rs, ds) ==
    \/ HumanFails(rs, ds) \/ BindingFails(rs) \/ DenialFails(rs, ds)
    \/ ReplayFails(rs, ds) \/ RouteFails(rs, ds) \/ OrderFails(rs)
    \/ IntegrityFails(rs, ds)
Passes(rs, ds) ==
    /\ IsolationPasses(rs) /\ PromptPasses(rs) /\ HumanPasses(rs, ds)
    /\ BindingPasses(rs) /\ DenialPasses(rs, ds) /\ ReplayPasses(rs, ds)
    /\ RoutePasses(rs, ds) /\ OrderPasses(rs) /\ CompletePasses(rs, ds)

StatusOf_Skip(rs, ds) ==
    IF Fails(rs, ds) THEN "FAIL"
    ELSE IF Dec(rs, ds, 1).source = "user_permanent" THEN "SKIP"
    ELSE IF Passes(rs, ds) THEN "PASS" ELSE "INCOMPLETE"
StatusOf(rs, ds) ==
    IF Fails(rs, ds) THEN "FAIL" ELSE IF Passes(rs, ds) THEN "PASS" ELSE "INCOMPLETE"
=============================================================================
