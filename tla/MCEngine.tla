------------------------------ MODULE MCEngine -----------------------------
(***************************************************************************)
(* Small instances of Engine for TLC.  A prelude is the session recorded   *)
(* so far, and an alphabet the events that may follow it in any order.     *)
(***************************************************************************)
EXTENDS EngineProps, SequencesExt

CONSTANTS a1, a2, p1, p2, x1, x2, c1, c2

blank == [type |-> "interrupt", ts |-> 0, action_id |-> None, intent_id |-> None,
          approval_id |-> None, action |-> None, decision |-> None, expires_at |-> None]

Propose(a, c) == [blank EXCEPT !.type = "action_proposed", !.action_id = a, !.action = c]
Request(a, p, c) == [blank EXCEPT !.type = "approval_requested", !.action_id = a,
                                  !.approval_id = p, !.action = c]
Decide(a, p, v) == [blank EXCEPT !.type = "approval_decision", !.action_id = a,
                                 !.approval_id = p, !.decision = v]
Execute(a, p, c) == [blank EXCEPT !.type = "action_executed", !.action_id = a,
                                  !.approval_id = p, !.action = c]
Block(a, p) == [blank EXCEPT !.type = "action_blocked", !.action_id = a, !.approval_id = p]
Interrupt == blank
End == [blank EXCEPT !.type = "session_end"]

At(t, e) == [e EXCEPT !.ts = t]
For(x, e) == [e EXCEPT !.intent_id = x]
Until(t, e) == [e EXCEPT !.expires_at = t]

DefaultPolicy == [max_age |-> 1, single_use |-> TRUE, exact_binding |-> TRUE,
                  stop_is_terminal |-> TRUE]
LaxPolicy == [max_age |-> 1, single_use |-> FALSE, exact_binding |-> FALSE,
              stop_is_terminal |-> FALSE]
Default == {DefaultPolicy}
DefaultAndLax == {DefaultPolicy, LaxPolicy}

\* One action and one approval, any order: c1 is covered by policy, c2 is not.
LifecyclePrelude == {<<>>, <<Propose(a1, c1)>>, <<Propose(a1, c2)>>}
LifecycleAlphabet ==
    {Propose(a1, c1), Propose(a1, c2), Request(a1, p1, c1), Decide(a1, p1, "allow"),
     Decide(a1, p1, "deny"), Execute(a1, p1, c1), Execute(a1, p1, c2),
     Execute(a1, None, c2), Block(a1, p1), Block(a1, None), Interrupt, End}

\* Two approvals of one action: reapproval, stale allows, replay.
ReapprovalPrelude == {<<Propose(a1, c1), Request(a1, p1, c1)>>}
ReapprovalAlphabet ==
    {Request(a1, p2, c1), Decide(a1, p1, "allow"), Decide(a1, p1, "deny"),
     Decide(a1, p2, "allow"), Decide(a1, p2, "deny"), Execute(a1, p1, c1),
     Execute(a1, p2, c1), Execute(a1, None, c1), End}

\* Clocks: an approval with or without its own expiry, used early and late.
ExpiryPrelude == {<<Propose(a1, c1), Request(a1, p1, c1)>>}
ExpiryAlphabet ==
    {At(t, Decide(a1, p1, "allow")) : t \in {0, 1}} \cup
    {Until(t, Decide(a1, p1, "allow")) : t \in {0, 3}} \cup
    {At(t, Execute(a1, p1, c1)) : t \in 0..3} \cup
    {At(t, End) : t \in {0, 3}} \cup
    {At(3, Decide(a1, p1, "deny")), At(3, Execute(a1, None, c1))}

\* Two actions linked by one intent, evidence of which comes early or late.
RoutePrelude ==
    {<<For(x1, Propose(a1, c1)), Request(a1, p1, c1),
       Propose(a2, c1), For(x1, Request(a2, p2, c1))>>,
     <<Propose(a1, c1), Request(a1, p1, c1),
       For(x1, Propose(a2, c1)), Request(a2, p2, c1)>>}
RouteAlphabet ==
    {Decide(a1, p1, "deny"), For(x1, Decide(a1, p1, "deny")), Block(a1, p1),
     Decide(a2, p2, "allow"), For(x1, Execute(a2, p2, c1)), Execute(a2, p2, c1),
     For(x2, Execute(a2, p2, c1)), Execute(a2, p1, c1), Execute(a2, None, c2), End}

\* The four situations above in one run, each with its own bound.
Situations == {
    [preludes |-> LifecyclePrelude, events |-> LifecycleAlphabet, more |-> 4, policies |-> DefaultAndLax],
    [preludes |-> ReapprovalPrelude, events |-> ReapprovalAlphabet, more |-> 5, policies |-> Default],
    [preludes |-> ExpiryPrelude, events |-> ExpiryAlphabet, more |-> 4, policies |-> DefaultAndLax],
    [preludes |-> RoutePrelude, events |-> RouteAlphabet, more |-> 5, policies |-> Default]}
AllPreludes == UNION {s.preludes : s \in Situations}
AllEvents == UNION {s.events : s \in Situations}
InOneSituation(t, e) ==
    \E s \in Situations : \E p \in s.preludes :
        /\ policy \in s.policies
        /\ IsPrefix(p, t) /\ Len(t) < Len(p) + s.more
        /\ \A k \in (Len(p) + 1)..Len(t) : t[k] \in s.events
        /\ e \in s.events
AnyTime(t, e) == TRUE

\* A proposal that is recorded only after the execution it is about.
LatePrelude == {<<Request(a1, p1, c1), Decide(a1, p1, "deny"),
                  Request(a1, p2, c1), Decide(a1, p2, "allow")>>}
LateAlphabet == {Propose(a1, c1), Propose(a1, c2), Execute(a1, p2, c1),
                 Execute(a1, p1, c1), Request(a1, p1, c2), Decide(a1, p2, "deny"),
                 Block(a1, p1), Interrupt, End}
=============================================================================
