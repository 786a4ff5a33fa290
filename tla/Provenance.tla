----------------------------- MODULE Provenance ----------------------------
(***************************************************************************)
(* The summary of each action that a report shows next to its findings:    *)
(* which approval, presentation, decision and execution belong to it.  It  *)
(* is computed from the trace by a pass of its own, not by the evaluator.  *)
(***************************************************************************)
EXTENDS Trace

LastOf(S) == IF S = {} THEN 0 ELSE CHOOSE k \in S : \A l \in S : l <= k

\* Field f of line k, or None.
FieldOf(t, k, f) == IF k = 0 THEN None ELSE t[k][f]

FirstWith(t, a, f) == First({k \in DOMAIN t : t[k].action_id = a /\ t[k][f] # None})

\* The reference of the first execution, or the first block, whether or not
\* it has one; of an open action the first that any event makes.
Terminal(t, a) ==
    LET x == First(Executions(t, a))
    IN  IF x # 0 THEN x ELSE First(Blocks(t, a))
Reference(t, a) ==
    FieldOf(t, IF Terminal(t, a) # 0 THEN Terminal(t, a) ELSE FirstWith(t, a, "approval_id"),
       "approval_id")

Own_AnyAction(t, a, k) == k
\* Records of an approval count when they are of this action.
Own(t, a, k) == IF k # 0 /\ t[k].action_id = a THEN k ELSE 0

Summary(t, a) ==
    LET p == Reference(t, a)
    IN  [intent_id   |-> FieldOf(t, FirstWith(t, a, "intent_id"), "intent_id"),
         approval_id |-> p,
         expected    |-> FieldOf(t, LastOf(Proposals(t, a)), "action"),
         presented   |-> FieldOf(t, Own(t, a, First(Requests(t, p))), "action"),
         decision    |-> FieldOf(t, Own(t, a, First(Decisions(t, p))), "decision"),
         executed    |-> FieldOf(t, First(Executions(t, a)), "action"),
         blocked     |-> Blocks(t, a) # {}]
=============================================================================
