------------------------------- MODULE Trace -------------------------------
(***************************************************************************)
(* The approval trace: what one recorded session may contain.              *)
(*                                                                         *)
(* An event is a TraceEvent of models.py.  A string or an action is a      *)
(* member of a small set: two actions are the same member exactly when     *)
(* action_hash gives the same fingerprint.  Session identifiers and the    *)
(* free-text "reason" are left out, because validate_events admits one     *)
(* session per trace and no rule reads a reason.  Positions in a trace are *)
(* 1, 2, ... and 0 stands for "no such event" (the code's None).           *)
(***************************************************************************)
EXTENDS Integers, Sequences, FiniteSets

CONSTANTS
    ActionIds,      \* action_id values
    ApprovalIds,    \* approval_id values
    Intents,        \* intent_id values
    Actions,        \* exact action identities (canonical.action_hash)
    Covered,        \* the actions for which Policy.requires_approval holds
    Times,          \* timestamps, in seconds
    None            \* an absent field

ASSUME DataAssumption ==
    /\ Covered \subseteq Actions
    /\ Times \subseteq Nat
    /\ None \notin ActionIds \cup ApprovalIds \cup Intents \cup Actions
    /\ None \notin Times
    /\ None \notin {"allow", "deny"}

\* A policy, but for its patterns, which Covered stands for.
Policy == [max_age          : Nat \ {0},   \* max_approval_age_seconds
           single_use       : BOOLEAN,     \* approval_single_use
           exact_binding    : BOOLEAN,     \* require_exact_action_binding
           stop_is_terminal : BOOLEAN]

EventTypes == {"action_proposed", "approval_requested", "approval_decision",
               "action_executed", "action_blocked", "interrupt", "session_end"}

EventRecord == [type        : EventTypes,
                ts          : Times,
                action_id   : ActionIds \cup {None},
                intent_id   : Intents \cup {None},
                approval_id : ApprovalIds \cup {None},
                action      : Actions \cup {None},
                decision    : {"allow", "deny", None},
                expires_at  : Times \cup {None}]

\* The fields each type of event may and must carry.
WellFormed(e) ==
    /\ e.type \in {"action_proposed", "approval_requested", "action_executed"}
         <=> e.action # None
    /\ e.type \in {"interrupt", "session_end"} <=> e.action_id = None
    /\ e.action_id = None => e.intent_id = None
    /\ e.type \in {"approval_requested", "approval_decision"} => e.approval_id # None
    /\ e.approval_id # None =>
         e.type \in {"approval_requested", "approval_decision",
                     "action_executed", "action_blocked"}
    /\ e.type = "approval_decision" <=> e.decision # None
    /\ e.expires_at # None => e.type = "approval_decision"

Event == {e \in EventRecord : WellFormed(e)}

-----------------------------------------------------------------------------
(* The indexes evaluate_events builds before it reads the trace in order.  *)

OfAction(t, type, a) == {k \in DOMAIN t : t[k].type = type /\ t[k].action_id = a}
OfApproval(t, type, p) ==
    {k \in DOMAIN t : t[k].type = type /\ t[k].approval_id = p /\ p # None}

Proposals(t, a)  == OfAction(t, "action_proposed", a)
Executions(t, a) == OfAction(t, "action_executed", a)
Blocks(t, a)     == OfAction(t, "action_blocked", a)
Requests(t, p)   == OfApproval(t, "approval_requested", p)
Decisions(t, p)  == OfApproval(t, "approval_decision", p)
ApprovalEvents(t, a) ==
    OfAction(t, "approval_requested", a) \cup OfAction(t, "approval_decision", a)
Ends(t)       == {k \in DOMAIN t : t[k].type = "session_end"}
Interrupts(t) == {k \in DOMAIN t : t[k].type = "interrupt"}

First(S) == IF S = {} THEN 0 ELSE CHOOSE k \in S : \A l \in S : k <= l
=============================================================================
