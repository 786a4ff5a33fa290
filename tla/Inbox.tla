------------------------------- MODULE Inbox -------------------------------
(***************************************************************************)
(* What a caller of the Codex client relies on: a single inbox in the      *)
(* order of arrival.  next_message takes its head; request takes the first *)
(* message that decides it and leaves all others where they are; a call    *)
(* times out only when nothing in the inbox could end it.                  *)
(***************************************************************************)
EXTENDS CodexMessages

VARIABLES inbox,
          asked,    \* how many requests were made
          call,     \* "idle", "request" or "next"
          result    \* how the last call ended
inboxVars == <<inbox, asked, call, result>>

Init == inbox = <<>> /\ asked = 0 /\ call = "idle" /\ result = Raised

Without(s, i) == [j \in 1..(Len(s) - 1) |-> IF j < i THEN s[j] ELSE s[j + 1]]
Decides(i) == Broken(inbox[i]) \/ Answers(inbox[i], asked)

Arrive ==
    /\ inbox' # <<>>
    /\ LET m == inbox'[Len(inbox')]
       IN  m \in Messages(asked) /\ inbox' = Append(inbox, m)
    /\ UNCHANGED <<asked, call, result>>

Ask ==
    /\ call = "idle"
    /\ asked' = asked + 1
    /\ \/ call' = "request" /\ UNCHANGED result
       \/ call' = "idle" /\ result' = Raised
    /\ UNCHANGED inbox

Listen == call = "idle" /\ call' = "next" /\ UNCHANGED <<inbox, asked, result>>

Conclude(i) ==
    /\ call = "request"
    /\ Decides(i) /\ \A j \in 1..(i - 1) : ~Decides(j)
    /\ inbox' = Without(inbox, i)
    /\ call' = "idle" /\ result' = Returned(inbox[i])
    /\ UNCHANGED asked

Deliver ==
    /\ call = "next" /\ inbox # <<>>
    /\ inbox' = Tail(inbox)
    /\ call' = "idle" /\ result' = Delivered(Head(inbox))
    /\ UNCHANGED asked

Expire ==
    /\ \/ call = "request" /\ \A i \in DOMAIN inbox : ~Decides(i)
       \/ call = "next" /\ inbox = <<>>
    /\ call' = "idle" /\ result' = Raised
    /\ UNCHANGED <<inbox, asked>>

Next == Arrive \/ Ask \/ Listen \/ (\E i \in DOMAIN inbox : Conclude(i)) \/ Deliver \/ Expire

Spec == Init /\ [][Next]_inboxVars
=============================================================================
