----------------------------- MODULE MCRecorder ----------------------------
(***************************************************************************)
(* A recording started afresh and two recorders that may append to it, the *)
(* second of them for another session.                                     *)
(***************************************************************************)
EXTENDS Recorder

CONSTANTS r1, r2, r3, s1, s2

Three == [r \in Recorders |-> 3]
Sessions == [r \in Recorders |-> IF r = r3 THEN s2 ELSE s1]
=============================================================================
