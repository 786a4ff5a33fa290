\* A fifth command, after a rejected one that ran.
SPECIFICATION Spec
CHECK_DEADLOCK FALSE
CONSTANTS
    NoId = NoId
    NoCommand = NoCommand
    MaxCalls = 5
    MaxOddities = 2
INVARIANT RejectedRunFails
