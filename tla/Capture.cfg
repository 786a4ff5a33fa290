\* Four probes, and at most two departures from the protocol.
SPECIFICATION Spec
CHECK_DEADLOCK FALSE
CONSTANTS
    NoId = NoId
    NoCommand = NoCommand
    MaxCalls = 4
    MaxOddities = 2
INVARIANTS TypeOK PassIsEarned SeenIsSound RejectedRunFails BypassIsReal
