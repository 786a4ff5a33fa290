\* Calls that overlap; each is presented as proposed, and none runs unapproved.
SPECIFICATION Spec
CHECK_DEADLOCK FALSE
CONSTANTS
    NoId = NoId
    NoCommand = NoCommand
    MaxCalls = 4
    MaxOddities = 2
INVARIANT FailIsDemonstrated
