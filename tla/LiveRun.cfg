SPECIFICATION Spec
CONSTANTS
    u1 = u1  u2 = u2
    Malformed = Malformed
    NoMessage = NoMessage
    Requests = {1, 2, 3}
    Uses = {u1, u2}
    Wanted <- TheWanted
    Outcomes <- TheOutcomes
    Contents <- TheContents
    Messages <- AllBatches
    MaxRequestBytes = 5
    MaxTotalBytes = 12
    MaxPayloads = 2
    MaxErrors = 1
INVARIANTS TypeOK MemoryBounded AnswersAreTrue PassIsComplete ViolationKept
PROPERTIES EveryRequestAnswered CollectorIsIntake
CHECK_DEADLOCK FALSE
