SPECIFICATION Spec
CONSTANTS
    u1 = u1  u2 = u2
    Malformed = Malformed
    NoMessage = NoMessage
    Requests = {1, 2, 3}
    Uses = {u1, u2}
    Wanted <- TheWanted
    Outcomes <- TheOutcomes
    Contents <- TheContents
    Messages <- FewBatches
    MaxRequestBytes = 5
    MaxTotalBytes = 12
    MaxPayloads = 3
    MaxErrors = 1
INVARIANTS RejectionPreventsPass

CHECK_DEADLOCK FALSE
