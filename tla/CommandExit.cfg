SPECIFICATION CommandSpec
CONSTANTS
    r1 = r1  r2 = r2  r3 = r3  s1 = s1  s2 = s2  q1 = q1  q2 = q2
    Recorders = {r1}
    Fresh = {r1}
    SessionOf <- Sessions
    Overlap = FALSE
    MaxLines <- Sizes
    MaxFaults = 1
    Commands = {q1}
    Nobody = Nobody
    Requests <- NoReports
INVARIANT ExitCodeIsVerdict
CHECK_DEADLOCK FALSE
