SPECIFICATION Spec
CONSTANTS
    r1 = r1  r2 = r2  r3 = r3  s1 = s1  s2 = s2
    Recorders = {r1, r2, r3}
    Fresh = {r1}
    SessionOf <- Sessions
    Overlap = FALSE
    MaxLines <- Three
    MaxFaults = 1
INVARIANTS EndIsLast
CHECK_DEADLOCK FALSE
