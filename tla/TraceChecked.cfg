SPECIFICATION CommandSpec
CONSTANTS
    r1 = r1  r2 = r2  r3 = r3  s1 = s1  s2 = s2  q1 = q1  q2 = q2
    Recorders = {r1, r2, r3}
    Fresh = {r1}
    SessionOf <- Sessions
    Overlap = TRUE
    MaxLines <- Sizes
    MaxFaults = 1
    Commands = {q1, q2}
    Nobody = Nobody
    Requests <- Orders
INVARIANTS TypeOK ReturnedIsRecorded EndIsLastUnlessFault TearIsFinal OneSession PassStands JudgedStays ReportsAreOwn
CONSTRAINT InOneSituation
CHECK_DEADLOCK FALSE
