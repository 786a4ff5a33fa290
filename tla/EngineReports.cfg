SPECIFICATION Spec
CONSTANTS
    a1 = a1  a2 = a2  p1 = p1  p2 = p2
    x1 = x1  x2 = x2  c1 = c1  c2 = c2
    None = None
    ActionIds = {a1, a2}
    ApprovalIds = {p1, p2}
    Intents = {x1, x2}
    Actions = {c1, c2}
    Covered = {c1}
    Times = {0, 1, 2, 3}
    MaxLen = 9
    Policies <- DefaultAndLax
    Alphabet <- AllEvents
    Preludes <- AllPreludes
    Follows <- InOneSituation
INVARIANTS TypeOK LoopInv DenialSticks ReplayCaught RouteAroundCaught ViolationsAreDemonstrated PassIsAuthorised SummariesAgree
PROPERTIES ViolationsStand VerdictLadder
CHECK_DEADLOCK FALSE
