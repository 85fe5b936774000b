SPECIFICATION Spec
CONSTANTS
    j1 = j1
    j2 = j2
    j3 = j3
    m1 = m1
    m2 = m2
    doc = doc
    Doc = doc
    Fest = fest
    NoWindow = nobody
    Jobs = {j1, j2, j3}
    Matches = {m1, m2}
    ScopeOf <- MatchesAndFinish
    Finishing <- OnlyTheLast
    Impatient = {}
    MaxPanics = 1
SYMMETRY FirstTwoAlike
INVARIANTS TypeOK WindowsStayWhole AnswerFollowsBroadcast EverythingTold
PROPERTY KeepsPromise
\* Every job submitted and answered is the end of the run.
CHECK_DEADLOCK FALSE
