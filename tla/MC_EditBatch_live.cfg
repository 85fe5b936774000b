SPECIFICATION FairSpec
CONSTANTS
    j1 = j1
    j2 = j2
    j3 = j3
    m1 = m1
    m2 = m2
    doc = doc
    Doc = doc
    Fest = fest
    NoWindow = nobody
    Jobs = {j1, j2}
    Matches = {m1}
    ScopeOf <- MatchAndDoc
    Finishing = {}
    Impatient = {j2}
    MaxPanics = 0
PROPERTY EveryJobAnswered
\* Every job answered is the end of the run.
CHECK_DEADLOCK FALSE
