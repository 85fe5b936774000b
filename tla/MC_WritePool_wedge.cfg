SPECIFICATION FairSpec
CONSTANTS
    Conns = {c1, c2}
    Windows = {w1, w2}
    Structural = {}
    Archivers = {}
    Readers = {}
    MaxCommits = 2
PROPERTY WritesEnd
\* Two writes made is the end of the run.
CHECK_DEADLOCK FALSE
