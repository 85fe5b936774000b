SPECIFICATION FairSpec
CONSTANTS
    a = a
    b = b
    Paths = {a, b}
    MaxCommits = 2
    MaxLosses = 1
    MaxRestarts = 1
    Snapshots = TRUE
    Editing = TRUE
    Revalidates = FALSE
    BootRace = FALSE
PROPERTY HeardIsShown
\* Every commit received is the end of the run.
CHECK_DEADLOCK FALSE
