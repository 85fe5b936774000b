SPECIFICATION Spec
CONSTANTS
    a = a
    b = b
    Paths = {a}
    MaxCommits = 2
    MaxLosses = 0
    MaxRestarts = 0
    Snapshots = FALSE
    Editing = FALSE
    Revalidates = FALSE
    BootRace = TRUE
INVARIANT PageHoldsItsSeq
\* Every commit made, fanned out and received is the end of the run.
CHECK_DEADLOCK FALSE
