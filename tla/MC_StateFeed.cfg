SPECIFICATION Spec
CONSTANTS
    a = a
    b = b
    Paths = {a, b}
    MaxCommits = 2
    MaxLosses = 2
    MaxRestarts = 1
    Snapshots = TRUE
    Editing = TRUE
    Revalidates = TRUE
    BootRace = FALSE
SYMMETRY PathsAlike
INVARIANTS TypeOK PageHoldsItsSeq UpToDateShowsDb
PROPERTY SeqNeverBack
\* Every commit made, fanned out and received is the end of the run.
CHECK_DEADLOCK FALSE
