SPECIFICATION Spec
CONSTANTS
    Matches = {m1, m2}
    Legacy = 1
    KeepRecent = 1
    MaxRequests = 4
    NoMatch = none
INVARIANT RevertNeedsNoSegments
\* The bound on the requests is the end of the run.
CHECK_DEADLOCK FALSE
