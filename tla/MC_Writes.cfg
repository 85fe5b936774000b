SPECIFICATION WritesSpec
CONSTANTS
    Conns = {c1, c2}
    Windows = {w1}
    Structural = {s1, s2}
    Archivers = {k1}
    Readers = {}
    MaxCommits = 2
    Tabs = {t1}
    Paths = {a, b}
    MaxEdits = 3
    MaxFailures = 2
    MaxRefusals = 1
    MaxReloads = 1
    Gated = TRUE
    Encodes = TRUE
    Overtakes = FALSE
INVARIANTS WritesTypeOK ReloadIsOwn PoolNotWedged
INVARIANTS NoEditLost PendingShowsLast LastEditStands
PROPERTIES KeepsEdits WritesEnd EditsSettle
\* Every write made and every edit settled is the end of the run: nobody reads.
CHECK_DEADLOCK FALSE
