SPECIFICATION BracketSpec
CONSTANTS
    MaxBout = 3
    Seats = {1, 2}
    t1 = t1
    t2 = t2
    t3 = t3
    Teams = {t1, t2, t3}
    NoTeam = none
    Source <- Ladder
    Advancing <- Losers
    TableAfter = 2
    Results <- NoTies
INVARIANT TakersMoveOn
\* The last bout finished is the end of the run.
CHECK_DEADLOCK FALSE
