SPECIFICATION Spec
CONSTANTS
    NoRequest = none
    MaxRev = 3
    MaxDay = 1
    MaxCard = 1
    Texts = {x, y}
    MaxList = 2
    Marks = {x}
    NoCard = none
    MaxSession = 1
    MaxEvent = 2
    Blank = blank
    NoComment = none
    Kept = kept
    MaxOp = 3
    MaxCalls = 2
    MaxServed = 1
    Nothing = none
    Table = {1, 2, 3}
    Tabs <- SomeTabs
    MaxRow = 3
    MaxBill = 2
    Accounts = {x, y, z}
    Founder = x
    Phantom = none
    Contents <- SomeContents
    NoBill = none
    MaxLink = 2
    Caps = {0, 1}
    People = {x, y}
    HandTeams = {x, y}
    Bodies = {b1, b2}
    MaxAct = 4
    NoBody = none
    MaxBout = 3
    Seats = {1, 2}
    t1 = t1
    t2 = t2
    t3 = t3
    Teams = {t1, t2, t3}
    NoTeam = none
    Source <- Ladder
    Advancing <- Losers
    TableAfter = 2
    Results <- NoTies
    s1 = s1
    s2 = s2
    Streams = {s1, s2}
    Editors = {s2}
    GameOf <- OneGame
    Buffer = 2
    MaxFanned = 1
    MaxFlips = 1
    HostStreams = {x, y}
    Posters = {x, y}
    MaxPosts = 1
    Visits = {x, y, z}
    Nobody = nobody
    MaxVersion = 3
INVARIANTS TypesOK DeltaReadsAsFull RepliesHaveTheirRoot
INVARIANTS CommentIndexReadsAsServer QueuedOpsAreKept EditsFollowTheirCreate
INVARIANTS NewestEditStays BalancesAreFair SettlesInFewLines
INVARIANTS LiveBillsNameMembers OneRowEach SeatsWithinCap
INVARIANTS OutboxArrives SeatsAreCurrent FinalCountIsShown
PROPERTIES AnswersAreFinal NoSwapUnderAResult SnapshotNeverOlder
\* A part that has used up its bounds is the end of the run.
CHECK_DEADLOCK FALSE
