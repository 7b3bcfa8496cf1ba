\* A gated and an ungated task, channels of one slot.
CONSTANTS
    t1 = t1
    t2 = t2
    NoTask = NoTask
    NoMsg = NoMsg
    Tasks = {t1, t2}
    Verdicts <- MCVerdicts
    InCap = 1
    OutCap = 1
    MaxAttempts = 1
    MaxNotices = 1
SPECIFICATION FairSpec
CHECK_DEADLOCK FALSE
INVARIANTS
    TypeOK
    ExecutedIsPermitted
    AnsweredAtMostOnce
    UnansweredWaits
PROPERTIES
    ReportsGetOut
    StoppedComesToRest
    GivesUp
