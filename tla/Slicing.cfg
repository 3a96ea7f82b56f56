SPECIFICATION FairSpec
CHECK_DEADLOCK FALSE
CONSTANTS
    Ratio = 2
    HalfWindow = 0
    Context = 3
    MergeGap = 1
    TopN = 3
    Lag = 1
    Skip = 1
    CoreReach = 1
    MinTrim = 1
    Boundary = 0
    Tolerance = 1
    Similar <- MCSimilar
    Parallelism = 2
    MaxFaults = 2
    Densities <- MCDensities
    FollowedUp <- MCFollowedUp
    Answers <- MCAnswers
    Speeches <- MCSpeeches
    Earlier <- MCEarlier
INVARIANTS
    CutIsComplete
    DuplicatesDecidedByRank
    StagedIsListed
    KeptIsProven
PROPERTIES
    ReadyGroupFinishes
