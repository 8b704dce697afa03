CONSTANTS
    Chunks <- MCChunks
    Parts = 2
    Broken <- MCBroken
    Plans <- MCPlans
    Trials = {TRUE, FALSE}
    MaxAge = 1
    MaxNow = 2
    DrillChanges = 1
    MaxChanges = 3
    MaxUnseen = 2
SPECIFICATION FairSpec
INVARIANT AnsweredIsOnDisk
INVARIANT KillsOwnGroup
INVARIANT AcceptedHolds
PROPERTY PassedIsTested
PROPERTY TestEnds
