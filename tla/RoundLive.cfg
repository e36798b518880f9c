\* Two contributors, three chunks and no replacement, fair processes: every
\* contributor may be dropped, and then the coordinator rolls back.
SPECIFICATION FairSpec
CONSTANTS
    p1 = p1
    p2 = p2
    p3 = p3
    r1 = r1
    Contributors <- TwoContributors
    CoordinatorContributors <- NoReplacement
    NumberOfChunks = 3
    LockLimit = 2
    MayFail = FALSE
    MayRepeat = FALSE
    MaxDrops = 2
    MaxRollbacks = 0
PROPERTY RoundCompletes
CHECK_DEADLOCK FALSE
