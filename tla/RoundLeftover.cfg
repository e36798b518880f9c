\* A contributor works on a contribution when the one before it is dropped.
SPECIFICATION Spec
CONSTANTS
    p1 = p1
    p2 = p2
    p3 = p3
    r1 = r1
    Contributors <- TwoContributors
    CoordinatorContributors <- OneReplacement
    NumberOfChunks = 2
    LockLimit = 1
    MayFail = FALSE
    MayRepeat = FALSE
    MaxDrops = 1
    MaxRollbacks = 0
INVARIANT NoLeftoverFiles
CHECK_DEADLOCK FALSE
