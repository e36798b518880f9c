\* Two contributors with their clients, a verifier and two chunks; no faults.
SPECIFICATION ClientsSpec
CONSTANTS
    p1 = p1
    p2 = p2
    r1 = r1
    r2 = r2
    Contributors <- TwoContributors
    CoordinatorContributors <- TwoReplacements
    NumberOfChunks = 2
    LockLimit = 2
    MayFail = FALSE
    MayRepeat = FALSE
    MaxDrops = 0
    MaxRollbacks = 0
    MaxFaults = 0
INVARIANT FinishedClientsContributed
CHECK_DEADLOCK FALSE
