\* Two contributors with their clients, a verifier, two chunks and two coordinator
\* contributors; one fault, and the drops it leads to.
SPECIFICATION MCSpec
CONSTANTS
    p1 = p1
    p2 = p2
    r1 = r1
    r2 = r2
    Contributors <- TwoContributors
    CoordinatorContributors <- TwoReplacements
    NumberOfChunks = 2
    LockLimit = 2
    MayFail = FALSE
    MayRepeat = TRUE
    MaxDrops = 2
    MaxRollbacks = 0
    MaxFaults = 1
CHECK_DEADLOCK FALSE
INVARIANT LocksMatchClients
INVARIANT VerifiedFromRecord
PROPERTY RoundEnds
