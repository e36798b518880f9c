\* Three contributors, three chunks and no replacement: up to two drops, each of
\* which starts the round again without the contributor.
SPECIFICATION Spec
SYMMETRY ContributorSymmetry
CONSTANTS
    p1 = p1
    p2 = p2
    p3 = p3
    r1 = r1
    Contributors <- ThreeContributors
    CoordinatorContributors <- NoReplacement
    NumberOfChunks = 3
    LockLimit = 2
    MayFail = FALSE
    MayRepeat = FALSE
    MaxDrops = 2
    MaxRollbacks = 0
INVARIANT LocksAreKnown
INVARIANT ChallengesOnRecord
INVARIANT FinishedIsComplete
INVARIANT NoLeftoverFiles
PROPERTY ImplementsChunkChain
CHECK_DEADLOCK FALSE
