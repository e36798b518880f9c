\* Two contributors, two chunks, one coordinator contributor as replacement; two
\* drops, so that the replacement may be called on while it is at work or has
\* finished, an operator rollback, refused contributions and repeated verifications.
SPECIFICATION Spec
SYMMETRY ContributorSymmetry
CONSTANTS
    p1 = p1
    p2 = p2
    p3 = p3
    r1 = r1
    Contributors <- TwoContributors
    CoordinatorContributors <- OneReplacement
    NumberOfChunks = 2
    LockLimit = 2
    MayFail = TRUE
    MayRepeat = TRUE
    MaxDrops = 2
    MaxRollbacks = 1
INVARIANT TypeOK
INVARIANT ChunkIntegrity
INVARIANT LocksAreHeld
INVARIANT CompletedIsRecorded
INVARIANT VerificationQueue
INVARIANT OneTaskPerChunk
INVARIANT ResponsesOnRecord
INVARIANT DropSucceeds
INVARIANT TeamIntact
PROPERTY ImplementsChunkChain
CHECK_DEADLOCK FALSE
