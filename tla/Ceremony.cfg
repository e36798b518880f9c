SPECIFICATION FairSpec
CONSTANTS
    p1 = p1
    p2 = p2
    r1 = r1
    Contributors <- TwoContributors
    Environments <- ThreeEnvironments
    MaxHeight = 2
    MaxFaults = 2
INVARIANT TypeOK
INVARIANT StorageAgrees
INVARIANT AggregatedHasFile
INVARIANT TeamOnRecord
INVARIANT BannedNeverWork
INVARIANT NobodyLost
PROPERTY FirstComeFirstServed
PROPERTY EveryoneServed
CHECK_DEADLOCK FALSE
