\* Every number of chunks up to 9, every number of contributors the range
\* checks accept and every bucket: bucket sizes 1 to 9, with and without a
\* remainder, and walks that wrap around the last chunk.
SPECIFICATION Spec
CONSTANT MaxChunks = 9
INVARIANT TypeOK
INVARIANT ComputesInitializeTasks
INVARIANT OneContributorPerContribution
CHECK_DEADLOCK FALSE
