---------------------------- MODULE Phase1Proofs ----------------------------
(***************************************************************************)
(* Proofs about Phase1, for all sizes of powers, chunks and batches.       *)
(***************************************************************************)
EXTENDS Phase1, TLAPS

(***************************************************************************)
(* Chunks.                                                                 *)
(***************************************************************************)
\* The multiples of d below n, counted by division.
LEMMA BelowQuotient ==
    ASSUME NEW n \in Nat, NEW d \in Nat \ {0}, NEW c \in Nat, c < n \div d
    PROVE  (c + 1) * d <= n
<1>1. n = d * (n \div d) + (n % d) /\ n % d >= 0 /\ n \div d \in Nat
  OBVIOUS
<1> DEFINE q == n \div d
<1>2. (c + 1) * d <= q * d
  <2>1. q - (c + 1) \in Nat
    BY <1>1
  <2>2. (q - (c + 1)) * d >= 0
    BY <2>1
  <2>3. (q - (c + 1)) * d = q * d - (c + 1) * d
    BY <2>1
  <2> QED
    BY <1>1, <2>2, <2>3
<1> QED
  BY <1>1, <1>2

\* What is at least d long holds one d.
LEMMA QuotientAtLeastOne ==
    ASSUME NEW n \in Nat, NEW d \in Nat \ {0}, d <= n
    PROVE  n \div d \in Nat /\ n \div d >= 1
  BY SMT

\* The chunks start at the multiples of their size.
LEMMA NextMultiple ==
    ASSUME NEW c \in Nat, NEW d \in Nat \ {0}
    PROVE  (c + 1) * d = c * d + d /\ c * d \in Nat /\ (c * d = 0 <=> c = 0)
  BY SMT

\* The sizes on which the borders of chunks and batches depend.
Sizes(s) ==
    /\ s.mode \in {"Full", "Chunked"} /\ s.proving_system \in {"Groth16", "Marlin"}
    /\ PowersLength(s) \in Nat /\ PowersLength(s) >= 2
    /\ TotalSizeInG1(s) \in Nat /\ PowersLength(s) <= TotalSizeInG1(s)
    /\ s.power \in Nat \ {0} /\ s.batch_size \in Nat /\ s.batch_size >= 2
    /\ s.mode = "Chunked" => s.chunk_size \in Nat /\ s.chunk_size >= 2
    /\ s.proving_system = "Marlin" => s.batch_size >= 3 + 3 * s.power

\* Where a chunk lies.
Bounds(s, c) ==
    /\ c \in Nat
    /\ ChunkStart(s, c) \in Nat /\ ChunkEnd(s, c) \in Nat
    /\ ChunkStart(s, c) < ChunkEnd(s, c) /\ ChunkStart(s, c) < TotalSizeInG1(s)
    /\ ChunkStart(s, c) = 0 <=> c = 0

\* The settings have sizes, and so have those of the round file.
LEMMA SettingsHaveSizes ==
    ASSUME NEW s \in Settings
    PROVE  Sizes(s) /\ Sizes(FullSettings(s))
<1>1. Sizes(s)
  BY SettingsAssumption, PowersAssumption DEF Sizes, TotalSizeInG1, PowersG1Length
<1>2. /\ FullSettings(s).mode = "Full"
      /\ FullSettings(s).proving_system = s.proving_system
      /\ FullSettings(s).power = s.power
      /\ FullSettings(s).batch_size = s.batch_size
  BY SettingsAssumption DEF FullSettings
<1>3. /\ PowersLength(FullSettings(s)) = PowersLength(s)
      /\ TotalSizeInG1(FullSettings(s)) = TotalSizeInG1(s)
  BY <1>2 DEF TotalSizeInG1, PowersG1Length, PowersLength
<1> QED
  BY <1>1, <1>2, <1>3 DEF Sizes

\* Every chunk of the settings lies within the powers.
LEMMA ChunksHaveBounds ==
    ASSUME NEW s, Sizes(s), NEW c \in 0..(ChunkCount(s) - 1)
    PROVE  Bounds(s, c)
<1>1. CASE s.mode = "Full"
  BY <1>1 DEF Sizes, Bounds, ChunkCount, NumberOfChunks, ChunkStart, ChunkEnd
<1>2. CASE s.mode = "Chunked"
  <2> DEFINE d == s.chunk_size
             n == TotalSizeInG1(s) + d - 1
  <2>1. d \in Nat \ {0} /\ n \in Nat /\ n \div d \in Int /\ ChunkCount(s) = n \div d
    BY <1>2 DEF Sizes, ChunkCount, NumberOfChunks
  <2>2. c \in Nat /\ c < n \div d
    BY <2>1
  <2>3. (c + 1) * d <= n
    BY <2>1, <2>2, BelowQuotient
  <2>4. (c + 1) * d = c * d + d /\ c * d \in Nat /\ (c * d = 0 <=> c = 0)
    <3> HIDE DEF d
    <3> QED
      BY <2>1, <2>2, NextMultiple
  <2>5. ChunkStart(s, c) = c * d /\ ChunkEnd(s, c) = (c + 1) * d
    BY <1>2 DEF ChunkStart, ChunkEnd
  <2> QED
    BY <2>1, <2>2, <2>3, <2>4, <2>5 DEF Bounds, Sizes
<1> QED
  BY <1>1, <1>2 DEF Sizes

-----------------------------------------------------------------------------
(***************************************************************************)
(* Batches.                                                                *)
(***************************************************************************)
\* What InBounds says of one range: cut out of a slice of the given size, for at
\* most batch_size elements.
Fits(range, size, batch_size) ==
    /\ \/ range = <<0, 0>>
       \/ 0 <= range[1] /\ range[1] < range[2] /\ range[2] <= size
    /\ range[2] - range[1] <= batch_size

\* A batch of tau_g1 starts where it should and ends behind its start, within the
\* chunk, and takes the first element of the next one along.
LEMMA BatchEndBounds ==
    ASSUME NEW s, NEW c, Sizes(s), Bounds(s, c),
           NEW i \in ChunkStart(s, c)..(IterEnd(s, c) - 1)
    PROVE  /\ BatchEnd(s, c, i) \in Nat
           /\ i < BatchEnd(s, c, i) /\ BatchEnd(s, c, i) <= IterEnd(s, c)
           /\ BatchEnd(s, c, i) <= i + s.batch_size
           /\ BatchEnd(s, c, i) = i + s.batch_size \/ BatchEnd(s, c, i) = IterEnd(s, c)
  BY DEF Sizes, Bounds, BatchEnd, IterEnd, MinOf

\* The batch for the other vectors ends no later, and within their slice.
LEMMA OthersEndBounds ==
    ASSUME NEW s, NEW c, Sizes(s), Bounds(s, c),
           NEW i \in ChunkStart(s, c)..(IterEnd(s, c) - 1), i < PowersLength(s)
    PROVE  /\ OthersEnd(s, c, i) \in Nat
           /\ i < OthersEnd(s, c, i) /\ OthersEnd(s, c, i) <= BatchEnd(s, c, i)
           /\ OthersEnd(s, c, i) <= MinOf(ChunkEnd(s, c), PowersLength(s))
<1>1. /\ BatchEnd(s, c, i) \in Nat
      /\ i < BatchEnd(s, c, i) /\ BatchEnd(s, c, i) <= IterEnd(s, c)
      /\ BatchEnd(s, c, i) <= i + s.batch_size
      /\ BatchEnd(s, c, i) = i + s.batch_size \/ BatchEnd(s, c, i) = IterEnd(s, c)
  BY BatchEndBounds
<1>2. IterEnd(s, c) = IF ChunkEnd(s, c) < TotalSizeInG1(s) THEN ChunkEnd(s, c) ELSE TotalSizeInG1(s)
  BY DEF IterEnd, MinOf
<1>3. OthersEnd(s, c, i) = LET max == MinOf(ChunkEnd(s, c), PowersLength(s))
                           IN  IF i + s.batch_size > max THEN max ELSE BatchEnd(s, c, i)
  BY DEF OthersEnd
<1> QED
  BY <1>1, <1>2, <1>3 DEF Sizes, Bounds, MinOf

\* The range of every batch fits its slice and the verification's vectors, and
\* the powers of tau generated for it suffice.
LEMMA BatchRangeFits ==
    ASSUME NEW s, NEW c, Sizes(s), Bounds(s, c),
           NEW i \in ChunkStart(s, c)..(IterEnd(s, c) - 1), NEW v \in Vectors
    PROVE  /\ Fits(BatchRange(s, c, i, v), SliceSize(s, c, v), s.batch_size)
           /\ BatchRange(s, c, i, v)[2] - BatchRange(s, c, i, v)[1] <= BatchEnd(s, c, i) - i
<1> DEFINE from == ChunkStart(s, c)
           powers == v \in {"tau_g2", "alpha_g1", "beta_g1"} /\ s.proving_system = "Groth16"
                       /\ i < PowersLength(s)
<1>0. /\ from \in Nat /\ i \in Nat /\ from <= i
      /\ BatchEnd(s, c, i) \in Nat
      /\ i < BatchEnd(s, c, i) /\ BatchEnd(s, c, i) <= IterEnd(s, c)
      /\ BatchEnd(s, c, i) <= i + s.batch_size
      /\ s.batch_size \in Nat
  BY BatchEndBounds DEF Bounds, Sizes
<1>1. CASE v = "tau_g1"
  <2>1. BatchRange(s, c, i, v) = <<i - from, BatchEnd(s, c, i) - from>>
    BY <1>1 DEF BatchRange
  <2>2. SliceSize(s, c, v) = IterEnd(s, c) - from
    BY <1>1 DEF SliceSize, G1ChunkSize, IterEnd
  <2>3. IterEnd(s, c) \in Nat
    BY DEF IterEnd, MinOf, Bounds, Sizes
  <2> QED
    BY <1>0, <2>1, <2>2, <2>3 DEF Fits
<1>2. CASE v # "tau_g1" /\ powers
  <2>1. BatchRange(s, c, i, v) = <<i - from, OthersEnd(s, c, i) - from>>
    BY <1>2 DEF BatchRange
  <2>2. from < PowersLength(s) /\ PowersLength(s) \in Nat /\ ChunkEnd(s, c) \in Nat
    BY <1>0, <1>2 DEF Sizes, Bounds
  <2>3. SliceSize(s, c, v) = MinOf(ChunkEnd(s, c), PowersLength(s)) - from
    BY <1>0, <1>2, <2>2 DEF SliceSize, OtherChunkSize
  <2>4. /\ OthersEnd(s, c, i) \in Nat
        /\ i < OthersEnd(s, c, i) /\ OthersEnd(s, c, i) <= BatchEnd(s, c, i)
        /\ OthersEnd(s, c, i) <= MinOf(ChunkEnd(s, c), PowersLength(s))
        /\ MinOf(ChunkEnd(s, c), PowersLength(s)) \in Nat
    BY <1>2, <2>2, OthersEndBounds DEF MinOf
  <2> QED
    BY <1>0, <2>1, <2>3, <2>4 DEF Fits
<1>3. CASE v # "tau_g1" /\ ~powers
  <2>1. BatchRange(s, c, i, v) = <<0, 0>>
    BY <1>3 DEF BatchRange
  <2> QED
    BY <1>0, <2>1 DEF Fits
<1> QED
  BY <1>1, <1>2, <1>3

\* The verification's ranges fit too: Marlin's elements of the first chunk, which
\* are verified along with its first batch, are at most batch_size many.
LEMMA VerifiedRangeFits ==
    ASSUME settings \in Settings, Bounds(settings, chunk),
           start \in ChunkStart(settings, chunk)..(IterEnd(settings, chunk) - 1),
           NEW v \in Vectors
    PROVE  Fits(VerifiedRange(v), SliceSize(settings, chunk, v), settings.batch_size)
<1>0. Sizes(settings)
  BY SettingsHaveSizes
<1>1. CASE settings.proving_system = "Marlin" /\ v \in {"tau_g2", "alpha_g1"}
  <2>1. CASE start = 0
    <3>1. chunk = 0
      BY <2>1 DEF Bounds
    <3>2. VerifiedRange(v) = <<0, SliceSize(settings, chunk, v)>>
      BY <1>1, <2>1, <3>1 DEF VerifiedRange
    <3>3. SliceSize(settings, chunk, v) \in {settings.power + 2, 3 + 3 * settings.power}
      BY <1>1, <3>1 DEF SliceSize, MarlinTauG2Size, MarlinAlphaG1Size
    <3> QED
      BY <1>0, <1>1, <3>2, <3>3 DEF Fits, Sizes
  <2>2. CASE start # 0
    <3>1. VerifiedRange(v) = <<0, 0>>
      BY <1>1, <2>2 DEF VerifiedRange
    <3> QED
      BY <1>0, <3>1 DEF Fits, Sizes
  <2> QED
    BY <2>1, <2>2
<1>2. CASE ~(settings.proving_system = "Marlin" /\ v \in {"tau_g2", "alpha_g1"})
  <2>1. VerifiedRange(v) = BatchRange(settings, chunk, start, v)
    BY <1>2 DEF VerifiedRange
  <2> QED
    BY <1>0, <2>1, BatchRangeFits
<1> QED
  BY <1>1, <1>2

-----------------------------------------------------------------------------
(***************************************************************************)
(* The inductive invariant: while a loop over batches runs, the next batch *)
(* starts within the chunk that the loop goes through.                     *)
(***************************************************************************)
LayoutInv ==
    /\ settings \in Settings
    /\ chunk \in Chunks
    /\ step \in Steps
    /\ step \in {"compute", "upload", "examine", "verify"} =>
          start \in ChunkStart(settings, chunk)..(IterEnd(settings, chunk) - 1)
    /\ step = "check" =>
          /\ chunk = 0
          /\ start \in 0..(IterEnd(FullSettings(settings), 0) - 1)

\* There is a first chunk.
LEMMA FirstChunk ==
    ASSUME NEW s, Sizes(s)
    PROVE  0 \in 0..(ChunkCount(s) - 1)
<1>1. CASE s.mode = "Full"
  BY <1>1 DEF ChunkCount, NumberOfChunks
<1>2. CASE s.mode = "Chunked"
  <2> DEFINE d == s.chunk_size
             n == TotalSizeInG1(s) + d - 1
  <2>1. d \in Nat \ {0} /\ n \in Nat /\ d <= n /\ ChunkCount(s) = n \div d
    BY <1>2 DEF Sizes, ChunkCount, NumberOfChunks
  <2>2. n \div d \in Nat /\ n \div d >= 1
    <3> HIDE DEF d, n
    <3> QED
      BY <2>1, QuotientAtLeastOne
  <2> QED
    BY <2>1, <2>2
<1> QED
  BY <1>1, <1>2 DEF Sizes

\* A chunk's first batch starts within it.
LEMMA ChunkStartsInside ==
    ASSUME NEW s, NEW c, Sizes(s), Bounds(s, c)
    PROVE  ChunkStart(s, c) \in ChunkStart(s, c)..(IterEnd(s, c) - 1)
  BY DEF Sizes, Bounds, IterEnd, MinOf

\* The chunk at hand, and the round file, which is one chunk.
LEMMA BoundsAtHand ==
    ASSUME settings \in Settings
    PROVE  /\ \A c \in Chunks : Bounds(settings, c)
           /\ Bounds(FullSettings(settings), 0) /\ 0 \in Chunks
           /\ ChunkStart(FullSettings(settings), 0) = 0
<1>1. Sizes(settings) /\ Sizes(FullSettings(settings))
  BY SettingsHaveSizes
<1>2. Bounds(FullSettings(settings), 0)
  BY <1>1, FirstChunk, ChunksHaveBounds
<1>3. ChunkStart(FullSettings(settings), 0) = 0
  BY <1>2 DEF Bounds
<1>4. \A c \in Chunks : Bounds(settings, c)
  BY <1>1, ChunksHaveBounds DEF Chunks
<1>5. 0 \in Chunks
  BY <1>1, FirstChunk DEF Chunks
<1> QED
  BY <1>2, <1>3, <1>4, <1>5

\* The next batch of a loop starts within the chunk.
LEMMA NextBatchInside ==
    ASSUME NEW s, NEW c, NEW from, NEW to, Sizes(s), Bounds(s, c),
           start \in ChunkStart(s, c)..(IterEnd(s, c) - 1), NextBatch(s, c, from, to)
    PROVE  /\ start' \in ChunkStart(s, c)..(IterEnd(s, c) - 1)
           /\ step' \in {from, to}
<1>1. /\ ChunkStart(s, c) \in Nat /\ IterEnd(s, c) \in Nat /\ ChunkStart(s, c) < IterEnd(s, c)
      /\ s.batch_size \in Nat /\ s.batch_size >= 2
  BY DEF Sizes, Bounds, IterEnd, MinOf
<1> QED
  BY <1>1 DEF NextBatch

\* The invariant holds at first.
LEMMA InitLayoutInv == Init => LayoutInv
<1> SUFFICES ASSUME Init PROVE LayoutInv
  OBVIOUS
<1>1. settings \in Settings /\ step = "begin" /\ chunk = 0
  BY DEF Init
<1>2. 0 \in Chunks
  BY <1>1, BoundsAtHand
<1> QED
  BY <1>1, <1>2 DEF LayoutInv, Steps

\* Every step of the computation keeps it.
LEMMA NextLayoutInv == LayoutInv /\ [Next]_vars => LayoutInv'
<1> SUFFICES ASSUME LayoutInv, [Next]_vars PROVE LayoutInv'
  OBVIOUS
<1> DEFINE full == FullSettings(settings)
           inside == start \in ChunkStart(settings, chunk)..(IterEnd(settings, chunk) - 1)
<1>0. /\ settings \in Settings /\ chunk \in Chunks /\ step \in Steps
      /\ Sizes(settings) /\ Sizes(full)
      /\ Bounds(settings, chunk) /\ Bounds(full, 0) /\ 0 \in Chunks /\ ChunkStart(full, 0) = 0
  BY SettingsHaveSizes, BoundsAtHand DEF LayoutInv
<1>1. CASE Begin
  BY <1>0, <1>1 DEF Begin, LayoutInv, Chunks, Steps
<1>2. CASE ComputeFirst
  <2>1. ChunkStart(settings, chunk) \in ChunkStart(settings, chunk)..(IterEnd(settings, chunk) - 1)
    BY <1>0, ChunkStartsInside
  <2>2. /\ settings' = settings /\ chunk' = chunk /\ step' = "compute"
        /\ start' = ChunkStart(settings, chunk)
    BY <1>2 DEF ComputeFirst
  <2> QED
    BY <1>0, <2>1, <2>2 DEF LayoutInv, Chunks, Steps
<1>3. CASE ComputeBatch
  <2>1. settings' = settings /\ chunk' = chunk /\ NextBatch(settings, chunk, "compute", "upload")
    BY <1>3 DEF ComputeBatch
  <2>2. inside
    BY <1>3 DEF ComputeBatch, LayoutInv
  <2>3. /\ start' \in ChunkStart(settings, chunk)..(IterEnd(settings, chunk) - 1)
        /\ step' \in {"compute", "upload"}
    BY <1>0, <2>1, <2>2, NextBatchInside
  <2> QED
    BY <1>0, <2>1, <2>3 DEF LayoutInv, Chunks, Steps
<1>4. CASE Upload \/ MiscomputedUpload \/ Examine
  <2>1. /\ settings' = settings /\ chunk' = chunk /\ start' = start
        /\ step' \in {"examine", "verify", "rejected"} /\ inside
    BY <1>4 DEF Upload, MiscomputedUpload, Examine, LayoutInv
  <2> QED
    BY <1>0, <2>1 DEF LayoutInv, Chunks, Steps
<1>5. CASE VerifyBatch
  <2>1. settings' = settings /\ chunk' = chunk /\ inside
    BY <1>5 DEF VerifyBatch, LayoutInv
  <2>2. CASE NextBatch(settings, chunk, "verify", "decompress")
    <3>1. /\ start' \in ChunkStart(settings, chunk)..(IterEnd(settings, chunk) - 1)
          /\ step' \in {"verify", "decompress"}
      BY <1>0, <2>1, <2>2, NextBatchInside
    <3> QED
      BY <1>0, <2>1, <3>1 DEF LayoutInv, Chunks, Steps
  <2>3. CASE step' = "rejected"
    BY <1>0, <2>1, <2>3 DEF LayoutInv, Chunks, Steps
  <2> QED
    BY <1>5, <2>2, <2>3 DEF VerifyBatch
<1>6. CASE Decompress
  <2>1. settings' = settings /\ chunk' \in Chunks /\ step' \in {"begin", "aggregate"}
    BY <1>0, <1>6 DEF Decompress
  <2> QED
    BY <1>0, <2>1 DEF LayoutInv, Chunks, Steps
<1>7. CASE AggregateChunk
  <2>1. /\ settings' = settings /\ chunk' \in Chunks /\ start' = 0
        /\ step' = "aggregate" \/ (step' = "check" /\ chunk' = 0)
    BY <1>0, <1>7 DEF AggregateChunk
  <2>2. 0 \in 0..(IterEnd(full, 0) - 1)
    BY <1>0, ChunkStartsInside
  <2> QED
    BY <1>0, <2>1, <2>2 DEF LayoutInv, Chunks, Steps
<1>8. CASE CheckBatch
  <2>1. settings' = settings /\ chunk' = chunk /\ chunk = 0 /\ start \in 0..(IterEnd(full, 0) - 1)
    BY <1>8 DEF CheckBatch, LayoutInv
  <2>2. CASE NextBatch(full, 0, "check", "accepted")
    <3>1. start' \in 0..(IterEnd(full, 0) - 1) /\ step' \in {"check", "accepted"}
      BY <1>0, <2>1, <2>2, NextBatchInside
    <3> QED
      BY <1>0, <2>1, <3>1 DEF LayoutInv, Chunks, Steps
  <2>3. CASE step' = "rejected"
    BY <1>0, <2>1, <2>3 DEF LayoutInv, Chunks, Steps
  <2> QED
    BY <1>8, <2>2, <2>3 DEF CheckBatch
<1>9. CASE DecompressFails
  <2>1. settings' = settings /\ chunk' = chunk /\ step' = "rejected"
    BY <1>9 DEF DecompressFails
  <2> QED
    BY <1>0, <2>1 DEF LayoutInv, Chunks, Steps
<1>10. CASE UNCHANGED vars
  BY <1>10 DEF vars, LayoutInv, Chunks
<1> QED
  BY <1>1, <1>2, <1>3, <1>4, <1>5, <1>6, <1>7, <1>8, <1>9, <1>10 DEF Next, Ended

\* Under the invariant every range that the batch at hand uses fits.
LEMMA LayoutInvInBounds == LayoutInv => InBounds
<1> SUFFICES ASSUME LayoutInv, step \in {"compute", "verify", "check"} PROVE InBounds
  BY DEF InBounds
<1>0. /\ settings \in Settings /\ chunk \in Chunks
      /\ Sizes(settings) /\ Sizes(FullSettings(settings))
      /\ Bounds(settings, chunk) /\ Bounds(FullSettings(settings), 0)
      /\ ChunkStart(FullSettings(settings), 0) = 0
  BY SettingsHaveSizes, BoundsAtHand DEF LayoutInv
<1>1. CASE step = "compute"
  <2>1. start \in ChunkStart(settings, chunk)..(IterEnd(settings, chunk) - 1)
    BY <1>1 DEF LayoutInv
  <2>2. \A v \in Vectors :
          LET range == BatchRange(settings, chunk, start, v)
          IN  /\ Fits(range, SliceSize(settings, chunk, v), settings.batch_size)
              /\ range[2] - range[1] <= BatchEnd(settings, chunk, start) - start
    BY <1>0, <2>1, BatchRangeFits
  <2> QED
    BY <1>1, <2>2 DEF InBounds, Within, Fits
<1>2. CASE step = "verify"
  <2>1. start \in ChunkStart(settings, chunk)..(IterEnd(settings, chunk) - 1)
    BY <1>2 DEF LayoutInv
  <2>2. \A v \in Vectors :
          Fits(VerifiedRange(v), SliceSize(settings, chunk, v), settings.batch_size)
    BY <1>0, <2>1, VerifiedRangeFits
  <2> QED
    BY <1>2, <2>2 DEF InBounds, Within, Fits
<1>3. CASE step = "check"
  <2> DEFINE full == FullSettings(settings)
  <2>1. chunk = 0 /\ start \in ChunkStart(full, 0)..(IterEnd(full, 0) - 1)
    BY <1>0, <1>3 DEF LayoutInv
  <2>2. \A v \in Vectors :
          Fits(BatchRange(full, chunk, start, v), SliceSize(full, chunk, v), full.batch_size)
    BY <1>0, <2>1, BatchRangeFits
  <2> QED
    BY <1>3, <2>2 DEF InBounds, Within, Fits
<1> QED
  BY <1>1, <1>2, <1>3

\* For every power, chunk size and batch size that the settings allow, no batch of
\* the computation, of the verification or of the aggregate verification reaches
\* beyond its slice, the verification's vectors or the powers generated for it.
THEOREM BatchesInBounds == Spec => []InBounds
<1>1. Init => LayoutInv
  BY InitLayoutInv
<1>2. LayoutInv /\ [Next]_vars => LayoutInv'
  BY NextLayoutInv
<1>3. LayoutInv => InBounds
  BY LayoutInvInBounds
<1> QED
  BY <1>1, <1>2, <1>3, PTL DEF Spec

-----------------------------------------------------------------------------
(***************************************************************************)
(* The layout of the files.                                                *)
(***************************************************************************)
\* Element j of n belongs to one of the parts of d elements.
LEMMA PartOf ==
    ASSUME NEW n \in Nat, NEW d \in Nat \ {0}, NEW j \in 0..(n - 1)
    PROVE  /\ j \div d \in 0..((n + d - 1) \div d - 1)
           /\ (j \div d) * d <= j /\ j < (j \div d + 1) * d
<1> DEFINE q == j \div d
           m == (n + d - 1) \div d
<1>1. j = d * q + (j % d) /\ j % d \in 0..(d - 1) /\ q \in Nat
  OBVIOUS
<1>2. n + d - 1 = d * m + ((n + d - 1) % d) /\ (n + d - 1) % d \in 0..(d - 1) /\ m \in Nat
  OBVIOUS
<1> HIDE DEF q, m
<1>3. d * q = q * d /\ (q + 1) * d = q * d + d /\ d * q \in Nat
  BY <1>1
<1>4. q < m
  <2> SUFFICES ASSUME q - m \in Nat PROVE FALSE
    BY <1>1, <1>2
  <2>1. d * (q - m) \in Nat /\ d * (q - m) = d * q - d * m
    BY <1>1, <1>2
  <2> QED
    BY <1>1, <1>2, <1>3, <2>1
<1>5. q * d <= j /\ j < (q + 1) * d
  BY <1>1, <1>3
<1>6. q \in 0..(m - 1)
  BY <1>1, <1>2, <1>4
<1> QED
  BY <1>5, <1>6 DEF q, m

\* Parts of d elements follow each other.
LEMMA PartsInOrder ==
    ASSUME NEW a \in Nat, NEW b \in Nat, NEW d \in Nat \ {0}, a < b
    PROVE  (a + 1) * d <= b * d
<1>1. (b - (a + 1)) * d >= 0
  <2>1. b - (a + 1) \in Nat
    OBVIOUS
  <2> QED
    BY <2>1
<1>2. (b - (a + 1)) * d = b * d - (a + 1) * d
  OBVIOUS
<1> QED
  BY <1>1, <1>2

\* The chunks divide the powers between them.
LEMMA ChunksDivide ==
    ASSUME NEW s, Sizes(s), NEW j \in 0..(TotalSizeInG1(s) - 1)
    PROVE  \E c \in 0..(ChunkCount(s) - 1) : ChunkStart(s, c) <= j /\ j < ChunkEnd(s, c)
<1>1. CASE s.mode = "Full"
  BY <1>1 DEF Sizes, ChunkCount, NumberOfChunks, ChunkStart, ChunkEnd
<1>2. CASE s.mode = "Chunked"
  <2>1. TotalSizeInG1(s) \in Nat /\ s.chunk_size \in Nat \ {0}
    BY <1>2 DEF Sizes
  <2>2. j \div s.chunk_size \in 0..(ChunkCount(s) - 1)
    BY <1>2, <2>1, PartOf DEF ChunkCount, NumberOfChunks
  <2>3. /\ ChunkStart(s, j \div s.chunk_size) <= j
        /\ j < ChunkEnd(s, j \div s.chunk_size)
    BY <1>2, <2>1, PartOf DEF ChunkStart, ChunkEnd
  <2> QED
    BY <2>2, <2>3
<1> QED
  BY <1>1, <1>2 DEF Sizes

\* No two chunks overlap.
LEMMA ChunksApart ==
    ASSUME NEW s, Sizes(s), NEW a \in 0..(ChunkCount(s) - 1),
           NEW b \in 0..(ChunkCount(s) - 1), a < b
    PROVE  ChunkEnd(s, a) <= ChunkStart(s, b)
<1>1. CASE s.mode = "Full"
  BY <1>1 DEF ChunkCount, NumberOfChunks
<1>2. CASE s.mode = "Chunked"
  <2>1. a \in Nat /\ b \in Nat /\ s.chunk_size \in Nat \ {0}
    BY <1>2 DEF Sizes, ChunkCount, NumberOfChunks
  <2> QED
    BY <1>2, <2>1, PartsInOrder DEF ChunkStart, ChunkEnd
<1> QED
  BY <1>1, <1>2 DEF Sizes

\* The vectors that are divided between the chunks, and their lengths.
Divided(s) == IF s.proving_system = "Groth16" THEN Vectors \ {"beta_g2"} ELSE {"tau_g1"}
Length(s, v) == IF v = "tau_g1" THEN TotalSizeInG1(s) ELSE PowersLength(s)
Place(s, c, v) == {ChunkStart(s, c) + i : i \in Slice(s, c, v)}

\* A chunk's slice of a divided vector is what lies within the chunk.
LEMMA PlaceIs ==
    ASSUME NEW s, NEW c, Sizes(s), Bounds(s, c), NEW v \in Divided(s)
    PROVE  \A j : j \in Place(s, c, v) <=>
              /\ j \in Nat /\ ChunkStart(s, c) <= j /\ j < ChunkEnd(s, c) /\ j < Length(s, v)
<1> DEFINE from == ChunkStart(s, c)
           size == SliceSize(s, c, v)
<1>1. /\ from \in Nat /\ ChunkEnd(s, c) \in Nat /\ from < ChunkEnd(s, c)
      /\ from < TotalSizeInG1(s) /\ Length(s, v) \in Nat
  BY DEF Bounds, Sizes, Length
<1>2. size = IF from >= Length(s, v) THEN 0 ELSE MinOf(ChunkEnd(s, c), Length(s, v)) - from
  <2>1. CASE v = "tau_g1"
    BY <1>1, <2>1 DEF SliceSize, G1ChunkSize, Length, Sizes
  <2>2. CASE v # "tau_g1"
    BY <1>1, <2>2 DEF SliceSize, OtherChunkSize, Length, Divided, Vectors
  <2> QED
    BY <2>1, <2>2
<1>3. Place(s, c, v) = {from + i : i \in 0..(size - 1)}
  BY DEF Place, Slice
<1> HIDE DEF from, size
<1>4. size \in Nat
  BY <1>1, <1>2 DEF MinOf, from
<1>5. \A j : j \in Place(s, c, v) <=> j \in Nat /\ from <= j /\ j < from + size
  <2>1. \A j : j \in Place(s, c, v) => j \in Nat /\ from <= j /\ j < from + size
    BY <1>1, <1>3, <1>4
  <2>2. ASSUME NEW j \in Nat, from <= j, j < from + size
        PROVE  j \in Place(s, c, v)
    <3>1. j - from \in 0..(size - 1) /\ from + (j - from) = j
      BY <1>1, <1>4, <2>2
    <3> QED
      BY <1>3, <3>1
  <2> QED
    BY <2>1, <2>2
<1> QED
  BY <1>1, <1>2, <1>4, <1>5 DEF MinOf, from

\* In the round file every divided vector has its length.
LEMMA FullSlice ==
    ASSUME NEW s \in Settings, NEW v \in Divided(s)
    PROVE  Slice(FullSettings(s), 0, v) = 0..(Length(s, v) - 1)
<1> DEFINE full == FullSettings(s)
<1>1. Sizes(s)
  BY SettingsHaveSizes
<1>2. /\ full.mode = "Full" /\ full.proving_system = s.proving_system
      /\ full.power = s.power
  BY SettingsAssumption DEF FullSettings
<1>3. PowersLength(full) = PowersLength(s) /\ TotalSizeInG1(full) = TotalSizeInG1(s)
  BY <1>2 DEF TotalSizeInG1, PowersG1Length, PowersLength
<1>4. ChunkStart(full, 0) = 0 /\ ChunkEnd(full, 0) = TotalSizeInG1(s)
  BY <1>2, <1>3 DEF ChunkStart, ChunkEnd
<1> HIDE DEF full
<1>5. SliceSize(full, 0, v) = Length(s, v)
  <2>1. CASE v = "tau_g1"
    BY <1>1, <1>3, <1>4, <2>1 DEF SliceSize, G1ChunkSize, Length, MinOf, Sizes
  <2>2. CASE v # "tau_g1"
    <3>1. s.proving_system = "Groth16" /\ v # "beta_g2"
      BY <2>2 DEF Divided
    <3>2. SliceSize(full, 0, v) = OtherChunkSize(full, 0)
      BY <1>2, <2>2, <3>1 DEF SliceSize
    <3> QED
      BY <1>1, <1>2, <1>3, <1>4, <2>2, <3>1, <3>2 DEF OtherChunkSize, Length, MinOf, Sizes
  <2> QED
    BY <2>1, <2>2
<1> QED
  BY <1>5 DEF Slice, full

\* The chunks' slices of a divided vector make up that of the round file.
LEMMA SlicesDivide ==
    ASSUME settings \in Settings, NEW v \in Divided(settings)
    PROVE  /\ UNION {Place(settings, c, v) : c \in Chunks} = Slice(FullSettings(settings), 0, v)
           /\ \A c, d \in Chunks : c # d => Place(settings, c, v) \cap Place(settings, d, v) = {}
<1>1. Sizes(settings) /\ \A c \in Chunks : Bounds(settings, c)
  BY SettingsHaveSizes, BoundsAtHand
<1>2. \A c \in Chunks : \A j : j \in Place(settings, c, v) <=>
          /\ j \in Nat /\ ChunkStart(settings, c) <= j
          /\ j < ChunkEnd(settings, c) /\ j < Length(settings, v)
  BY <1>1, PlaceIs
<1>3. Length(settings, v) \in Nat /\ Length(settings, v) <= TotalSizeInG1(settings)
  BY <1>1 DEF Length, Sizes
<1>4. TotalSizeInG1(settings) \in Nat
  BY <1>1 DEF Sizes
<1>5. \A j : j \in UNION {Place(settings, c, v) : c \in Chunks} <=> j \in 0..(Length(settings, v) - 1)
  <2>1. \A j : j \in UNION {Place(settings, c, v) : c \in Chunks} => j \in 0..(Length(settings, v) - 1)
    BY <1>2, <1>3
  <2>2. ASSUME NEW j \in 0..(Length(settings, v) - 1)
        PROVE  j \in UNION {Place(settings, c, v) : c \in Chunks}
    <3>1. j \in 0..(TotalSizeInG1(settings) - 1) /\ j \in Nat /\ j < Length(settings, v)
      BY <1>3, <1>4
    <3>2. PICK c \in Chunks : ChunkStart(settings, c) <= j /\ j < ChunkEnd(settings, c)
      BY <1>1, <3>1, ChunksDivide DEF Chunks
    <3>3. j \in Place(settings, c, v)
      BY <1>2, <3>1, <3>2
    <3> QED
      BY <3>3
  <2> QED
    BY <2>1, <2>2
<1>6. ASSUME NEW c \in Chunks, NEW d \in Chunks, c < d
      PROVE  Place(settings, c, v) \cap Place(settings, d, v) = {}
  <2>1. ChunkEnd(settings, c) <= ChunkStart(settings, d)
    BY <1>1, <1>6, ChunksApart DEF Chunks
  <2>2. ChunkEnd(settings, c) \in Nat /\ ChunkStart(settings, d) \in Nat
    BY <1>1 DEF Bounds
  <2> QED
    BY <1>2, <2>1, <2>2
<1>7. \A c, d \in Chunks : c # d => Place(settings, c, v) \cap Place(settings, d, v) = {}
  <2> SUFFICES ASSUME NEW c \in Chunks, NEW d \in Chunks, c # d
               PROVE  Place(settings, c, v) \cap Place(settings, d, v) = {}
    OBVIOUS
  <2>1. c \in Int /\ d \in Int
    BY <1>1 DEF Bounds
  <2>2. CASE c < d
    BY <1>6, <2>2
  <2>3. CASE d < c
    <3>1. Place(settings, d, v) \cap Place(settings, c, v) = {}
      BY <1>6, <2>3
    <3> QED
      BY <3>1
  <2> QED
    BY <2>1, <2>2, <2>3
<1> QED
  BY <1>5, <1>7, FullSlice

\* The slices of a chunk, one behind the other, are as long as get_length says.
LEMMA SlicesFillFile ==
    ASSUME settings \in Settings, chunk \in Chunks, NEW comp \in BOOLEAN
    PROVE  SliceOffset(settings, chunk, "beta_g2", comp)
             + SliceSize(settings, chunk, "beta_g2") * ElementSize(settings, "beta_g2", comp)
             = GetLength(settings, chunk, comp)
<1> DEFINE g1 == G1Size(settings, comp)
           g2 == G2Size(settings, comp)
           size(v) == SliceSize(settings, chunk, v)
           tau == G1ChunkSize(settings, chunk)
           other == OtherChunkSize(settings, chunk)
           power == settings.power
<1>1. Sizes(settings) /\ Bounds(settings, chunk)
  BY SettingsHaveSizes, BoundsAtHand
<1>2. g1 \in Nat /\ g2 \in Nat /\ power \in Nat
  <2>1. settings.curve \in Curve /\ power \in Nat
    BY SettingsAssumption
  <2> QED
    BY <2>1 DEF Curve, G1Size, G2Size
<1>3. tau \in Int /\ other \in Int
  BY <1>1 DEF G1ChunkSize, OtherChunkSize, MinOf, Sizes, Bounds
<1>4. SliceOffset(settings, chunk, "beta_g2", comp) + size("beta_g2") * ElementSize(settings, "beta_g2", comp)
        = HashSize + size("tau_g1") * g1 + size("tau_g2") * g2 + size("alpha_g1") * g1
            + size("beta_g1") * g1 + size("beta_g2") * g2
  BY DEF SliceOffset, ElementSize
<1>5. size("tau_g1") = tau
  BY DEF SliceSize
<1>6. CASE settings.proving_system = "Groth16"
  <2>1. /\ size("tau_g2") = other /\ size("alpha_g1") = other
        /\ size("beta_g1") = other /\ size("beta_g2") = 1
    BY <1>6 DEF SliceSize
  <2>2. GetLength(settings, chunk, comp) = tau * g1 + other * (g2 + 2 * g1) + g2 + HashSize
    BY <1>6 DEF GetLength
  <2> HIDE DEF g1, g2, tau, other, size
  <2>3. other * (g2 + 2 * g1) = other * g2 + other * g1 + other * g1 /\ 1 * g2 = g2
    BY <1>2, <1>3
  <2>4. tau * g1 \in Int /\ other * g2 \in Int /\ other * g1 \in Int
    BY <1>2, <1>3
  <2>5. HashSize \in Nat
    BY DEF HashSize
  <2> QED
    BY <1>2, <1>4, <1>5, <2>1, <2>2, <2>3, <2>4, <2>5 DEF size
<1>7. CASE settings.proving_system = "Marlin"
  <2>1. /\ size("tau_g2") = IF chunk = 0 THEN power + 2 ELSE 0
        /\ size("alpha_g1") = IF chunk = 0 THEN 3 + 3 * power ELSE 0
        /\ size("beta_g1") = 0 /\ size("beta_g2") = 0
    BY <1>7 DEF SliceSize, MarlinTauG2Size, MarlinAlphaG1Size
  <2>2. GetLength(settings, chunk, comp) =
          tau * g1 + (IF chunk = 0 THEN 3 * g1 + 3 * power * g1 + (power + 2) * g2 ELSE 0) + HashSize
    BY <1>7 DEF GetLength
  <2> HIDE DEF g1, g2, tau, other, size, power
  <2>3. (3 + 3 * power) * g1 = 3 * g1 + 3 * power * g1 /\ 0 * g1 = 0 /\ 0 * g2 = 0
    BY <1>2
  <2>4. /\ tau * g1 \in Int /\ (power + 2) * g2 \in Int /\ 3 * g1 \in Int
        /\ 3 * power * g1 \in Int
    BY <1>2, <1>3
  <2>5. HashSize \in Nat
    BY DEF HashSize
  <2>6. CASE chunk = 0
    BY <1>4, <1>5, <2>1, <2>2, <2>3, <2>4, <2>5, <2>6 DEF size
  <2>7. CASE chunk # 0
    BY <1>4, <1>5, <2>1, <2>2, <2>3, <2>4, <2>5, <2>7 DEF size
  <2> QED
    BY <2>6, <2>7
<1> QED
  BY <1>1, <1>6, <1>7 DEF Sizes

\* For all settings the slices of a chunk fill its file, and those of the chunks
\* make up the round file without gap or overlap.
THEOREM FilesLaidOut == Spec => []FileLayout
<1>1. Init => LayoutInv
  BY InitLayoutInv
<1>2. LayoutInv /\ [Next]_vars => LayoutInv'
  BY NextLayoutInv
<1>3. LayoutInv => FileLayout
  <2> SUFFICES ASSUME settings \in Settings, chunk \in Chunks PROVE FileLayout
    BY DEF LayoutInv
  <2>1. \A v \in Divided(settings) :
          /\ UNION {Place(settings, c, v) : c \in Chunks} = Slice(FullSettings(settings), 0, v)
          /\ \A c, d \in Chunks : c # d => Place(settings, c, v) \cap Place(settings, d, v) = {}
    BY SlicesDivide
  <2> QED
    BY <2>1, SlicesFillFile DEF FileLayout, Place, Divided
<1> QED
  BY <1>1, <1>2, <1>3, PTL DEF Spec
=============================================================================
