---------------------------- MODULE Phase1Layout ----------------------------
(***************************************************************************)
(* How phase 1 cuts the powers of tau into chunks, batches and slices of a *)
(* file: phase1/src/objects/parameters.rs, helpers/buffers.rs, macros.rs,  *)
(* and the sizes that the coordinator derives from them.  A setting s is a *)
(* record of Settings (environment.rs), a chunk c its index.  Ranges are   *)
(* half open, as in the code.                                              *)
(***************************************************************************)
EXTENDS Integers

\* The five slices of an accumulator, in the order of the file.
Vectors == {"tau_g1", "tau_g2", "alpha_g1", "beta_g1", "beta_g2"}

MinOf(a, b) == IF a < b THEN a ELSE b

PowersLength(s) == 2 ^ s.power
PowersG1Length(s) == 2 * PowersLength(s) - 1

TotalSizeInG1(s) == IF s.proving_system = "Groth16" THEN PowersG1Length(s) ELSE PowersLength(s)

\* The coordinator's number of chunks; it is chunked whatever the mode.
NumberOfChunks(s) == (TotalSizeInG1(s) + s.chunk_size - 1) \div s.chunk_size

\* Phase1Parameters::new_full has one chunk, the one of index 0.
ChunkCount(s) == IF s.mode = "Full" THEN 1 ELSE NumberOfChunks(s)

\* Phase1Parameters::new_full, for the round file.
FullSettings(s) == [s EXCEPT !.mode = "Full", !.chunk_size = 0]

ChunkStart(s, c) == IF s.mode = "Full" THEN 0 ELSE c * s.chunk_size
ChunkEnd(s, c) == IF s.mode = "Full" THEN TotalSizeInG1(s) ELSE (c + 1) * s.chunk_size

G1ChunkSize(s, c) == MinOf(ChunkEnd(s, c), TotalSizeInG1(s)) - ChunkStart(s, c)

\* Mutant: the chunk in which the powers in G2 end is taken whole.
OtherChunkSize_Whole(s, c) ==
    IF s.proving_system = "Marlin" \/ ChunkStart(s, c) >= PowersLength(s) THEN 0
    ELSE G1ChunkSize(s, c)

OtherChunkSize(s, c) ==
    IF s.proving_system = "Marlin" \/ ChunkStart(s, c) >= PowersLength(s) THEN 0
    ELSE MinOf(ChunkEnd(s, c), PowersLength(s)) - ChunkStart(s, c)

\* Marlin keeps these in the first chunk only.
MarlinTauG2Size(s, c) == IF c = 0 THEN s.power + 2 ELSE 0
MarlinAlphaG1Size(s, c) == IF c = 0 THEN 3 + 3 * s.power ELSE 0

\* split and split_mut: the number of elements of each slice.
SliceSize(s, c, v) ==
    IF v = "tau_g1" THEN G1ChunkSize(s, c)
    ELSE IF s.proving_system = "Groth16" THEN IF v = "beta_g2" THEN 1 ELSE OtherChunkSize(s, c)
    ELSE IF v = "tau_g2" THEN MarlinTauG2Size(s, c)
    ELSE IF v = "alpha_g1" THEN MarlinAlphaG1Size(s, c)
    ELSE 0

Slice(s, c, v) == 0..(SliceSize(s, c, v) - 1)

-----------------------------------------------------------------------------
(***************************************************************************)
(* iter_chunk: batches of batch_size - 1 elements, each extended by the    *)
(* first element of the next one.                                          *)
(***************************************************************************)
IterEnd(s, c) == MinOf(ChunkEnd(s, c), TotalSizeInG1(s))

\* Mutant: the batches do not overlap.
BatchEnd_Disjoint(s, c, start) == MinOf(start + s.batch_size - 2, IterEnd(s, c) - 1) + 1

BatchEnd(s, c, start) ==
    LET last == MinOf(start + s.batch_size - 2, IterEnd(s, c) - 1)
    IN  IF last >= IterEnd(s, c) - 1 THEN last + 1 ELSE last + 2

\* Mutant: the end of the batch is kept where the powers in G2 end within it.
OthersEnd_Kept(s, c, start) == BatchEnd(s, c, start)

\* The end of the batch for the vectors of powers_length elements.
OthersEnd(s, c, start) ==
    LET max == MinOf(ChunkEnd(s, c), PowersLength(s))
    IN  IF start + s.batch_size > max THEN max ELSE BatchEnd(s, c, start)

\* The elements of vector v that the batch from start on covers, as a pair of
\* indices into the slice.  Only Groth16 has batches of the other vectors.
BatchRange(s, c, start, v) ==
    IF v = "tau_g1"
    THEN <<start - ChunkStart(s, c), BatchEnd(s, c, start) - ChunkStart(s, c)>>
    ELSE IF /\ v \in {"tau_g2", "alpha_g1", "beta_g1"}
            /\ s.proving_system = "Groth16" /\ start < PowersLength(s)
         THEN <<start - ChunkStart(s, c), OthersEnd(s, c, start) - ChunkStart(s, c)>>
         ELSE <<0, 0>>

\* The i-th of the degrees that bound Marlin's polynomials.
DegreeBound(s, i) == PowersLength(s) - 1 - 2 ^ i + 2

-----------------------------------------------------------------------------
(***************************************************************************)
(* Sizes in bytes.  s.curve gives the sizes of a group element; comp is    *)
(* TRUE for compressed elements.                                           *)
(***************************************************************************)
HashSize == 64

G1Size(s, comp) == IF comp THEN s.curve.g1_compressed ELSE s.curve.g1
G2Size(s, comp) == IF comp THEN s.curve.g2_compressed ELSE s.curve.g2

ElementSize(s, v, comp) == IF v \in {"tau_g2", "beta_g2"} THEN G2Size(s, comp) ELSE G1Size(s, comp)

PublicKeySize(s) == 3 * s.curve.g2_compressed + 6 * s.curve.g1_compressed

\* accumulator_size, and contribution_size without the public key: get_length.
GetLength(s, c, comp) ==
    IF s.proving_system = "Groth16"
    THEN G1ChunkSize(s, c) * G1Size(s, comp)
         + OtherChunkSize(s, c) * (G2Size(s, comp) + 2 * G1Size(s, comp))
         + G2Size(s, comp) + HashSize
    ELSE G1ChunkSize(s, c) * G1Size(s, comp)
         + (IF c = 0 THEN 3 * G1Size(s, comp) + 3 * s.power * G1Size(s, comp)
                          + (s.power + 2) * G2Size(s, comp)
                     ELSE 0)
         + HashSize

\* Where split makes a slice begin; one that comes after it begins at its end.
SliceOffset(s, c, v, comp) ==
    LET bytes(w) == SliceSize(s, c, w) * ElementSize(s, w, comp)
        tau_g2 == HashSize + bytes("tau_g1")
        alpha_g1 == tau_g2 + bytes("tau_g2")
        beta_g1 == alpha_g1 + bytes("alpha_g1")
    IN  IF v = "tau_g1" THEN HashSize
        ELSE IF v = "tau_g2" THEN tau_g2
        ELSE IF v = "alpha_g1" THEN alpha_g1
        ELSE IF v = "beta_g1" THEN beta_g1
        ELSE beta_g1 + bytes("beta_g1")
=============================================================================
