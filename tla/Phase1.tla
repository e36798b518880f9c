------------------------------- MODULE Phase1 -------------------------------
(***************************************************************************)
(* The computation of phase 1 (phase1/src), as the coordinator, the        *)
(* contributors and the verifiers run it: every chunk is initialised, then *)
(* computed on, verified and decompressed into the next challenge once per *)
(* contribution, and the chunks are aggregated into the round file, whose  *)
(* ratios are verified.  Loops over batches take one step per batch.       *)
(*                                                                         *)
(* A group element is the vector of the exponents of tau, alpha and beta   *)
(* that it carries, counted in the keys of honest contributors: an honest  *)
(* contribution to tau_g1[i] adds i to its exponent of tau.  Blank stands  *)
(* for an element that is zero or does not decode.  Two pairs have the     *)
(* same ratio when the differences of their exponents are equal.           *)
(***************************************************************************)
EXTENDS Phase1Layout, FiniteSets

CONSTANTS
    Settings,       \* the settings of the ceremony, one of which is chosen
    Contributions   \* the number of contributions to every chunk

Curve == [g1 : Nat, g2 : Nat, g1_compressed : Nat, g2_compressed : Nat]

ASSUME SettingsAssumption ==
    /\ Settings \subseteq [mode : {"Full", "Chunked"}, proving_system : {"Groth16", "Marlin"},
                            power : Nat \ {0}, chunk_size : Nat, batch_size : Nat, curve : Curve]
    /\ \A s \in Settings :
          /\ s.batch_size >= 2
          /\ s.mode = "Chunked" => s.chunk_size >= 2
          \* "we assume batch_size > 3 + 3*total_size_in_log2"; the tests use equality.
          /\ s.proving_system = "Marlin" => s.batch_size >= 3 + 3 * s.power

\* Known of the powers of two in the proofs, which cannot compute them.
ASSUME PowersAssumption ==
    \A s \in Settings : PowersLength(s) \in Nat /\ PowersLength(s) >= 2

ASSUME ContributionsAssumption == Contributions \in Nat \ {0}

VARIABLES
    settings,       \* the chosen element of Settings
    step,           \* what is done next
    chunk,          \* the chunk it is done on
    contribution,   \* the contributions to it that were accepted
    start,          \* where the next batch starts
    key,            \* the key of the contribution: 1, or 2 for another key
    header,         \* the challenge whose hash the response starts with, by its number
    previous,       \* the challenge of the chunk before the last accepted response
    accumulator,    \* chunk -> the elements accepted last (its challenge)
    response,       \* the elements of the response in the making
    aggregate,      \* the elements of the round file
    faulty          \* some contribution was not computed as it should be

vars == <<settings, step, chunk, contribution, start, key, header, previous, accumulator,
          response, aggregate, faulty>>

Steps == {"begin", "first", "compute", "upload", "examine", "verify", "decompress",
          "aggregate", "check", "accepted", "rejected"}

Chunks == 0..(ChunkCount(settings) - 1)
Elements(v) == Slice(settings, chunk, v)

One == <<0, 0, 0>>
Blank == <<>>

\* batch_exp: the element to the given power of tau, of the key's alpha and beta.
Times(e, d, a, b) ==
    IF e = Blank THEN Blank ELSE <<e[1] + key * d, e[2] + key * a, e[3] + key * b>>

Ratio(e, f) == IF Blank \in {e, f} THEN Blank ELSE <<f[1] - e[1], f[2] - e[2], f[3] - e[3]>>

Alpha(v) == IF v = "alpha_g1" THEN 1 ELSE 0
Beta(v) == IF v \in {"beta_g1", "beta_g2"} THEN 1 ELSE 0

Empty(s, c) == [v \in Vectors |-> [i \in Slice(s, c, v) |-> Blank]]

\* Phase1::initialization: the generators everywhere.
Initialization(s, c) == [v \in Vectors |-> [i \in Slice(s, c, v) |-> One]]

Init ==
    /\ settings \in Settings
    /\ step = "begin"
    /\ chunk = 0
    /\ contribution = 0
    /\ start = 0
    /\ key = 1
    /\ header = 0
    /\ previous = Empty(settings, 0)
    /\ accumulator = [c \in Chunks |-> Initialization(settings, c)]
    /\ response = Empty(settings, 0)
    /\ aggregate = Empty(FullSettings(settings), 0)
    /\ faulty = FALSE

-----------------------------------------------------------------------------
(***************************************************************************)
(* Phase1::computation.                                                    *)
(***************************************************************************)
\* Mutant: the second and third of the shifted powers of alpha repeat the first.
ShiftedAlphaDegree_First(i) == DegreeBound(settings, (i - 3) \div 3)

\* alpha_g1[3 + 3 * i + j] belongs to the degree bound i and carries tau^(p + j).
ShiftedAlphaDegree(i) == DegreeBound(settings, (i - 3) \div 3) + ((i - 3) % 3)

\* The part before the batches: beta_g2 for Groth16, and in Marlin's first
\* chunk the powers in G2 and the powers with alpha.
MarlinFirst(v, i, e) ==
    IF v = "tau_g2"
    THEN IF i < 2 THEN Times(e, i, 0, 0) ELSE Times(e, -DegreeBound(settings, i - 2), 0, 0)
    ELSE IF i < 3 THEN Times(e, i, 1, 0) ELSE Times(e, ShiftedAlphaDegree(i), 1, 0)

\* A contribution starts with its challenge, whose hash becomes the head of the
\* response, and with its key.  Once, it is computed from the challenge before
\* the current one, or with the key of another seed than for the other chunks.
Begin ==
    /\ step = "begin"
    /\ \E k \in {1, 2}, h \in {contribution, contribution - 1} :
          /\ h >= 0
          /\ (k = 1 /\ h = contribution) \/ ~faulty
          /\ key' = k
          /\ header' = h
          /\ faulty' = (faulty \/ k # 1 \/ h # contribution)
    /\ response' = Empty(settings, chunk)
    /\ step' = "first"
    /\ UNCHANGED <<settings, chunk, contribution, start, previous, accumulator, aggregate>>

\* The elements of the challenge that the contribution is computed from.
Challenge == IF header = contribution THEN accumulator[chunk] ELSE previous

ComputeFirst ==
    /\ step = "first"
    /\ LET in == Challenge
       IN  response' =
             [response EXCEPT
                !["beta_g2"] = [i \in Elements("beta_g2") |-> Times(in["beta_g2"][i], 0, 0, 1)],
                !["tau_g2"] = IF settings.proving_system = "Marlin"
                              THEN [i \in Elements("tau_g2") |-> MarlinFirst("tau_g2", i, in["tau_g2"][i])]
                              ELSE @,
                !["alpha_g1"] = IF settings.proving_system = "Marlin"
                                THEN [i \in Elements("alpha_g1") |-> MarlinFirst("alpha_g1", i, in["alpha_g1"][i])]
                                ELSE @]
    /\ start' = ChunkStart(settings, chunk)
    /\ step' = "compute"
    /\ UNCHANGED <<settings, chunk, contribution, key, header, previous, accumulator, aggregate, faulty>>

\* Mutant: the powers of the batch start again at tau^0.
PowerAt_Relative(from, i) == i - from

\* generate_powers_of_tau(start, end): the power that element i of the slice gets
\* when the batch begins at element from of the slice.
PowerAt(from, i) == start + (i - from)

ApplyPowers(v) ==
    LET range == BatchRange(settings, chunk, start, v)
        in == Challenge[v]
    IN  [i \in Elements(v) |->
            IF range[1] <= i /\ i < range[2]
            THEN Times(in[i], PowerAt(range[1], i), Alpha(v), Beta(v))
            ELSE response[v][i]]

\* The start of the next batch, or the step that follows the loop.
NextBatch(s, c, from, to) ==
    LET next == start + s.batch_size - 1
    IN  IF next < IterEnd(s, c)
        THEN start' = next /\ step' = from
        ELSE start' = ChunkStart(s, c) /\ step' = to

ComputeBatch ==
    /\ step = "compute"
    /\ response' = [v \in Vectors |-> ApplyPowers(v)]
    /\ NextBatch(settings, chunk, "compute", "upload")
    /\ UNCHANGED <<settings, chunk, contribution, key, header, previous, accumulator, aggregate, faulty>>

-----------------------------------------------------------------------------
(***************************************************************************)
(* The response reaches the verifier as it was computed, or, once, with an *)
(* element that is one power off or blank.                                 *)
(***************************************************************************)
Upload ==
    /\ step = "upload"
    /\ step' = "examine"
    /\ UNCHANGED <<settings, chunk, contribution, start, key, header, previous, accumulator, response,
                   aggregate, faulty>>

MiscomputedUpload ==
    /\ step = "upload"
    /\ ~faulty
    /\ \E v \in Vectors : \E i \in Elements(v) : \E e \in {Blank, Times(response[v][i], 1, 0, 0)} :
          response' = [response EXCEPT ![v][i] = e]
    /\ faulty' = TRUE
    /\ step' = "examine"
    /\ UNCHANGED <<settings, chunk, contribution, start, key, header, previous, accumulator, aggregate>>

-----------------------------------------------------------------------------
(***************************************************************************)
(* Phase1::verification and, when it succeeds, Phase1::decompress.         *)
(***************************************************************************)
\* The first elements, against the key of the contribution, in the first chunk;
\* compared with the challenge, whose hash the response has to start with.
InitialElementsRight ==
    LET before == accumulator[chunk]
        multiplied(v, i, ratio) == Ratio(before[v][i], response[v][i]) = ratio
    IN  /\ response["tau_g1"][0] = One /\ response["tau_g1"][1] # Blank
        /\ multiplied("tau_g1", 1, <<key, 0, 0>>)
        /\ response["tau_g2"][0] = One /\ response["tau_g2"][1] # Blank
        /\ multiplied("tau_g2", 1, <<key, 0, 0>>)
        /\ response["alpha_g1"][1] # Blank
        /\ multiplied("alpha_g1", 0, <<0, key, 0>>)
        /\ settings.proving_system = "Groth16" =>
              /\ response["beta_g1"][1] # Blank
              /\ multiplied("beta_g1", 0, <<0, 0, key>>)
              /\ multiplied("beta_g2", 0, <<0, 0, key>>)

Examine ==
    /\ step = "examine"
    /\ step' = IF header = contribution /\ (chunk = 0 => InitialElementsRight) THEN "verify" ELSE "rejected"
    /\ UNCHANGED <<settings, chunk, contribution, start, key, header, previous, accumulator, response,
                   aggregate, faulty>>

\* The ranges whose elements a batch of the verification reads.
VerifiedRange(v) ==
    IF settings.proving_system = "Marlin" /\ v \in {"tau_g2", "alpha_g1"}
    THEN <<0, IF start = 0 THEN SliceSize(settings, 0, v) ELSE 0>>
    ELSE BatchRange(settings, chunk, start, v)

\* check_elements_are_nonzero_and_in_prime_order_subgroup, for every vector.
ElementsValid ==
    \A v \in Vectors : \A i \in VerifiedRange(v)[1]..(VerifiedRange(v)[2] - 1) :
        response[v][i] # Blank

VerifyBatch ==
    /\ step = "verify"
    /\ IF ElementsValid
       THEN NextBatch(settings, chunk, "verify", "decompress")
       ELSE step' = "rejected" /\ UNCHANGED start
    /\ UNCHANGED <<settings, chunk, contribution, key, header, previous, accumulator, response, aggregate, faulty>>

\* Outside the first chunk beta_g2 is read here for the first time: a zero passes,
\* since the inputs are not checked, and what does not decode is an error.
DecompressFails ==
    /\ step = "decompress"
    /\ \E v \in Vectors : \E i \in Elements(v) : response[v][i] = Blank
    /\ step' = "rejected"
    /\ UNCHANGED <<settings, chunk, contribution, start, key, header, previous, accumulator, response,
                   aggregate, faulty>>

\* The response becomes the next challenge; the chunks are independent of each
\* other, so they take their contributions one after the other here.
Decompress ==
    /\ step = "decompress"
    /\ accumulator' = [accumulator EXCEPT ![chunk] = response]
    /\ previous' = accumulator[chunk]
    /\ IF contribution + 1 < Contributions
       THEN contribution' = contribution + 1 /\ chunk' = chunk /\ step' = "begin"
       ELSE IF chunk + 1 \in Chunks
       THEN contribution' = 0 /\ chunk' = chunk + 1 /\ step' = "begin"
       ELSE contribution' = 0 /\ chunk' = 0 /\ step' = "aggregate"
    /\ UNCHANGED <<settings, start, key, header, response, aggregate, faulty>>

-----------------------------------------------------------------------------
(***************************************************************************)
(* Phase1::aggregation and Phase1::aggregate_verification.                 *)
(***************************************************************************)
\* Where split_at_chunk_mut puts element i of slice v of the chunk.
PlaceInRound(v, i) ==
    IF v = "beta_g2" \/ (settings.proving_system = "Marlin" /\ v # "tau_g1") THEN i
    ELSE ChunkStart(settings, chunk) + i

IsAggregated(v) ==
    \/ v = "tau_g1"
    \/ v = "beta_g2" /\ chunk = 0
    \/ v \in {"tau_g2", "alpha_g1", "beta_g1"} /\ SliceSize(settings, chunk, v) > 0

AggregateChunk ==
    /\ step = "aggregate"
    /\ aggregate' =
         [v \in Vectors |->
            [j \in DOMAIN aggregate[v] |->
                LET from == {i \in Elements(v) : PlaceInRound(v, i) = j}
                IN  IF IsAggregated(v) /\ from # {}
                    THEN accumulator[chunk][v][CHOOSE i \in from : TRUE]
                    ELSE aggregate[v][j]]]
    /\ IF chunk + 1 \in Chunks
       THEN chunk' = chunk + 1 /\ step' = "aggregate"
       ELSE chunk' = 0 /\ step' = "check"
    /\ start' = 0
    /\ UNCHANGED <<settings, contribution, key, header, previous, accumulator, response, faulty>>

\* check_power_ratios: consecutive elements of the range have the given ratio.
PowerRatios(v, from, to, ratio) ==
    \A i \in from..(to - 2) : Ratio(aggregate[v][i], aggregate[v][i + 1]) = ratio

TauRatioG1 == Ratio(aggregate["tau_g1"][0], aggregate["tau_g1"][1])
TauRatioG2 == Ratio(aggregate["tau_g2"][0], aggregate["tau_g2"][1])

\* The elements for the degree bounds whose power of tau lies in the batch.
DegreeBoundsRight(from, to) ==
    \A i \in 0..(settings.power - 1) :
        LET p == DegreeBound(settings, i)
            inverse == Ratio(One, aggregate["tau_g2"][2 + i])
            alpha(j) == aggregate["alpha_g1"][3 + 3 * i + j]
        IN  from <= p /\ p < to =>
               /\ Ratio(aggregate["tau_g1"][p], One) = inverse
               /\ Ratio(alpha(0), alpha(1)) = TauRatioG2
               /\ Ratio(alpha(1), alpha(2)) = TauRatioG2
               /\ Ratio(alpha(0), aggregate["alpha_g1"][0]) = inverse

RatiosRight ==
    LET full == FullSettings(settings)
        range(v) == BatchRange(full, 0, start, v)
        right(v, ratio) == PowerRatios(v, range(v)[1], range(v)[2], ratio)
    IN  /\ right("tau_g1", TauRatioG2)
        /\ right("tau_g2", TauRatioG1)
        /\ right("alpha_g1", TauRatioG2)
        /\ right("beta_g1", TauRatioG2)
        /\ settings.proving_system = "Marlin" =>
              /\ DegreeBoundsRight(range("tau_g1")[1], range("tau_g1")[2])
              /\ start = 0 => /\ PowerRatios("alpha_g1", 0, 3, TauRatioG2)
                              /\ PowerRatios("tau_g2", 0, 2, TauRatioG1)

CheckBatch ==
    /\ step = "check"
    /\ IF RatiosRight
       THEN NextBatch(FullSettings(settings), 0, "check", "accepted")
       ELSE step' = "rejected" /\ UNCHANGED start
    /\ UNCHANGED <<settings, chunk, contribution, key, header, previous, accumulator, response, aggregate, faulty>>

\* The round file is accepted, or the error ended the work on it.
Ended ==
    /\ step \in {"accepted", "rejected"}
    /\ UNCHANGED vars

Next ==
    \/ Begin
    \/ ComputeFirst
    \/ ComputeBatch
    \/ Upload
    \/ MiscomputedUpload
    \/ Examine
    \/ VerifyBatch
    \/ Decompress
    \/ DecompressFails
    \/ AggregateChunk
    \/ CheckBatch
    \/ Ended

Spec == Init /\ [][Next]_vars
-----------------------------------------------------------------------------
(***************************************************************************)
(* Properties.                                                             *)
(***************************************************************************)
Within(range, v, size) ==
    \/ range = <<0, 0>>
    \/ 0 <= range[1] /\ range[1] < range[2] /\ range[2] <= size

\* Every range that a batch cuts out of a slice is a nonempty part of it and
\* fits the vector of batch_size elements that the verification allocates, and
\* the powers of tau generated for the batch suffice for every vector: neither
\* computation (computation.rs:40-180) nor verification (verification.rs:176-350)
\* panics on an index, whatever the sizes of chunks and batches.
InBounds ==
    step \in {"compute", "verify", "check"} =>
        LET s == IF step = "check" THEN FullSettings(settings) ELSE settings
        IN  \A v \in Vectors :
               LET range == IF step = "verify" THEN VerifiedRange(v)
                            ELSE BatchRange(s, chunk, start, v)
               IN  /\ Within(range, v, SliceSize(s, chunk, v))
                   /\ range[2] - range[1] <= s.batch_size
                   /\ step = "compute" =>
                        range[2] - range[1] <= BatchEnd(s, chunk, start) - start

\* The slices of the chunk fill its file exactly, compressed or not, so that the
\* public key comes right behind them, and the chunks' slices divide each slice
\* of the round file between them: parameters.rs, buffers.rs and the file sizes
\* of the storage agree.
FileLayout ==
    LET full == FullSettings(settings)
        place(c, v) == {ChunkStart(settings, c) + i : i \in Slice(settings, c, v)}
        divided == IF settings.proving_system = "Groth16" THEN Vectors \ {"beta_g2"} ELSE {"tau_g1"}
    IN  /\ \A comp \in BOOLEAN :
              SliceOffset(settings, chunk, "beta_g2", comp)
                + SliceSize(settings, chunk, "beta_g2") * ElementSize(settings, "beta_g2", comp)
                = GetLength(settings, chunk, comp)
        /\ \A v \in divided :
              /\ UNION {place(c, v) : c \in Chunks} = Slice(full, 0, v)
              /\ \A c, d \in Chunks : c # d => place(c, v) \cap place(d, v) = {}

\* The element at index i of vector v after n honest contributions.
Degree(v, i) ==
    IF settings.proving_system = "Groth16" \/ v = "tau_g1" THEN IF v = "beta_g2" THEN 0 ELSE i
    ELSE IF v = "tau_g2" THEN IF i < 2 THEN i ELSE -(2 ^ settings.power + 1 - 2 ^ (i - 2))
    ELSE IF i < 3 THEN i ELSE 2 ^ settings.power + 1 - 2 ^ ((i - 3) \div 3) + ((i - 3) % 3)

Contributed(v, i, n) == <<n * Degree(v, i), n * Alpha(v), n * Beta(v)>>

\* What honest contributors compute, chunk by chunk and batch by batch, is what
\* one pass over all powers computes: in every chunk's challenge and, once all
\* chunks are aggregated, in the round file, element i carries its own power of
\* tau, and the power of alpha or beta of its vector, of every contribution.
PowersComputed ==
    ~faulty =>
        /\ \A c \in Chunks, v \in Vectors : \A i \in Slice(settings, c, v) :
              LET n == IF c < chunk \/ step \in {"aggregate", "check", "accepted"} THEN Contributions
                       ELSE IF c = chunk THEN contribution ELSE 0
                  shift == IF (settings.proving_system = "Groth16" /\ v # "beta_g2") \/ v = "tau_g1"
                           THEN ChunkStart(settings, c) ELSE 0
              IN  accumulator[c][v][i] = Contributed(v, shift + i, n)
        /\ step \in {"check", "accepted"} =>
              \A v \in Vectors : \A i \in DOMAIN aggregate[v] :
                  aggregate[v][i] = Contributed(v, i, Contributions)

\* No check of the verification, and none of the aggregate verification, turns
\* down what honest contributors computed with one key for all chunks.
HonestAccepted == ~faulty => step # "rejected"

\* An accumulator is well formed when its elements are the consecutive powers
\* of one tau, times one alpha and one beta.  The elements of Marlin's degree
\* bound 2^0 (tau_g2[2], alpha_g1[3..5]) are left out: their power of tau,
\* 2^power, is not in tau_g1, so aggregate_verification never reaches them.
WellFormed(a) ==
    LET t == a["tau_g1"][1][1]
        alpha == a["alpha_g1"][0][2]
        marlin == settings.proving_system = "Marlin"
        beta == IF marlin THEN 0 ELSE a["beta_g2"][0][3]
        unchecked == {<<"tau_g2", 2>>} \cup {<<"alpha_g1", i>> : i \in 3..5}
    IN  \A v \in Vectors : \A i \in DOMAIN a[v] :
           \/ marlin /\ <<v, i>> \in unchecked
           \/ a[v][i] = <<t * Degree(v, i), alpha * Alpha(v), beta * Beta(v)>>

\* A contribution with an element one power off or blank, with another key for
\* one chunk than for the others, or computed from an outdated challenge, never
\* ends in an accepted round file that is not well formed or that lacks a
\* contribution: it is caught by the verification of the chunk or by the ratios
\* of the aggregate, at the borders of batches and chunks too.
MiscomputationCaught ==
    step = "accepted" => /\ WellFormed(aggregate)
                         /\ aggregate["tau_g1"][1][1] >= Contributions
=============================================================================
