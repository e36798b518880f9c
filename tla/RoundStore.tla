----------------------------- MODULE RoundStore -----------------------------
(***************************************************************************)
(* The current round as the coordinator keeps it in storage: the Round and *)
(* Chunk objects (phase1-coordinator/src/objects/round.rs, chunk.rs,       *)
(* contribution.rs) and the contribution files next to them                *)
(* (storage/disk.rs).                                                      *)
(*                                                                         *)
(* A chunk has a lock holder, the empty set or a singleton, and its        *)
(* contributions 1, 2, ...; contribution 0, the challenge the round starts *)
(* from, is always present and verified and is not listed.  The            *)
(* contributor IDs of the round are a function from places to participants:*)
(* they are searched, counted, filtered and extended, never ordered.       *)
(*                                                                         *)
(* A file is absent, blank (initialized, nothing written yet) or written.  *)
(* What a written file says is its provenance: the contributors of this    *)
(* round whose contributions it contains, in order.  A response contains   *)
(* the hash of its challenge, and a signature the hashes of the files it   *)
(* signs, so equal hashes are equal provenances.                           *)
(***************************************************************************)
EXTENDS Integers, Sequences, FiniteSets, Functions

Absent == [state |-> "absent", chain |-> << >>]
Blank == [state |-> "blank", chain |-> << >>]
Written(chain) == [state |-> "written", chain |-> chain]

File(Participants) == [state : {"absent", "blank", "written"}, chain : Seq(Participants)]

Response(c, i) == <<"response", c, i>>
Signature(c, i) == <<"signature", c, i>>
Challenge(c, i) == <<"challenge", c, i>>
VerifiedSignature(c, i) == <<"verified_signature", c, i>>

\* The verification of a chunk's last contribution is stored as contribution
\* 0 of the next round.
NextChallenge(c, i, final) ==
    IF final THEN <<"next_round_challenge", c, 0>> ELSE Challenge(c, i)
NextSignature(c, i, final) ==
    IF final THEN <<"next_round_signature", c, 0>> ELSE VerifiedSignature(c, i)

\* The locators of a round in which a chunk gets at most n contributions.
Locators(Chunks, n) ==
    ({"challenge", "response", "signature", "verified_signature"} \X Chunks \X (0..n))
      \cup ({"next_round_challenge", "next_round_signature"} \X Chunks \X {0})

Exists(files, l) == files[l].state # "absent"

\* The store with the given value at every locator of L.
WithFiles(files, L, value) ==
    [l \in DOMAIN files |-> IF l \in L THEN value ELSE files[l]]

\* Disk::remove on each locator of L that exists.
RemoveFiles(files, L) == WithFiles(files, L, Absent)

\* Mutant: the signatures of contributions are left.
ClearRoundFiles_KeepsSignatures(files) ==
    RemoveFiles(files, {l \in DOMAIN files : l[1] # "signature" /\ l[3] # 0})

\* Disk::clear_round_files: all files of this round except those of
\* contribution 0, and all files of the next round.
ClearRoundFiles(files) ==
    RemoveFiles(files, {l \in DOMAIN files : l[3] # 0 \/ l[1] \in
                            {"next_round_challenge", "next_round_signature"}})

-----------------------------------------------------------------------------
Chunk(Participants) ==
    [holder : SUBSET Participants,
     contributions : Seq([contributor : Participants, verified : BOOLEAN])]

CurrentContributionId(chunk) == Len(chunk.contributions)

GetContribution(chunk, i) == chunk.contributions[i]

CurrentIsVerified(chunk) ==
    LET i == CurrentContributionId(chunk)
    IN  i > 0 => GetContribution(chunk, i).verified

\* `expected` counts contribution 0.
OnlyContributionsComplete(chunk, expected) ==
    CurrentContributionId(chunk) + 1 = expected

IsComplete(chunk, expected) ==
    /\ chunk.holder = {}
    /\ OnlyContributionsComplete(chunk, expected)
    /\ \A i \in 1..CurrentContributionId(chunk) : GetContribution(chunk, i).verified

\* Chunk::next_contribution_id returns Ok.
HasNextContributionId(chunk, expected) ==
    /\ CurrentIsVerified(chunk)
    /\ ~OnlyContributionsComplete(chunk, expected)

NextContributionId(chunk) == CurrentContributionId(chunk) + 1

HasContributed(chunk, p) ==
    \E i \in 1..CurrentContributionId(chunk) : GetContribution(chunk, i).contributor = p

\* Chunk::acquire_lock for a contributor returns Ok.
CanAcquireChunk(chunk, p, expected) ==
    /\ chunk.holder = {}
    /\ ~IsComplete(chunk, expected)
    /\ ~HasContributed(chunk, p)
    /\ CurrentIsVerified(chunk)

\* Mutant: the lock is not released.
AddContribution_KeepsLock(chunk, p) ==
    [chunk EXCEPT !.contributions = Append(@, [contributor |-> p, verified |-> FALSE])]

AddContribution(chunk, p) ==
    [holder |-> {},
     contributions |-> Append(chunk.contributions, [contributor |-> p, verified |-> FALSE])]

VerifyContribution(chunk, i) ==
    [holder |-> {},
     contributions |-> [chunk.contributions EXCEPT
                           ![i] = [contributor |-> @.contributor, verified |-> TRUE]]]

\* Mutant: only the given contribution is taken off the record.
RemoveContributionsFrom_OnlyOne(chunk, i) ==
    [chunk EXCEPT !.contributions = SubSeq(@, 1, i - 1) \o SubSeq(@, i + 1, Len(@))]

\* The given contribution and all subsequent ones are taken off the record.
RemoveContributionsFrom(chunk, i) ==
    [holder |-> chunk.holder, contributions |-> SubSeq(chunk.contributions, 1, i - 1)]

-----------------------------------------------------------------------------
ExpectedNumberOfContributions(round) == Cardinality(DOMAIN round.contributor_ids) + 1

IsContributor(round, p) == \E k \in DOMAIN round.contributor_ids : round.contributor_ids[k] = p

IsChunkLockedBy(round, c, p) == p \in round.chunks[c].holder

NumberOfLocksHeld(round, p) ==
    Cardinality({c \in DOMAIN round.chunks : IsChunkLockedBy(round, c, p)})

RoundIsComplete(round) ==
    \A c \in DOMAIN round.chunks :
        IsComplete(round.chunks[c], ExpectedNumberOfContributions(round))

\* Round::try_lock_chunk returns Ok.
CanLockChunk(round, files, c, p, limit) ==
    LET chunk == round.chunks[c]
        expected == ExpectedNumberOfContributions(round)
        next == NextContributionId(chunk)
    IN  /\ IsContributor(round, p)
        /\ NumberOfLocksHeld(round, p) < limit
        /\ HasNextContributionId(chunk, expected)
        /\ ~Exists(files, Response(c, next))
        /\ ~Exists(files, Signature(c, next))
        /\ CanAcquireChunk(chunk, p, expected)

LockChunk(round, c, p) == [round EXCEPT !.chunks[c].holder = {p}]

\* The files try_lock_chunk initializes.
LockedFiles(round, files, c) ==
    LET next == NextContributionId(round.chunks[c])
    IN  WithFiles(files, {Response(c, next), Signature(c, next)}, Blank)

\* The chunks of `locked` whose locks remove_locks_unsafe removes.
HeldLocks(round, p, locked) == {c \in locked : IsChunkLockedBy(round, c, p)}

CanRemoveLocks(round, p, locked) ==
    \A c \in HeldLocks(round, p, locked) :
        /\ IsContributor(round, p)
        /\ HasNextContributionId(round.chunks[c], ExpectedNumberOfContributions(round))

RemoveLocks(round, p, locked) ==
    [round EXCEPT !.chunks =
        [c \in DOMAIN @ |-> IF c \in HeldLocks(round, p, locked)
                            THEN [@[c] EXCEPT !.holder = {}] ELSE @[c]]]

\* The files remove_locks_unsafe removes for one chunk: those of the
\* contribution in progress, and the challenge it was computed from unless
\* that is the initial one.
LockedChunkFiles(chunk, c) ==
    LET current == CurrentContributionId(chunk)
        next == NextContributionId(chunk)
    IN  {Response(c, next), Signature(c, next), VerifiedSignature(c, next)}
          \cup (IF current = 0 THEN {} ELSE {Challenge(c, current)})

RemoveLocksFiles(round, p, locked) ==
    UNION {LockedChunkFiles(round.chunks[c], c) : c \in HeldLocks(round, p, locked)}

\* The files on record for contribution i of chunk c.
ContributionFiles(round, c, i) ==
    LET final == i + 1 = ExpectedNumberOfContributions(round)
    IN  {Response(c, i), Signature(c, i)}
          \cup (IF GetContribution(round.chunks[c], i).verified
                THEN {NextChallenge(c, i, final), NextSignature(c, i, final)} ELSE {})

\* The tasks whose contributions remove_chunk_contributions_unsafe finds.
RecordedTasks(round, tasks) ==
    {t \in tasks : t.id \in 1..CurrentContributionId(round.chunks[t.chunk])}

CanRemoveContributions(round, p) ==
    Cardinality({k \in DOMAIN round.contributor_ids : round.contributor_ids[k] = p}) = 1

RemoveContributions(round, tasks) ==
    [round EXCEPT !.chunks =
        [c \in DOMAIN @ |->
            IF \E t \in RecordedTasks(round, tasks) : t.chunk = c
            THEN RemoveContributionsFrom(@[c],
                    (CHOOSE t \in RecordedTasks(round, tasks) : t.chunk = c).id)
            ELSE @[c]]]

RemoveContributionsFiles(round, tasks) ==
    UNION {ContributionFiles(round, t.chunk, t.id) : t \in RecordedTasks(round, tasks)}

\* Mutants: the filter negated; the replacement not added to the IDs.
ReplaceContributorId_Negated(round, p, r) ==
    [round EXCEPT !.contributor_ids =
        [k \in DOMAIN @ |-> IF @[k] # p THEN r ELSE @[k]]]
ReplaceContributorId_NotReplaced(round, p, r) ==
    [round EXCEPT !.contributor_ids = Restrict(@, {k \in DOMAIN @ : @[k] # p})]

\* remove_contributor_unsafe filters the contributor out of the IDs and
\* add_replacement_contributor_unsafe pushes the replacement; nothing depends
\* on the order, so the replacement takes the place of the one ID removed.
ReplaceContributorId(round, p, r) ==
    [round EXCEPT !.contributor_ids =
        [k \in DOMAIN @ |-> IF @[k] = p THEN r ELSE @[k]]]

WithoutContributor(round, p) ==
    [round EXCEPT !.contributor_ids = Restrict(@, {k \in DOMAIN @ : @[k] # p})]

\* Mutants: the locks stay; the contributor stays; the contributions stay.
ResetRound_KeepsLocks(round, p) ==
    [WithoutContributor(round, p) EXCEPT !.chunks =
        [c \in DOMAIN @ |-> [@[c] EXCEPT !.contributions = << >>]]]
ResetRound_KeepsContributor(round, p) ==
    [round EXCEPT !.chunks =
        [c \in DOMAIN @ |-> [holder |-> {}, contributions |-> << >>]]]
ResetRound_KeepsContributions(round, p) ==
    [WithoutContributor(round, p) EXCEPT !.chunks =
        [c \in DOMAIN @ |-> [@[c] EXCEPT !.holder = {}]]]

\* Round::reset: no locks, only contribution 0, and p no longer a contributor.
ResetRound(round, p) ==
    [WithoutContributor(round, p) EXCEPT !.chunks =
        [c \in DOMAIN @ |-> [holder |-> {}, contributions |-> << >>]]]
=============================================================================
