-------------------------- MODULE RoundWorkProofs --------------------------
(***************************************************************************)
(* Proofs about RoundWork, for all contributors, coordinator contributors, *)
(* numbers of chunks and bounds.                                           *)
(***************************************************************************)
EXTENDS RoundWork, TLAPS, FiniteSetTheorems, SequenceTheorems

Contribution == [contributor : Participants, verified : BOOLEAN]

\* ChunkOK in terms of the lock holder and the list of contributions.
Shape(h, s, e) ==
    /\ Len(s) < e
    /\ \A i \in 1..(Len(s) - 1) : s[i].verified
    /\ \A i, j \in 1..Len(s) : s[i].contributor = s[j].contributor => i = j
    /\ h # {} => (Len(s) > 0 => s[Len(s)].verified) /\ Len(s) + 1 # e
    /\ \A p \in h, i \in 1..Len(s) : s[i].contributor # p

\* What is known of a chunk's contributions one by one.
LEMMA ChunkOKShape ==
    ASSUME NEW h, NEW s, NEW e
    PROVE  ChunkOK([holder |-> h, contributions |-> s], e) <=> Shape(h, s, e)
BY DEF ChunkOK, Shape, HasNextContributionId, CurrentIsVerified,
       OnlyContributionsComplete, CurrentContributionId, GetContribution, HasContributed

\* The parts of a chunk's record have their types.
LEMMA ChunkFields ==
    ASSUME NEW chunk \in Chunk(Participants), NEW e
    PROVE  /\ chunk = [holder |-> chunk.holder, contributions |-> chunk.contributions]
           /\ chunk.contributions \in Seq(Contribution)
           /\ chunk.holder \subseteq Participants
           /\ ChunkOK(chunk, e) <=> Shape(chunk.holder, chunk.contributions, e)
<1>1. /\ chunk = [holder |-> chunk.holder, contributions |-> chunk.contributions]
      /\ chunk.contributions \in Seq(Contribution)
      /\ chunk.holder \subseteq Participants
  BY DEF Chunk, Contribution
<1> QED
  BY <1>1, ChunkOKShape

\* Every operation on a chunk leaves a chunk of the right shape.  Locking:
\* Chunk::acquire_lock checks what the lock holder relies on.
LEMMA LockKeepsChunkOK ==
    ASSUME NEW chunk \in Chunk(Participants), NEW expected \in Nat,
           NEW p \in Participants,
           ChunkOK(chunk, expected),
           HasNextContributionId(chunk, expected),
           CanAcquireChunk(chunk, p, expected)
    PROVE  LET locked == [chunk EXCEPT !.holder = {p}]
           IN  locked \in Chunk(Participants) /\ ChunkOK(locked, expected)
BY DEF ChunkOK, Chunk, CanAcquireChunk, HasNextContributionId, CurrentIsVerified,
       OnlyContributionsComplete, CurrentContributionId, GetContribution, HasContributed

\* Releasing a lock.
LEMMA UnlockKeepsChunkOK ==
    ASSUME NEW chunk \in Chunk(Participants), NEW expected \in Nat,
           ChunkOK(chunk, expected)
    PROVE  LET unlocked == [chunk EXCEPT !.holder = {}]
           IN  unlocked \in Chunk(Participants) /\ ChunkOK(unlocked, expected)
BY DEF ChunkOK, Chunk, HasNextContributionId, CurrentIsVerified,
       OnlyContributionsComplete, CurrentContributionId, GetContribution, HasContributed

\* Chunk::add_contribution by the lock holder.
LEMMA AddContributionKeepsChunkOK ==
    ASSUME NEW chunk \in Chunk(Participants), NEW expected \in Nat,
           NEW p \in chunk.holder,
           ChunkOK(chunk, expected)
    PROVE  /\ AddContribution(chunk, p) \in Chunk(Participants)
           /\ ChunkOK(AddContribution(chunk, p), expected)
BY DEF ChunkOK, Chunk, AddContribution, HasNextContributionId, CurrentIsVerified,
       OnlyContributionsComplete, CurrentContributionId, GetContribution, HasContributed

\* Chunk::verify_contribution of a contribution on record.
LEMMA VerifyContributionKeepsChunkOK ==
    ASSUME NEW chunk \in Chunk(Participants), NEW expected \in Nat,
           NEW i \in 1..CurrentContributionId(chunk),
           ChunkOK(chunk, expected)
    PROVE  /\ VerifyContribution(chunk, i) \in Chunk(Participants)
           /\ ChunkOK(VerifyContribution(chunk, i), expected)
<1> DEFINE s == chunk.contributions
           e == [contributor |-> s[i].contributor, verified |-> TRUE]
           new == [s EXCEPT ![i] = e]
<1>1. s \in Seq(Contribution) /\ i \in 1..Len(s) /\ Shape(chunk.holder, s, expected)
  BY ChunkFields DEF CurrentContributionId
<1>2. s[i] \in Contribution
  BY <1>1
<1>3. e \in Contribution
  BY <1>2 DEF Contribution
<1>4. /\ new \in Seq(Contribution)
      /\ Len(new) = Len(s)
      /\ \A j \in 1..Len(s) : new[j] = IF j = i THEN e ELSE s[j]
  BY <1>1, <1>3, ExceptSeq
<1>5. VerifyContribution(chunk, i) = [holder |-> {}, contributions |-> new]
  BY DEF VerifyContribution
<1>6. \A j \in 1..Len(s) : /\ new[j].contributor = s[j].contributor
                           /\ s[j].verified => new[j].verified
  BY <1>4
<1> HIDE DEF new, s
<1>7. Shape({}, new, expected)
  BY <1>1, <1>4, <1>6 DEF Shape
<1>8. ChunkOK([holder |-> {}, contributions |-> new], expected)
  BY <1>7, ChunkOKShape
<1>9. [holder |-> {}, contributions |-> new] \in Chunk(Participants)
  BY <1>4 DEF Chunk, Contribution
<1> QED
  BY <1>5, <1>8, <1>9

\* Taking a contribution and all subsequent ones off the record.
LEMMA RemoveContributionsKeepsChunkOK ==
    ASSUME NEW chunk \in Chunk(Participants), NEW expected \in Nat,
           NEW i \in 1..CurrentContributionId(chunk),
           ChunkOK(chunk, expected)
    PROVE  /\ RemoveContributionsFrom(chunk, i) \in Chunk(Participants)
           /\ ChunkOK(RemoveContributionsFrom(chunk, i), expected)
<1> DEFINE h == chunk.holder
           s == chunk.contributions
           new == SubSeq(s, 1, i - 1)
<1>1. /\ s \in Seq(Contribution) /\ i \in 1..Len(s) /\ h \subseteq Participants
      /\ Shape(h, s, expected)
  BY ChunkFields DEF CurrentContributionId
<1>2. /\ new \in Seq(Contribution)
      /\ Len(new) = i - 1
      /\ \A j \in 1..(i - 1) : new[j] = s[j]
  BY <1>1, SubSeqProperties
<1>3. RemoveContributionsFrom(chunk, i) = [holder |-> h, contributions |-> new]
  BY DEF RemoveContributionsFrom
<1> HIDE DEF new, s, h
<1>4. Shape(h, new, expected)
  <2>1. Len(s) \in Nat /\ Len(s) < expected /\ i - 1 < Len(s)
    BY <1>1 DEF Shape
  <2>2. \A j \in 1..(i - 1) : s[j].verified
    BY <1>1, <2>1 DEF Shape
  <2>3. \A j, k \in 1..(i - 1) : new[j].contributor = new[k].contributor => j = k
    BY <1>1, <1>2, <2>1 DEF Shape
  <2>4. \A p \in h, j \in 1..(i - 1) : new[j].contributor # p
    BY <1>1, <1>2, <2>1 DEF Shape
  <2> QED
    BY <1>2, <2>1, <2>2, <2>3, <2>4 DEF Shape
<1>5. ChunkOK([holder |-> h, contributions |-> new], expected)
  BY <1>4, ChunkOKShape
<1>6. [holder |-> h, contributions |-> new] \in Chunk(Participants)
  BY <1>1, <1>2 DEF Chunk, Contribution
<1> QED
  BY <1>3, <1>5, <1>6

-----------------------------------------------------------------------------
(***************************************************************************)
(* ChunkIntegrity is inductive together with the type of the round.        *)
(***************************************************************************)
RoundInv == RoundTypeOK /\ ChunkIntegrity

\* The number of contributors of the round is a number.
LEMMA SizeNat == Size \in Nat
BY RoundWorkAssumption, FS_CardinalityType DEF Size

ContributorIds == UNION {[K -> Participants] : K \in SUBSET (1..Size)}

\* So is the length of the round's list of contributors.
LEMMA NumberOfIdsNat == ASSUME NEW ids \in ContributorIds PROVE Cardinality(DOMAIN ids) \in Nat
<1>1. IsFiniteSet(1..Size)
  BY SizeNat, FS_Interval
<1>2. DOMAIN ids \subseteq 1..Size
  BY DEF ContributorIds
<1>3. IsFiniteSet(DOMAIN ids)
  BY <1>1, <1>2, FS_Subset
<1> QED
  BY <1>3, FS_CardinalityType

\* A round expects at least one contribution to a chunk.
LEMMA ExpectedNat == ASSUME RoundTypeOK PROVE Expected \in Nat /\ 0 < Expected
<1>1. round.contributor_ids \in ContributorIds
  BY DEF RoundTypeOK, ContributorIds
<1> QED
  BY <1>1, NumberOfIdsNat DEF Expected, ExpectedNumberOfContributions

\* A step that leaves the contributor IDs alone and leaves every chunk in shape.
LEMMA ChunksStep ==
    ASSUME RoundInv, NEW chunks,
           chunks \in [Chunks -> Chunk(Participants)],
           \A c \in Chunks : ChunkOK(chunks[c], Expected),
           round' = [round EXCEPT !.chunks = chunks]
    PROVE  RoundInv'
<1>1. /\ round'.contributor_ids = round.contributor_ids
      /\ round'.chunks = chunks
      /\ RoundTypeOK'
  BY DEF RoundInv, RoundTypeOK
<1>2. Expected' = Expected
  BY <1>1 DEF Expected, ExpectedNumberOfContributions
<1>3. ChunkIntegrity'
  BY <1>1, <1>2 DEF ChunkIntegrity
<1> QED
  BY <1>1, <1>3 DEF RoundInv

\* A step that changes at most one chunk.
LEMMA OneChunkStep ==
    ASSUME RoundInv, NEW c, NEW chunk,
           c \in Chunks => chunk \in Chunk(Participants) /\ ChunkOK(chunk, Expected),
           round' = [round EXCEPT !.chunks[c] = chunk]
    PROVE  RoundInv'
<1> DEFINE chunks == [round.chunks EXCEPT ![c] = chunk]
<1>1. round.chunks \in [Chunks -> Chunk(Participants)]
  BY DEF RoundInv, RoundTypeOK
<1>2. chunks \in [Chunks -> Chunk(Participants)]
  BY <1>1
<1>3. \A x \in Chunks : ChunkOK(chunks[x], Expected)
  BY <1>1 DEF RoundInv, ChunkIntegrity
<1>4. round' = [round EXCEPT !.chunks = chunks]
  OBVIOUS
<1> QED
  BY <1>2, <1>3, <1>4, ChunksStep

\* A chunk of the round.
LEMMA ChunkOfRound ==
    ASSUME RoundInv, NEW c \in Chunks
    PROVE  /\ round.chunks[c] \in Chunk(Participants)
           /\ ChunkOK(round.chunks[c], Expected)
           /\ Expected \in Nat
BY ExpectedNat DEF RoundInv, RoundTypeOK, ChunkIntegrity

\* Steps that leave the round in storage alone keep the invariant.
LEMMA RoundUnchanged == ASSUME RoundInv, UNCHANGED round PROVE RoundInv'
BY DEF RoundInv, RoundTypeOK, ChunkIntegrity, Expected

\* Coordinator::try_lock_chunk.
LEMMA LockChunkKeepsRoundInv ==
    ASSUME RoundInv, NEW p \in Participants, NEW t, CanLock(p, t),
           round' = LockChunk(round, t.chunk, p)
    PROVE  RoundInv'
<1> DEFINE c == t.chunk
           chunk == [round.chunks[c] EXCEPT !.holder = {p}]
<1>1. round' = [round EXCEPT !.chunks[c] = chunk]
  BY DEF LockChunk
<1>2. ASSUME c \in Chunks PROVE chunk \in Chunk(Participants) /\ ChunkOK(chunk, Expected)
  <2>1. /\ HasNextContributionId(round.chunks[c], Expected)
        /\ CanAcquireChunk(round.chunks[c], p, Expected)
    BY DEF CanLock, CanLockChunk, Expected
  <2> QED
    BY <1>2, <2>1, ChunkOfRound, LockKeepsChunkOK
<1> HIDE DEF c, chunk
<1> QED
  BY <1>1, <1>2, OneChunkStep

\* Coordinator::try_lock.
LEMMA TryLockKeepsRoundInv ==
    ASSUME RoundInv, NEW p \in Participants, TryLock(p)
    PROVE  RoundInv'
<1> DEFINE t == Head(info[p].assigned)
<1>1. CASE UNCHANGED round
  BY <1>1, RoundUnchanged
<1>2. CASE CanLock(p, t) /\ round' = LockChunk(round, t.chunk, p)
  BY <1>2, LockChunkKeepsRoundInv
<1> QED
  BY <1>1, <1>2 DEF TryLock, store

\* The end of Coordinator::add_contribution.
LEMMA RecordContributionKeepsRoundInv ==
    ASSUME RoundInv, NEW p \in Participants, NEW c,
           CanAddContribution(p, c), RecordContribution(p, c)
    PROVE  RoundInv'
<1> DEFINE chunk == AddContribution(round.chunks[c], p)
<1>1. round' = [round EXCEPT !.chunks[c] = chunk] /\ p \in round.chunks[c].holder
  BY DEF RecordContribution, CanAddContribution, IsChunkLockedBy
<1>2. c \in Chunks => chunk \in Chunk(Participants) /\ ChunkOK(chunk, Expected)
  BY <1>1, ChunkOfRound, AddContributionKeepsChunkOK
<1> HIDE DEF chunk
<1> QED
  BY <1>1, <1>2, OneChunkStep

\* Coordinator::try_contribute.
LEMMA TryContributeKeepsRoundInv ==
    ASSUME RoundInv, NEW p \in Participants, NEW c, TryContribute(p, c)
    PROVE  RoundInv'
<1>1. CASE UNCHANGED round
  BY <1>1, RoundUnchanged
<1>2. CASE round' = [round EXCEPT !.chunks[c].holder = {}]
  <2> DEFINE chunk == [round.chunks[c] EXCEPT !.holder = {}]
  <2>1. round' = [round EXCEPT !.chunks[c] = chunk]
    BY <1>2
  <2>2. c \in Chunks => chunk \in Chunk(Participants) /\ ChunkOK(chunk, Expected)
    BY ChunkOfRound, UnlockKeepsChunkOK
  <2> HIDE DEF chunk
  <2> QED
    BY <2>1, <2>2, OneChunkStep
<1>3. CASE AcceptResponse(p, c)
  BY <1>3, RecordContributionKeepsRoundInv DEF AcceptResponse
<1> QED
  BY <1>1, <1>2, <1>3
     DEF TryContribute, LookupDisposingTask, LookupPendingTask, DisposeResponse, RejectResponse,
         OnChunk, store

\* The end of Coordinator::verify_contribution.
LEMMA RecordVerificationKeepsRoundInv ==
    ASSUME RoundInv, NEW t \in AllTasks, CanVerifyContribution(t), RecordVerification(t)
    PROVE  RoundInv'
<1> DEFINE c == t.chunk
           chunk == VerifyContribution(round.chunks[c], t.id)
<1>1. c \in Chunks /\ t.id \in 1..Size
  BY DEF AllTasks
<1>2. /\ round' = [round EXCEPT !.chunks[c] = chunk]
      /\ t.id = CurrentContributionId(round.chunks[c])
  BY DEF RecordVerification, CanVerifyContribution
<1>3. t.id \in 1..CurrentContributionId(round.chunks[c])
  BY <1>1, <1>2, SizeNat
<1>4. chunk \in Chunk(Participants) /\ ChunkOK(chunk, Expected)
  BY <1>1, <1>3, ChunkOfRound, VerifyContributionKeepsChunkOK
<1> HIDE DEF c, chunk
<1> QED
  BY <1>2, <1>4, OneChunkStep

\* Coordinator::try_verify.
LEMMA TryVerifyKeepsRoundInv ==
    ASSUME RoundInv, NEW t \in AllTasks, TryVerify(t)
    PROVE  RoundInv'
<1>1. CASE UNCHANGED round
  BY <1>1, RoundUnchanged
<1>2. CASE AcceptVerification(t)
  BY <1>2, RecordVerificationKeepsRoundInv DEF AcceptVerification
<1> QED
  BY <1>1, <1>2 DEF TryVerify, RejectVerification

\* Round::remove_locks_unsafe on the chunks of a round.
LEMMA RemoveLocksKeepsChunks ==
    ASSUME RoundInv, NEW p, NEW locked
    PROVE  LET unlocked == RemoveLocks(round, p, locked)
           IN  /\ unlocked = [round EXCEPT !.chunks = unlocked.chunks]
               /\ unlocked.chunks \in [Chunks -> Chunk(Participants)]
               /\ \A c \in Chunks : ChunkOK(unlocked.chunks[c], Expected)
<1> DEFINE chunks == [c \in Chunks |-> IF c \in HeldLocks(round, p, locked)
                                       THEN [round.chunks[c] EXCEPT !.holder = {}]
                                       ELSE round.chunks[c]]
<1>1. RemoveLocks(round, p, locked) = [round EXCEPT !.chunks = chunks]
  BY DEF RemoveLocks, RoundInv, RoundTypeOK
<1>2. \A c \in Chunks : chunks[c] \in Chunk(Participants) /\ ChunkOK(chunks[c], Expected)
  BY ChunkOfRound, UnlockKeepsChunkOK
<1>3. chunks \in [Chunks -> Chunk(Participants)]
  BY <1>2
<1> HIDE DEF chunks
<1>4. RemoveLocks(round, p, locked).chunks = chunks
  BY <1>1 DEF RoundInv, RoundTypeOK
<1> QED
  BY <1>1, <1>2, <1>3, <1>4

\* Coordinator::rollback_locked_task.
LEMMA OperatorRollbackKeepsRoundInv ==
    ASSUME RoundInv, NEW p \in Participants, NEW t \in AllTasks, OperatorRollback(p, t)
    PROVE  RoundInv'
<1>1. CASE UNCHANGED round
  BY <1>1, RoundUnchanged
<1>2. CASE round' = RemoveLocks(round, p, {t.chunk})
  BY <1>2, RemoveLocksKeepsChunks, ChunksStep
<1> QED
  BY <1>1, <1>2 DEF OperatorRollback, store

\* Round::remove_chunk_contributions_unsafe on the chunks of a round.
LEMMA RemoveContributionsKeepsChunks ==
    ASSUME RoundInv, NEW old, NEW tasks,
           old = [round EXCEPT !.chunks = old.chunks],
           old.chunks \in [Chunks -> Chunk(Participants)],
           \A c \in Chunks : ChunkOK(old.chunks[c], Expected)
    PROVE  LET cut == RemoveContributions(old, tasks)
           IN  /\ cut = [round EXCEPT !.chunks = cut.chunks]
               /\ cut.chunks \in [Chunks -> Chunk(Participants)]
               /\ \A c \in Chunks : ChunkOK(cut.chunks[c], Expected)
<1> DEFINE recorded == RecordedTasks(old, tasks)
           first(c) == (CHOOSE t \in recorded : t.chunk = c).id
           chunks == [c \in Chunks |-> IF \E t \in recorded : t.chunk = c
                                       THEN RemoveContributionsFrom(old.chunks[c], first(c))
                                       ELSE old.chunks[c]]
<1>1. RemoveContributions(old, tasks) = [old EXCEPT !.chunks = chunks]
  BY DEF RemoveContributions
<1>2. [old EXCEPT !.chunks = chunks] = [round EXCEPT !.chunks = chunks]
  BY DEF RoundInv, RoundTypeOK
<1>3. ASSUME NEW c \in Chunks
      PROVE  chunks[c] \in Chunk(Participants) /\ ChunkOK(chunks[c], Expected)
  <2>1. CASE \E t \in recorded : t.chunk = c
    <3>1. first(c) \in 1..CurrentContributionId(old.chunks[c])
      BY <2>1 DEF RecordedTasks
    <3>2. old.chunks[c] \in Chunk(Participants) /\ Expected \in Nat
      BY ExpectedNat DEF RoundInv
    <3>3. chunks[c] = RemoveContributionsFrom(old.chunks[c], first(c))
      BY <2>1
    <3> HIDE DEF chunks, first
    <3> QED
      BY <3>1, <3>2, <3>3, RemoveContributionsKeepsChunkOK
  <2>2. CASE ~\E t \in recorded : t.chunk = c
    BY <2>2
  <2> QED
    BY <2>1, <2>2
<1>4. chunks \in [Chunks -> Chunk(Participants)]
  BY <1>3
<1> HIDE DEF chunks
<1>5. RemoveContributions(old, tasks).chunks = chunks
  BY <1>1, <1>2 DEF RoundInv, RoundTypeOK
<1> QED
  BY <1>1, <1>2, <1>3, <1>4, <1>5

\* Coordinator::drop_participant, the contributor being replaced.
LEMMA ReplaceContributorKeepsRoundInv ==
    ASSUME RoundInv, NEW p \in Contributors, ReplaceContributor(p)
    PROVE  RoundInv'
<1>1. CASE UNCHANGED round
  BY <1>1, RoundUnchanged
<1>2. ASSUME NEW r \in Range(CoordinatorContributors), ReplaceInStorage(p, r)
      PROVE  RoundInv'
  <2> DEFINE unlocked == RemoveLocks(round, p, info[p].locked)
             cut == RemoveContributions(unlocked, info[p].completed)
             chunks == cut.chunks
             ids == [k \in DOMAIN round.contributor_ids |->
                        IF round.contributor_ids[k] = p THEN r ELSE round.contributor_ids[k]]
  <2>1. /\ unlocked = [round EXCEPT !.chunks = unlocked.chunks]
        /\ unlocked.chunks \in [Chunks -> Chunk(Participants)]
        /\ \A c \in Chunks : ChunkOK(unlocked.chunks[c], Expected)
    BY RemoveLocksKeepsChunks
  <2> HIDE DEF unlocked
  <2>2. /\ cut = [round EXCEPT !.chunks = chunks]
        /\ chunks \in [Chunks -> Chunk(Participants)]
        /\ \A c \in Chunks : ChunkOK(chunks[c], Expected)
    BY <2>1, RemoveContributionsKeepsChunks
  <2>3. round' = ReplaceContributorId(cut, p, r)
    BY <1>2 DEF ReplaceInStorage, unlocked
  <2> HIDE DEF cut, chunks
  <2>4. round' = [contributor_ids |-> ids, chunks |-> chunks]
    BY <2>2, <2>3 DEF ReplaceContributorId, RoundInv, RoundTypeOK
  <2>5. ids \in UNION {[K -> Participants] : K \in SUBSET (1..Size)}
    BY DEF RoundInv, RoundTypeOK, Participants
  <2>6. RoundTypeOK'
    BY <2>2, <2>4, <2>5 DEF RoundTypeOK
  <2>7. Expected' = Expected
    BY <2>4 DEF Expected, ExpectedNumberOfContributions
  <2>8. ChunkIntegrity'
    BY <2>2, <2>4, <2>7 DEF ChunkIntegrity
  <2> QED
    BY <2>6, <2>8 DEF RoundInv
<1>3. \A k \in DOMAIN CoordinatorContributors :
          CoordinatorContributors[k] \in Range(CoordinatorContributors)
  BY DEF Range
<1> QED
  BY <1>1, <1>2, <1>3 DEF ReplaceContributor, store

\* A chunk without a lock and with no contribution but the initial challenge.
LEMMA EmptyChunkOK ==
    ASSUME NEW expected \in Nat, 0 < expected
    PROVE  /\ [holder |-> {}, contributions |-> << >>] \in Chunk(Participants)
           /\ ChunkOK([holder |-> {}, contributions |-> << >>], expected)
<1>1. << >> \in Seq(Contribution)
  OBVIOUS
<1>2. [holder |-> {}, contributions |-> << >>] \in Chunk(Participants)
  BY <1>1 DEF Chunk, Contribution
<1>3. Shape({}, << >>, expected)
  BY DEF Shape
<1> QED
  BY <1>2, <1>3, ChunkOKShape

EmptyRound(ids) ==
    [contributor_ids |-> ids,
     chunks |-> [c \in Chunks |-> [holder |-> {}, contributions |-> << >>]]]

\* A new round satisfies the invariant.
LEMMA InitRoundInv == Init => RoundInv
<1> SUFFICES ASSUME Init PROVE RoundInv
  OBVIOUS
<1>1. PICK ids \in Bijection(1..Size, Contributors) : round = EmptyRound(ids)
  BY DEF Init, EmptyRound
<1>2. ids \in [1..Size -> Participants]
  BY DEF Bijection, Injection, Surjection, Participants
<1>3. ids \in ContributorIds
  BY <1>2 DEF ContributorIds
<1>4. Expected \in Nat /\ 0 < Expected
  BY <1>1, <1>3, NumberOfIdsNat DEF Expected, ExpectedNumberOfContributions, EmptyRound
<1> QED
  BY <1>1, <1>3, <1>4, EmptyChunkOK
  DEF RoundInv, RoundTypeOK, ChunkIntegrity, ContributorIds, EmptyRound

\* Coordinator::drop_participant, the round being reset.
LEMMA ResetCurrentRoundKeepsRoundInv ==
    ASSUME RoundInv, NEW p \in Contributors, ResetCurrentRound(p)
    PROVE  RoundInv'
<1> DEFINE kept == {k \in DOMAIN round.contributor_ids : round.contributor_ids[k] # p}
           ids == [k \in kept |-> round.contributor_ids[k]]
<1>1. round' = ResetRound(round, p)
  BY DEF ResetCurrentRound
<1>2. round' = EmptyRound(ids)
  BY <1>1 DEF ResetRound, WithoutContributor, Restrict, RoundInv, RoundTypeOK, EmptyRound
<1>3. ids \in ContributorIds
  <2>1. PICK K \in SUBSET (1..Size) : round.contributor_ids \in [K -> Participants]
    BY DEF RoundInv, RoundTypeOK
  <2>2. kept \in SUBSET (1..Size) /\ ids \in [kept -> Participants]
    BY <2>1
  <2> QED
    BY <2>2 DEF ContributorIds
<1> HIDE DEF ids
<1>4. Expected' \in Nat /\ 0 < Expected'
  BY <1>2, <1>3, NumberOfIdsNat DEF Expected, ExpectedNumberOfContributions, EmptyRound
<1> QED
  BY <1>2, <1>3, <1>4, EmptyChunkOK
  DEF RoundInv, RoundTypeOK, ChunkIntegrity, ContributorIds, EmptyRound

-----------------------------------------------------------------------------
\* Every operation on the round keeps it.
LEMMA NextRoundInv == RoundInv /\ [Next]_vars => RoundInv'
<1> SUFFICES ASSUME RoundInv, [Next]_vars PROVE RoundInv'
  OBVIOUS
<1>1. ASSUME NEW p \in Participants, TryLock(p) PROVE RoundInv'
  BY <1>1, TryLockKeepsRoundInv
<1>2. ASSUME NEW p \in Participants, NEW c \in Chunks, RunComputation(p, c) PROVE RoundInv'
  BY <1>2, RoundUnchanged DEF RunComputation
<1>3. ASSUME NEW p \in Participants, NEW c \in Chunks, TryContribute(p, c) PROVE RoundInv'
  BY <1>3, TryContributeKeepsRoundInv
<1>4. ASSUME NEW t \in AllTasks, RunVerification(t) PROVE RoundInv'
  BY <1>4, RoundUnchanged DEF RunVerification
<1>5. ASSUME NEW t \in AllTasks, TryVerify(t) PROVE RoundInv'
  BY <1>5, TryVerifyKeepsRoundInv
<1>6. CASE UpdateCurrentContributors
  BY <1>6, RoundUnchanged DEF UpdateCurrentContributors, store
<1>7. ASSUME NEW p \in Participants, NEW t \in AllTasks, OperatorRollback(p, t) PROVE RoundInv'
  BY <1>7, OperatorRollbackKeepsRoundInv
<1>8. ASSUME NEW p \in Contributors, DropParticipant(p) PROVE RoundInv'
  BY <1>8, ReplaceContributorKeepsRoundInv, ResetCurrentRoundKeepsRoundInv DEF DropParticipant
<1>9. CASE UNCHANGED vars
  BY <1>9, RoundUnchanged DEF vars, store
<1> QED
  BY <1>1, <1>2, <1>3, <1>4, <1>5, <1>6, <1>7, <1>8, <1>9 DEF Next

\* So it always holds.
LEMMA RoundInvariant == Spec => []RoundInv
<1> QED
  BY InitRoundInv, NextRoundInv, PTL DEF Spec

\* The Round object in storage keeps its type: the contributor IDs are
\* participants, and every chunk has contributions of participants.
THEOREM RoundIsTyped == Spec => []RoundTypeOK
<1>1. RoundInv => RoundTypeOK
  BY DEF RoundInv
<1> QED
  BY <1>1, RoundInvariant, PTL

\* Whatever is locked, contributed, verified, rolled back, dropped, replaced or
\* reset, by any number of contributors on any number of chunks, every chunk of
\* the round keeps the shape that Chunk::add_contribution and
\* Chunk::verify_contribution rely on.
THEOREM ChunkIntegrityHolds == Spec => []ChunkIntegrity
<1>1. RoundInv => ChunkIntegrity
  BY DEF RoundInv
<1> QED
  BY <1>1, RoundInvariant, PTL
=============================================================================
