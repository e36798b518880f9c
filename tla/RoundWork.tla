------------------------------ MODULE RoundWork ------------------------------
(***************************************************************************)
(* The work of one round: contributors lock chunks, compute and submit     *)
(* contributions, verifiers check them, contributors are dropped and       *)
(* replaced (or the round starts again without them), until everyone who   *)
(* is left has finished (phase1-coordinator/src/coordinator.rs and         *)
(* coordinator_state.rs).                                                  *)
(*                                                                         *)
(* Every public operation of the coordinator runs under one &mut borrow,   *)
(* so it is one action, and the processes interleave between operations.   *)
(* The coordinator state (current, info, ...) and the round in storage     *)
(* (round, files) are two views of the same work that each operation       *)
(* updates one after the other, with early returns in between.             *)
(***************************************************************************)
EXTENDS ParticipantInfo, RoundStore

CONSTANTS
    Contributors,             \* the contributors the round was committed with
    CoordinatorContributors,  \* environment.coordinator_contributors(), a sequence
    NumberOfChunks,           \* environment.number_of_chunks()
    LockLimit,                \* environment.contributor_lock_chunk_limit()
    MayFail,                  \* contributors may submit without having computed
    MayRepeat,                \* a verifier may submit a verification again
    MaxDrops,                 \* bound: contributors dropped in a behaviour
    MaxRollbacks              \* bound: locks rolled back by the operator

ASSUME RoundWorkAssumption ==
    /\ IsFiniteSet(Contributors) /\ Contributors # {}
    /\ CoordinatorContributors \in Seq(Range(CoordinatorContributors))
    /\ Range(CoordinatorContributors) \cap Contributors = {}
    /\ NumberOfChunks \in Nat /\ NumberOfChunks >= Cardinality(Contributors)
    /\ LockLimit \in Nat \ {0}
    /\ MayFail \in BOOLEAN /\ MayRepeat \in BOOLEAN
    /\ MaxDrops \in Nat /\ MaxRollbacks \in Nat

Participants == Contributors \cup Range(CoordinatorContributors)
Chunks == 0..(NumberOfChunks - 1)
Size == Cardinality(Contributors)
AllTasks == [chunk : Chunks, id : 1..Size]

VARIABLES
    current,               \* keys of CoordinatorState::current_contributors
    info,                  \* their ParticipantInfo (NoInfo for the others)
    finished,              \* keys of finished_contributors of this round
    pending_verification,  \* the tasks waiting for a verifier
    number_of_contributors,\* of current_metrics
    rolled_back,           \* the coordinator went back to the previous round
    round,                 \* the Round object in storage
    files,                 \* the contribution files in storage
    drops, rollbacks       \* counters for the bounds

state == <<current, info, finished, pending_verification, number_of_contributors, rolled_back>>
store == <<round, files>>
vars == <<state, store, drops, rollbacks>>

NoInfo == StartedInfo(0, << >>)

IsCurrentRoundFinished == current = {} /\ pending_verification = {}

\* The round right after it was committed: each contributor has the tasks of
\* one bucket, storage has the initial challenges only.
Init ==
    /\ current = Contributors
    /\ \E bucket \in Bijection(Contributors, 0..(Size - 1)) :
         info = [p \in Participants |->
                    IF p \in Contributors
                    THEN StartedInfo(bucket[p],
                             InitializeTasks(bucket[p], NumberOfChunks, Size))
                    ELSE NoInfo]
    /\ finished = {}
    /\ pending_verification = {}
    /\ number_of_contributors = Size
    /\ rolled_back = FALSE
    /\ \E ids \in Bijection(1..Size, Contributors) :
         round = [contributor_ids |-> ids,
                  chunks |-> [c \in Chunks |-> [holder |-> {}, contributions |-> << >>]]]
    /\ files = [l \in Locators(Chunks, Size) |->
                    IF l[1] = "challenge" /\ l[3] = 0 THEN Written(<< >>) ELSE Absent]
    /\ drops = 0
    /\ rollbacks = 0

Expected == ExpectedNumberOfContributions(round)

-----------------------------------------------------------------------------
(***************************************************************************)
(* Coordinator::try_lock.  fetch_task pops the contributor's next task.    *)
(* When its chunk cannot be locked the task is rolled back to the front of *)
(* the assigned tasks, unless rollback_pending_task refuses.               *)
(***************************************************************************)
CanFetchTask(p) ==
    /\ p \in current
    /\ Cardinality(info[p].locked) < LockLimit
    /\ CanPopTask(info[p])

\* Mutant: the task is not put back.
RolledBack_Lost(popped, t) == popped

RolledBack(popped, t) ==
    IF CanRollbackPendingTask(popped, t) THEN RollbackPendingTask(popped, t) ELSE popped

\* The contribution before is on record and try_lock_chunk returns Ok.
CanLock(p, t) ==
    /\ t.id <= NextContributionId(round.chunks[t.chunk])
    /\ CanLockChunk(round, files, t.chunk, p, LockLimit)

TryLock(p) ==
    /\ CanFetchTask(p)
    /\ LET t == Head(info[p].assigned)
           popped == PopTask(info[p])
       IN  IF CanLock(p, t)
           THEN /\ round' = LockChunk(round, t.chunk, p)
                /\ files' = LockedFiles(round, files, t.chunk)
                /\ info' = [info EXCEPT ![p] =
                       IF CanAcquireLock(popped, t.chunk)
                       THEN AcquiredLock(popped, t.chunk) ELSE popped]
           ELSE /\ info' = [info EXCEPT ![p] = RolledBack(popped, t)]
                /\ UNCHANGED store
    /\ UNCHANGED <<current, finished, pending_verification, number_of_contributors,
                   rolled_back, drops, rollbacks>>

\* Computation::run: the response extends the challenge by p's contribution.
ComputedResponse(p, c, i) == Written(Append(files[Challenge(c, i - 1)].chain, p))

(***************************************************************************)
(* Coordinator::run_computation: the contributor holding the lock writes   *)
(* the response and its signature into the files its lock initialized.     *)
(***************************************************************************)
RunComputation(p, c) ==
    /\ IsChunkLockedBy(round, c, p)
    /\ \E i \in 1..Size :
         /\ i > CurrentContributionId(round.chunks[c])
         /\ files[Challenge(c, i - 1)].state = "written"
         /\ files[Response(c, i)] = Blank
         /\ files[Signature(c, i)] = Blank
         /\ files' = WithFiles(files, {Response(c, i), Signature(c, i)}, ComputedResponse(p, c, i))
    /\ UNCHANGED <<state, round, drops, rollbacks>>

(***************************************************************************)
(* Coordinator::try_contribute.                                            *)
(***************************************************************************)
\* add_contribution returns Ok: the response extends the challenge that is
\* now current, and the contributor signed it.
CanAddContribution(p, c) ==
    LET chunk == round.chunks[c]
        next == NextContributionId(chunk)
        challenge == files[Challenge(c, next - 1)]
    IN  /\ IsContributor(round, p)
        /\ IsChunkLockedBy(round, c, p)
        /\ HasNextContributionId(chunk, Expected)
        /\ challenge.state = "written"
        /\ files[Response(c, next)] = ComputedResponse(p, c, next)
        /\ files[Signature(c, next)] = files[Response(c, next)]

\* The response belongs to a task that is being disposed of: the lock is
\* released and the response deleted.  A response that is already gone ends
\* the call between the two.
DisposeResponse(p, t) ==
    /\ CanDisposeTask(info[p], t)
    /\ info' = [info EXCEPT ![p] = DisposeTask(@, t)]
    /\ IF Exists(files, Response(t.chunk, t.id))
       THEN /\ files' = RemoveFiles(files, {Response(t.chunk, t.id)})
            /\ round' = [round EXCEPT !.chunks[t.chunk].holder = {}]
       ELSE UNCHANGED store
    /\ UNCHANGED pending_verification

\* The end of add_contribution: the round with the contribution is stored.
RecordContribution(p, c) == round' = [round EXCEPT !.chunks[c] = AddContribution(@, p)]

AddPendingVerification(t) == pending_verification' = pending_verification \cup {t}
RemovePendingVerification(t) == pending_verification' = pending_verification \ {t}

\* CoordinatorState::completed_task for a contributor.
CompleteTask(p, t) ==
    IF CanCompleteTask(info[p], t)
    THEN info' = [info EXCEPT ![p] = CompletedTask(@, t)] /\ AddPendingVerification(t)
    ELSE UNCHANGED <<info, pending_verification>>

\* The contribution is added to the round in storage and then, as the chunk's
\* next contribution ID, to the completed tasks and the pending verifications.
AcceptResponse(p, c) ==
    LET t == Task(c, NextContributionId(round.chunks[c]))
    IN  /\ CanAddContribution(p, c)
        /\ RecordContribution(p, c)
        /\ CompleteTask(p, t)
        /\ UNCHANGED files

\* Mutant: deletes the response of the current contribution, not the next.
RejectResponse_CurrentId(p, t) ==
    /\ MayFail
    /\ ~CanAddContribution(p, t.chunk)
    /\ files' = RemoveFiles(files,
                   {Response(t.chunk, CurrentContributionId(round.chunks[t.chunk]))})
    /\ UNCHANGED <<info, pending_verification, round>>

\* The contribution is refused and its response deleted.
RejectResponse(p, t) ==
    /\ MayFail \/ files[Response(t.chunk, t.id)].state = "written"
    /\ ~CanAddContribution(p, t.chunk)
    /\ files' = RemoveFiles(files, {Response(t.chunk, t.id)})
    /\ UNCHANGED <<info, pending_verification, round>>

LookupDisposingTask(p, c) == OnChunk(info[p].disposing, c)
LookupPendingTask(p, c) == OnChunk(info[p].pending, c)

TryContribute(p, c) ==
    /\ p \in current
    /\ c \in info[p].locked
    /\ LET disposing == LookupDisposingTask(p, c)
           pending == LookupPendingTask(p, c)
       IN  \/ \E t \in disposing : Cardinality(disposing) = 1 /\ DisposeResponse(p, t)
           \/ /\ disposing = {}
              /\ Cardinality(pending) = 1
              /\ AcceptResponse(p, c)
           \/ /\ disposing = {}
              /\ \E t \in pending : Cardinality(pending) = 1 /\ RejectResponse(p, t)
    /\ UNCHANGED <<current, finished, number_of_contributors, rolled_back, drops, rollbacks>>

\* Verification::verification accepts the response: it is a contribution of
\* someone to the challenge.
IsVerifiable(challenge, response) ==
    /\ challenge.state = "written"
    /\ response.state = "written"
    /\ \E p \in Participants : response.chain = Append(challenge.chain, p)

\* The next challenge and its signature, written over those there may be.
WriteNextChallenge(t, final) ==
    files' = WithFiles(files, {NextChallenge(t.chunk, t.id, final),
                               NextSignature(t.chunk, t.id, final)},
                       files[Response(t.chunk, t.id)])

(***************************************************************************)
(* Coordinator::run_verification: a verifier checks the response of a task *)
(* that waits for verification and writes the next challenge.              *)
(***************************************************************************)
RunVerification(t) ==
    LET chunk == round.chunks[t.chunk]
    IN  /\ t \in pending_verification
        /\ t.id <= CurrentContributionId(chunk)
        /\ ~GetContribution(chunk, t.id).verified
        /\ IsVerifiable(files[Challenge(t.chunk, t.id - 1)], files[Response(t.chunk, t.id)])
        /\ WriteNextChallenge(t, OnlyContributionsComplete(chunk, Expected))
        /\ UNCHANGED <<state, round, drops, rollbacks>>

(***************************************************************************)
(* Coordinator::try_verify.                                                *)
(***************************************************************************)
\* Mutant: the next challenge is not looked at.
CanVerifyContribution_NoChallenge(t) ==
    /\ t.id = CurrentContributionId(round.chunks[t.chunk])
    /\ files[Response(t.chunk, t.id)].state = "written"
    /\ ~GetContribution(round.chunks[t.chunk], t.id).verified

\* verify_contribution returns Ok.
CanVerifyContribution(t) ==
    LET c == t.chunk
        chunk == round.chunks[c]
        final == OnlyContributionsComplete(chunk, Expected)
        response == files[Response(c, t.id)]
    IN  /\ t.id = CurrentContributionId(chunk)
        /\ IsVerifiable(files[Challenge(c, t.id - 1)], response)
        /\ files[NextChallenge(c, t.id, final)] = response
        /\ files[NextSignature(c, t.id, final)] = response
        /\ ~GetContribution(chunk, t.id).verified

\* The end of verify_contribution: the round with the verification is stored.
RecordVerification(t) ==
    round' = [round EXCEPT !.chunks[t.chunk] = VerifyContribution(@, t.id)]

\* Mutant: the task stays in the queue of pending verifications.
AcceptVerification_StaysPending(t) ==
    /\ CanVerifyContribution(t)
    /\ RecordVerification(t)
    /\ UNCHANGED <<pending_verification, files>>

AcceptVerification(t) ==
    /\ CanVerifyContribution(t)
    /\ RecordVerification(t)
    /\ RemovePendingVerification(t)
    /\ UNCHANGED files

\* The next challenge is deleted; whether it is the last one of the chunk is
\* told from the task here, not from the chunk.
RejectVerification(t) ==
    /\ ~CanVerifyContribution(t)
    /\ files' = RemoveFiles(files, {NextChallenge(t.chunk, t.id, t.id = Expected - 1)})
    /\ UNCHANGED <<round, pending_verification>>

\* The coordinator does not look whether the task is waiting for verification.
TryVerify(t) ==
    /\ t \in pending_verification \/ MayRepeat
    /\ ~IsCurrentRoundFinished
    /\ AcceptVerification(t) \/ RejectVerification(t)
    /\ UNCHANGED <<current, info, finished, number_of_contributors, rolled_back,
                   drops, rollbacks>>

(***************************************************************************)
(* CoordinatorState::update_current_contributors, called by update().      *)
(***************************************************************************)
UpdateCurrentContributors ==
    LET done == {p \in current : CanFinish(info[p])}
    IN  /\ done # {}
        /\ current' = current \ done
        /\ finished' = finished \cup done
        /\ UNCHANGED <<info, pending_verification, number_of_contributors, rolled_back,
                       store, drops, rollbacks>>

(***************************************************************************)
(* Coordinator::rollback_locked_task, an operation for the operator.       *)
(***************************************************************************)
OperatorRollback(p, t) ==
    /\ rollbacks < MaxRollbacks
    /\ rollbacks' = rollbacks + 1
    /\ p \in current
    /\ t \in info[p].pending
    /\ CanRollbackLockedTask(info[p], t)
    /\ info' = [info EXCEPT ![p] = RollbackLockedTask(@, t)]
    /\ IF CanRemoveLocks(round, p, {t.chunk})
       THEN /\ round' = RemoveLocks(round, p, {t.chunk})
            /\ files' = RemoveFiles(files, RemoveLocksFiles(round, p, {t.chunk}))
       ELSE UNCHANGED store
    /\ UNCHANGED <<current, finished, pending_verification, number_of_contributors,
                   rolled_back, drops>>

-----------------------------------------------------------------------------
(***************************************************************************)
(* Dropping a contributor: CoordinatorState::drop_participant and then     *)
(* Coordinator::drop_participant_from_storage, for a contributor who timed *)
(* out or was dropped by the operator.  Coordinator contributors do not    *)
(* time out and are not dropped here.                                      *)
(***************************************************************************)
TasksOf(bucket_id) == InitializeTasks(bucket_id, NumberOfChunks, number_of_contributors)

\* initialize_tasks returns Ok for everyone whose tasks are assigned again.
CanReassign ==
    \A q \in current :
        TaskInitializationOk(info[q].bucket, NumberOfChunks, number_of_contributors)

\* The work lists after the loop over current_contributors.
Affected(p) ==
    [q \in Participants |->
        IF q \in current
        THEN AfterDropOf(info[q], info[p].completed, TasksOf(info[q].bucket))
        ELSE info[q]]

\* The load by which add_replacement_contributor_unsafe compares.
Load(p, r) ==
    IF r \in current
    THEN Cardinality(Affected(p)[r].pending) + Len(Affected(p)[r].assigned) ELSE 0

\* The k-th coordinator contributor is the first with the least load.
IsLeastLoaded(p, k) ==
    LET LoadOf(j) == Load(p, CoordinatorContributors[j])
    IN  \A j \in DOMAIN CoordinatorContributors :
            LoadOf(k) <= LoadOf(j) /\ (j < k => LoadOf(k) < LoadOf(j))

\* drop_participant_from_storage for ReplaceContributor returns Ok.
CanReplaceInStorage(p) ==
    /\ CanRemoveLocks(round, p, info[p].locked)
    /\ CanRemoveContributions(round, p)

ReplaceInStorage(p, r) ==
    LET unlocked == RemoveLocks(round, p, info[p].locked)
        cut == RemoveContributions(unlocked, info[p].completed)
    IN  /\ round' = ReplaceContributorId(cut, p, r)
        /\ files' = RemoveFiles(files,
                        RemoveLocksFiles(round, p, info[p].locked)
                          \cup RemoveContributionsFiles(unlocked, info[p].completed))

\* The replacement starts with the tasks of the dropped contributor's bucket;
\* the work list it may have had is overwritten.
ReplaceContributor(p) ==
    \E k \in DOMAIN CoordinatorContributors :
        LET r == CoordinatorContributors[k]
        IN  /\ IsLeastLoaded(p, k)
            /\ current' = (current \ {p}) \cup {r}
            /\ info' = [Affected(p) EXCEPT ![p] = NoInfo,
                            ![r] = StartedInfo(info[p].bucket, TasksOf(info[p].bucket))]
            /\ IF CanReplaceInStorage(p) THEN ReplaceInStorage(p, r) ELSE UNCHANGED store
            /\ UNCHANGED <<finished, pending_verification, number_of_contributors, rolled_back>>

\* reset_current_round and reset_round_storage when there is nobody to replace
\* the contributor: those who are left, finished or not, start again in any
\* order of buckets (the order of a hash map), and metrics are new.  With
\* nobody left the coordinator rolls back to the previous round.
ResetCurrentRound(p) ==
    LET left == (current \ {p}) \cup finished
        n == Cardinality(left)
    IN  /\ CoordinatorContributors = << >>
        /\ current' = left
        /\ \E bucket \in Bijection(left, 0..(n - 1)) :
             info' = [q \in Participants |->
                        IF q \in left
                        THEN RestartTasks(info[q],
                                 InitializeTasks(bucket[q], NumberOfChunks, n))
                        ELSE NoInfo]
        /\ finished' = {}
        /\ pending_verification' = {}
        /\ number_of_contributors' = 0
        /\ rolled_back' = (left = {})
        /\ round' = ResetRound(round, p)
        /\ files' = ClearRoundFiles(files)

DropParticipant(p) ==
    /\ drops < MaxDrops
    /\ drops' = drops + 1
    /\ p \in current \cap Contributors
    /\ CanReassign
    /\ ReplaceContributor(p) \/ ResetCurrentRound(p)
    /\ UNCHANGED rollbacks

Next ==
    \/ \E p \in Participants : TryLock(p)
    \/ \E p \in Participants, c \in Chunks : RunComputation(p, c)
    \/ \E p \in Participants, c \in Chunks : TryContribute(p, c)
    \/ \E t \in AllTasks : RunVerification(t)
    \/ \E t \in AllTasks : TryVerify(t)
    \/ UpdateCurrentContributors
    \/ \E p \in Participants, t \in AllTasks : OperatorRollback(p, t)
    \/ \E p \in Contributors : DropParticipant(p)

Spec == Init /\ [][Next]_vars

\* Contributors and verifiers poll the coordinator and update() runs in a loop;
\* a contributor that stops doing so is dropped, and drops are bounded.
Fairness ==
    /\ \A p \in Participants : WF_vars(TryLock(p))
    /\ \A p \in Participants, c \in Chunks :
         WF_vars(RunComputation(p, c)) /\ WF_vars(TryContribute(p, c))
    /\ \A t \in AllTasks : WF_vars(RunVerification(t)) /\ WF_vars(TryVerify(t))
    /\ WF_vars(UpdateCurrentContributors)

FairSpec == Spec /\ Fairness

-----------------------------------------------------------------------------
(***************************************************************************)
(* Properties.                                                             *)
(***************************************************************************)
RoundTypeOK ==
    round \in [contributor_ids : UNION {[K -> Participants] : K \in SUBSET (1..Size)},
              chunks : [Chunks -> Chunk(Participants)]]

\* Every variable has its type; in particular every task on a work list or in
\* the verification queue names a chunk and a contribution of the round.
TypeOK ==
    /\ current \subseteq Participants
    /\ info \in [Participants -> Info(Chunks, 1..Size, 0..(Size - 1))]
    /\ finished \subseteq Participants
    /\ pending_verification \subseteq AllTasks
    /\ number_of_contributors \in 0..Size
    /\ rolled_back \in BOOLEAN
    /\ RoundTypeOK
    /\ files \in [Locators(Chunks, Size) -> File(Participants)]
    /\ drops \in 0..MaxDrops
    /\ rollbacks \in 0..MaxRollbacks

\* The contributors on record for a chunk, in order.
Chain(c) == [i \in 1..CurrentContributionId(round.chunks[c]) |->
                GetContribution(round.chunks[c], i).contributor]

IsRecorded(t) == t.id <= CurrentContributionId(round.chunks[t.chunk])

IsRecordedVerified(t) ==
    IsRecorded(t) /\ GetContribution(round.chunks[t.chunk], t.id).verified

\* A chunk has fewer contributions than expected ones (which count contribution
\* 0), only the last may be unverified, nobody contributed twice, and whoever
\* holds the lock may add the next contribution.
ChunkOK(chunk, expected) ==
    LET last == CurrentContributionId(chunk)
    IN  /\ last < expected
        /\ \A i \in 1..(last - 1) : GetContribution(chunk, i).verified
        /\ \A i, j \in 1..last :
             GetContribution(chunk, i).contributor = GetContribution(chunk, j).contributor => i = j
        /\ \A p \in chunk.holder : /\ HasNextContributionId(chunk, expected)
                                   /\ ~HasContributed(chunk, p)

\* Locks, contributions, verifications, rollbacks, drops, replacements and resets
\* in any order keep every chunk of the round in this shape, so that
\* Chunk::add_contribution and Chunk::verify_contribution never meet another.
ChunkIntegrity == \A c \in Chunks : ChunkOK(round.chunks[c], Expected)

\* A chunk that the coordinator state counts among a contributor's locked_chunks
\* is locked by it in storage, whatever was dropped, disposed of or rolled back.
LocksAreHeld ==
    \A p \in current : \A c \in info[p].locked : IsChunkLockedBy(round, c, p)

\* The converse: a lock in storage belongs to a contributor of the current round
\* that knows of it, so that it will be used, disposed of or removed.
LocksAreKnown ==
    \A c \in Chunks : \A p \in round.chunks[c].holder : p \in current /\ c \in info[p].locked

\* The places of p on the round's list.
Places(p) == {k \in DOMAIN round.contributor_ids : round.contributor_ids[k] = p}

\* Drops of others take from a contributor of the current round exactly the
\* credit for what storage has lost: it is never credited with work that is not
\* on record, and all of its work on record is credited, unless it is a
\* replacement that took a second place, whose work list starts anew while
\* storage keeps what it had done.
CompletedIsRecorded ==
    \A p \in current :
        LET own == {t \in AllTasks : IsRecorded(t) /\ Chain(t.chunk)[t.id] = p}
        IN  /\ info[p].completed \subseteq own
            /\ Cardinality(Places(p)) <= 1 => own \subseteq info[p].completed

\* Every contribution waiting for verification is queued for the verifiers, so
\* that none is forgotten, and nothing verified is queued again.
VerificationQueue ==
    \A t \in AllTasks :
        /\ IsRecorded(t) /\ ~IsRecordedVerified(t) => t \in pending_verification
        /\ t \in pending_verification => ~IsRecordedVerified(t)

\* Dropping others neither loses a chunk of a contributor nor gives it a second
\* task on a chunk.
OneTaskPerChunk ==
    \A p \in current, c \in Chunks :
        /\ IsInjective(info[p].assigned)
        /\ Cardinality(OnChunk(Range(info[p].assigned), c))
             + Cardinality(OnChunk(info[p].pending, c))
             + Cardinality(OnChunk(info[p].completed, c)) = 1

\* The response of every contribution on record is in storage and was computed
\* from exactly the contributions on record before it: one computed from a
\* contribution that has since been dropped is never accepted.
ResponsesOnRecord ==
    \A t \in AllTasks :
        IsRecorded(t) => files[Response(t.chunk, t.id)] = Written(SubSeq(Chain(t.chunk), 1, t.id))

\* Whichever contributor a timeout may drop next, the coordinator can assign the
\* tasks again and storage, whose locks and list of IDs agree with the state, can
\* carry the drop out.
DropSucceeds ==
    /\ CanReassign
    /\ CoordinatorContributors # << >> =>
         \A p \in current \cap Contributors : CanReplaceInStorage(p)

\* Whoever is dropped and however often a replacement is called on, those on the
\* round's list are those at work or finished, and nobody but a coordinator
\* contributor has more than one place: a drop neither leaves somebody on the
\* list who is gone nor takes anybody else off it.
TeamIntact ==
    ~rolled_back =>
        /\ Range(round.contributor_ids) = current \cup finished
        /\ \A p \in Contributors : Cardinality(Places(p)) <= 1

\* The challenge of every verified contribution is in storage for the next
\* contributor, or for the next round.
ChallengesOnRecord ==
    \A t \in AllTasks :
        IsRecordedVerified(t) =>
            files[NextChallenge(t.chunk, t.id, t.id + 1 = Expected)]
              = Written(SubSeq(Chain(t.chunk), 1, t.id))

\* When the coordinator considers the round finished, storage has all its
\* contributions, verified, so that it can be aggregated.
FinishedIsComplete ==
    IsCurrentRoundFinished /\ ~rolled_back => RoundIsComplete(round)

\* The files of contributions (not those of verifications) in storage belong to
\* a contribution on record or to one that a lock holder works on.
NoLeftoverFiles ==
    \A c \in Chunks, i \in 1..Size :
        Exists(files, Response(c, i)) \/ Exists(files, Signature(c, i)) =>
            IsRecorded(Task(c, i)) \/ round.chunks[c].holder # {}

\* The round comes to its end: complete, or rolled back when nobody is left.
RoundCompletes ==
    <>[](IsCurrentRoundFinished /\ (RoundIsComplete(round) \/ rolled_back))

\* The work of the round implements ChunkChain: contributions are only removed
\* by dropping a contributor, and then exactly its own and those built on them.
Abstract == INSTANCE ChunkChain WITH
    team <- Range(round.contributor_ids),
    chain <- [c \in Chunks |-> Chain(c)],
    verified <- [c \in Chunks |->
                    Cardinality({i \in 1..CurrentContributionId(round.chunks[c]) :
                                    GetContribution(round.chunks[c], i).verified})]

ImplementsChunkChain == Abstract!Spec
=============================================================================
