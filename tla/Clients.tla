------------------------------- MODULE Clients -------------------------------
(***************************************************************************)
(* The programs of the contributors and of a verifier                      *)
(* (setup1-contributor/src/commands/contribute.rs and                      *)
(* setup1-verifier/src/verifier.rs) at work in one round, composed with    *)
(* the coordinator of module RoundWork.                                    *)
(*                                                                         *)
(* A client sends one HTTP request at a time and acts on the answer; what  *)
(* it remembers between two requests (work, verifier) can be out of date   *)
(* when it uses it.  The server between the clients and the coordinator is *)
(* not part of the repository: a request is taken to call the operation of *)
(* the coordinator it is named after.  The coordinator's own contributors  *)
(* replace dropped ones and work without a client.                         *)
(***************************************************************************)
EXTENDS RoundWork

CONSTANT MaxFaults   \* bound: failed requests and computations, stops, delays

ASSUME ClientsAssumption == MaxFaults \in Nat

VARIABLES
    pc,        \* where each contributor's client is in ContributeClient::run
    work,      \* what it holds: the lock response and the file it computed
    verifier,  \* the verifier's place in try_verify, its task and its files
    torn,      \* the coordinator died with the round written and not the state
    faults     \* counter for the bound

clients == <<pc, work, verifier, torn, faults>>
allvars == <<vars, clients>>

NoWork == [chunk |-> 0, id |-> 0, chain |-> << >>]
Idle == [pc |-> "ask", task |-> Task(0, 0), challenge |-> << >>, response |-> << >>]

ClientsInit ==
    /\ Init
    /\ pc = [p \in Contributors |-> "poll"]
    /\ work = [p \in Contributors |-> NoWork]
    /\ verifier = Idle
    /\ torn = FALSE
    /\ faults = 0

Fault == faults < MaxFaults /\ faults' = faults + 1

Goto(p, step) == pc' = [pc EXCEPT ![p] = step]

-----------------------------------------------------------------------------
(***************************************************************************)
(* A contributor's client.                                                 *)
(***************************************************************************)
\* The answer to get_contributor_status is Round or Finished.
IsInRound(p) == p \in current \cup finished

\* A client that is not in the round polls again.
PollStatus(p) ==
    /\ pc[p] = "poll"
    /\ IsInRound(p)
    /\ Goto(p, "look")
    /\ UNCHANGED <<vars, work, verifier, torn, faults>>

\* chunk_all_verified
ChunkAllVerified(chunk) ==
    \A i \in 1..CurrentContributionId(chunk) : GetContribution(chunk, i).verified

\* contributor_ids_in_chunk
ContributorIdsInChunk(chunk) ==
    {GetContribution(chunk, i).contributor :
        i \in {j \in 1..CurrentContributionId(chunk) : GetContribution(chunk, j).verified}}

\* get_non_contributed_chunks
NonContributedChunks(p) ==
    {c \in Chunks : /\ ChunkAllVerified(round.chunks[c])
                    /\ p \notin ContributorIdsInChunk(round.chunks[c])}

\* get_non_contributed_and_available_chunks
NonContributedAndAvailable(p) ==
    {c \in NonContributedChunks(p) : round.chunks[c].holder = {}}

\* get_ceremony, and what the client makes of the round: it is finished when
\* no chunk is left for it, and polls again when all that are left are locked.
ReadCeremony(p) ==
    /\ pc[p] = "look"
    /\ Goto(p, IF NonContributedAndAvailable(p) # {} THEN "lock"
               ELSE IF NonContributedChunks(p) = {} THEN "finished" ELSE "poll")
    /\ UNCHANGED <<vars, work, verifier, torn, faults>>

\* What the coordinator does on a request for a lock, granted or refused.
LockRequest(p) == IF CanFetchTask(p) THEN TryLock(p) ELSE UNCHANGED vars

LockResponse(p) ==
    LET c == Head(info[p].assigned).chunk
    IN  [chunk |-> c, id |-> NextContributionId(round.chunks[c]), chain |-> << >>]

\* lock_chunk: a refusal is an error, after which the client starts again.
RequestLock(p) ==
    /\ pc[p] = "lock"
    /\ LockRequest(p)
    /\ IF round' # round
       THEN Goto(p, "compute") /\ work' = [work EXCEPT ![p] = LockResponse(p)]
       ELSE Goto(p, "poll") /\ UNCHANGED work
    /\ UNCHANGED <<verifier, torn, faults>>

\* The lock is granted but the answer is lost.
LockAnswerLost(p) ==
    /\ pc[p] = "lock"
    /\ Fault
    /\ LockRequest(p)
    /\ round' # round
    /\ Goto(p, "poll")
    /\ UNCHANGED <<work, verifier, torn>>

\* What download_challenge gets.
DownloadedChallenge(p) == files[Challenge(work[p].chunk, work[p].id - 1)]

\* The response contains the hash of the challenge it was computed from.
Contribute(challenge, p) == Append(challenge, p)

\* A challenge that is gone is an error; otherwise the response is computed from
\* it, signed and ready for the upload.
ComputeContribution(p) ==
    LET challenge == DownloadedChallenge(p)
    IN  /\ pc[p] = "compute"
        /\ IF challenge.state = "written"
           THEN /\ work' = [work EXCEPT ![p].chain = Contribute(challenge.chain, p)]
                /\ Goto(p, "upload")
           ELSE Goto(p, "poll") /\ UNCHANGED work
        /\ UNCHANGED <<vars, verifier, torn, faults>>

\* Any error before the upload (a lost request, a failed download, a panic of
\* the computation) ends run() and the client starts again from the status.
RunFails(p) ==
    /\ pc[p] \in {"look", "lock", "compute"}
    /\ Fault
    /\ Goto(p, "poll")
    /\ UNCHANGED <<vars, work, verifier, torn>>

\* The server writes the upload to the files the lock initialized.
CanStoreResponse(p) ==
    /\ IsChunkLockedBy(round, work[p].chunk, p)
    /\ Exists(files, Response(work[p].chunk, work[p].id))
    /\ Exists(files, Signature(work[p].chunk, work[p].id))

StoreResponse(p) ==
    /\ CanStoreResponse(p)
    /\ files' = WithFiles(files, {Response(work[p].chunk, work[p].id),
                                  Signature(work[p].chunk, work[p].id)},
                          Written(work[p].chain))
    /\ UNCHANGED <<state, round, drops, rollbacks>>

\* Mutant: the coordinator is not notified of the upload.
UploadResponse_NoNotice(p) ==
    /\ pc[p] = "upload"
    /\ StoreResponse(p)
    /\ Goto(p, "poll")
    /\ UNCHANGED <<work, verifier, torn, faults>>

\* upload_response, sent again until it succeeds.
UploadResponse(p) ==
    /\ pc[p] = "upload"
    /\ StoreResponse(p)
    /\ \/ Goto(p, "notify") /\ UNCHANGED faults
       \/ Fault /\ UNCHANGED pc
    /\ UNCHANGED <<work, verifier, torn>>

\* What the coordinator does on notify_contribution.
ContributeRequest(p) == TryContribute(p, work[p].chunk)

\* The notice, sent again until it succeeds: when the coordinator accepts or
\* disposes of the response, and the answer arrives.
NotifyContribution(p) ==
    /\ pc[p] = "notify"
    /\ ContributeRequest(p)
    /\ \/ round' # round /\ Goto(p, "poll") /\ UNCHANGED faults
       \/ round' = round /\ UNCHANGED <<pc, faults>>
       \/ round' # round /\ Fault /\ UNCHANGED pc
    /\ UNCHANGED <<work, verifier, torn>>

\* The process ends, and with it the heartbeats: too early, or once the user of
\* a client that is finished lets it go.  Started again, it could not join the
\* queue while its participant is in the round.
StopClient(p) ==
    /\ pc[p] # "stopped"
    /\ Fault
    /\ Goto(p, "stopped")
    /\ UNCHANGED <<vars, work, verifier, torn>>

-----------------------------------------------------------------------------
(***************************************************************************)
(* update_dropped_participants: contributors are dropped that send no      *)
(* heartbeat, or that hold a lock for too long.                            *)
(***************************************************************************)
WorksOn(p, c) == pc[p] \in {"compute", "upload", "notify"} /\ work[p].chunk = c

\* The client repeats an upload or a notice that the coordinator refuses.
Repeats(p) ==
    \/ pc[p] = "upload" /\ ~CanStoreResponse(p)
    \/ /\ pc[p] = "notify"
       /\ LookupDisposingTask(p, work[p].chunk) = {}
       /\ ~CanAddContribution(p, work[p].chunk)

\* update_participant_lock_drops: a lock whose holder's client does not work on
\* it, or cannot get any further, is held until the timeout.
OverdueLock(p) == \E c \in info[p].locked : WorksOn(p, c) => Repeats(p)

\* update_contributor_seen_drops
NotSeen(p) == pc[p] = "stopped"

\* Mutant: only heartbeats count.
MustDrop_Heartbeats(p) == NotSeen(p)

\* Sooner or later one of the two timeouts is exceeded.
MustDrop(p) == NotSeen(p) \/ OverdueLock(p)

DropOnTimeout(p) ==
    /\ MustDrop(p)
    /\ DropParticipant(p)
    /\ UNCHANGED clients

\* The client works on the chunk, for longer than the coordinator waits.
DropSlow(p) ==
    /\ p \in current
    /\ ~MustDrop(p)
    /\ info[p].locked # {}
    /\ Fault
    /\ DropParticipant(p)
    /\ UNCHANGED <<pc, work, verifier, torn>>

-----------------------------------------------------------------------------
(***************************************************************************)
(* The verifier's client.  Every error ends try_verify, and the client     *)
(* asks for a task again.                                                  *)
(***************************************************************************)
\* get_task
VerifierGetTask(t) ==
    /\ verifier.pc = "ask"
    /\ t \in pending_verification
    /\ verifier' = [Idle EXCEPT !.pc = "challenge", !.task = t]
    /\ UNCHANGED <<vars, pc, work, torn, faults>>

\* Round::get_chunk_locators_for_verifier returns Ok.
HasLocatorsForVerifier(t) ==
    /\ t.id = CurrentContributionId(round.chunks[t.chunk])
    /\ ~GetContribution(round.chunks[t.chunk], t.id).verified
    /\ Exists(files, Response(t.chunk, t.id))

\* What download_challenge_file and download_response_file get.
VerifierChallenge(t) ==
    IF HasLocatorsForVerifier(t) THEN files[Challenge(t.chunk, t.id - 1)] ELSE Absent
VerifierResponse(t) ==
    IF HasLocatorsForVerifier(t) THEN files[Response(t.chunk, t.id)] ELSE Absent

\* process_challenge_file
VerifierDownloadChallenge ==
    LET challenge == VerifierChallenge(verifier.task)
    IN  /\ verifier.pc = "challenge"
        /\ verifier' = IF challenge.state = "written"
                       THEN [verifier EXCEPT !.pc = "response", !.challenge = challenge.chain]
                       ELSE Idle
        /\ UNCHANGED <<vars, pc, work, torn, faults>>

\* transform_pok_and_correctness does not panic: the response was computed from
\* the challenge.
IsCorrect(challenge, response) ==
    \E p \in Participants : response = Contribute(challenge, p)

\* process_response_file and run_verification; after a panic the verifier is
\* started again.
VerifierVerify ==
    LET response == VerifierResponse(verifier.task)
    IN  /\ verifier.pc = "response"
        /\ verifier' = IF response.state = "written" /\ IsCorrect(verifier.challenge, response.chain)
                       THEN [verifier EXCEPT !.pc = "upload", !.response = response.chain]
                       ELSE Idle
        /\ UNCHANGED <<vars, pc, work, torn, faults>>

\* The next challenge with the hash of the response it comes from, and the
\* signature of both.
SignedNextChallenge == Written(verifier.response)

\* initialize_verifier_response_files makes the two files, the challenge first,
\* and refuses one that exists.
InitializeVerifierResponseFiles(challenge, signature) ==
    IF Exists(files, challenge) THEN files
    ELSE IF Exists(files, signature) THEN WithFiles(files, {challenge}, Blank)
    ELSE WithFiles(files, {challenge, signature}, Blank)

\* The upload of the next challenge: the server initializes the files and
\* writes them.
VerifierUpload ==
    LET t == verifier.task
        final == OnlyContributionsComplete(round.chunks[t.chunk], Expected)
        challenge == NextChallenge(t.chunk, t.id, final)
        signature == NextSignature(t.chunk, t.id, final)
        made == InitializeVerifierResponseFiles(challenge, signature)
        free == ~Exists(files, challenge) /\ ~Exists(files, signature)
    IN  /\ verifier.pc = "upload"
        /\ IF HasLocatorsForVerifier(t)
           THEN files' = IF free
                         THEN WithFiles(made, {challenge, signature}, SignedNextChallenge)
                         ELSE made
           ELSE UNCHANGED files
        /\ verifier' = IF HasLocatorsForVerifier(t) /\ free
                       THEN [verifier EXCEPT !.pc = "submit"] ELSE Idle
        /\ UNCHANGED <<state, round, drops, rollbacks, pc, work, torn, faults>>

\* The server has the coordinator apply the verification.
VerifierSubmit ==
    /\ verifier.pc = "submit"
    /\ IF IsCurrentRoundFinished THEN UNCHANGED vars ELSE TryVerify(verifier.task)
    /\ verifier' = Idle
    /\ UNCHANGED <<pc, work, torn, faults>>

\* A request or a step on the verifier's machine fails.
VerifierFails ==
    /\ verifier.pc \in {"challenge", "response", "upload"}
    /\ Fault
    /\ verifier' = Idle
    /\ UNCHANGED <<vars, pc, work, torn>>

-----------------------------------------------------------------------------
(***************************************************************************)
(* The coordinator dies in an operation, between two of its writes, and    *)
(* starts again with the state that was saved last.                        *)
(***************************************************************************)
DieBetweenWrites ==
    /\ Fault
    /\ torn' = TRUE
    /\ UNCHANGED <<state, drops, rollbacks>>

\* try_lock initializes the files, writes the round and then the state.
LockCut(p) ==
    LET t == Head(info[p].assigned)
    IN  /\ pc[p] = "lock"
        /\ CanFetchTask(p) /\ CanLock(p, t)
        /\ files' = LockedFiles(round, files, t.chunk)
        /\ round' \in {round, LockChunk(round, t.chunk, p)}
        /\ DieBetweenWrites
        /\ Goto(p, "poll")
        /\ UNCHANGED <<work, verifier>>

\* try_contribute writes the round and then the state.
ContributeCut(p) ==
    LET c == work[p].chunk
    IN  /\ pc[p] = "notify"
        /\ p \in current /\ c \in info[p].locked
        /\ LookupDisposingTask(p, c) = {} /\ Cardinality(LookupPendingTask(p, c)) = 1
        /\ CanAddContribution(p, c)
        /\ RecordContribution(p, c)
        /\ DieBetweenWrites
        /\ UNCHANGED <<files, pc, work, verifier>>

\* try_verify writes the round and then the state.
VerifyCut ==
    /\ verifier.pc = "submit"
    /\ ~IsCurrentRoundFinished
    /\ CanVerifyContribution(verifier.task)
    /\ RecordVerification(verifier.task)
    /\ DieBetweenWrites
    /\ verifier' = Idle
    /\ UNCHANGED <<files, pc, work>>

-----------------------------------------------------------------------------
\* Coordinator::contribute, for a contributor of the coordinator's.
CoordinatorContribute(r) ==
    /\ \/ TryLock(r)
       \/ \E c \in Chunks : RunComputation(r, c) \/ TryContribute(r, c)
    /\ UNCHANGED clients

CoordinatorUpdate == UpdateCurrentContributors /\ UNCHANGED clients

ClientsNext ==
    \/ \E p \in Contributors :
         \/ PollStatus(p) \/ ReadCeremony(p) \/ RequestLock(p) \/ LockAnswerLost(p)
         \/ ComputeContribution(p) \/ RunFails(p) \/ UploadResponse(p)
         \/ NotifyContribution(p) \/ StopClient(p)
         \/ DropOnTimeout(p) \/ DropSlow(p)
         \/ LockCut(p) \/ ContributeCut(p)
    \/ \E t \in AllTasks : VerifierGetTask(t)
    \/ VerifierDownloadChallenge \/ VerifierVerify \/ VerifierUpload
    \/ VerifierSubmit \/ VerifierFails \/ VerifyCut
    \/ \E r \in Range(CoordinatorContributors) : CoordinatorContribute(r)
    \/ CoordinatorUpdate

ClientsSpec == ClientsInit /\ [][ClientsNext]_allvars

ContributorStep(p) ==
    \/ PollStatus(p) \/ ReadCeremony(p) \/ RequestLock(p)
    \/ ComputeContribution(p) \/ UploadResponse(p) \/ NotifyContribution(p)

VerifierStep ==
    VerifierDownloadChallenge \/ VerifierVerify \/ VerifierUpload \/ VerifierSubmit

\* The clients loop until they are finished or stopped, update() runs in a loop,
\* and every pending verification is given to the verifier again and again.
ClientsFairness ==
    /\ \A p \in Contributors :
         WF_allvars(ContributorStep(p)) /\ WF_allvars(DropOnTimeout(p))
    /\ \A t \in AllTasks : SF_allvars(VerifierGetTask(t))
    /\ WF_allvars(VerifierStep)
    /\ WF_allvars(CoordinatorUpdate)
    /\ \A r \in Range(CoordinatorContributors) : WF_allvars(CoordinatorContribute(r))

FairClientsSpec == ClientsSpec /\ ClientsFairness

-----------------------------------------------------------------------------
(***************************************************************************)
(* Properties.                                                             *)
(***************************************************************************)
\* The client repeats a notice that the coordinator has acted on: the lock is
\* given back, or at least the contribution is on record.
LostNotice(p) ==
    /\ pc[p] = "notify"
    /\ LET t == Task(work[p].chunk, work[p].id)
       IN  t.chunk \notin info[p].locked \/ (IsRecorded(t) /\ Chain(t.chunk)[t.id] = p)

\* The client has finished while the coordinator has work left for it.
LeftWork(p) == pc[p] = "finished" /\ p \in current /\ ~CanFinish(info[p])

\* A file of a refused verification is in the way of the next one.
Obstructed(t) ==
    /\ verifier.pc # "submit"
    /\ IsRecorded(t) /\ ~IsRecordedVerified(t)
    /\ Exists(files, NextSignature(t.chunk, t.id, t.id + 1 = Expected))

\* The challenge of a verified contribution was removed with a lock.
MissingChallenge(t) ==
    IsRecordedVerified(t) /\ ~Exists(files, NextChallenge(t.chunk, t.id, t.id + 1 = Expected))

\* A verification never counts for another contribution than the one the verifier
\* looked at: while it downloads, checks and uploads, the contribution may be
\* removed with its contributor and another one take its ID, and the challenge
\* the next contributor gets is still the one of the contributions on record.
VerifiedFromRecord ==
    \A t \in AllTasks :
        IsRecordedVerified(t) =>
            \/ MissingChallenge(t)
            \/ files[NextChallenge(t.chunk, t.id, t.id + 1 = Expected)]
                  = Written(SubSeq(Chain(t.chunk), 1, t.id))

\* What can keep a round from its end, each known from the code: see README.
Obstacle ==
    \/ \E p \in Contributors : LostNotice(p) \/ LeftWork(p)
    \/ \E t \in AllTasks : Obstructed(t) \/ MissingChallenge(t)
    \/ ~NoLeftoverFiles
    \/ torn /\ ~(LocksAreKnown /\ VerificationQueue)

\* Whatever request, computation or client fails or is late, and wherever the
\* coordinator dies, the timeouts and the replacements bring the round to its end,
\* complete, and nothing but the obstacles above keeps it from that for ever.
RoundEnds == <>[]((IsCurrentRoundFinished /\ RoundIsComplete(round)) \/ Obstacle)

\* What a client thinks of its locks and what the coordinator does agree.  A client
\* at work on a chunk holds its lock, unless it was dropped or the answer to its
\* notice was lost, or the coordinator died over it; and a lock nobody works on is
\* the trace of a fault, so that only faults make the coordinator wait for a timeout.
LocksMatchClients ==
    \A p \in Contributors, c \in Chunks :
        /\ WorksOn(p, c) => \/ IsChunkLockedBy(round, c, p)
                            \/ p \notin current
                            \/ LostNotice(p) \/ (torn /\ pc[p] = "notify")
        /\ faults = 0 /\ p \in current /\ c \in info[p].locked => WorksOn(p, c)

\* A client that tells its user that the contribution is completed has contributed
\* to every chunk ("You have completed your contribution! Thank you!").
FinishedClientsContributed ==
    \A p \in Contributors :
        pc[p] = "finished" => \A c \in Chunks : HasContributed(round.chunks[c], p)
=============================================================================
