---------------------------- MODULE ClientsProofs ----------------------------
(***************************************************************************)
(* Proofs about Clients, for all contributors, coordinator contributors,   *)
(* numbers of chunks and faults.  The record of a round depends neither on *)
(* what the clients remember nor on the coordinator state: the checks of   *)
(* Round and Chunk protect it, and a crash that loses the last change of   *)
(* the state does it no harm.                                              *)
(***************************************************************************)
EXTENDS Clients, RoundWorkProofs

\* The verifier's client holds a task of the round once it has one.
VerifierOK ==
    /\ verifier = [pc |-> verifier.pc, task |-> verifier.task,
                   challenge |-> verifier.challenge, response |-> verifier.response]
    /\ verifier.pc # "ask" => verifier.task \in AllTasks

ClientsInv == RoundInv /\ VerifierOK

\* A step of the verifier's client keeps its task or ends try_verify.
LEMMA VerifierStepOK ==
    ASSUME VerifierOK, verifier.pc # "ask",
           \/ verifier' = Idle
           \/ \E step, file : \/ verifier' = [verifier EXCEPT !.pc = step, !.challenge = file]
                              \/ verifier' = [verifier EXCEPT !.pc = step, !.response = file]
                              \/ verifier' = [verifier EXCEPT !.pc = step]
    PROVE  VerifierOK'
<1>1. CASE verifier' = Idle
  BY <1>1 DEF VerifierOK, Idle
<1>2. ASSUME NEW step, NEW file, verifier' = [verifier EXCEPT !.pc = step, !.challenge = file]
      PROVE  VerifierOK'
  <2>1. verifier' = [pc |-> step, task |-> verifier.task,
                     challenge |-> file, response |-> verifier.response]
    BY <1>2 DEF VerifierOK
  <2> QED
    BY <2>1 DEF VerifierOK, AllTasks
<1>3. ASSUME NEW step, NEW file, verifier' = [verifier EXCEPT !.pc = step, !.response = file]
      PROVE  VerifierOK'
  <2>1. verifier' = [pc |-> step, task |-> verifier.task,
                     challenge |-> verifier.challenge, response |-> file]
    BY <1>3 DEF VerifierOK
  <2> QED
    BY <2>1 DEF VerifierOK, AllTasks
<1>4. ASSUME NEW step, verifier' = [verifier EXCEPT !.pc = step] PROVE VerifierOK'
  <2>1. verifier' = [pc |-> step, task |-> verifier.task,
                     challenge |-> verifier.challenge, response |-> verifier.response]
    BY <1>4 DEF VerifierOK
  <2> QED
    BY <2>1 DEF VerifierOK, AllTasks
<1> QED
  BY <1>1, <1>2, <1>3, <1>4

\* Every step of the clients keeps the verifier's task.
LEMMA StepVerifier ==
    ASSUME VerifierOK, [ClientsNext]_allvars
    PROVE  VerifierOK'
<1>1. CASE UNCHANGED verifier
  BY <1>1 DEF VerifierOK, AllTasks
<1>2. ASSUME NEW t \in AllTasks, VerifierGetTask(t) PROVE VerifierOK'
  <2>1. verifier' = [pc |-> "challenge", task |-> t, challenge |-> << >>, response |-> << >>]
    BY <1>2 DEF VerifierGetTask, Idle
  <2> QED
    BY <2>1 DEF VerifierOK, AllTasks
<1>3. CASE VerifierDownloadChallenge
  BY <1>3, VerifierStepOK DEF VerifierDownloadChallenge
<1>4. CASE VerifierVerify
  BY <1>4, VerifierStepOK DEF VerifierVerify
<1>5. CASE VerifierUpload
  BY <1>5, VerifierStepOK DEF VerifierUpload
<1>6. CASE VerifierSubmit \/ VerifierFails \/ VerifyCut
  BY <1>6, VerifierStepOK DEF VerifierSubmit, VerifierFails, VerifyCut
<1>7. ASSUME NEW p \in Contributors,
             \/ PollStatus(p) \/ ReadCeremony(p) \/ RequestLock(p) \/ LockAnswerLost(p)
             \/ ComputeContribution(p) \/ RunFails(p) \/ UploadResponse(p)
             \/ NotifyContribution(p) \/ StopClient(p)
             \/ DropOnTimeout(p) \/ DropSlow(p)
             \/ LockCut(p) \/ ContributeCut(p)
      PROVE  UNCHANGED verifier
  BY <1>7 DEF PollStatus, ReadCeremony, RequestLock, LockAnswerLost, ComputeContribution,
              RunFails, UploadResponse, NotifyContribution, StopClient, DropOnTimeout, DropSlow,
              LockCut, ContributeCut, clients
<1>8. CASE CoordinatorUpdate \/ \E r \in Range(CoordinatorContributors) : CoordinatorContribute(r)
  BY <1>1, <1>8 DEF CoordinatorUpdate, CoordinatorContribute, clients
<1>9. CASE UNCHANGED allvars
  BY <1>1, <1>9 DEF allvars, clients
<1> QED
  BY <1>1, <1>2, <1>3, <1>4, <1>5, <1>6, <1>7, <1>8, <1>9 DEF ClientsNext

\* Every step of the clients, and every crash of the coordinator, keeps the record
\* of the round.
LEMMA StepClientsRound ==
    ASSUME RoundInv, VerifierOK, [ClientsNext]_allvars
    PROVE  RoundInv'
<1>0. Contributors \subseteq Participants /\ Range(CoordinatorContributors) \subseteq Participants
  BY DEF Participants
<1>1. CASE UNCHANGED round
  BY <1>1, RoundUnchanged
<1>2. ASSUME NEW p \in Contributors, LockRequest(p) PROVE RoundInv'
  BY <1>0, <1>1, <1>2, TryLockKeepsRoundInv DEF LockRequest, vars, store
<1>3. ASSUME NEW p \in Contributors, RequestLock(p) \/ LockAnswerLost(p) PROVE RoundInv'
  BY <1>2, <1>3 DEF RequestLock, LockAnswerLost
<1>4. ASSUME NEW p \in Contributors, NotifyContribution(p) PROVE RoundInv'
  BY <1>0, <1>4, TryContributeKeepsRoundInv DEF NotifyContribution, ContributeRequest
<1>5. ASSUME NEW p \in Contributors, DropOnTimeout(p) \/ DropSlow(p) PROVE RoundInv'
  <2>1. DropParticipant(p)
    BY <1>5 DEF DropOnTimeout, DropSlow
  <2> QED
    BY <2>1, ReplaceContributorKeepsRoundInv, ResetCurrentRoundKeepsRoundInv DEF DropParticipant
<1>6. ASSUME NEW p \in Contributors, LockCut(p) PROVE RoundInv'
  BY <1>0, <1>1, <1>6, LockChunkKeepsRoundInv DEF LockCut
<1>7. ASSUME NEW p \in Contributors, ContributeCut(p) PROVE RoundInv'
  BY <1>0, <1>7, RecordContributionKeepsRoundInv DEF ContributeCut
<1>8. CASE VerifierSubmit
  <2>1. verifier.task \in AllTasks
    BY <1>8 DEF VerifierSubmit, VerifierOK
  <2>2. UNCHANGED vars \/ TryVerify(verifier.task)
    BY <1>8 DEF VerifierSubmit
  <2> QED
    BY <1>1, <2>1, <2>2, TryVerifyKeepsRoundInv DEF vars, store
<1>9. CASE VerifyCut
  <2>1. verifier.task \in AllTasks
    BY <1>9 DEF VerifyCut, VerifierOK
  <2> QED
    BY <1>9, <2>1, RecordVerificationKeepsRoundInv DEF VerifyCut
<1>10. ASSUME NEW r \in Range(CoordinatorContributors), CoordinatorContribute(r) PROVE RoundInv'
  <2>1. ASSUME NEW c \in Chunks, RunComputation(r, c) PROVE UNCHANGED round
    BY <2>1 DEF RunComputation
  <2> QED
    BY <1>0, <1>1, <1>10, <2>1, TryLockKeepsRoundInv, TryContributeKeepsRoundInv
       DEF CoordinatorContribute
<1>11. ASSUME NEW p \in Contributors,
              \/ PollStatus(p) \/ ReadCeremony(p) \/ ComputeContribution(p) \/ RunFails(p)
              \/ UploadResponse(p) \/ StopClient(p)
       PROVE  UNCHANGED round
  BY <1>11 DEF PollStatus, ReadCeremony, ComputeContribution, RunFails, UploadResponse,
               StoreResponse, StopClient, vars, store
<1>12. CASE \/ \E t \in AllTasks : VerifierGetTask(t)
            \/ VerifierDownloadChallenge \/ VerifierVerify \/ VerifierUpload \/ VerifierFails
            \/ CoordinatorUpdate \/ UNCHANGED allvars
  BY <1>1, <1>12 DEF VerifierGetTask, VerifierDownloadChallenge, VerifierVerify, VerifierUpload,
                     VerifierFails, CoordinatorUpdate, UpdateCurrentContributors, allvars, vars, store
<1> QED
  BY <1>1, <1>3, <1>4, <1>5, <1>6, <1>7, <1>8, <1>9, <1>10, <1>11, <1>12 DEF ClientsNext

\* Whatever the clients of contributors and verifiers do with answers lost, late or
\* outdated, whoever is dropped, and wherever the coordinator dies between two
\* writes of try_lock, try_contribute and try_verify, every chunk of the round in
\* storage keeps its shape.
THEOREM ClientsKeepChunkIntegrity == ClientsSpec => []ChunkIntegrity
<1>1. ClientsInit => ClientsInv
  BY InitRoundInv DEF ClientsInit, ClientsInv, VerifierOK, Idle
<1>2. ClientsInv /\ [ClientsNext]_allvars => ClientsInv'
  BY StepVerifier, StepClientsRound DEF ClientsInv
<1>3. ClientsInv => ChunkIntegrity
  BY DEF ClientsInv, RoundInv
<1> QED
  BY <1>1, <1>2, <1>3, PTL DEF ClientsSpec
=============================================================================
