# Verification of the Aleo Setup I coordinator

TLA+ specifications of the trusted-setup ceremony in this repository, the TLC
models that check them and the TLAPS proofs about them. Line numbers are those
of the sources under `src/`.

## The system

A ceremony is a sequence of rounds. In a round every *contributor* adds one
contribution to every *chunk* of the parameters: it locks the chunk, downloads
the challenge, computes a response from it, uploads the response with a
signature and tells the coordinator. A *verifier* checks each response and
produces the next challenge. The *coordinator* (`phase1-coordinator`) assigns
the work, keeps the record of the round in storage, and drops contributors who
disappear: a coordinator contributor replaces the dropped one, or, if there is
none, the round starts again without it. When everyone has finished, the
coordinator aggregates the round and starts the next one from its queue.

| part | state | operations | what is hard | what should hold |
|---|---|---|---|---|
| Tasks (`objects/task.rs`) | none | `initialize_tasks` | wrap-around, sizes that do not divide | every contribution of every chunk belongs to exactly one contributor |
| Work lists (`ParticipantInfo`) | assigned, pending, completed, disposing, disposed tasks; locked chunks | `start`, `pop_task`, `acquired_lock`, `rollback_*`, `completed_task`, `dispose_task`, `finish` | tasks taken back while others are dropped | no chunk is lost or assigned twice |
| Round, chunk, contribution (`objects/`) | lock holder, contributions, verified flags, contributor IDs | lock, add, verify, remove, replace, reset | second copy of the locks and of the completed work | a chain of verified contributions by different contributors |
| Files (`storage/`) | challenge, response and signature files | initialize, write, remove, clear | deleted too early or not at all | files are those of the record |
| Work of a round (`coordinator.rs`) | all of the above | `try_lock`, `try_contribute`, `try_verify`, `rollback_locked_task`, `update`, `drop_participant` | interleavings of contributors, verifiers and drops; early returns between two updates | state and storage agree; the round ends |
| Queue and lifecycle (`coordinator_state.rs`) | queue, precommit, metrics, manual lock, bans, IPs | queue, precommit, commit, rollback, aggregate, ban, reset | partly failed advances | a participant is in one place; heights agree |
| Persistence | what was saved last | `save_state`, `storage.update`, `initialize` | crash between two writes | a restart finds a state it can work from |
| Clients (`setup1-contributor`, `setup1-verifier`) | local files, what was fetched | poll, lock, upload, notify | lost answers, retries, stale views | every accepted lock is used or timed out |
| Storage on disk (`storage/disk.rs`) | files by path | initialize, insert, update, copy, remove, clear | crash within a call; paths as text | a map from locators to objects |
| Phase 1 (`phase1`) | accumulators, round file | initialization, computation, verification, aggregation | batches and chunks at their borders | every element gets its power, errors are caught |
| Phase 2 and tools (`phase2`, `setup2`, `setup-utils`, `phase1-wasm`, ...) | none | group computations, wrappers | | not modelled |

The hazards, each at its line, are listed in `PROJECT.json`.

## Modules

| module | models |
|---|---|
| `Tasks` | `initialize_tasks` in closed form |
| `TaskLoop` | the loop of `initialize_tasks`, one step per iteration |
| `ParticipantInfo` | the work list: each method is `CanX` (its checks) and `X` (its effect) |
| `RoundStore` | the round in storage and the contribution files, as operators on a round record and a function from locators to files |
| `RoundWork` | the work of a round: coordinator state and storage, one action per operation |
| `ChunkChain` | the abstract promise of a round, which `RoundWork` implements |
| `Clients` | the contributors' and the verifier's programs, composed with `RoundWork` |
| `Ceremony` | queue, rounds, aggregation, bans, resets and restarts: the life of the coordinator |
| `Disk` | storage on a file system, one step per file operation |
| `Phase1Layout` | sizes, borders and offsets of chunks, batches and slices |
| `Phase1` | what contributors, verifiers and the aggregation compute, batch by batch |
| `MCRoundWork`, `MCClients`, `MCCeremony`, `MCDisk`, `MCPhase1` | instances for TLC |
| `*Proofs` | theorems about the module of that name (`CeremonyProofs` goes on in `CeremonyQueueProofs`) |

### The work of a round: `RoundWork`, `RoundStore`, `ParticipantInfo`

Every operation of the coordinator runs under a `&mut self` borrow, so it is one
action; the processes interleave between operations. Actions of `RoundWork`:
`TryLock`, `RunComputation`, `TryContribute` (dispose, accept, reject),
`RunVerification`, `TryVerify` (accept, reject), `UpdateCurrentContributors`,
`OperatorRollback`, `DropParticipant` (replace, reset). An operation that
returns an error halfway leaves what it had changed by then: `TryLock` can lock
in storage and fail to record it, `TryContribute` can release the lock in memory
and fail to find the response, a drop can be carried out in the state and
refused by storage.

A file's content is its provenance: the contributors whose contributions it
contains, in order. Hashes are equal exactly when provenances are, and a
signature is the provenance of what it signs. Lists that are only searched and
filtered are sets. The order of a hash map (the buckets handed out at a reset)
is arbitrary. `RunComputation` and `RunVerification` stand for the computation
wherever it runs. Time is left out: a timeout may come at any moment.

### The clients: `Clients`

`Clients` extends `RoundWork` and replaces its free calls by the programs that
make them. A contributor's client (`pc`, `work`) polls its status, reads the
ceremony, asks for a lock, downloads, computes, uploads and notifies; the
verifier's (`verifier`) asks for a task, downloads both files, verifies, uploads
and submits. What a client remembers may be out of date at its next request.
Faults, up to `MaxFaults`: an answer is lost, a step fails and `run()` starts
again, the program stops (also one that has finished, before the round has), the
coordinator's patience ends too early, or the coordinator dies between the write
of the round and that of its state and starts again (`LockCut`, `ContributeCut`,
`VerifyCut`). A timeout applies (`MustDrop`) to a client that has stopped, and
to a lock that its holder does not work on or cannot get any further with,
because its upload or notice is refused again and again. The server between the
clients and the coordinator is not in the repository; a request is taken to call
the operation it is named after.

### The ceremony: `Ceremony`

`update()` saves the state after each of its stages, so each stage is an
action (`stage` is the place reached): queue, current contributors, drops,
drops from the queue, bans, aggregation, advance. Everything else is one
action. The state variables stand for the state file; `stored_height`,
`rounds`, `seats`, `challenges` and `round_files` for the other files. An
operation that writes several files also has actions for the prefixes of its
writes after which the process stops (`InitializeCut`, `DropCut`,
`ResetRoundCut`, `AggregateCut`, `AdvanceCut`) or returns the error of the next
write and goes on (`DropFails`, `ResetRoundCut`, `AggregateFails`,
`AdvanceFails`). The two differ in the state: `next_round` that cannot write the
height has its precommit rolled back and leaves the new round in storage; a drop
that storage refuses or cannot finish stays in the state, a ban included. `torn`
names the operation that was cut, and stays.

A drop replaces each of the dropped by the coordinator contributor with the
least load (`Picks`): any idle one, or, once all are taken, one that is at work,
who then has two seats in the round. Storage refuses to drop somebody with two
seats (`CanReplace`). The aggregation finds the round complete
(`RoundIsComplete`) if everyone on its list has finished, has one seat, and
nothing is missing from the record. The work of a round is reduced to who is
done, whether anything awaits verification and whether an `obstacle` keeps the
round from its end, which a drop with replacement and a repeated verification
may leave (the disagreements below). Only the order in which the members of the
queue joined matters, so times are ranks. `members` is a history variable: who
has joined and neither left nor been through a round.

### Storage: `Disk`

A call of `Disk` checks its preconditions and is then a list of operations on
the file system (`create`, `set_len`, `write`, `get`, `unlink`, `clear`), one
step each. A crash comes between two of them or within a write, and `Disk::load`
runs again; or an operation returns an error, perhaps after a part of the write,
and the call returns it with what it has done (`IoError`). `clear_dir_files`
goes on after an error and reports nothing (`ClearSkips`). Names keep the digits
of their numbers, because `to_locator` parses them and `clear_dir_files`
searches the text. A file is its length and whether its bytes are zeros, those
of an object, or neither. `promised` is a history variable: what the calls that
returned Ok have promised; `cut` holds the locators of files that a fault left
half done, until they are written or removed again.

### Phase 1: `Phase1Layout`, `Phase1`

A group element is the vector of its exponents of tau, alpha and beta, counted
in honest contributors' keys; a pairing check compares differences of vectors.
The loops over batches take one step per batch. Once in a behaviour a
contribution is wrong: one element is a power off or blank, it is computed from
the challenge before, or with another key than the other chunks'. A blank
element that is only read when the response is decompressed may decode or end
the verification there (`DecompressFails`). Not modelled: the group arithmetic
itself, the proofs of knowledge (a key is known to whoever checks it) and hashes
(a challenge is identified by its number).

## Runs

| run | instance | shows |
|---|---|---|
| `task_loop` | every number of chunks up to 9, of contributors, and every bucket | the loop computes the closed form; one contributor per contribution |
| `round_replace` | 2 contributors, 2 chunks, 1 replacement, 2 locks each, failing contributions, repeated verifications, 2 drops, 1 operator rollback | state and storage agree, drops can be carried out, refinement of `ChunkChain` |
| `round_reset` | 3 contributors, 3 chunks, no replacement, 2 drops | a restarted round is clean; a finished round is complete; refinement |
| `round_live` | 2 contributors, 3 chunks, no replacement, 2 drops | the round ends |
| `round_leftover`, `round_challenge`, `round_finished` | 2 contributors, 2 chunks, 1 replacement, 1 lock each, 1 drop | the first three disagreements below |
| `clients` | 2 contributors, 1 verifier, 2 chunks, 2 replacements, 1 fault, up to 2 drops | verifications count for what was verified, locks and clients agree, the round ends |
| `client_finish` | the same without faults | the fourth disagreement |
| `ceremony` | 2 contributors, rounds up to 2; deployments with rounds of one, with rounds of up to two, and with rounds of up to two and a coordinator contributor; 2 faults | heights, files, team and queue agree; nobody is lost or overtaken; everyone is served |
| `disk` | rounds 9 and 10, contributions 0 and 10 with a signature, the round height 9 or 10, at most 5 files at once, 1 crash or error | storage is a map; a failed call touches no file but its own; paths are parsed back |
| `phase1` | 37 settings: Groth16 with 2, 4 and 8 powers, Marlin with 4 and 16; chunks and batches that end before, at and behind each other's borders; 2 contributions | bounds, layout, the powers computed, acceptance and rejection |

Bounds. Two contributors and two chunks already give a contributor that works on
top of another one's contribution, one that is ahead, one that is behind and one
that has finished; three contributors add a contribution in the middle of a
chain. A lock limit of 2 lets a contributor hold one lock while it waits for
another. Two drops with one replacement let it take over idle, at work and
finished, and take a second place; two without leave a round that starts again
and one that is rolled back. In `ceremony` two rounds give a round to roll back
to, two faults a failure while an earlier one is being recovered from, and
rounds of two with a coordinator contributor a replacement beside somebody who
has worked on the round, and two drops at once. Interventions of the operator
that can be repeated for ever (drop, ban, unban, reset, setting the manual lock)
count as faults. In `disk` the numbers 9 and 10 differ in length, and
contribution 10 contains a 0; five files are the coordinator state and all that
clearing a round meets. In `phase1` two contributions give an outdated
challenge; Marlin with 16 powers and batches of 15 is what the tests of `phase1`
use. The contributors are symmetric: `Init` lets them have the buckets and the
places in the round's list in any order; `MCClients` fixes one of them. Symmetry
is not used with liveness.

Deadlock is checked in `disk` and `phase1`. It is not in the others because
they may stop: a round ends, and a coordinator whose initialization was cut
cannot be started.

Fairness. `round_live`: weak fairness of each contributor's, each verifier's and
the coordinator's own steps; clients poll in a loop and `update()` is called
periodically. `clients`: weak fairness of every client's step, of `update()`, of
a drop whose timeout applies and of the coordinator's contributors; strong
fairness of handing out each pending verification: the verifier asks for ever,
and the server, which is outside the repository, is assumed not to pass over a
task for ever. `ceremony`: weak fairness of `update()`, stage after stage, of
the restart of a stopped process and of time; strong fairness of a contributor's
completion and of verification, which are possible between two updates only, and
are called again and again. Nothing is assumed of them once an obstacle is left
in the round: that the work gets done without one is what `RoundEnds` shows.
Faults, drops, rollbacks and operators' commands are never fair.

## What the runs show

Work of a round. In `round_replace`: `ChunkIntegrity`, `LocksAreHeld`,
`CompletedIsRecorded`, `VerificationQueue`, `OneTaskPerChunk`,
`ResponsesOnRecord` (a response computed from a dropped contribution is never
accepted), `DropSucceeds`, `TeamIntact`, and `ImplementsChunkChain`. In
`round_reset`, where the round starts again: `LocksAreKnown`,
`ChallengesOnRecord`, `FinishedIsComplete`, `NoLeftoverFiles`. In `round_live`:
`RoundCompletes`.

Clients. A verification that took long never counts for a contribution that has
taken the ID of the one verified (`VerifiedFromRecord`): the challenge hash
protects it. A client at work holds its lock, unless the answer to its notice
was lost or the coordinator died over it, and without faults no lock is
forgotten (`LocksMatchClients`). After any one fault the round ends complete, or
one of these obstacles stays for ever (`RoundEnds`):

- `LostNotice`: the coordinator has acted on the notice, the answer was lost, and
  the client sends it again for ever (`contribute.rs:319`);
- `LeftWork`: the client has finished too early (`client_finish`);
- `Obstructed`: a signature or challenge of a refused verification is in the
  way of the next upload (`objects/round.rs:654`);
- `MissingChallenge`, `~NoLeftoverFiles`: the disagreements below;
- the coordinator died between the round and the state: a lock only storage
  knows never times out, a contribution only storage knows is not queued for
  verification, a verified one stays pending.

Ceremony. `TypeOK`, `BannedNeverWork`, `NobodyLost` and `FirstComeFirstServed`
hold through every fault. `StorageAgrees`, `AggregatedHasFile` and
`TeamOnRecord` hold until an operation is stopped between two of its writes, by a
crash or by an error of storage, or storage refuses a drop (`torn`): then heights,
rounds or teams can differ, `update()` fails from then on (`AggregateRefused`,
`AdvanceFails`, `StayInRound`), and an operator has to repair the files. One such
case needs no crash: when `next_round` has inserted the new round and cannot
update the height, only the state is rolled back, and every later advance finds
the round in its way. `EveryoneServed` has more exceptions: the manual lock; a
coordinator contributor that replaced two contributors and has two seats in the
round (`coordinator_state.rs:2435`), so that the round expects a contribution
nobody may make; an obstacle left by a drop with replacement or a repeated
verification; and the bound on heights.

Storage. `StoreAgrees`, `FailureStaysLocal`, `FoundAgain` hold. A crash or an
error within `update` leaves a file that is neither old nor new, or the height 1
of the height 10; `StoreAgrees` says that no other file is touched. A call that
fails to fetch, create or remove has changed nothing; one that fails later
leaves its own file half done, and `initialize`, `insert` and `copy` refuse that
file from then on (`StorageLocatorAlreadyExists`).

Phase 1. `InBounds`, `FileLayout`, `PowersComputed`, `HonestAccepted` and
`MiscomputationCaught` hold. The last leaves out the elements for Marlin's first
degree bound: their power of tau is one beyond the last, so no batch of
`aggregate_verification` reaches them (`verification.rs:527`).

### Disagreements

- `NoLeftoverFiles` (`coordinator.rs:1035`): with a replacement, the signature
  file of a disposed task stays.
- `ChallengesOnRecord` (`objects/round.rs:925`): dropping a lock holder deletes
  the verified challenge it was working from. A verification that is submitted
  again after it was accepted also deletes the challenge
  (`coordinator.rs:1189`); `round_reset` does not repeat verifications.
- `FinishedIsComplete` (`coordinator_state.rs:2217`): contributors who have
  finished are not given the work again that a drop takes from them.
- `FinishedClientsContributed` (`contribute.rs:206`): a client takes a chunk
  with an unverified contribution for one on which it has nothing left to do.

`LocksAreKnown` is checked in `round_reset` only: with a replacement and failing
contributions, a contributor that submits again after its response was deleted
can end the disposal between releasing the lock in memory and in storage.
`RoundCompletes` is checked without replacement, because of the disagreements
above; `RoundEnds` names them. `CompletedIsRecorded` and `TeamIntact` make room
for the replacement that is called on a second time: it has two places on the
round's list, and its new work list forgets what it had already done.

### Read in the code, part of the models

- A ban of a participant in the queue removes it from there, returns an error
  and does not ban it; lifting a ban is undone by the next `update()` when the
  drops are still counted. A participant of the current round that has joined
  the queue again is dropped from the queue only.
- A reset forgets the manual lock; one that rolls back also forgets the drops.
- A rollback of the next round puts its contributors back as the last ones of
  the queue. phase1-coordinator/README.md:28 says that they "are returned to
  the queue".
- `Disk::update` is not atomic, and `flush` does not reach the disk although
  the comment says "Sync all in-memory data to disk." (`disk.rs:250`).
- `Disk::copy` refuses an existing destination; a comment in
  `commands/initialization.rs:60` expects it to overwrite.

## What is proved

All theorems are `Spec => []P` (for `FirstComeFirstServed` an action property)
for every value of the constants, from the named assumptions of the modules.

- `RoundWorkProofs`: `ChunkIntegrityHolds` and `RoundIsTyped`, for all sets of
  contributors, replacements, chunks, lock limits and bounds. The inductive
  invariant is `RoundInv == RoundTypeOK /\ ChunkIntegrity`; integrity alone is
  not inductive because counting contributions needs the round's type. It needs
  nothing about the coordinator state: the checks of `Round` and `Chunk` protect
  the record by themselves, whatever the work lists say. There is one lemma per
  action; the lemmas underneath are about a single chunk.
- `ClientsProofs`: `ClientsKeepChunkIntegrity`. The same invariant survives the
  clients and the crashes between writes, because the lemmas about the effect
  on the record do not mention the state. The only addition is that the
  verifier's task is one of the round's.
- `ChunkChainProofs`: `ChainsOfTheTeamHold`: in the abstract specification
  chains stay within the team and without repetition, and only the last
  contribution may be unverified. The step that needs an argument is a
  replacement, which cuts every chain before the dropped contributor's place.
- `CeremonyProofs`: `StorageAlwaysAgrees`, `AggregatedAlwaysHasFile`,
  `CeremonyTyped`. `StorageInv` adds what a rollback needs: somebody is in a
  round only above round 0 and nobody once it is being aggregated, `update()` runs
  only once the ceremony is initialized, and the round files of all earlier rounds
  are complete.
  `TypeInv` adds that the queue is a function to entries.
- `CeremonyQueueProofs`: `BannedNeverAtWork`, `TeamAlwaysOnRecord`,
  `ServedInOrder`, `NobodyEverLost`. `WorkersOK` says why a round never starts
  with somebody banned: at the stages that aggregate and advance, everyone due
  for a ban is banned already, and those at work are not due. `SeatsOK` says why
  a drop takes nobody off the list who has finished: somebody both finished and at
  work again is a coordinator contributor with two seats, whom storage refuses to
  drop. The theorems hold for any number of coordinator contributors. For the
  order, the assigned rounds follow the joining times whenever the advance is
  reached: if p is before q in the order then its round is not later.
- `DiskProofs`: `FailureAlwaysLocal`. Until a call returns (clearing a round aside,
  which never returns an error) the files differ from those before it at its own
  path only, and not at all while it has still to fetch,
  create or remove: these operations come first in each list.
- `TaskLoopProofs`: `LoopTyped`, `LoopComputesTasks`. `LoopInv` counts the new
  buckets between the start and the index, and says that each task made so far
  is the one of the closed form.
- `Phase1Proofs`: `BatchesInBounds`, `FilesLaidOut`, for all powers, chunk and
  batch sizes. `LayoutInv` says that the next batch starts within its chunk; the
  rest is arithmetic about chunks (every element is in exactly one, by division
  with remainder) and batches. `PowersAssumption` states that 2^power is a number
  of at least 2, since the prover has no exponentiation; TLC evaluates it for
  the settings of the run.

Only model-checked: liveness (`RoundCompletes`, `EveryoneServed`, `RoundEnds`)
and the refinement of `ChunkChain`; of `RoundWork`, what relates the work lists to
the record (`LocksAreHeld`, `CompletedIsRecorded`, `VerificationQueue`,
`OneTaskPerChunk`, `ResponsesOnRecord`, `DropSucceeds`, `TeamIntact` and the
invariants of `round_reset`), which rests on filtering lists;
`OneContributorPerContribution`, which counts over all buckets; `StoreAgrees`,
`FoundAgain`, `VerifiedFromRecord`, `LocksMatchClients`, and the properties of
`Phase1` about the elements. The prover handles neither fairness nor induction
over data.

## Not modelled, and why

- Elliptic-curve arithmetic, proofs of knowledge, signatures and hashes: taken
  to do what they promise. `phase2`, `setup2` and `setup-utils` consist of it;
  they keep no state between calls and nothing in them runs concurrently except
  data-parallel loops over disjoint slices.
- `phase1-wasm` and `phase1-wasm-keys`: the same computation in a browser; the
  scheduling of its web workers is the browser's. `phase1-cli`,
  `setup1-cli-tools`: command-line wrappers; the commands the clients call are
  part of `Clients` and `Phase1`.
- The server between clients and coordinator is not in the repository.
- Clock times: timeouts may apply at any moment in `RoundWork` and `Ceremony`,
  and when the client has stopped, forgotten a lock or is stuck with it in
  `Clients`. Heartbeats only move times.
- IP addresses and reliability scores: they decide which bucket of tasks a
  contributor gets, which `RoundWork` leaves open.
- Formats of JSON, logging, progress display, key files, confirmation by the
  user, environment builders.
- An error, rather than a crash, between the two writes of a lock, a contribution or
  a verification in `Clients`.
- More than one fault in `clients`, and a crash in `Ceremony` within the
  operations that a crash has already cut: the obstacles and `torn` stay, so
  that nothing new would be claimed about those states.
