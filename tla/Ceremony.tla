------------------------------ MODULE Ceremony ------------------------------
(***************************************************************************)
(* The life of a ceremony: contributors queue, rounds are committed,       *)
(* worked on, aggregated, reset and rolled back, participants are dropped  *)
(* and banned, and the process may stop at any write and start again       *)
(* (phase1-coordinator/src/coordinator.rs and coordinator_state.rs).       *)
(*                                                                         *)
(* Coordinator::update saves the coordinator state after each of its       *)
(* stages, so the stages are actions of their own, with a variable for the *)
(* place reached; every other operation is one action and runs between two *)
(* updates.  The state variables stand for what the state file holds,      *)
(* which between operations is also what the process holds.  An operation  *)
(* that writes several files has, besides the action that completes it,    *)
(* actions for the prefixes of its writes after which the process dies, or *)
(* goes on with the error of the next write: they leave "torn" naming the  *)
(* operation.  The work inside a round, in detail in RoundWork, is reduced *)
(* to who is done, whether anything awaits verification and whether        *)
(* something stands in the way of the rest.                                *)
(***************************************************************************)
EXTENDS Integers, FiniteSets, Functions

CONSTANTS
    Contributors,   \* those who may join the queue
    Environments,   \* the deployments considered, see EnvironmentType
    MaxHeight,      \* bound: no round above this one
    MaxFaults       \* bound: crashes, failures, time-outs and interventions

Replacements == UNION {e.replacement : e \in Environments}
Participants == Contributors \cup Replacements

\* environment.rs; the coordinator contributors may be any number, also none.
EnvironmentType ==
    [minimum : Nat, maximum : Nat \ {0}, ban_threshold : Nat,
     allow_current_in_queue : BOOLEAN, replacement : SUBSET Replacements]

ASSUME CeremonyAssumption ==
    /\ Environments \subseteq EnvironmentType
    /\ Contributors \cap Replacements = {}
    /\ IsFiniteSet(Contributors) /\ IsFiniteSet(Replacements)
    /\ MaxHeight \in Nat /\ MaxFaults \in Nat

NotSet == -1    \* None of current_round_height, and no round height file

VARIABLES
    env,            \* the Environment
    status,         \* CoordinatorStatus (Precommit lasts within one action only)
    queue,          \* p |-> assigned round (0 is None) and rank of joined time
    height,         \* current_round_height
    aggregated,     \* current_metrics: "no" | "started" | "done"
    wait,           \* next_round_after: "unset" | "running" | "over"
    current,        \* keys of current_contributors
    done,           \* those of them who completed all their tasks
    pending,        \* pending_verification is not empty
    finished,       \* keys of finished_contributors of this round
    dropped,        \* how often each participant is in the list of the dropped
    banned, manual_lock,
    stored_height,  \* the round height file
    rounds,         \* heights that have a round state file
    seats,          \* the last such round's contributor_ids, as a bag
    challenges,     \* heights whose contribution 0 files exist for all chunks
    round_files,    \* height |-> "absent" | "partial" | "complete"
    obstacle,       \* the record or the files of the round keep it from its end
    stage,          \* where update() is; "idle" between operations, "down"
    torn,           \* the operation that was stopped between two of its writes
    faults,         \* counter for the bound
    members         \* ghost: joined, and neither through nor made to leave

state == <<status, queue, height, aggregated, wait, current, done, pending, finished,
           dropped, banned, manual_lock>>
store == <<stored_height, rounds, seats, challenges, round_files, obstacle>>
vars == <<env, state, store, stage, torn, faults, members>>

Heights == 0..(MaxHeight + 1)
Queued == DOMAIN queue
NoSeats == [p \in Participants |-> 0]

Init ==
    /\ env \in Environments
    /\ status = "Initializing" /\ queue = << >> /\ height = NotSet
    /\ aggregated = "no" /\ wait = "unset"
    /\ current = {} /\ done = {} /\ pending = FALSE /\ finished = {}
    /\ dropped = NoSeats /\ banned = {} /\ manual_lock = FALSE
    /\ stored_height = NotSet /\ rounds = {} /\ seats = NoSeats
    /\ challenges = {} /\ round_files = [h \in Heights |-> "absent"] /\ obstacle = FALSE
    /\ stage = "down" /\ torn = "none" /\ faults = 0 /\ members = {}

Fault == faults < MaxFaults /\ faults' = faults + 1

\* The process stops between two writes of an operation.
CutIn(operation) == Fault /\ stage' = "down" /\ torn' = operation

\* The process stops where the state file is up to date.
Crash ==
    /\ stage # "down"
    /\ Fault
    /\ stage' = "down"
    /\ UNCHANGED <<env, state, store, torn, members>>

-----------------------------------------------------------------------------
(***************************************************************************)
(* Coordinator::new_with_time and initialize.                              *)
(***************************************************************************)
CanInitialize == stored_height = NotSet /\ {0, 1} \cap (rounds \cup challenges) = {}

Initialize ==
    /\ stage = "down"
    /\ CanInitialize
    /\ challenges' = {0, 1} /\ rounds' = {0} /\ stored_height' = 0
    /\ status' = "Initialized" /\ height' = 0
    /\ stage' = "idle"
    /\ UNCHANGED <<env, queue, aggregated, wait, current, done, pending, finished, dropped,
                   banned, manual_lock, seats, round_files, obstacle, torn, faults, members>>

\* Initial challenges, then the round, then its height, then the state.
InitializeCut ==
    /\ stage = "down"
    /\ CanInitialize
    /\ CutIn("initialize")
    /\ \/ challenges' = {0} /\ UNCHANGED <<rounds, stored_height>>
       \/ challenges' = {0, 1} /\ rounds' = {0} /\ stored_height' \in {NotSet, 0}
    /\ UNCHANGED <<env, state, seats, round_files, obstacle, members>>

\* With a round height in storage the state is taken as the file has it.
Restart ==
    /\ stage = "down"
    /\ stored_height # NotSet /\ stored_height \in rounds
    /\ stage' = "idle"
    /\ UNCHANGED <<env, state, store, torn, faults, members>>

-----------------------------------------------------------------------------
(***************************************************************************)
(* The queue.  Only the order of the times at which its members joined     *)
(* matters, so a time is its rank.                                         *)
(***************************************************************************)
Joined(q) == {q[p].joined : p \in DOMAIN q}

Ranked(q) == [p \in DOMAIN q |->
    [q[p] EXCEPT !.joined = Cardinality({j \in Joined(q) : j <= q[p].joined})]]

\* Those in S join now, all at one time, with the given round assigned.
Requeue(q, S, assigned) ==
    LET now == Cardinality(Joined(q)) + 1
    IN  Ranked([p \in DOMAIN q \cup S |->
                    IF p \in S THEN [round |-> assigned, joined |-> now] ELSE q[p]])

Dequeue(q, S) == Ranked([p \in DOMAIN q \ S |-> q[p]])

AddToQueue(p) ==
    /\ stage = "idle"
    /\ p \notin banned \cup Queued
    /\ env.allow_current_in_queue \/ p \notin current
    /\ queue' = Requeue(queue, {p}, 0)
    /\ members' = members \cup {p}
    /\ UNCHANGED <<env, status, height, aggregated, wait, current, done, pending, finished,
                   dropped, banned, manual_lock, store, stage, torn, faults>>

RemoveFromQueue(p) ==
    /\ stage = "idle"
    /\ p \in Queued
    /\ queue' = Dequeue(queue, {p})
    /\ members' = members \ ({p} \ (current \cup finished))
    /\ UNCHANGED <<env, status, height, aggregated, wait, current, done, pending, finished,
                   dropped, banned, manual_lock, store, stage, torn, faults>>

-----------------------------------------------------------------------------
(***************************************************************************)
(* The work of the round: a contributor completes its tasks, the verifiers *)
(* catch up.                                                               *)
(***************************************************************************)
IsCurrentRoundFinished == current = {} /\ ~pending

Contribute(p) ==
    /\ stage = "idle"
    /\ p \in current \ done
    /\ aggregated = "no"
    /\ stored_height \in rounds /\ seats[p] > 0
    /\ done' = done \cup {p}
    /\ pending' = TRUE
    /\ UNCHANGED <<env, status, queue, height, aggregated, wait, current, finished, dropped,
                   banned, manual_lock, store, stage, torn, faults, members>>

Verify ==
    /\ stage = "idle"
    /\ pending
    /\ aggregated = "no"
    /\ stored_height \in rounds
    /\ pending' = FALSE
    \* The last verification of a chunk writes the next round's challenge.
    /\ challenges' = IF current \subseteq done THEN challenges \cup {stored_height + 1}
                                               ELSE challenges
    /\ UNCHANGED <<env, status, queue, height, aggregated, wait, current, done, finished,
                   dropped, banned, manual_lock, stored_height, rounds, seats, round_files,
                   obstacle, stage, torn, faults, members>>

\* A verification that is submitted again is refused, and the challenge made from
\* the verified contribution is removed.
VerifyFails ==
    /\ stage = "idle"
    /\ current \cup finished # {} /\ ~IsCurrentRoundFinished
    /\ aggregated = "no"
    /\ Fault
    /\ challenges' \in {challenges, challenges \ {stored_height + 1}}
    /\ obstacle' = TRUE
    /\ UNCHANGED <<env, state, stored_height, rounds, seats, round_files, stage, torn, members>>

WaitTimeOver ==
    /\ wait = "running"
    /\ wait' = "over"
    /\ UNCHANGED <<env, status, queue, height, aggregated, current, done, pending, finished,
                   dropped, banned, manual_lock, store, stage, torn, faults, members>>
-----------------------------------------------------------------------------
(***************************************************************************)
(* Dropping contributors of the current round, and resetting it.  What a   *)
(* drop or a reset makes of files that were left cut is not followed.      *)
(***************************************************************************)
Left(T) == (current \cup finished) \ T

\* add_replacement_contributor_unsafe, for each of T in turn, chooses a coordinator
\* contributor with the least load: one at work, or a second time the same one,
\* only when all the others are taken.
Picks(T) ==
    LET idle == env.replacement \ (current \ T)
    IN  IF env.replacement = {} THEN {[p \in {} |-> p]}
        ELSE {pick \in [T -> env.replacement] :
                \/ idle \subseteq Range(pick)
                \/ Range(pick) \subseteq idle \cup done /\ IsInjective(pick)}

\* drop_participant with a coordinator contributor to take over; dropping the
\* contributions of T may take those of others along.
ReplaceState(T, pick) ==
    /\ current' = (current \ T) \cup Range(pick)
    /\ \E undone \in SUBSET done : done' = done \ (undone \cup T \cup Range(pick))
    /\ dropped' = [p \in Participants |-> IF p \in T THEN dropped[p] + 1 ELSE dropped[p]]
    /\ UNCHANGED <<status, height, aggregated, wait, pending, finished, manual_lock>>

\* Mutant: the dropped contributors stay on the list.
ReplacedSeats_Kept(T, pick) ==
    [p \in Participants |-> seats[p] + Cardinality({t \in T : pick[t] = p})]

\* Each drop pushes the replacement once more onto contributor_ids.
ReplacedSeats(T, pick) ==
    [p \in Participants |->
        (IF p \in T THEN 0 ELSE seats[p]) + Cardinality({t \in T : pick[t] = p})]

\* The files are removed first and the round is written at the end.  With the
\* contributions go the challenges made from them.  Where somebody else has worked
\* on the round, a drop may leave files in the way of a new lock, remove the
\* challenge of a contribution that stays, or take contributions off the record
\* whose contributor is finished.
ReplaceStorage(T, pick, writes) ==
    /\ IF writes > 0
       THEN /\ challenges' \in {challenges, challenges \ {stored_height + 1}}
            /\ obstacle' \in {obstacle, obstacle \/ Cardinality(Left({})) > 1}
       ELSE UNCHANGED <<challenges, obstacle>>
    /\ seats' = IF writes > 1 THEN ReplacedSeats(T, pick) ELSE seats
    /\ UNCHANGED <<stored_height, rounds, round_files>>

\* reset_current_round without and with a rollback to the previous round.
RestartState(T) ==
    /\ current' = Left(T)
    /\ dropped' = [p \in Participants |-> IF p \in T THEN dropped[p] + 1 ELSE dropped[p]]
    /\ height' = height
    /\ aggregated' = "no" /\ wait' = "unset"

RollbackState ==
    /\ current' = {}
    /\ dropped' = NoSeats
    /\ height' = height - 1
    /\ aggregated' = "done" /\ wait' = "running"

ResetState(T) ==
    /\ IF Left(T) = {} THEN RollbackState ELSE RestartState(T)
    /\ status' = "Initialized" /\ done' = {} /\ pending' = FALSE /\ finished' = {}
    /\ manual_lock' = FALSE

\* Mutant: the round that is rolled back to loses its round file.
ClearRoundFiles_Previous(h) == [round_files EXCEPT ![h] = "absent", ![h - 1] = "absent"]

ClearRoundFiles(h) == [round_files EXCEPT ![h] = "absent"]

\* Mutant: a rollback leaves the round height file as it is.
HeightRolledBack_Not == stored_height

HeightRolledBack == stored_height - 1

\* reset_round_storage, stopped after some of its four writes: the round, the
\* directories of this round and the next, the round state file, the height.
ResetStorage(T, rollback, writes) ==
    /\ seats' = IF writes > 0 THEN [p \in Participants |-> IF p \in T THEN 0 ELSE seats[p]]
                              ELSE seats
    /\ challenges' = IF writes > 1 THEN challenges \ {stored_height + 1} ELSE challenges
    /\ round_files' = IF writes > 1 THEN ClearRoundFiles(stored_height) ELSE round_files
    /\ obstacle' = IF writes > 1 THEN FALSE ELSE obstacle
    /\ rounds' = IF rollback /\ writes > 2 THEN rounds \ {stored_height} ELSE rounds
    /\ stored_height' = IF rollback /\ writes > 3 THEN HeightRolledBack ELSE stored_height

DropState(T, pick) == IF env.replacement = {} THEN ResetState(T) ELSE ReplaceState(T, pick)

DropStorage(T, pick, writes) ==
    IF env.replacement = {} THEN ResetStorage(T, Left(T) = {}, writes)
    ELSE ReplaceStorage(T, pick, writes)

\* The number of writes of which each may be the last.
Writes(T) == IF env.replacement = {} /\ Left(T) = {} THEN 4 ELSE 2

\* remove_chunk_contributions_unsafe refuses one whose ID is not exactly once on
\* the list of the round.
CanReplace(T) == env.replacement # {} => \A p \in T : seats[p] = 1

Drop(T) ==
    /\ CanReplace(T)
    /\ \E pick \in Picks(T) : DropState(T, pick) /\ DropStorage(T, pick, Writes(T))

\* drop_participant and drop_participant_from_storage: whoever is in the queue is
\* only taken from there.
DropOne(p) ==
    IF p \in Queued
    THEN /\ queue' = Dequeue(queue, {p})
         /\ members' = members \ ({p} \ (current \cup finished))
         /\ UNCHANGED <<status, height, aggregated, wait, current, done, pending, finished,
                        dropped, manual_lock, store>>
    ELSE /\ p \in current
         /\ Drop({p})
         /\ members' = members \ {p}
         /\ UNCHANGED queue

DropParticipant(p) ==
    /\ stage = "idle" /\ torn = "none"
    /\ Fault
    /\ DropOne(p)
    /\ UNCHANGED <<env, banned, stage, torn>>

\* ban_participant: one who is in the queue is dropped from it but not banned.
BanParticipant(p) ==
    /\ stage = "idle" /\ torn = "none"
    /\ p \notin banned
    /\ Fault
    /\ DropOne(p)
    /\ banned' = IF p \in Queued THEN banned ELSE banned \cup {p}
    /\ UNCHANGED <<env, stage, torn>>

\* Those whom an operation is about to drop from the round: one by name, or in an
\* update all who are late.
ToDrop(T) ==
    /\ stage \in {"idle", "drops"} /\ torn = "none"
    /\ T \subseteq current \ Queued /\ T # {}
    /\ stage = "idle" => Cardinality(T) = 1
    /\ stage = "drops" => T \cap env.replacement = {}

\* Storage is written, for one after the other, before the state is saved.
DropCut(T) ==
    /\ ToDrop(T)
    /\ CanReplace(T)
    /\ CutIn("drop")
    /\ \E pick \in Picks(T), writes \in 1..Writes(T) : DropStorage(T, pick, writes)
    /\ UNCHANGED <<env, state, members>>

\* Storage refuses or fails, at one of its writes for one of them; the state has
\* changed, a ban included, and the operation returns the error.
DropFails(T) ==
    /\ ToDrop(T)
    /\ Fault
    /\ \E pick \in Picks(T) :
         /\ DropState(T, pick)
         /\ \/ UNCHANGED store
            \/ \E S \in SUBSET T \ {{}} : \E writes \in 1..Writes(S) :
                 /\ S = T => writes < Writes(S)
                 /\ CanReplace(S) /\ DropStorage(S, pick, writes)
    /\ members' = members \ T
    /\ banned' \in {banned} \cup (IF stage = "idle" THEN {banned \cup T} ELSE {})
    /\ stage' = "idle" /\ torn' = "drop"
    /\ UNCHANGED <<env, queue>>

UnbanParticipant(p) ==
    /\ stage = "idle"
    /\ p \in banned
    /\ Fault
    /\ banned' = banned \ {p}
    /\ UNCHANGED <<env, status, queue, height, aggregated, wait, current, done, pending, finished,
                   dropped, manual_lock, store, stage, torn, members>>

SetManualLock ==
    /\ stage = "idle"
    /\ manual_lock' = ~manual_lock
    /\ IF manual_lock THEN UNCHANGED faults ELSE Fault
    /\ UNCHANGED <<env, status, queue, height, aggregated, wait, current, done, pending, finished,
                   dropped, banned, store, stage, torn, members>>

\* Coordinator::reset_round: a forced rollback, saved before storage follows.
ResetRound(writes) ==
    /\ height > 0
    /\ queue' = Requeue(queue, Left({}), height)
    /\ RollbackState
    /\ status' = "Initialized" /\ done' = {} /\ pending' = FALSE /\ finished' = {}
    /\ manual_lock' = FALSE
    /\ ResetStorage(Left({}), TRUE, writes)
    /\ UNCHANGED <<env, banned, members>>

ResetRoundDone ==
    /\ stage = "idle" /\ torn = "none"
    /\ Fault
    /\ ResetRound(4)
    /\ UNCHANGED <<stage, torn>>

\* The process dies in the middle, or returns the error of storage.
ResetRoundCut ==
    /\ stage = "idle" /\ torn = "none"
    /\ Fault
    /\ \E writes \in 0..3 : ResetRound(writes)
    /\ stage' \in {"idle", "down"} /\ torn' = "reset"
-----------------------------------------------------------------------------
(***************************************************************************)
(* Coordinator::update, stage by stage.                                    *)
(***************************************************************************)
\* Mutant: the members of the queue are not sorted.
Orders_Unsorted(S) ==
    {order \in [S -> 1..Cardinality(S)] : \A p, q \in S : order[p] = order[q] => p = q}

\* An order in which sorting by joined time may leave the members of the queue:
\* those who joined at one time come in any order.
Orders(S) ==
    {order \in [S -> 1..Cardinality(S)] :
        \A p, q \in S : /\ order[p] = order[q] => p = q
                        /\ queue[p].joined < queue[q].joined => order[p] < order[q]}

\* Mutant: the first of the queue already belong to the round after the next.
AssignedRound_OffByOne(place) == height + 1 + place \div env.maximum

\* Chunks of the maximum number of contributors, from the next round on.
AssignedRound(place) == height + 1 + (place - 1) \div env.maximum

UpdateQueue ==
    /\ stage = "idle"
    /\ height # NotSet
    /\ \E order \in Orders(Queued \ banned) :
         queue' = Ranked([p \in Queued \ banned |->
                            [queue[p] EXCEPT !.round = AssignedRound(order[p])]])
    /\ members' = members \ (banned \ (current \cup finished))
    /\ stage' = "contributors"
    /\ UNCHANGED <<env, status, height, aggregated, wait, current, done, pending, finished,
                   dropped, banned, manual_lock, store, torn, faults>>

UpdateCurrentContributors ==
    /\ stage = "contributors"
    /\ current' = current \ done
    /\ finished' = finished \cup done
    /\ done' = {}
    /\ stage' = "drops"
    /\ UNCHANGED <<env, status, queue, height, aggregated, wait, pending, dropped, banned,
                   manual_lock, store, torn, faults, members>>

\* Those in late have not been seen in time, or hold a lock for too long: the
\* ones in the queue are taken from there, and dropped from the round as well
\* when both time-outs apply.
UpdateDroppedParticipants ==
    /\ stage = "drops"
    /\ \E late \in SUBSET (current \ env.replacement) : \E gone \in SUBSET late :
         /\ late \ Queued \subseteq gone
         /\ late # {} => torn = "none"
         /\ faults' = faults + Cardinality(late)
         /\ queue' = Dequeue(queue, late)
         /\ members' = members \ gone
         /\ IF gone = {}
            THEN UNCHANGED <<status, height, aggregated, wait, current, done, pending, finished,
                             dropped, manual_lock, store>>
            ELSE Drop(gone)
    /\ faults' <= MaxFaults
    /\ stage' = "queued"
    /\ UNCHANGED <<env, banned, torn>>

UpdateDroppedQueuedParticipants ==
    /\ stage = "queued"
    /\ \E late \in SUBSET Queued :
         /\ faults' = faults + Cardinality(late)
         /\ queue' = Dequeue(queue, late)
         /\ members' = members \ (late \ (current \cup finished))
    /\ faults' <= MaxFaults
    /\ stage' = "banned"
    /\ UNCHANGED <<env, status, height, aggregated, wait, current, done, pending, finished,
                   dropped, banned, manual_lock, store, torn>>

UpdateBannedParticipants ==
    /\ stage = "banned"
    /\ banned' = banned \cup {p \in Participants : dropped[p] > env.ban_threshold}
    /\ stage' = IF IsCurrentRoundFinished /\ aggregated # "done" THEN "aggregate" ELSE "advance"
    /\ UNCHANGED <<env, status, queue, height, aggregated, wait, current, done, pending, finished,
                   dropped, manual_lock, store, torn, faults, members>>
-----------------------------------------------------------------------------
(***************************************************************************)
(* Coordinator::try_aggregate.                                             *)
(***************************************************************************)
\* Round::is_complete, of a round that nobody is at work on any more: those on its
\* list are finished, each is on it once, and all their contributions are there.
RoundIsComplete ==
    /\ {p \in Participants : seats[p] > 0} = finished
    /\ \A p \in Participants : seats[p] <= 1
    /\ ~obstacle

\* aggregate_contributions and Aggregation::run find what they need.
CanAggregate ==
    /\ height \in rounds /\ height + 1 \notin rounds
    /\ height + 1 \in challenges
    /\ RoundIsComplete

Aggregate ==
    /\ stage = "aggregate"
    /\ stored_height = height /\ aggregated = "no"
    /\ IF height = 0 THEN UNCHANGED round_files
       ELSE CanAggregate /\ round_files' = [round_files EXCEPT ![height] = "complete"]
    /\ aggregated' = "done" /\ wait' = "running"
    /\ stage' = "advance"
    /\ UNCHANGED <<env, status, queue, height, current, done, pending, finished, dropped, banned,
                   manual_lock, stored_height, rounds, seats, challenges, obstacle, torn, faults,
                   members>>

\* Mutant: the mark that aggregation has started stays.
RollbackAggregating_Not == "started"

RollbackAggregating == "no"

\* It refuses or fails: an old round file is still there or has been removed, the
\* new one perhaps begun.  The mark that aggregation has started is taken back.
AggregateFails ==
    /\ stage = "aggregate"
    /\ stored_height = height /\ height > 0 /\ aggregated = "no"
    /\ IF CanAggregate THEN Fault ELSE UNCHANGED faults
    /\ \E left \in {round_files[height], "absent", "partial"} :
         round_files' = [round_files EXCEPT ![height] = left]
    /\ aggregated' = RollbackAggregating
    /\ stage' = "idle"
    /\ UNCHANGED <<env, status, queue, height, wait, current, done, pending, finished, dropped,
                   banned, manual_lock, stored_height, rounds, seats, challenges, obstacle, torn,
                   members>>

\* The process stops while the round file is written or before the state is saved.
AggregateCut ==
    /\ stage = "aggregate"
    /\ stored_height = height /\ height > 0 /\ aggregated = "no" /\ CanAggregate
    /\ Fault
    /\ \E left \in {"absent", "partial", "complete"} :
         round_files' = [round_files EXCEPT ![height] = left]
    /\ stage' = "down"
    /\ UNCHANGED <<env, state, stored_height, rounds, seats, challenges, obstacle, torn, members>>

\* The heights differ, or aggregation is marked as started: update() fails.
AggregateRefused ==
    /\ stage = "aggregate"
    /\ stored_height # height \/ aggregated # "no"
    /\ stage' = "idle"
    /\ UNCHANGED <<env, state, store, torn, faults, members>>

-----------------------------------------------------------------------------
(***************************************************************************)
(* Coordinator::try_advance: precommit_next_round, next_round, and then    *)
(* commit_next_round or rollback_next_round.                               *)
(***************************************************************************)
Assigned == {p \in Queued : queue[p].round = height + 1}

IsPrecommitNextRoundReady ==
    /\ status # "Initializing"
    /\ height > 0 => aggregated = "done"
    /\ wait = "over"
    /\ Cardinality(Assigned) \in env.minimum..env.maximum
    /\ Queued # {}

MayAdvance ==
    /\ stage = "advance"
    /\ ~manual_lock
    /\ IsCurrentRoundFinished /\ aggregated = "done" /\ IsPrecommitNextRoundReady
    /\ height < MaxHeight

\* Mutant: banned contributors are not looked for.
CanPrecommit_Banned == stored_height = height

CanPrecommit == stored_height = height /\ Assigned \cap banned = {}

\* next_round finds what it needs.
CanAddRound ==
    /\ Assigned # {}
    /\ stored_height > 0 => round_files[stored_height] # "absent"
    /\ stored_height + 1 \notin rounds
    /\ stored_height + 1 \in challenges

\* The first write of next_round.
WriteNextRound ==
    /\ rounds' = rounds \cup {height + 1}
    /\ seats' = [p \in Participants |-> IF p \in Assigned THEN 1 ELSE 0]
    /\ obstacle' = FALSE
    /\ UNCHANGED <<challenges, round_files>>

Advance ==
    /\ MayAdvance /\ CanPrecommit /\ CanAddRound
    /\ WriteNextRound
    /\ stored_height' = height + 1
    /\ status' = "Commit"
    /\ height' = height + 1
    /\ queue' = Dequeue(queue, Assigned)
    /\ current' = Assigned
    /\ finished' = {} /\ aggregated' = "no" /\ wait' = "unset"
    /\ members' = members \cap Queued
    /\ stage' = "idle"
    /\ UNCHANGED <<env, done, pending, dropped, banned, manual_lock, torn, faults>>

\* The round is written, then its height, then the state.
AdvanceCut ==
    /\ MayAdvance /\ CanPrecommit /\ CanAddRound
    /\ CutIn("advance")
    /\ WriteNextRound
    /\ stored_height' \in {height, height + 1}
    /\ UNCHANGED <<env, state, members>>

\* Mutant: the precommitted contributors are not put back.
RollbackNextRound_Lost(next) == Dequeue(queue, next)

\* The precommitted contributors join the queue again, as the last.
RollbackNextRound(next) == Requeue(Dequeue(queue, next), next, height + 1)

\* next_round refuses, or fails at its first or at its second write; only the state
\* is rolled back.
AdvanceFails ==
    /\ MayAdvance /\ CanPrecommit
    /\ IF CanAddRound THEN Fault ELSE UNCHANGED faults
    /\ \/ UNCHANGED <<store, torn>>
       \/ CanAddRound /\ WriteNextRound /\ torn' = "advance" /\ UNCHANGED stored_height
    /\ status' = "Rollback"
    /\ queue' = RollbackNextRound(Assigned)
    /\ stage' = "idle"
    /\ UNCHANGED <<env, height, aggregated, wait, current, done, pending, finished, dropped,
                   banned, manual_lock, members>>

\* The round stays: update() returns, or precommit_next_round returns an error,
\* which leaves nothing to roll back.
StayInRound ==
    /\ stage = "advance"
    /\ MayAdvance => ~CanPrecommit
    /\ stage' = "idle"
    /\ UNCHANGED <<env, state, store, torn, faults, members>>
-----------------------------------------------------------------------------
Update ==
    \/ UpdateQueue \/ UpdateCurrentContributors \/ UpdateDroppedParticipants
    \/ UpdateDroppedQueuedParticipants \/ UpdateBannedParticipants
    \/ Aggregate \/ AggregateFails \/ AggregateRefused
    \/ Advance \/ AdvanceFails \/ StayInRound

Next ==
    \/ Initialize \/ InitializeCut \/ Restart \/ Crash
    \/ \E p \in Contributors : AddToQueue(p) \/ RemoveFromQueue(p)
    \/ \E p \in Participants : Contribute(p)
    \/ Verify \/ VerifyFails \/ WaitTimeOver
    \/ \E p \in Participants : DropParticipant(p) \/ BanParticipant(p) \/ UnbanParticipant(p)
    \/ \E T \in SUBSET current : DropCut(T) \/ DropFails(T)
    \/ SetManualLock \/ ResetRoundDone \/ ResetRoundCut
    \/ Update \/ AggregateCut \/ AdvanceCut

Spec == Init /\ [][Next]_vars

\* The operator starts the process again, update() runs in a loop, time passes,
\* and contributors and verifiers keep calling a coordinator that serves its
\* callers in turn, so that an update cannot always come first.  While nothing
\* stands in its way their work gets done: see Clients.
Fairness ==
    /\ WF_vars(Initialize) /\ WF_vars(Restart) /\ WF_vars(Update) /\ WF_vars(WaitTimeOver)
    /\ \A p \in Participants : SF_vars(~obstacle /\ Contribute(p))
    /\ SF_vars(~obstacle /\ Verify)

FairSpec == Spec /\ Fairness

-----------------------------------------------------------------------------
(***************************************************************************)
(* Properties.                                                             *)
(***************************************************************************)
Stages == {"down", "idle", "contributors", "drops", "queued", "banned", "aggregate", "advance"}

QueueTypeOK ==
    /\ Queued \subseteq Participants
    /\ \A p \in Queued : queue[p].round \in Nat /\ queue[p].joined \in Nat

\* Every variable has its type; the mark that aggregation has started is never
\* left behind in the state.
TypeOK ==
    /\ env \in Environments
    /\ status \in {"Initializing", "Initialized", "Commit", "Rollback"}
    /\ QueueTypeOK
    /\ height \in Heights \cup {NotSet}
    /\ aggregated \in {"no", "done"} /\ wait \in {"unset", "running", "over"}
    /\ current \subseteq Participants /\ done \subseteq current /\ pending \in BOOLEAN
    /\ finished \subseteq Participants
    /\ dropped \in [Participants -> Nat] /\ banned \subseteq Participants
    /\ manual_lock \in BOOLEAN
    /\ stored_height \in Heights \cup {NotSet}
    /\ rounds \subseteq Heights /\ challenges \subseteq Heights
    /\ seats \in [Participants -> Nat]
    /\ round_files \in [Heights -> {"absent", "partial", "complete"}] /\ obstacle \in BOOLEAN
    /\ stage \in Stages
    /\ torn \in {"none", "initialize", "drop", "reset", "advance"}
    /\ faults \in 0..MaxFaults /\ members \subseteq Participants

\* The coordinator state and the files agree on the round, the rounds up to it
\* are on record and no later one is, and the challenges of each are there:
\* through advances, aggregations, resets and rollbacks, and through crashes and
\* errors, until one of them comes between two writes of an initialization, a
\* drop, a reset or an advance.
StorageAgrees ==
    torn = "none" =>
        /\ stored_height = height
        /\ rounds = 0..height
        /\ height # NotSet => 0..(IF aggregated = "done" THEN height + 1 ELSE height) \subseteq challenges

\* Once the state says that the round is aggregated its round file is complete,
\* also after a rollback has made an earlier round the current one again, and
\* however often aggregation failed or was cut off before.
AggregatedHasFile ==
    torn = "none" /\ aggregated = "done" /\ height > 0 => round_files[height] = "complete"

\* The contributors on the list of the round in storage are those the state
\* knows at work or finished.
TeamOnRecord ==
    torn = "none" /\ aggregated # "done" =>
        {p \in Participants : seats[p] > 0} = current \cup finished

\* Nobody works on a round while banned (only coordinator contributors are put
\* to work without a look at the list): one who is banned after having joined
\* the queue again, or whose ban was lifted and comes back, is stopped.
BannedNeverWork == banned \cap current \subseteq env.replacement

\* One who joined and has neither left, been dropped or banned, nor been through
\* a round is in the queue or in the round: failed advances, resets, rollbacks
\* and crashes between any two writes lose nobody.
NobodyLost == members \ banned \subseteq Queued \cup current \cup finished

\* No contributor of a new round joined the queue after one who stays behind.
FirstComeFirstServed ==
    [][height' = height + 1 =>
         \A p \in current', q \in Queued' : queue[p].joined <= queue[q].joined]_vars

\* Nobody waits in the queue forever: a round is committed with them (or they
\* leave, or are dropped), unless the operator holds the ceremony with the manual
\* lock, an operation was stopped between two writes, or the round has no end: a
\* coordinator contributor that replaced two contributors has two seats in it, or
\* a drop or a repeated verification has left it an obstacle.
EveryoneServed ==
    \A p \in Contributors :
        p \in Queued ~>
            \/ p \notin Queued
            \/ manual_lock \/ torn # "none" \/ height = MaxHeight
            \/ obstacle \/ \E r \in Participants : seats[r] > 1
=============================================================================
