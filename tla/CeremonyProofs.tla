--------------------------- MODULE CeremonyProofs ---------------------------
(***************************************************************************)
(* Proofs about Ceremony, for any contributors, deployments and bounds.    *)
(*                                                                         *)
(* The invariants are proved in layers, each inductive given the ones      *)
(* before: here the heights and the files, then the types; in module       *)
(* CeremonyQueueProofs who works on the round, then the queue.             *)
(***************************************************************************)
EXTENDS Ceremony, FunctionTheorems, FiniteSetTheorems, TLAPS

(***************************************************************************)
(* Heights and files.  Somebody is in a round only above round 0, nobody   *)
(* works on one that is aggregated, and an update runs only once the       *)
(* ceremony is initialized; a rollback therefore always has a round to go  *)
(* back to, whose round file must still be there.                          *)
(***************************************************************************)
HeightsOK ==
    /\ height \in (-1)..MaxHeight
    /\ stored_height \in (-1)..MaxHeight
    /\ stored_height = NotSet => height = NotSet
    /\ current \cup done \cup finished # {} => height > 0
    /\ aggregated = "done" \/ stage = "aggregate" => current = {}
    /\ stage \notin {"down", "idle"} => height >= 0
    /\ round_files \in [Heights -> {"absent", "partial", "complete"}]

FilesOK ==
    torn = "none" =>
        /\ height = 0 => 1 \in challenges
        /\ \A h \in 1..(height - 1) : round_files[h] = "complete"

StorageInv == HeightsOK /\ FilesOK /\ StorageAgrees /\ AggregatedHasFile

USE DEF NotSet

\* drop_participant takes the contributors T from the round, in the state alone.
LEMMA DropStateKeepsHeights ==
    ASSUME StorageInv, NEW T \in SUBSET current, T # {}, NEW pick, DropState(T, pick),
           torn = "none",
           stored_height' \in {stored_height, stored_height - 1},
           round_files' \in [Heights -> {"absent", "partial", "complete"}],
           stage' \in {"down", "idle"}
    PROVE  HeightsOK'
<1>1. height > 0 /\ stored_height = height
  BY DEF StorageInv, HeightsOK, StorageAgrees
<1>2. CASE env.replacement = {}
  BY <1>1, <1>2, CeremonyAssumption
     DEF DropState, ResetState, RestartState, RollbackState, Left, StorageInv, HeightsOK
<1>3. CASE env.replacement # {}
  BY <1>1, <1>3, CeremonyAssumption DEF DropState, ReplaceState, StorageInv, HeightsOK
<1> QED
  BY <1>2, <1>3

\* However many of its writes a drop makes, they keep the types of the height and
\* of the round files.
LEMMA DropStorageKeepsHeights ==
    ASSUME StorageInv, NEW T, NEW pick, NEW writes, DropStorage(T, pick, writes)
    PROVE  /\ round_files' \in [Heights -> {"absent", "partial", "complete"}]
           /\ stored_height' \in {stored_height, stored_height - 1}
<1>1. CASE env.replacement = {}
  BY <1>1
     DEF DropStorage, ResetStorage, ClearRoundFiles, HeightRolledBack, StorageInv, HeightsOK
<1>2. CASE env.replacement # {}
  BY <1>2 DEF DropStorage, ReplaceStorage, StorageInv, HeightsOK
<1> QED
  BY <1>1, <1>2

\* A rollback leaves the round before as it was when it was aggregated.
LEMMA RolledBackKeepsStorage ==
    ASSUME StorageInv, torn = "none", height > 0, MaxHeight \in Nat,
           height' = height - 1, stored_height' = height - 1, aggregated' = "done",
           rounds' = rounds \ {height}, challenges' = challenges \ {height + 1},
           round_files' = [round_files EXCEPT ![height] = "absent"],
           current' \cup done' \cup finished' = {}
    PROVE  StorageInv'
<1>1. HeightsOK'
  <2>1. round_files' \in [Heights -> {"absent", "partial", "complete"}]
    BY DEF StorageInv, HeightsOK
  <2> QED
    BY <2>1 DEF StorageInv, HeightsOK
<1>2. rounds' = 0..(height - 1) /\ 0..height \subseteq challenges'
  BY DEF StorageInv, HeightsOK, StorageAgrees
<1>3. StorageAgrees'
  BY <1>2 DEF StorageInv, HeightsOK, StorageAgrees
<1>4. \A h \in 1..(height - 1) : round_files'[h] = "complete"
  BY DEF StorageInv, HeightsOK, FilesOK, Heights
<1>5. FilesOK' /\ AggregatedHasFile'
  BY <1>2, <1>4 DEF StorageInv, HeightsOK, FilesOK, AggregatedHasFile
<1> QED
  BY <1>1, <1>3, <1>5 DEF StorageInv

\* drop_participant and what follows in storage.
LEMMA DropKeepsStorage ==
    ASSUME StorageInv, NEW T \in SUBSET current, T # {}, torn = "none", torn' = "none",
           Drop(T), stage' # "aggregate", stage' \notin {"down", "idle"} => height >= 0
    PROVE  StorageInv'
<1>0. PICK pick \in Picks(T) : DropState(T, pick) /\ DropStorage(T, pick, Writes(T))
  BY DEF Drop
<1>1. height > 0 /\ stored_height = height /\ MaxHeight \in Nat /\ aggregated # "done"
  BY CeremonyAssumption DEF StorageInv, HeightsOK, StorageAgrees
<1>2. CASE env.replacement # {}
  <2>1. /\ UNCHANGED <<stored_height, rounds, round_files>>
        /\ challenges' \in {challenges, challenges \ {height + 1}}
    BY <1>0, <1>1, <1>2 DEF DropStorage, ReplaceStorage
  <2>2. UNCHANGED <<height, aggregated>> /\ finished' = finished
    BY <1>0, <1>2 DEF DropState, ReplaceState
  <2>3. HeightsOK' /\ FilesOK' /\ AggregatedHasFile'
    BY <1>1, <2>1, <2>2 DEF StorageInv, HeightsOK, FilesOK, AggregatedHasFile
  <2>4. StorageAgrees'
    BY <1>1, <2>1, <2>2 DEF StorageInv, HeightsOK, StorageAgrees
  <2> QED
    BY <2>3, <2>4 DEF StorageInv
<1>3. CASE env.replacement = {} /\ Left(T) # {}
  <2>1. /\ stored_height' = stored_height /\ rounds' = rounds
        /\ challenges' = challenges \ {height + 1}
        /\ round_files' = [round_files EXCEPT ![height] = "absent"]
    BY <1>0, <1>1, <1>3 DEF DropStorage, ResetStorage, ClearRoundFiles, Writes
  <2>2. /\ height' = height /\ aggregated' = "no"
        /\ current' \cup done' \cup finished' = Left(T)
    BY <1>0, <1>3 DEF DropState, ResetState, RestartState
  <2> QED
    <3>1. round_files' \in [Heights -> {"absent", "partial", "complete"}]
      BY <2>1 DEF StorageInv, HeightsOK
    <3>2. HeightsOK'
      BY <1>1, <2>1, <2>2, <3>1 DEF StorageInv, HeightsOK
    <3>3. StorageAgrees' /\ AggregatedHasFile'
      BY <1>1, <2>1, <2>2 DEF StorageInv, HeightsOK, StorageAgrees, AggregatedHasFile
    <3>4. FilesOK'
      BY <1>1, <2>1, <2>2 DEF StorageInv, HeightsOK, FilesOK, Heights
    <3> QED
      BY <3>2, <3>3, <3>4 DEF StorageInv
<1>4. CASE env.replacement = {} /\ Left(T) = {}
  <2>1. /\ stored_height' = height - 1 /\ rounds' = rounds \ {height}
        /\ challenges' = challenges \ {height + 1}
        /\ round_files' = [round_files EXCEPT ![height] = "absent"]
    BY <1>0, <1>1, <1>4
       DEF DropStorage, ResetStorage, ClearRoundFiles, HeightRolledBack, Writes
  <2>2. /\ height' = height - 1 /\ aggregated' = "done"
        /\ current' \cup done' \cup finished' = {}
    BY <1>0, <1>4 DEF DropState, ResetState, RollbackState
  <2> QED
    BY <1>1, <2>1, <2>2, RolledBackKeepsStorage
<1> QED
  BY <1>2, <1>3, <1>4

\* Operations that touch neither heights nor files.
LEMMA SameStorage ==
    ASSUME StorageInv, UNCHANGED <<height, stored_height, aggregated, rounds, challenges,
                                   round_files, torn>>,
           current' \cup done' \cup finished' # {} => current \cup done \cup finished # {},
           current' \subseteq current, stage' = "aggregate" => current' = {},
           stage' \notin {"down", "idle"} => height >= 0
    PROVE  StorageInv'
  BY DEF StorageInv, HeightsOK, FilesOK, StorageAgrees, AggregatedHasFile

\* Init establishes the layer.
LEMMA InitStorage == Init => StorageInv
  BY CeremonyAssumption
     DEF Init, StorageInv, HeightsOK, FilesOK, StorageAgrees, AggregatedHasFile, NoSeats

\* Every operation keeps the layer.
LEMMA StepStorage ==
    ASSUME StorageInv, [Next]_vars
    PROVE  StorageInv'
<1> USE DEF StorageInv
<1>0. MaxHeight \in Nat
  BY CeremonyAssumption
<1>1. CASE Initialize
  BY <1>0, <1>1 DEF Initialize, CanInitialize, HeightsOK, FilesOK, StorageAgrees, AggregatedHasFile
<1>2. CASE InitializeCut
  BY <1>0, <1>2
     DEF InitializeCut, CutIn, CanInitialize, state, HeightsOK, FilesOK, StorageAgrees,
         AggregatedHasFile
<1>3. CASE Restart
  BY <1>3, SameStorage DEF Restart, state, store
<1>4. CASE Crash
  BY <1>4, SameStorage DEF Crash, state, store
<1>5. ASSUME NEW p \in Contributors, AddToQueue(p) \/ RemoveFromQueue(p) PROVE StorageInv'
  BY <1>5, SameStorage DEF AddToQueue, RemoveFromQueue, store
<1>6. ASSUME NEW p \in Participants, Contribute(p) PROVE StorageInv'
  BY <1>6, SameStorage DEF Contribute, store
<1>7. CASE Verify \/ VerifyFails
  <2>1. CASE Verify
    BY <2>1 DEF Verify, HeightsOK, FilesOK, StorageAgrees, AggregatedHasFile
  <2>2. CASE VerifyFails
    <3>1. /\ UNCHANGED <<state, stored_height, rounds, round_files, stage, torn>>
          /\ height > 0 /\ aggregated = "no"
          /\ challenges' \in {challenges, challenges \ {stored_height + 1}}
      BY <2>2 DEF VerifyFails, HeightsOK
    <3>2. HeightsOK' /\ FilesOK' /\ AggregatedHasFile'
      BY <3>1 DEF state, HeightsOK, FilesOK, AggregatedHasFile
    <3>3. StorageAgrees'
      BY <3>1 DEF state, HeightsOK, StorageAgrees
    <3> QED
      BY <3>2, <3>3
  <2> QED
    BY <1>7, <2>1, <2>2
<1>8. CASE WaitTimeOver
  BY <1>8, SameStorage DEF WaitTimeOver, store, HeightsOK
<1>9. ASSUME NEW p \in Participants, DropOne(p), torn = "none", stage = "idle",
             UNCHANGED <<stage, torn>>
      PROVE  StorageInv'
  <2>1. CASE p \in Queued
    BY <1>9, <2>1, SameStorage DEF DropOne, store, HeightsOK
  <2>2. CASE p \notin Queued
    <3>1. {p} \in SUBSET current /\ {p} # {} /\ Drop({p})
      BY <1>9, <2>2 DEF DropOne
    <3> QED
      BY <1>9, <3>1, DropKeepsStorage
  <2> QED
    BY <2>1, <2>2
<1>10. ASSUME NEW p \in Participants, DropParticipant(p) \/ BanParticipant(p) PROVE StorageInv'
  BY <1>9, <1>10 DEF DropParticipant, BanParticipant
<1>11. ASSUME NEW T \in SUBSET current, DropCut(T) PROVE StorageInv'
  <2>1. /\ torn' = "drop" /\ stage' = "down" /\ torn = "none" /\ T # {}
        /\ UNCHANGED <<height, current, done, finished, aggregated>>
    BY <1>11 DEF DropCut, ToDrop, CutIn, state
  <2>2. \E pick, writes : DropStorage(T, pick, writes)
    BY <1>11 DEF DropCut
  <2>3. height > 0 /\ stored_height = height
    BY <2>1 DEF HeightsOK, StorageAgrees
  <2>4. /\ round_files' \in [Heights -> {"absent", "partial", "complete"}]
        /\ stored_height' \in {stored_height, stored_height - 1}
    BY <2>2, DropStorageKeepsHeights
  <2> QED
    BY <1>0, <2>1, <2>3, <2>4 DEF HeightsOK, FilesOK, StorageAgrees, AggregatedHasFile
<1>12. ASSUME NEW T \in SUBSET current, DropFails(T) PROVE StorageInv'
  <2>1. T # {} /\ torn = "none" /\ torn' = "drop" /\ stage' = "idle"
    BY <1>12 DEF DropFails, ToDrop
  <2>2. PICK pick : /\ DropState(T, pick)
                    /\ UNCHANGED store \/ \E S, writes : DropStorage(S, pick, writes)
    BY <1>12 DEF DropFails
  <2>3. /\ round_files' \in [Heights -> {"absent", "partial", "complete"}]
        /\ stored_height' \in {stored_height, stored_height - 1}
    BY <2>2, DropStorageKeepsHeights DEF store, HeightsOK
  <2> QED
    BY <2>1, <2>2, <2>3, DropStateKeepsHeights DEF FilesOK, StorageAgrees, AggregatedHasFile
<1>13. ASSUME NEW p \in Participants, UnbanParticipant(p) PROVE StorageInv'
  BY <1>13, SameStorage DEF UnbanParticipant, store
<1>14. CASE SetManualLock
  BY <1>14, SameStorage DEF SetManualLock, store
<1>15. CASE ResetRoundDone
  <2>1. height > 0 /\ stored_height = height /\ torn = "none"
    BY <1>15 DEF ResetRoundDone, ResetRound, StorageAgrees
  <2>2. /\ stored_height' = height - 1 /\ rounds' = rounds \ {height}
        /\ challenges' = challenges \ {height + 1}
        /\ round_files' = [round_files EXCEPT ![height] = "absent"]
    BY <1>15, <2>1 DEF ResetRoundDone, ResetRound, ResetStorage, ClearRoundFiles, HeightRolledBack
  <2>3. /\ height' = height - 1 /\ aggregated' = "done"
        /\ current' \cup done' \cup finished' = {}
    BY <1>15 DEF ResetRoundDone, ResetRound, RollbackState
  <2> QED
    BY <1>0, <2>1, <2>2, <2>3, RolledBackKeepsStorage
<1>16. CASE ResetRoundCut
  <2>1. torn = "none" /\ torn' = "reset" /\ stage' \in {"idle", "down"}
    BY <1>16 DEF ResetRoundCut
  <2>2. PICK writes \in 0..3 : ResetRound(writes)
    BY <1>16 DEF ResetRoundCut
  <2>3. height > 0 /\ stored_height = height
    BY <2>1, <2>2 DEF ResetRound, StorageAgrees
  <2>4. round_files' \in [Heights -> {"absent", "partial", "complete"}]
    BY <2>2 DEF ResetRound, ResetStorage, ClearRoundFiles, HeightsOK
  <2>5. /\ stored_height' = stored_height /\ height' = height - 1
        /\ current' \cup done' \cup finished' = {}
    BY <2>2 DEF ResetRound, ResetStorage, RollbackState
  <2> QED
    BY <1>0, <2>1, <2>3, <2>4, <2>5 DEF HeightsOK, FilesOK, StorageAgrees, AggregatedHasFile
<1>17. CASE UpdateQueue
  BY <1>17, SameStorage DEF UpdateQueue, store, HeightsOK
<1>18. CASE UpdateCurrentContributors
  BY <1>18, SameStorage DEF UpdateCurrentContributors, store, HeightsOK
<1>19. CASE UpdateDroppedParticipants
  <2>1. PICK late \in SUBSET (current \ env.replacement), gone \in SUBSET current :
          /\ gone \subseteq late
          /\ late # {} => torn = "none"
          /\ IF gone = {}
             THEN UNCHANGED <<status, height, aggregated, wait, current, done, pending, finished,
                              dropped, manual_lock, store>>
             ELSE Drop(gone)
    BY <1>19 DEF UpdateDroppedParticipants
  <2>2. stage = "drops" /\ stage' = "queued" /\ torn' = torn
    BY <1>19 DEF UpdateDroppedParticipants
  <2>3. CASE gone = {}
    BY <2>1, <2>2, <2>3, SameStorage DEF store, HeightsOK
  <2>4. CASE gone # {}
    <3>1. torn = "none" /\ torn' = "none" /\ Drop(gone) /\ height >= 0
      BY <2>1, <2>2, <2>4 DEF HeightsOK
    <3> QED
      BY <2>2, <2>4, <3>1, DropKeepsStorage
  <2> QED
    BY <2>3, <2>4
<1>20. CASE UpdateDroppedQueuedParticipants
  BY <1>20, SameStorage DEF UpdateDroppedQueuedParticipants, store, HeightsOK
<1>21. CASE UpdateBannedParticipants
  BY <1>21, SameStorage DEF UpdateBannedParticipants, IsCurrentRoundFinished, store, HeightsOK
<1>22. CASE Aggregate
  <2>1. /\ UNCHANGED <<height, current, done, finished, stored_height, rounds, challenges, torn>>
        /\ stage = "aggregate" /\ stage' = "advance"
    BY <1>22 DEF Aggregate
  <2>2. height >= 0
    BY <2>1 DEF HeightsOK
  <2>3. CASE height = 0
    BY <1>22, <2>1, <2>3
       DEF Aggregate, HeightsOK, FilesOK, StorageAgrees, AggregatedHasFile
  <2>4. CASE height > 0
    <3>1. /\ round_files' = [round_files EXCEPT ![height] = "complete"]
          /\ height + 1 \in challenges
      BY <1>22, <2>4 DEF Aggregate, CanAggregate
    <3>2. round_files' \in [Heights -> {"absent", "partial", "complete"}]
      BY <3>1 DEF HeightsOK
    <3>3. FilesOK' /\ AggregatedHasFile'
      BY <1>0, <2>1, <2>4, <3>1 DEF HeightsOK, FilesOK, AggregatedHasFile, Heights
    <3>4. StorageAgrees'
      BY <2>1, <2>4, <3>1 DEF HeightsOK, StorageAgrees
    <3> QED
      BY <2>1, <2>4, <3>2, <3>3, <3>4 DEF HeightsOK
  <2> QED
    BY <2>2, <2>3, <2>4 DEF HeightsOK
<1>23. CASE AggregateFails \/ AggregateCut
  <2>0. round_files[height] \in {"absent", "partial", "complete"}
    BY <1>0, <1>23 DEF AggregateFails, AggregateCut, HeightsOK, Heights
  <2>1. PICK left \in {"absent", "partial", "complete"} :
          round_files' = [round_files EXCEPT ![height] = left]
    BY <1>23, <2>0 DEF AggregateFails, AggregateCut
  <2>2. /\ UNCHANGED <<height, current, done, finished, stored_height, rounds, challenges, torn>>
        /\ aggregated = "no" /\ aggregated' = "no" /\ stage' \in {"idle", "down"}
    BY <1>23 DEF AggregateFails, AggregateCut, RollbackAggregating, state
  <2>3. round_files' \in [Heights -> {"absent", "partial", "complete"}]
    BY <2>1 DEF HeightsOK
  <2>4. FilesOK'
    BY <2>1, <2>2 DEF HeightsOK, FilesOK, Heights
  <2> QED
    BY <2>2, <2>3, <2>4 DEF HeightsOK, StorageAgrees, AggregatedHasFile
<1>24. CASE AggregateRefused
  BY <1>24, SameStorage DEF AggregateRefused, state, store
<1>25. CASE Advance
  <2>1. height >= 0 /\ height < MaxHeight /\ stored_height = height /\ aggregated = "done"
    BY <1>25 DEF Advance, MayAdvance, CanPrecommit, HeightsOK
  <2>2. /\ rounds' = rounds \cup {height + 1} /\ stored_height' = height + 1
        /\ height' = height + 1 /\ aggregated' = "no" /\ stage' = "idle"
        /\ UNCHANGED <<challenges, round_files, torn>>
    BY <1>25 DEF Advance, WriteNextRound
  <2>3. HeightsOK'
    BY <1>0, <2>1, <2>2 DEF HeightsOK
  <2>4. StorageAgrees' /\ AggregatedHasFile'
    BY <1>0, <2>1, <2>2 DEF HeightsOK, StorageAgrees, AggregatedHasFile
  <2>5. FilesOK'
    BY <1>0, <2>1, <2>2 DEF HeightsOK, FilesOK, AggregatedHasFile
  <2> QED
    BY <2>3, <2>4, <2>5
<1>26. CASE AdvanceCut
  BY <1>0, <1>26
     DEF AdvanceCut, WriteNextRound, CutIn, MayAdvance, CanPrecommit, state, HeightsOK, FilesOK,
         StorageAgrees, AggregatedHasFile
<1>27. CASE AdvanceFails
  <2>1. /\ UNCHANGED <<height, stored_height, aggregated, current, done, finished, challenges,
                        round_files>>
        /\ stage' = "idle"
        /\ UNCHANGED <<rounds, torn>> \/ torn' = "advance"
    BY <1>27 DEF AdvanceFails, WriteNextRound, store
  <2> QED
    BY <2>1 DEF HeightsOK, FilesOK, StorageAgrees, AggregatedHasFile
<1>28. CASE StayInRound
  BY <1>28, SameStorage DEF StayInRound, state, store
<1>29. CASE UNCHANGED vars
  BY <1>29, SameStorage DEF vars, state, store, HeightsOK
<1> QED
  BY <1>1, <1>2, <1>3, <1>4, <1>5, <1>6, <1>7, <1>8, <1>10, <1>11, <1>12, <1>13, <1>14, <1>15,
     <1>16, <1>17, <1>18, <1>19, <1>20, <1>21, <1>22, <1>23, <1>24, <1>25, <1>26, <1>27, <1>28,
     <1>29
     DEF Next, Update

\* For any number of contributors and deployments, and whatever crashes and errors:
\* heights and files agree until an operation that writes several files is stopped
\* between two of them (coordinator.rs: update, try_advance, reset_round,
\* drop_participant).
THEOREM StorageAlwaysAgrees == Spec => []StorageAgrees
<1>1. Spec => []StorageInv
  BY InitStorage, StepStorage, PTL DEF Spec
<1> QED
  BY <1>1, PTL DEF StorageInv

\* The round file of an aggregated round is complete, whatever failed aggregations,
\* resets and rollbacks came before.
THEOREM AggregatedAlwaysHasFile == Spec => []AggregatedHasFile
<1>1. Spec => []StorageInv
  BY InitStorage, StepStorage, PTL DEF Spec
<1> QED
  BY <1>1, PTL DEF StorageInv

-----------------------------------------------------------------------------
(***************************************************************************)
(* The queue as a function of its members, and what ranking, joining and   *)
(* leaving make of it.                                                     *)
(***************************************************************************)
Entry == [round : Nat, joined : Nat]

QueueRecords == Queued \subseteq Participants /\ queue \in [Queued -> Entry]

\* Every set of participants is finite.
LEMMA FiniteParticipants ==
    ASSUME NEW S \in SUBSET Participants
    PROVE  IsFiniteSet(S) /\ Cardinality(S) \in Nat
<1>1. IsFiniteSet(Participants)
  BY CeremonyAssumption, FS_Union DEF Participants
<1>2. IsFiniteSet(S)
  BY <1>1, FS_Subset
<1> QED
  BY <1>2, FS_CardinalityType

\* A queue has finitely many joined times.
LEMMA FiniteJoined ==
    ASSUME NEW S \in SUBSET Participants, NEW q \in [S -> Entry]
    PROVE  /\ IsFiniteSet(Joined(q)) /\ Joined(q) \subseteq Nat
           /\ Cardinality(Joined(q)) \in Nat
<1>1. IsFiniteSet(S)
  BY FiniteParticipants
<1> DEFINE f == [p \in S |-> q[p].joined]
<1>2. f \in Surjection(S, Joined(q)) /\ Joined(q) \subseteq Nat
  BY DEF Surjection, Joined, Entry
<1>3. IsFiniteSet(Joined(q))
  BY <1>1, <1>2, FS_Surjection
<1> QED
  BY <1>2, <1>3, FS_CardinalityType

\* Ranking keeps the members, their rounds and their order.
LEMMA RankedQueue ==
    ASSUME NEW S \in SUBSET Participants, NEW q \in [S -> Entry]
    PROVE  /\ Ranked(q) \in [S -> Entry] /\ DOMAIN Ranked(q) = S
           /\ \A p \in S : Ranked(q)[p].round = q[p].round
           /\ \A p, r \in S :
                 Ranked(q)[p].joined < Ranked(q)[r].joined => q[p].joined < q[r].joined
<1> DEFINE rank(p) == Cardinality({j \in Joined(q) : j <= q[p].joined})
<1>1. \A p \in S : IsFiniteSet({j \in Joined(q) : j <= q[p].joined})
  BY FiniteJoined, FS_Subset
<1>2. \A p \in S : rank(p) \in Nat
  BY <1>1, FS_CardinalityType
<1>3. \A p, r \in S : q[p].joined <= q[r].joined => rank(p) <= rank(r)
  <2> TAKE p, r \in S
  <2> HAVE q[p].joined <= q[r].joined
  <2>1. {j \in Joined(q) : j <= q[p].joined} \in SUBSET {j \in Joined(q) : j <= q[r].joined}
    BY FiniteJoined DEF Entry
  <2> QED
    BY <1>1, <2>1, FS_Subset
<1>4. \A p \in S : Ranked(q)[p] = [round |-> q[p].round, joined |-> rank(p)]
  BY DEF Ranked, Entry
<1>5. DOMAIN Ranked(q) = S
  BY DEF Ranked
<1> HIDE DEF rank
<1>6. Ranked(q) \in [S -> Entry]
  <2>1. \A p \in S : Ranked(q)[p] \in Entry
    <3> TAKE p \in S
    <3>1. q[p].round \in Nat /\ rank(p) \in Nat
      BY <1>2 DEF Entry
    <3> QED
      <4>1. Ranked(q)[p] = [round |-> q[p].round, joined |-> rank(p)]
        BY <1>4
      <4> QED
        BY <3>1, <4>1 DEF Entry
  <2> QED
    <3>1. Ranked(q) = [p \in S |-> Ranked(q)[p]]
      BY DEF Ranked
    <3> HIDE DEF Ranked
    <3> QED
      BY <2>1, <3>1
<1>7. \A p \in S : q[p].joined \in Nat
  BY DEF Entry
<1>8. \A p, r \in S : rank(p) < rank(r) => q[p].joined < q[r].joined
  BY <1>2, <1>3, <1>7
<1> QED
  BY <1>4, <1>5, <1>6, <1>8

\* Leaving keeps the order of those who stay.
LEMMA DequeuedQueue ==
    ASSUME NEW S \in SUBSET Participants, NEW q \in [S -> Entry], NEW T
    PROVE  /\ Dequeue(q, T) \in [S \ T -> Entry] /\ DOMAIN Dequeue(q, T) = S \ T
           /\ \A p, r \in S \ T :
                 Dequeue(q, T)[p].joined < Dequeue(q, T)[r].joined => q[p].joined < q[r].joined
<1> DEFINE kept == [p \in S \ T |-> q[p]]
<1>1. kept \in [S \ T -> Entry] /\ S \ T \in SUBSET Participants
  OBVIOUS
<1>2. Dequeue(q, T) = Ranked(kept)
  <2>1. DOMAIN q = S
    OBVIOUS
  <2> QED
    BY <2>1 DEF Dequeue
<1>3. \A p \in S \ T : kept[p] = q[p]
  OBVIOUS
<1> DEFINE R == S \ T
<1> HIDE DEF kept, R
<1>4. kept \in [R -> Entry] /\ R \in SUBSET Participants
  BY <1>1 DEF R
<1>5. /\ Ranked(kept) \in [R -> Entry] /\ DOMAIN Ranked(kept) = R
      /\ \A p \in R : Ranked(kept)[p].round = kept[p].round
      /\ \A p, r \in R :
            Ranked(kept)[p].joined < Ranked(kept)[r].joined => kept[p].joined < kept[r].joined
  BY <1>4, RankedQueue
<1> QED
  BY <1>2, <1>3, <1>5 DEF R

\* Joining adds the newcomers.
LEMMA RequeuedQueue ==
    ASSUME NEW S \in SUBSET Participants, NEW q \in [S -> Entry],
           NEW T \in SUBSET Participants, NEW assigned \in Nat
    PROVE  Requeue(q, T, assigned) \in [S \cup T -> Entry]
<1> DEFINE now == Cardinality(Joined(q)) + 1
           all == [p \in S \cup T |->
                     IF p \in T THEN [round |-> assigned, joined |-> now] ELSE q[p]]
<1>1. now \in Nat
  BY FiniteJoined
<1>2. [round |-> assigned, joined |-> now] \in Entry
  BY <1>1 DEF Entry
<1>3. all \in [S \cup T -> Entry] /\ S \cup T \in SUBSET Participants
  BY <1>2
<1>4. Requeue(q, T, assigned) = Ranked(all)
  <2>1. DOMAIN q = S
    OBVIOUS
  <2> QED
    BY <2>1 DEF Requeue
<1> DEFINE U == S \cup T
<1> HIDE DEF all, U
<1>5. all \in [U -> Entry] /\ U \in SUBSET Participants
  BY <1>3 DEF U
<1>6. Ranked(all) \in [U -> Entry] /\ DOMAIN Ranked(all) = U
  BY <1>5, RankedQueue
<1> QED
  BY <1>4, <1>6 DEF U

-----------------------------------------------------------------------------
(***************************************************************************)
(* Types.                                                                  *)
(***************************************************************************)
TypeInv == TypeOK /\ QueueRecords

\* What a deployment looks like.
LEMMA EnvironmentTypes ==
    ASSUME env \in Environments
    PROVE  /\ env.replacement \subseteq Participants
           /\ env.maximum \in Nat \ {0} /\ env.ban_threshold \in Nat
  BY CeremonyAssumption DEF EnvironmentType, Participants

\* The queue stays a function to entries, with participants for members.
LEMMA StepQueue ==
    ASSUME StorageInv, TypeInv, [Next]_vars
    PROVE  QueueRecords'
<1>0. /\ Queued \in SUBSET Participants /\ queue \in [Queued -> Entry]
      /\ current \cup finished \in SUBSET Participants
      /\ height \in Int /\ env \in Environments
  BY DEF TypeInv, TypeOK, QueueRecords, StorageInv, HeightsOK
<1>1. ASSUME NEW T, queue' = Dequeue(queue, T) PROVE QueueRecords'
  <2>1. /\ Dequeue(queue, T) \in [Queued \ T -> Entry]
        /\ DOMAIN Dequeue(queue, T) = Queued \ T
    BY <1>0, DequeuedQueue
  <2> QED
    BY <1>0, <1>1, <2>1 DEF QueueRecords, Queued
<1>2. ASSUME NEW S \in SUBSET Participants, NEW q \in [S -> Entry],
             NEW T \in SUBSET Participants, NEW assigned \in Nat,
             queue' = Requeue(q, T, assigned)
      PROVE  QueueRecords'
  <2>1. Requeue(q, T, assigned) \in [S \cup T -> Entry]
    BY RequeuedQueue
  <2> QED
    BY <1>2, <2>1 DEF QueueRecords, Queued
<1>3. ASSUME queue' = queue PROVE QueueRecords'
  BY <1>3 DEF TypeInv, QueueRecords, Queued
<1>4. ASSUME NEW p \in Contributors, AddToQueue(p) PROVE QueueRecords'
  <2>1. {p} \in SUBSET Participants /\ 0 \in Nat /\ queue' = Requeue(queue, {p}, 0)
    BY <1>4 DEF AddToQueue, Participants
  <2> QED
    BY <1>0, <1>2, <2>1
<1>5. ASSUME NEW p \in Contributors, RemoveFromQueue(p) PROVE QueueRecords'
  BY <1>1, <1>5 DEF RemoveFromQueue
<1>6. ASSUME NEW p \in Participants, DropParticipant(p) \/ BanParticipant(p) PROVE QueueRecords'
  BY <1>1, <1>3, <1>6 DEF DropParticipant, BanParticipant, DropOne
<1>7. CASE ResetRoundDone \/ ResetRoundCut
  <2>1. height > 0 /\ queue' = Requeue(queue, Left({}), height)
    BY <1>7 DEF ResetRoundDone, ResetRoundCut, ResetRound
  <2>2. Left({}) \in SUBSET Participants /\ height \in Nat
    BY <1>0, <2>1 DEF Left
  <2> QED
    BY <1>0, <1>2, <2>1, <2>2
<1>8. CASE UpdateQueue
  <2>1. PICK order \in Orders(Queued \ banned) :
          queue' = Ranked([p \in Queued \ banned |->
                             [queue[p] EXCEPT !.round = AssignedRound(order[p])]])
    BY <1>8 DEF UpdateQueue
  <2> DEFINE S == Queued \ banned
             q == [p \in S |-> [queue[p] EXCEPT !.round = AssignedRound(order[p])]]
  <2>2. \A p \in S : AssignedRound(order[p]) \in Nat
    <3>1. height >= 0
      BY <1>0, <1>8 DEF UpdateQueue, StorageInv, HeightsOK
    <3>2. \A p \in S : order[p] \in 1..Cardinality(S)
      BY DEF Orders
    <3>3. env.maximum \in Nat \ {0}
      BY <1>0, EnvironmentTypes
    <3>4. Cardinality(S) \in Nat
      BY <1>0, FiniteParticipants
    <3>5. \A n \in 1..Cardinality(S) : AssignedRound(n) \in Nat
      BY <1>0, <3>1, <3>3, <3>4 DEF AssignedRound
    <3> QED
      BY <3>2, <3>5
  <2>3. S \in SUBSET Participants
    BY <1>0
  <2>4. q \in [S -> Entry]
    BY <1>0, <2>2 DEF Entry
  <2>5. queue' = Ranked(q)
    BY <2>1
  <2> HIDE DEF S, q
  <2>6. Ranked(q) \in [S -> Entry] /\ DOMAIN Ranked(q) = S
    BY <2>3, <2>4, RankedQueue
  <2> QED
    BY <2>3, <2>5, <2>6 DEF QueueRecords, Queued
<1>9. CASE UpdateDroppedParticipants
  BY <1>1, <1>9 DEF UpdateDroppedParticipants
<1>10. CASE UpdateDroppedQueuedParticipants
  BY <1>1, <1>10 DEF UpdateDroppedQueuedParticipants
<1>11. CASE Advance
  BY <1>1, <1>11 DEF Advance
<1>12. CASE AdvanceFails
  <2>1. /\ queue' = Requeue(Dequeue(queue, Assigned), Assigned, height + 1)
        /\ stage = "advance"
    BY <1>12 DEF AdvanceFails, RollbackNextRound, MayAdvance
  <2>2. height + 1 \in Nat
    BY <1>0, <2>1 DEF StorageInv, HeightsOK
  <2>3. Assigned \in SUBSET Participants /\ Queued \ Assigned \in SUBSET Participants
    BY <1>0 DEF Assigned
  <2>4. Dequeue(queue, Assigned) \in [Queued \ Assigned -> Entry]
    BY <1>0, DequeuedQueue
  <2> QED
    BY <1>2, <2>1, <2>2, <2>3, <2>4
<1>13. CASE \/ Initialize \/ InitializeCut \/ Restart \/ Crash \/ Verify \/ VerifyFails
            \/ WaitTimeOver \/ SetManualLock
  BY <1>3, <1>13
     DEF Initialize, InitializeCut, Restart, Crash, Verify, VerifyFails, WaitTimeOver,
         SetManualLock, state
<1>14. ASSUME NEW p \in Participants, Contribute(p) \/ UnbanParticipant(p) PROVE QueueRecords'
  BY <1>3, <1>14 DEF Contribute, UnbanParticipant
<1>17. ASSUME NEW T \in SUBSET current, DropCut(T) \/ DropFails(T) PROVE QueueRecords'
  BY <1>3, <1>17 DEF DropCut, DropFails, state
<1>15. CASE \/ UpdateCurrentContributors \/ UpdateBannedParticipants
            \/ Aggregate \/ AggregateFails \/ AggregateCut \/ AggregateRefused
            \/ AdvanceCut \/ StayInRound
  BY <1>3, <1>15
     DEF UpdateCurrentContributors, UpdateBannedParticipants, Aggregate, AggregateFails,
         AggregateCut, AggregateRefused, AdvanceCut, StayInRound, state
<1>16. CASE UNCHANGED vars
  BY <1>3, <1>16 DEF vars, state
<1> QED
  BY <1>4, <1>5, <1>6, <1>7, <1>8, <1>9, <1>10, <1>11, <1>12, <1>13, <1>14, <1>15, <1>16, <1>17
     DEF Next, Update

\* The types that neither StorageInv nor QueueRecords gives: of the state, of the
\* store, and of the rest.
StateTypes ==
    /\ status \in {"Initializing", "Initialized", "Commit", "Rollback"}
    /\ aggregated \in {"no", "done"} /\ wait \in {"unset", "running", "over"}
    /\ current \subseteq Participants /\ done \subseteq current
    /\ finished \subseteq Participants
    /\ dropped \in [Participants -> Nat]

StoreTypes ==
    /\ rounds \subseteq Heights /\ challenges \subseteq Heights
    /\ seats \in [Participants -> Nat] /\ obstacle \in BOOLEAN

OtherTypes ==
    /\ env \in Environments /\ banned \subseteq Participants
    /\ pending \in BOOLEAN /\ manual_lock \in BOOLEAN
    /\ stage \in Stages
    /\ torn \in {"none", "initialize", "drop", "reset", "advance"}
    /\ faults \in 0..MaxFaults /\ members \subseteq Participants

\* Coordinator contributors take the places.
LEMMA PickTypes ==
    ASSUME NEW T, NEW pick \in Picks(T), env.replacement # {}
    PROVE  pick \in [T -> env.replacement] /\ Range(pick) \subseteq env.replacement
<1>1. pick \in [T -> env.replacement]
  BY DEF Picks
<1> QED
  BY <1>1 DEF Range

\* Dropping contributors keeps the types of the state.
LEMMA DropStateTypes ==
    ASSUME TypeInv, NEW T \in SUBSET current, NEW pick \in Picks(T), DropState(T, pick)
    PROVE  StateTypes' /\ pending' \in BOOLEAN /\ manual_lock' \in BOOLEAN
<1> USE DEF TypeInv, TypeOK
<1>1. env.replacement \subseteq Participants
  BY EnvironmentTypes
<1>2. CASE env.replacement # {}
  <2>1. ReplaceState(T, pick) /\ Range(pick) \subseteq Participants
    BY <1>1, <1>2, PickTypes DEF DropState
  <2>2. dropped' \in [Participants -> Nat]
    BY <2>1 DEF ReplaceState
  <2>3. /\ current' \subseteq Participants /\ done' \subseteq current'
        /\ finished' \subseteq Participants
    BY <2>1 DEF ReplaceState
  <2> QED
    BY <2>1, <2>2, <2>3 DEF ReplaceState, StateTypes
<1>3. CASE env.replacement = {}
  <2>1. ResetState(T)
    BY <1>3 DEF DropState
  <2>2. dropped' \in [Participants -> Nat]
    BY <2>1 DEF ResetState, RestartState, RollbackState, NoSeats
  <2>3. /\ current' \subseteq Participants /\ done' = {} /\ finished' = {}
        /\ pending' = FALSE /\ manual_lock' = FALSE
    BY <2>1 DEF ResetState, RestartState, RollbackState, Left
  <2> QED
    BY <2>1, <2>2, <2>3 DEF ResetState, RestartState, RollbackState, StateTypes
<1> QED
  BY <1>2, <1>3

\* So do the writes that a reset or a drop has made by the time it is cut.
LEMMA ResetStorageTypes ==
    ASSUME TypeInv, NEW T, NEW rollback, NEW writes, ResetStorage(T, rollback, writes)
    PROVE  StoreTypes'
<1> USE DEF TypeInv, TypeOK
<1>1. rounds' \subseteq Heights /\ challenges' \subseteq Heights /\ obstacle' \in BOOLEAN
  BY DEF ResetStorage
<1>2. seats' \in [Participants -> Nat]
  BY DEF ResetStorage
<1> QED
  BY <1>1, <1>2 DEF StoreTypes

\* Replacing contributors or resetting the round keeps the types of the files.
LEMMA DropStorageTypes ==
    ASSUME TypeInv, NEW T \in SUBSET current, NEW pick, NEW writes, DropStorage(T, pick, writes)
    PROVE  StoreTypes'
<1> USE DEF TypeInv, TypeOK
<1>1. CASE env.replacement = {}
  <2>1. ResetStorage(T, Left(T) = {}, writes)
    BY <1>1 DEF DropStorage
  <2> QED
    BY <2>1, ResetStorageTypes
<1>2. CASE env.replacement # {}
  <2>1. ReplaceStorage(T, pick, writes)
    BY <1>2 DEF DropStorage
  <2>2. challenges' \subseteq Heights /\ rounds' \subseteq Heights
    BY <2>1 DEF ReplaceStorage
  <2>3. obstacle' \in BOOLEAN
    BY <2>1 DEF ReplaceStorage
  <2>4. \A p \in Participants : Cardinality({t \in T : pick[t] = p}) \in Nat
    BY FiniteParticipants
  <2>5. seats' \in [Participants -> Nat]
    <3>1. ReplacedSeats(T, pick) \in [Participants -> Nat]
      BY <2>4 DEF ReplacedSeats
    <3>2. seats' = ReplacedSeats(T, pick) \/ seats' = seats
      BY <2>1, Zenon DEF ReplaceStorage
    <3> QED
      BY <3>1, <3>2
  <2> QED
    BY <2>2, <2>3, <2>5 DEF StoreTypes
<1> QED
  BY <1>1, <1>2

\* Every operation keeps the types.
LEMMA StepTypes ==
    ASSUME StorageInv, TypeInv, [Next]_vars
    PROVE  StateTypes' /\ StoreTypes' /\ OtherTypes'
<1> DEFINE Goal == StateTypes' /\ StoreTypes' /\ OtherTypes'
<1>0. /\ StateTypes /\ StoreTypes /\ OtherTypes
      /\ MaxHeight \in Nat /\ MaxFaults \in Nat
  BY CeremonyAssumption DEF TypeInv, TypeOK, StateTypes, StoreTypes, OtherTypes
<1>1. CASE Initialize
  BY <1>0, <1>1 DEF Initialize, StateTypes, StoreTypes, OtherTypes, Heights, Stages
<1>2. CASE InitializeCut
  <2>0. 0 \in Heights /\ 1 \in Heights
    BY <1>0 DEF Heights
  <2>1. StoreTypes'
    BY <1>0, <1>2, <2>0 DEF InitializeCut, StoreTypes
  <2> QED
    BY <1>0, <1>2, <2>1 DEF InitializeCut, CutIn, Fault, state, StateTypes, OtherTypes, Stages
<1>3. CASE Restart \/ Crash \/ AggregateRefused \/ StayInRound
  <2>1. UNCHANGED <<env, state, store, torn, members>> /\ stage' \in Stages
    BY <1>3, Zenon DEF Restart, Crash, AggregateRefused, StayInRound, Stages
  <2>2. faults' = faults \/ Fault
    BY <1>3, Zenon DEF Restart, Crash, AggregateRefused, StayInRound
  <2>3. faults' \in 0..MaxFaults
    BY <1>0, <2>2 DEF Fault, OtherTypes
  <2>4. StateTypes' /\ StoreTypes'
    BY <1>0, <2>1 DEF state, store, StateTypes, StoreTypes
  <2> QED
    BY <1>0, <2>1, <2>3, <2>4 DEF state, OtherTypes
<1>4. ASSUME NEW p \in Contributors, AddToQueue(p) \/ RemoveFromQueue(p) PROVE Goal
  BY <1>0, <1>4
     DEF AddToQueue, RemoveFromQueue, store, StateTypes, StoreTypes, OtherTypes, Participants
<1>5. ASSUME NEW p \in Participants, Contribute(p) PROVE Goal
  BY <1>0, <1>5 DEF Contribute, store, StateTypes, StoreTypes, OtherTypes
<1>6. CASE Verify \/ VerifyFails
  <2>1. stored_height + 1 \in Heights
    BY <1>0 DEF StorageInv, HeightsOK, Heights
  <2>2. CASE Verify
    BY <1>0, <2>1, <2>2 DEF Verify, StateTypes, StoreTypes, OtherTypes
  <2>3. CASE VerifyFails
    <3>1. StoreTypes'
      BY <1>0, <2>3 DEF VerifyFails, StoreTypes
    <3>2. StateTypes' /\ OtherTypes'
      BY <1>0, <2>3 DEF VerifyFails, Fault, state, StateTypes, OtherTypes
    <3> QED
      BY <3>1, <3>2
  <2> QED
    BY <1>6, <2>2, <2>3
<1>7. CASE WaitTimeOver
  BY <1>0, <1>7 DEF WaitTimeOver, store, StateTypes, StoreTypes, OtherTypes
<1>8. ASSUME NEW p \in Participants, DropOne(p)
      PROVE  /\ StateTypes' /\ StoreTypes' /\ members' \subseteq Participants
             /\ pending' \in BOOLEAN /\ manual_lock' \in BOOLEAN
  <2>1. CASE p \in Queued
    BY <1>0, <1>8, <2>1 DEF DropOne, store, StateTypes, StoreTypes, OtherTypes
  <2>2. CASE p \notin Queued
    <3>1. {p} \in SUBSET current /\ Drop({p}) /\ members' = members \ {p}
      BY <1>8, <2>2 DEF DropOne
    <3>2. StoreTypes'
      BY <3>1, DropStorageTypes DEF Drop
    <3>3. StateTypes' /\ pending' \in BOOLEAN /\ manual_lock' \in BOOLEAN
      BY <3>1, DropStateTypes DEF Drop
    <3> QED
      BY <1>0, <3>1, <3>2, <3>3 DEF OtherTypes
  <2> QED
    BY <2>1, <2>2
<1>9. ASSUME NEW p \in Participants, DropParticipant(p) \/ BanParticipant(p) PROVE Goal
  <2>1. DropOne(p) /\ Fault /\ UNCHANGED <<env, stage, torn>>
    BY <1>9 DEF DropParticipant, BanParticipant
  <2>2. banned' \subseteq Participants
    BY <1>0, <1>9 DEF DropParticipant, BanParticipant, OtherTypes
  <2> QED
    BY <1>0, <1>8, <2>1, <2>2 DEF Fault, OtherTypes
<1>10. ASSUME NEW T \in SUBSET current, DropCut(T) PROVE Goal
  <2>1. CutIn("drop") /\ UNCHANGED <<env, state, members>>
    BY <1>10 DEF DropCut
  <2>2. \E pick, writes : DropStorage(T, pick, writes)
    BY <1>10 DEF DropCut
  <2>3. StoreTypes'
    BY <2>2, DropStorageTypes
  <2> QED
    BY <1>0, <2>1, <2>3 DEF CutIn, Fault, state, StateTypes, OtherTypes, Stages
<1>11. ASSUME NEW T \in SUBSET current, DropFails(T) PROVE Goal
  <2>1. PICK pick \in Picks(T) :
          /\ DropState(T, pick)
          /\ UNCHANGED store \/ \E S \in SUBSET current : \E writes : DropStorage(S, pick, writes)
    BY <1>11 DEF DropFails
  <2>2. StateTypes' /\ pending' \in BOOLEAN /\ manual_lock' \in BOOLEAN
    BY <2>1, DropStateTypes
  <2>3. StoreTypes'
    BY <1>0, <2>1, DropStorageTypes DEF store, StoreTypes
  <2>4. banned' \subseteq banned \cup T /\ T \subseteq Participants
    BY <1>0, <1>11 DEF DropFails, StateTypes
  <2> QED
    BY <1>0, <1>11, <2>2, <2>3, <2>4 DEF DropFails, Fault, OtherTypes, Stages
<1>12. ASSUME NEW p \in Participants, UnbanParticipant(p) PROVE Goal
  BY <1>0, <1>12 DEF UnbanParticipant, Fault, store, StateTypes, StoreTypes, OtherTypes
<1>13. CASE SetManualLock
  BY <1>0, <1>13 DEF SetManualLock, Fault, store, StateTypes, StoreTypes, OtherTypes
<1>14. ASSUME NEW writes, ResetRound(writes)
       PROVE  /\ StateTypes' /\ StoreTypes' /\ pending' \in BOOLEAN /\ manual_lock' \in BOOLEAN
              /\ UNCHANGED <<env, banned, members>>
  <2>1. StoreTypes'
    BY <1>14, ResetStorageTypes DEF ResetRound
  <2>2. dropped' \in [Participants -> Nat]
    BY <1>14 DEF ResetRound, RollbackState, NoSeats
  <2> QED
    BY <1>14, <2>1, <2>2 DEF ResetRound, RollbackState, StateTypes
<1>15. CASE ResetRoundDone
  <2>1. ResetRound(4) /\ Fault /\ UNCHANGED <<stage, torn>>
    BY <1>15 DEF ResetRoundDone
  <2> QED
    BY <1>0, <1>14, <2>1 DEF Fault, OtherTypes
<1>16. CASE ResetRoundCut
  <2>1. Fault /\ stage' \in {"idle", "down"} /\ torn' = "reset"
    BY <1>16 DEF ResetRoundCut
  <2>2. PICK writes \in 0..3 : ResetRound(writes)
    BY <1>16 DEF ResetRoundCut
  <2>3. /\ StateTypes' /\ StoreTypes' /\ pending' \in BOOLEAN /\ manual_lock' \in BOOLEAN
        /\ UNCHANGED <<env, banned, members>>
    BY <1>14, <2>2
  <2> QED
    BY <1>0, <2>1, <2>3 DEF Fault, OtherTypes, Stages
<1>17. CASE UpdateQueue
  BY <1>0, <1>17 DEF UpdateQueue, store, StateTypes, StoreTypes, OtherTypes, Stages
<1>18. CASE UpdateCurrentContributors
  BY <1>0, <1>18 DEF UpdateCurrentContributors, store, StateTypes, StoreTypes, OtherTypes, Stages
<1>19. CASE UpdateDroppedParticipants
  <2>1. PICK late \in SUBSET (current \ env.replacement), gone \in SUBSET current :
          /\ faults' = faults + Cardinality(late)
          /\ members' = members \ gone
          /\ IF gone = {}
             THEN UNCHANGED <<status, height, aggregated, wait, current, done, pending, finished,
                              dropped, manual_lock, store>>
             ELSE Drop(gone)
    BY <1>19 DEF UpdateDroppedParticipants
  <2>2. Cardinality(late) \in Nat
    BY <1>0, FiniteParticipants DEF StateTypes
  <2>3. faults' \in 0..MaxFaults
    <3>1. faults' <= MaxFaults
      BY <1>19, Zenon DEF UpdateDroppedParticipants
    <3>2. faults \in 0..MaxFaults /\ MaxFaults \in Nat
      BY <1>0, Zenon DEF OtherTypes
    <3> QED
      BY <2>1, <2>2, <3>1, <3>2
  <2>4. UNCHANGED <<env, banned, torn>> /\ stage' = "queued"
    BY <1>19 DEF UpdateDroppedParticipants
  <2>5. CASE gone = {}
    BY <1>0, <2>1, <2>3, <2>4, <2>5 DEF store, StateTypes, StoreTypes, OtherTypes, Stages
  <2>6. CASE gone # {}
    <3>1. StateTypes' /\ pending' \in BOOLEAN /\ manual_lock' \in BOOLEAN
      BY <2>1, <2>6, DropStateTypes DEF Drop
    <3>2. StoreTypes'
      BY <2>1, <2>6, DropStorageTypes DEF Drop
    <3> QED
      BY <1>0, <2>1, <2>3, <2>4, <3>1, <3>2 DEF OtherTypes, Stages
  <2> QED
    BY <2>5, <2>6
<1>20. CASE UpdateDroppedQueuedParticipants
  <2>1. PICK late \in SUBSET Queued :
          /\ faults' = faults + Cardinality(late)
          /\ members' = members \ (late \ (current \cup finished))
    BY <1>20 DEF UpdateDroppedQueuedParticipants
  <2>2. Cardinality(late) \in Nat
    BY FiniteParticipants DEF TypeInv, QueueRecords
  <2> QED
    BY <1>0, <1>20, <2>1, <2>2
       DEF UpdateDroppedQueuedParticipants, store, StateTypes, StoreTypes, OtherTypes, Stages
<1>21. CASE UpdateBannedParticipants
  BY <1>0, <1>21 DEF UpdateBannedParticipants, store, StateTypes, StoreTypes, OtherTypes, Stages
<1>22. CASE Aggregate \/ AggregateFails \/ AggregateCut
  <2>1. UNCHANGED <<env, status, current, done, pending, finished, dropped, banned, manual_lock,
                    rounds, seats, challenges, obstacle, torn, members>>
    BY <1>22 DEF Aggregate, AggregateFails, AggregateCut, state
  <2>2. (aggregated' = aggregated \/ aggregated' \in {"no", "done"})
        /\ (wait' = wait \/ wait' = "running") /\ stage' \in Stages
    BY <1>22 DEF Aggregate, AggregateFails, AggregateCut, RollbackAggregating, state, Stages
  <2>3. faults' = faults \/ Fault
    BY <1>22 DEF Aggregate, AggregateFails, AggregateCut
  <2>4. faults' \in 0..MaxFaults
    BY <1>0, <2>3 DEF Fault, OtherTypes
  <2>5. StateTypes' /\ StoreTypes'
    BY <1>0, <2>1, <2>2 DEF StateTypes, StoreTypes
  <2> QED
    BY <1>0, <2>1, <2>2, <2>4, <2>5 DEF OtherTypes
<1>23. ASSUME MayAdvance, WriteNextRound PROVE StoreTypes'
  <2>1. height + 1 \in Heights
    BY <1>0, <1>23 DEF MayAdvance, StorageInv, HeightsOK, Heights
  <2>2. seats' \in [Participants -> Nat]
    BY <1>23 DEF WriteNextRound
  <2> QED
    BY <1>0, <1>23, <2>1, <2>2 DEF WriteNextRound, StoreTypes
<1>24. CASE Advance
  <2>1. StoreTypes'
    BY <1>23, <1>24 DEF Advance
  <2>2. Assigned \subseteq Participants
    BY DEF Assigned, TypeInv, QueueRecords
  <2>3. done = {}
    BY <1>0, <1>24 DEF Advance, MayAdvance, IsCurrentRoundFinished, StateTypes
  <2> QED
    BY <1>0, <1>24, <2>1, <2>2, <2>3 DEF Advance, StateTypes, OtherTypes, Stages
<1>25. CASE AdvanceCut
  <2>1. StoreTypes'
    BY <1>23, <1>25 DEF AdvanceCut
  <2> QED
    BY <1>0, <1>25, <2>1 DEF AdvanceCut, CutIn, Fault, state, StateTypes, OtherTypes, Stages
<1>26. CASE AdvanceFails
  <2>1. StoreTypes'
    BY <1>0, <1>23, <1>26 DEF AdvanceFails, store, StoreTypes
  <2> QED
    BY <1>0, <1>26, <2>1 DEF AdvanceFails, Fault, StateTypes, OtherTypes, Stages
<1>27. CASE UNCHANGED vars
  BY <1>0, <1>27 DEF vars, state, store, StateTypes, StoreTypes, OtherTypes
<1> QED
  BY <1>1, <1>2, <1>3, <1>4, <1>5, <1>6, <1>7, <1>9, <1>10, <1>11, <1>12, <1>13, <1>15, <1>16,
     <1>17, <1>18, <1>19, <1>20, <1>21, <1>22, <1>24, <1>25, <1>26, <1>27
     DEF Next, Update

\* The types hold initially, and are kept.
LEMMA InitTypes == Init => TypeInv
<1> SUFFICES ASSUME Init PROVE TypeInv
  OBVIOUS
<1>1. queue = << >> /\ Queued = {}
  BY DEF Init, Queued
<1>2. QueueRecords
  <2>1. queue = [p \in {} |-> p]
    BY <1>1
  <2> QED
    BY <1>1, <2>1 DEF QueueRecords
<1>3. NoSeats \in [Participants -> Nat]
  BY DEF NoSeats
<1> QED
  BY <1>1, <1>2, <1>3, CeremonyAssumption
     DEF Init, TypeInv, TypeOK, QueueTypeOK, Stages, Heights

\* The types are inductive, given the heights and the files.
LEMMA StepTypeInv ==
    ASSUME StorageInv, TypeInv, [Next]_vars
    PROVE  TypeInv'
<1>1. QueueRecords'
  BY StepQueue
<1>2. QueueTypeOK'
  BY <1>1 DEF QueueRecords, QueueTypeOK, Queued, Entry
<1>3. /\ height' \in Heights \cup {NotSet} /\ stored_height' \in Heights \cup {NotSet}
      /\ round_files' \in [Heights -> {"absent", "partial", "complete"}]
  BY StepStorage, CeremonyAssumption DEF StorageInv, HeightsOK, Heights
<1> QED
  BY <1>1, <1>2, <1>3, StepTypes DEF TypeInv, TypeOK, StateTypes, StoreTypes, OtherTypes

\* The ceremony is well typed: no operation, cut or not, leaves aggregation marked
\* as started, or a height, a round or a challenge beyond those of the ceremony.
THEOREM CeremonyTyped == Spec => []TypeOK
<1>1. Spec => [](StorageInv /\ TypeInv)
  BY InitStorage, StepStorage, InitTypes, StepTypeInv, PTL DEF Spec
<1> QED
  BY <1>1, PTL DEF TypeInv
=============================================================================
