------------------------ MODULE CeremonyQueueProofs ------------------------
(***************************************************************************)
(* Proofs about Ceremony, continued: who works on the round, in which      *)
(* order the queue is served, and that nobody is lost.                     *)
(***************************************************************************)
EXTENDS CeremonyProofs

USE DEF NotSet

(***************************************************************************)
(* Who works on the round.  Those at work or finished are neither banned   *)
(* nor due for a ban, and by the time a round is aggregated or the next    *)
(* one is formed, whoever is due for a ban has been banned: so a round     *)
(* starts, and goes on, without them.  A coordinator contributor that is   *)
(* at work again after it had finished has two seats in the round, and     *)
(* storage refuses to drop it.                                             *)
(***************************************************************************)
WorkersOK ==
    /\ \A p \in (current \cup finished) \ env.replacement :
          p \notin banned /\ dropped[p] <= env.ban_threshold
    /\ current \cap finished \subseteq env.replacement
    /\ stage \in {"aggregate", "advance"} =>
          \A p \in Participants : dropped[p] > env.ban_threshold => p \in banned

SeatsOK == torn = "none" => \A p \in current \cap finished : seats[p] > 1

WorkersInv == WorkersOK /\ SeatsOK /\ TeamOnRecord

\* Dropping T, and perhaps banning them, leaves the others.
LEMMA DropKeepsWorkers ==
    ASSUME TypeInv, WorkersOK, NEW T \in SUBSET current, T # {},
           NEW pick \in Picks(T), DropState(T, pick), env' = env,
           banned' \subseteq banned \cup T, stage' \notin {"aggregate", "advance"}
    PROVE  WorkersOK'
<1>0. current \subseteq Participants /\ finished \subseteq Participants
  BY DEF TypeInv, TypeOK
<1>1. CASE env.replacement # {}
  <2>1. ReplaceState(T, pick) /\ Range(pick) \subseteq env.replacement
    BY <1>1, PickTypes DEF DropState
  <2>2. \A p \in (current' \cup finished') \ env.replacement :
          p \in current \cup finished /\ p \notin T
    BY <2>1 DEF ReplaceState, WorkersOK
  <2>3. \A p \in (current' \cup finished') \ env.replacement :
          p \notin banned' /\ dropped'[p] <= env.ban_threshold
    BY <1>0, <2>1, <2>2 DEF ReplaceState, WorkersOK
  <2>4. current' \cap finished' \subseteq env.replacement
    BY <2>1 DEF ReplaceState, WorkersOK
  <2> QED
    BY <2>1, <2>3, <2>4 DEF WorkersOK
<1>2. CASE env.replacement = {}
  <2>1. ResetState(T)
    BY <1>2 DEF DropState
  <2>2. \A p \in current' : p \in Left(T) /\ dropped' =
            [q \in Participants |-> IF q \in T THEN dropped[q] + 1 ELSE dropped[q]]
    BY <2>1 DEF ResetState, RestartState, RollbackState
  <2>3. \A p \in current' : p \notin banned' /\ dropped'[p] <= env.ban_threshold
    BY <1>0, <1>2, <2>2 DEF Left, WorkersOK
  <2>4. finished' = {}
    BY <2>1 DEF ResetState, RestartState, RollbackState
  <2> QED
    BY <2>3, <2>4 DEF WorkersOK
<1> QED
  BY <1>1, <1>2

\* The seats of a round after a replacement.
LEMMA ReplacementSeats ==
    ASSUME TypeInv, NEW T \in SUBSET current, NEW pick \in [T -> env.replacement],
           seats' = ReplacedSeats(T, pick)
    PROVE  \A p \in Participants :
             /\ p \notin T => seats'[p] >= seats[p]
             /\ p \in Range(pick) /\ p \notin T => seats'[p] > seats[p]
             /\ seats'[p] > 0 <=> p \in Range(pick) \/ (p \notin T /\ seats[p] > 0)
<1> TAKE p \in Participants
<1> DEFINE by == {t \in T : pick[t] = p}
           taken == Cardinality(by)
<1>1. by \in SUBSET Participants /\ seats[p] \in Nat
  BY DEF TypeInv, TypeOK
<1>2. IsFiniteSet(by) /\ taken \in Nat
  BY <1>1, FiniteParticipants
<1>3. taken = 0 <=> by = {}
  BY <1>2, FS_EmptySet
<1>4. by = {} <=> p \notin Range(pick)
  BY DEF Range
<1>5. seats'[p] = (IF p \in T THEN 0 ELSE seats[p]) + taken
  BY DEF ReplacedSeats
<1> HIDE DEF taken, by
<1> QED
  BY <1>1, <1>2, <1>3, <1>4, <1>5

\* And the list in storage follows.
LEMMA DropKeepsTeam ==
    ASSUME StorageInv, TypeInv, WorkersInv, NEW T \in SUBSET current, T # {},
           Drop(T), torn = "none"
    PROVE  SeatsOK' /\ TeamOnRecord'
<1>0. /\ current \subseteq Participants /\ finished \subseteq Participants
      /\ seats \in [Participants -> Nat] /\ env.replacement \subseteq Participants
      /\ aggregated # "done"
  BY EnvironmentTypes DEF TypeInv, TypeOK, StorageInv, HeightsOK
<1>1. \A p \in Participants : seats[p] > 0 <=> p \in current \cup finished
  BY <1>0 DEF WorkersInv, TeamOnRecord
<1> PICK pick \in Picks(T) : DropState(T, pick) /\ DropStorage(T, pick, Writes(T))
  BY DEF Drop
<1>2. CASE env.replacement # {}
  <2>1. pick \in [T -> env.replacement] /\ Range(pick) \subseteq env.replacement
    BY <1>2, PickTypes
  <2>2. /\ current' = (current \ T) \cup Range(pick) /\ finished' = finished
        /\ seats' = ReplacedSeats(T, pick)
    BY <1>2 DEF DropState, DropStorage, ReplaceState, ReplaceStorage, Writes
  <2>3. \A p \in Participants :
          /\ p \notin T => seats'[p] >= seats[p]
          /\ p \in Range(pick) /\ p \notin T => seats'[p] > seats[p]
          /\ seats'[p] > 0 <=> p \in Range(pick) \/ (p \notin T /\ seats[p] > 0)
    BY <2>1, <2>2, ReplacementSeats
  <2>4. T \cap finished = {}
    <3>1. \A p \in T : seats[p] = 1
      BY <1>2 DEF Drop, CanReplace
    <3> QED
      BY <1>0, <3>1 DEF WorkersInv, SeatsOK
  <2>5. seats' \in [Participants -> Nat]
    BY DropStorageTypes DEF StoreTypes
  <2>6. \A p \in Participants : seats'[p] > 0 <=> p \in current' \cup finished'
    BY <1>1, <2>2, <2>3, <2>4
  <2>7. TeamOnRecord'
    BY <1>0, <2>1, <2>2, <2>6 DEF TeamOnRecord
  <2>8. ASSUME NEW p \in current' \cap finished' PROVE seats'[p] > 1
    <3>1. p \in Participants /\ p \in finished /\ p \notin T /\ seats[p] > 0
      BY <1>0, <1>1, <2>2, <2>4, <2>8
    <3>2. CASE p \in current
      <4>1. seats[p] > 1
        BY <3>1, <3>2 DEF WorkersInv, SeatsOK
      <4> QED
        BY <1>0, <2>3, <2>5, <3>1, <4>1
    <3>3. CASE p \notin current
      <4>1. seats'[p] > seats[p]
        BY <2>2, <2>3, <2>8, <3>1, <3>3
      <4> QED
        BY <1>0, <2>5, <3>1, <4>1
    <3> QED
      BY <3>2, <3>3
  <2> QED
    BY <2>7, <2>8 DEF SeatsOK
<1>3. CASE env.replacement = {} /\ Left(T) # {}
  <2>1. /\ current' = Left(T) /\ finished' = {}
        /\ seats' = [p \in Participants |-> IF p \in T THEN 0 ELSE seats[p]]
    BY <1>3 DEF DropState, DropStorage, ResetState, RestartState, ResetStorage, Writes
  <2>2. \A p \in Participants : seats'[p] > 0 <=> (p \notin T /\ seats[p] > 0)
    BY <1>0, <2>1
  <2>3. {p \in Participants : seats'[p] > 0} = current' \cup finished'
    BY <1>0, <1>1, <2>1, <2>2 DEF Left
  <2> QED
    BY <2>1, <2>3 DEF SeatsOK, TeamOnRecord
<1>4. CASE env.replacement = {} /\ Left(T) = {}
  BY <1>4 DEF DropState, ResetState, RollbackState, SeatsOK, TeamOnRecord
<1> QED
  BY <1>2, <1>3, <1>4

\* Operations that change neither the team nor its list.
LEMMA SameWorkers ==
    ASSUME WorkersInv, UNCHANGED <<env, current, finished, dropped, aggregated, seats, torn>>,
           banned' \subseteq banned, stage' \notin {"aggregate", "advance"}
    PROVE  WorkersInv'
  BY DEF WorkersInv, WorkersOK, SeatsOK, TeamOnRecord

\* Every operation keeps the team and its list.
LEMMA StepWorkers ==
    ASSUME StorageInv, TypeInv, WorkersInv, [Next]_vars
    PROVE  WorkersInv'
<1>0. /\ WorkersOK /\ SeatsOK /\ TeamOnRecord
      /\ current \subseteq Participants /\ finished \subseteq Participants
      /\ done \subseteq current /\ Queued \subseteq Participants
      /\ dropped \in [Participants -> Nat] /\ env.ban_threshold \in Nat
  BY EnvironmentTypes DEF WorkersInv, TypeInv, TypeOK, QueueRecords
<1>1. CASE Initialize \/ Restart \/ Crash \/ Verify \/ VerifyFails \/ SetManualLock
  BY <1>1, SameWorkers
     DEF Initialize, Restart, Crash, Verify, VerifyFails, SetManualLock, state, store
<1>2. CASE InitializeCut
  BY <1>0, <1>2 DEF InitializeCut, CutIn, state, WorkersInv, WorkersOK, SeatsOK, TeamOnRecord
<1>3. ASSUME NEW p \in Participants,
             AddToQueue(p) \/ RemoveFromQueue(p) \/ Contribute(p) \/ UnbanParticipant(p)
      PROVE  WorkersInv'
  BY <1>3, SameWorkers DEF AddToQueue, RemoveFromQueue, Contribute, UnbanParticipant, store
<1>4. CASE WaitTimeOver
  BY <1>0, <1>4 DEF WaitTimeOver, store, WorkersInv, WorkersOK, SeatsOK, TeamOnRecord
<1>5. ASSUME NEW p \in Participants, DropParticipant(p) \/ BanParticipant(p)
      PROVE  WorkersInv'
  <2>1. /\ DropOne(p) /\ torn = "none" /\ stage = "idle" /\ UNCHANGED <<env, stage, torn>>
        /\ banned' \subseteq IF p \in Queued THEN banned ELSE banned \cup {p}
    BY <1>5 DEF DropParticipant, BanParticipant
  <2>2. CASE p \in Queued
    BY <2>1, <2>2, SameWorkers DEF DropOne, store
  <2>3. CASE p \notin Queued
    <3>1. /\ {p} \in SUBSET current /\ {p} # {} /\ Drop({p})
          /\ banned' \subseteq banned \cup {p} /\ stage' \notin {"aggregate", "advance"}
      BY <2>1, <2>3 DEF DropOne
    <3>2. WorkersOK'
      BY <1>0, <2>1, <3>1, DropKeepsWorkers DEF Drop
    <3>3. SeatsOK' /\ TeamOnRecord'
      BY <2>1, <3>1, DropKeepsTeam
    <3> QED
      BY <3>2, <3>3 DEF WorkersInv
  <2> QED
    BY <2>2, <2>3
<1>6. ASSUME NEW T \in SUBSET current, DropCut(T) PROVE WorkersInv'
  BY <1>0, <1>6 DEF DropCut, CutIn, state, WorkersInv, WorkersOK, SeatsOK, TeamOnRecord
<1>7. ASSUME NEW T \in SUBSET current, DropFails(T) PROVE WorkersInv'
  <2>1. /\ T # {} /\ env' = env /\ banned' \subseteq banned \cup T
        /\ stage' = "idle" /\ torn' = "drop"
    BY <1>7 DEF DropFails, ToDrop
  <2>2. PICK pick \in Picks(T) : DropState(T, pick)
    BY <1>7 DEF DropFails
  <2>3. WorkersOK'
    BY <1>0, <2>1, <2>2, DropKeepsWorkers
  <2> QED
    BY <2>1, <2>3 DEF WorkersInv, SeatsOK, TeamOnRecord
<1>8. CASE ResetRoundDone \/ ResetRoundCut
  <2>1. /\ current' = {} /\ finished' = {} /\ aggregated' = "done"
        /\ stage' \notin {"aggregate", "advance"}
    BY <1>8 DEF ResetRoundDone, ResetRoundCut, ResetRound, RollbackState
  <2> QED
    BY <2>1 DEF WorkersInv, WorkersOK, SeatsOK, TeamOnRecord
<1>9. CASE UpdateQueue \/ UpdateDroppedQueuedParticipants
  BY <1>9, SameWorkers DEF UpdateQueue, UpdateDroppedQueuedParticipants, store
<1>10. CASE UpdateCurrentContributors
  <2>1. /\ current' = current \ done /\ finished' = finished \cup done /\ stage' = "drops"
        /\ UNCHANGED <<env, dropped, banned, aggregated, seats, torn>>
    BY <1>10 DEF UpdateCurrentContributors, store
  <2>2. current' \cup finished' = current \cup finished /\ current' \cap finished' \subseteq current \cap finished
    BY <1>0, <2>1
  <2>3. SeatsOK' /\ TeamOnRecord'
    BY <1>0, <2>1, <2>2 DEF SeatsOK, TeamOnRecord
  <2>4. WorkersOK'
    BY <1>0, <2>1, <2>2 DEF WorkersOK
  <2> QED
    BY <2>3, <2>4 DEF WorkersInv
<1>11. CASE UpdateDroppedParticipants
  <2>1. PICK late \in SUBSET (current \ env.replacement), gone \in SUBSET current :
          /\ gone \subseteq late
          /\ late # {} => torn = "none"
          /\ IF gone = {}
             THEN UNCHANGED <<status, height, aggregated, wait, current, done, pending, finished,
                              dropped, manual_lock, store>>
             ELSE Drop(gone)
    BY <1>11 DEF UpdateDroppedParticipants
  <2>2. UNCHANGED <<env, banned, torn>> /\ stage' = "queued"
    BY <1>11 DEF UpdateDroppedParticipants
  <2>3. CASE gone = {}
    BY <2>1, <2>2, <2>3, SameWorkers DEF store
  <2>4. CASE gone # {}
    <3>1. WorkersOK'
      BY <1>0, <2>1, <2>2, <2>4, DropKeepsWorkers DEF Drop
    <3>2. SeatsOK' /\ TeamOnRecord'
      BY <2>1, <2>4, DropKeepsTeam
    <3> QED
      BY <3>1, <3>2 DEF WorkersInv
  <2> QED
    BY <2>3, <2>4
<1>12. CASE UpdateBannedParticipants
  <2>1. /\ banned' = banned \cup {p \in Participants : dropped[p] > env.ban_threshold}
        /\ UNCHANGED <<env, current, finished, dropped, aggregated, seats, torn>>
    BY <1>12 DEF UpdateBannedParticipants, store
  <2>2. \A p \in (current \cup finished) \ env.replacement : p \notin banned'
    BY <1>0, <2>1 DEF WorkersOK
  <2>3. WorkersOK'
    BY <1>0, <2>1, <2>2 DEF WorkersOK
  <2> QED
    BY <1>0, <2>1, <2>3 DEF WorkersInv, SeatsOK, TeamOnRecord
<1>13. CASE Aggregate \/ AggregateFails \/ AggregateCut \/ AggregateRefused
  BY <1>0, <1>13
     DEF Aggregate, AggregateFails, AggregateCut, AggregateRefused, RollbackAggregating, state,
         store, WorkersInv, WorkersOK, SeatsOK, TeamOnRecord
<1>14. CASE Advance
  <2>1. /\ current' = Assigned /\ finished' = {} /\ aggregated' = "no" /\ stage' = "idle"
        /\ seats' = [p \in Participants |-> IF p \in Assigned THEN 1 ELSE 0]
        /\ UNCHANGED <<env, dropped, banned>>
        /\ stage = "advance" /\ Assigned \cap banned = {}
    BY <1>14 DEF Advance, WriteNextRound, MayAdvance, CanPrecommit
  <2>2. Assigned \subseteq Participants
    BY <1>0 DEF Assigned
  <2>3. \A p \in Assigned : dropped[p] <= env.ban_threshold
    BY <1>0, <2>1, <2>2 DEF WorkersOK
  <2>4. {p \in Participants : seats'[p] > 0} = current' \cup finished'
    BY <2>1, <2>2
  <2> QED
    BY <2>1, <2>3, <2>4 DEF WorkersInv, WorkersOK, SeatsOK, TeamOnRecord
<1>15. CASE AdvanceCut
  BY <1>0, <1>15 DEF AdvanceCut, CutIn, state, WorkersInv, WorkersOK, SeatsOK, TeamOnRecord
<1>16. CASE AdvanceFails \/ StayInRound
  <2>1. /\ UNCHANGED <<env, current, finished, dropped, banned, aggregated>> /\ stage' = "idle"
        /\ UNCHANGED <<seats, torn>> \/ torn' = "advance"
    BY <1>16 DEF AdvanceFails, StayInRound, state, store
  <2> QED
    BY <1>0, <2>1 DEF WorkersInv, WorkersOK, SeatsOK, TeamOnRecord
<1>17. CASE UNCHANGED vars
  BY <1>0, <1>17 DEF vars, state, store, WorkersInv, WorkersOK, SeatsOK, TeamOnRecord
<1> QED
  BY <1>1, <1>2, <1>3, <1>4, <1>5, <1>6, <1>7, <1>8, <1>9, <1>10, <1>11, <1>12, <1>13, <1>14,
     <1>15, <1>16, <1>17
     DEF Next, Update, Participants

\* At first nobody is at work and no seat is taken.
LEMMA InitWorkers == Init => WorkersInv
<1> SUFFICES ASSUME Init PROVE WorkersInv
  OBVIOUS
<1>1. \A p \in Participants : ~(seats[p] > 0)
  BY DEF Init, NoSeats
<1> QED
  BY <1>1 DEF Init, WorkersInv, WorkersOK, SeatsOK, TeamOnRecord

\* No contributor works on a round while banned, however bans, unbans, drops,
\* updates and crashes interleave (coordinator_state.rs: update_queue,
\* update_banned_participants, precommit_next_round).
THEOREM BannedNeverAtWork == Spec => []BannedNeverWork
<1>1. Spec => [](StorageInv /\ TypeInv /\ WorkersInv)
  BY InitStorage, StepStorage, InitTypes, StepTypeInv, InitWorkers, StepWorkers, PTL DEF Spec
<1>2. WorkersInv => BannedNeverWork
  BY DEF WorkersInv, WorkersOK, BannedNeverWork
<1> QED
  BY <1>1, <1>2, PTL

\* The team in the state and the list in storage agree through drops, resets,
\* rollbacks and replacements, by however many coordinator contributors and however
\* often the same one is chosen (coordinator.rs: drop_participant_from_storage).
THEOREM TeamAlwaysOnRecord == Spec => []TeamOnRecord
<1>1. Spec => [](StorageInv /\ TypeInv /\ WorkersInv)
  BY InitStorage, StepStorage, InitTypes, StepTypeInv, InitWorkers, StepWorkers, PTL DEF Spec
<1> QED
  BY <1>1, PTL DEF WorkersInv

-----------------------------------------------------------------------------
(***************************************************************************)
(* The queue through an update: the rounds assigned when it starts follow  *)
(* the times of joining, and later stages only take members out.           *)
(***************************************************************************)
OrderOK ==
    stage \notin {"down", "idle"} =>
        /\ \A p \in Queued : queue[p].round >= height + 1
        /\ \A p, q \in Queued :
              queue[p].joined < queue[q].joined => queue[p].round <= queue[q].round

\* A later place in the queue is never in an earlier chunk.
LEMMA DivMonotone ==
    ASSUME NEW a \in Nat, NEW b \in Nat, NEW m \in Nat \ {0}, a <= b
    PROVE  a \div m \in Nat /\ b \div m \in Nat /\ a \div m <= b \div m
  OBVIOUS

\* Leaving keeps the assignment in order.
LEMMA DequeueKeepsOrder ==
    ASSUME TypeInv, OrderOK, stage \notin {"down", "idle"}, NEW T,
           queue' = Dequeue(queue, T), height' \in {height, height - 1}, height \in Int
    PROVE  OrderOK'
<1>1. Queued \in SUBSET Participants /\ queue \in [Queued -> Entry]
  BY DEF TypeInv, QueueRecords
<1>2. /\ Queued' = Queued \ T
      /\ \A p \in Queued \ T : queue'[p].round = queue[p].round
      /\ \A p, r \in Queued \ T : queue'[p].joined < queue'[r].joined => queue[p].joined < queue[r].joined
  <2>1. DOMAIN Dequeue(queue, T) = Queued \ T
    BY <1>1, DequeuedQueue
  <2>2. \A p \in Queued \ T : Dequeue(queue, T)[p].round = queue[p].round
    <3> TAKE p \in Queued \ T
    <3>1. \E n : Dequeue(queue, T)[p] = [queue[p] EXCEPT !.joined = n]
      BY DEF Dequeue, Ranked, Queued
    <3>2. queue[p] \in Entry
      BY <1>1
    <3> QED
      BY <3>1, <3>2 DEF Entry
  <2>3. \A p, r \in Queued \ T :
          Dequeue(queue, T)[p].joined < Dequeue(queue, T)[r].joined => queue[p].joined < queue[r].joined
    BY <1>1, DequeuedQueue
  <2> QED
    BY <2>1, <2>2, <2>3 DEF Queued
<1>3. \A p \in Queued : queue[p].round \in Nat
  BY <1>1 DEF Entry
<1> QED
  BY <1>2, <1>3 DEF OrderOK

\* The assignment that starts an update is in order.
LEMMA UpdateQueueOrders ==
    ASSUME StorageInv, TypeInv, UpdateQueue
    PROVE  OrderOK'
<1>0. /\ Queued \in SUBSET Participants /\ queue \in [Queued -> Entry]
      /\ env.maximum \in Nat \ {0} /\ height \in Nat /\ height' = height
  BY EnvironmentTypes DEF TypeInv, TypeOK, QueueRecords, UpdateQueue, StorageInv, HeightsOK
<1>1. PICK order \in Orders(Queued \ banned) :
        queue' = Ranked([p \in Queued \ banned |->
                           [queue[p] EXCEPT !.round = AssignedRound(order[p])]])
  BY DEF UpdateQueue
<1> DEFINE S == Queued \ banned
           q == [p \in S |-> [queue[p] EXCEPT !.round = AssignedRound(order[p])]]
<1>2. Cardinality(S) \in Nat /\ S \in SUBSET Participants
  BY <1>0, FiniteParticipants
<1>3. \A p \in S : order[p] \in 1..Cardinality(S)
  BY DEF Orders
<1>4. \A p, r \in S : queue[p].joined < queue[r].joined => order[p] < order[r]
  BY DEF Orders
<1>5. \A m, n \in 1..Cardinality(S) :
        m <= n => /\ AssignedRound(m) \in Nat /\ AssignedRound(n) \in Nat
                  /\ AssignedRound(m) >= height + 1 /\ AssignedRound(m) <= AssignedRound(n)
  <2> TAKE m, n \in 1..Cardinality(S)
  <2> HAVE m <= n
  <2>1. m - 1 \in Nat /\ n - 1 \in Nat /\ m - 1 <= n - 1
    BY <1>2
  <2>2. /\ (m - 1) \div env.maximum \in Nat /\ (n - 1) \div env.maximum \in Nat
        /\ (m - 1) \div env.maximum <= (n - 1) \div env.maximum
    BY <1>0, <2>1, DivMonotone
  <2> QED
    BY <1>0, <2>2 DEF AssignedRound
<1>6. \A p \in S : /\ AssignedRound(order[p]) \in Nat /\ AssignedRound(order[p]) >= height + 1
                  /\ q[p] = [round |-> AssignedRound(order[p]), joined |-> queue[p].joined]
  <2>1. \A p \in S : AssignedRound(order[p]) \in Nat /\ AssignedRound(order[p]) >= height + 1
    BY <1>2, <1>3, <1>5
  <2>2. \A p \in S : q[p] = [round |-> AssignedRound(order[p]), joined |-> queue[p].joined]
    BY <1>0 DEF Entry
  <2> QED
    BY <2>1, <2>2
<1>7. q \in [S -> Entry]
  <2>1. \A p \in S : queue[p].joined \in Nat
    BY <1>0 DEF Entry
  <2>2. \A p \in S : q[p] \in Entry
    <3> TAKE p \in S
    <3>1. q[p] = [round |-> AssignedRound(order[p]), joined |-> queue[p].joined]
      BY <1>6
    <3>2. AssignedRound(order[p]) \in Nat /\ queue[p].joined \in Nat
      BY <1>6, <2>1
    <3> HIDE DEF q
    <3> QED
      BY <3>1, <3>2 DEF Entry
  <2>3. q = [p \in S |-> q[p]]
    OBVIOUS
  <2> HIDE DEF q
  <2> QED
    BY <2>2, <2>3
<1>8. \A p, r \in S : q[p].joined < q[r].joined => q[p].round <= q[r].round
  <2> TAKE p, r \in S
  <2>1. /\ q[p].joined = queue[p].joined /\ q[r].joined = queue[r].joined
        /\ q[p].round = AssignedRound(order[p]) /\ q[r].round = AssignedRound(order[r])
    BY <1>6, ZenonT(60)
  <2> HIDE DEF q
  <2> HAVE q[p].joined < q[r].joined
  <2>2. order[p] < order[r] /\ order[p] \in 1..Cardinality(S) /\ order[r] \in 1..Cardinality(S)
    BY <1>3, <1>4, <2>1
  <2> HIDE DEF S
  <2>3. order[p] <= order[r]
    BY <1>2, <2>2
  <2>4. AssignedRound(order[p]) <= AssignedRound(order[r])
    BY <1>5, <2>2, <2>3
  <2> QED
    BY <2>1, <2>4
<1>9. queue' = Ranked(q)
  BY <1>1
<1> HIDE DEF S, q
<1>10. /\ DOMAIN Ranked(q) = S
       /\ \A p \in S : Ranked(q)[p].round = q[p].round
       /\ \A p, r \in S : Ranked(q)[p].joined < Ranked(q)[r].joined => q[p].joined < q[r].joined
  BY <1>2, <1>7, RankedQueue
<1>11. \A p \in S : q[p].round >= height + 1
  <2> TAKE p \in S
  <2>1. /\ q[p] = [round |-> AssignedRound(order[p]), joined |-> queue[p].joined]
        /\ AssignedRound(order[p]) >= height + 1
    BY <1>6
  <2>2. q[p].round = AssignedRound(order[p])
    BY <2>1
  <2> QED
    BY <2>1, <2>2
<1> QED
  BY <1>0, <1>8, <1>9, <1>10, <1>11 DEF OrderOK, Queued

\* Every operation keeps the assignment in order while an update runs.
LEMMA StepOrder ==
    ASSUME StorageInv, TypeInv, OrderOK, [Next]_vars
    PROVE  OrderOK'
<1>0. height \in Int
  BY DEF StorageInv, HeightsOK
<1>1. ASSUME stage' \in {"down", "idle"} PROVE OrderOK'
  BY <1>1 DEF OrderOK
<1>2. ASSUME UNCHANGED <<queue, height>>, stage' \notin {"down", "idle"} => stage \notin {"down", "idle"}
      PROVE  OrderOK'
  BY <1>2 DEF OrderOK, Queued
<1>3. CASE Initialize \/ InitializeCut \/ Restart \/ Crash \/ Verify \/ VerifyFails
           \/ SetManualLock \/ ResetRoundDone \/ ResetRoundCut
  BY <1>1, <1>3
     DEF Initialize, InitializeCut, Restart, Crash, Verify, VerifyFails, SetManualLock,
         ResetRoundDone, ResetRoundCut, CutIn
<1>4. ASSUME NEW p \in Participants,
             \/ AddToQueue(p) \/ RemoveFromQueue(p) \/ Contribute(p) \/ DropParticipant(p)
             \/ BanParticipant(p) \/ UnbanParticipant(p)
      PROVE  OrderOK'
  BY <1>1, <1>4
     DEF AddToQueue, RemoveFromQueue, Contribute, DropParticipant, BanParticipant,
         UnbanParticipant
<1>11. ASSUME NEW T \in SUBSET current, DropCut(T) \/ DropFails(T) PROVE OrderOK'
  BY <1>1, <1>11 DEF DropCut, DropFails, CutIn
<1>5. CASE UpdateQueue
  BY <1>5, UpdateQueueOrders
<1>6. CASE UpdateDroppedParticipants
  <2>1. PICK late \in SUBSET (current \ env.replacement), gone \in SUBSET current :
          /\ queue' = Dequeue(queue, late)
          /\ IF gone = {}
             THEN UNCHANGED <<status, height, aggregated, wait, current, done, pending, finished,
                              dropped, manual_lock, store>>
             ELSE Drop(gone)
    BY <1>6 DEF UpdateDroppedParticipants
  <2>2. height' \in {height, height - 1}
    BY <2>1 DEF Drop, DropState, ReplaceState, ResetState, RestartState, RollbackState
  <2>3. stage \notin {"down", "idle"}
    BY <1>6 DEF UpdateDroppedParticipants
  <2> QED
    BY <1>0, <2>1, <2>2, <2>3, DequeueKeepsOrder
<1>7. CASE UpdateDroppedQueuedParticipants
  <2>1. PICK late \in SUBSET Queued : queue' = Dequeue(queue, late)
    BY <1>7 DEF UpdateDroppedQueuedParticipants
  <2>2. stage \notin {"down", "idle"} /\ height' \in {height, height - 1}
    BY <1>7 DEF UpdateDroppedQueuedParticipants
  <2> QED
    BY <1>0, <2>1, <2>2, DequeueKeepsOrder
<1>8. CASE WaitTimeOver \/ UpdateCurrentContributors \/ UpdateBannedParticipants \/ Aggregate
  BY <1>2, <1>8 DEF WaitTimeOver, UpdateCurrentContributors, UpdateBannedParticipants, Aggregate
<1>9. CASE \/ AggregateFails \/ AggregateCut \/ AggregateRefused
           \/ Advance \/ AdvanceCut \/ AdvanceFails \/ StayInRound
  BY <1>1, <1>9
     DEF AggregateFails, AggregateCut, AggregateRefused, Advance, AdvanceCut, AdvanceFails,
         StayInRound, CutIn
<1>10. CASE UNCHANGED vars
  BY <1>2, <1>10 DEF vars, state
<1> QED
  BY <1>3, <1>4, <1>5, <1>6, <1>7, <1>8, <1>9, <1>10, <1>11 DEF Next, Update, Participants

\* Only an initialization and an advance raise the height, and an advance takes
\* the first of the queue.
LEMMA StepServesFirst ==
    ASSUME StorageInv, TypeInv, OrderOK, [Next]_vars, height' = height + 1
    PROVE  \A p \in current', q \in Queued' : queue[p].joined <= queue[q].joined
<1>0. height \in Int
  BY DEF StorageInv, HeightsOK
<1>1. CASE Initialize
  BY <1>1 DEF Initialize, CanInitialize, StorageInv, HeightsOK
<1>2. CASE Advance
  <2>1. current' = Assigned /\ queue' = Dequeue(queue, Assigned) /\ stage = "advance"
    BY <1>2 DEF Advance, MayAdvance
  <2>2. Queued' = Queued \ Assigned
    BY <2>1 DEF Dequeue, Ranked, Queued
  <2>3. \A p \in Queued : queue[p].joined \in Nat /\ queue[p].round \in Nat
    BY DEF TypeInv, TypeOK, QueueTypeOK
  <2>4. \A p \in Assigned : p \in Queued /\ queue[p].round = height + 1
    BY DEF Assigned
  <2>5. \A q \in Queued \ Assigned : queue[q].round # height + 1
    BY DEF Assigned
  <2>6. \A p \in Assigned, q \in Queued \ Assigned : ~(queue[q].joined < queue[p].joined)
    BY <1>0, <2>1, <2>3, <2>4, <2>5 DEF OrderOK
  <2> QED
    BY <2>1, <2>2, <2>3, <2>4, <2>6
<1>3. CASE ~Initialize /\ ~Advance
  <2>1. height' \in {height, height - 1}
    BY <1>3
       DEF Next, Update, vars, state, InitializeCut, Restart, Crash, AddToQueue, RemoveFromQueue,
           Contribute, Verify, VerifyFails, WaitTimeOver, Drop, DropParticipant, DropCut, DropFails, BanParticipant,
           UnbanParticipant, SetManualLock, ResetRoundDone, ResetRoundCut, ResetRound, DropOne,
           DropState, ReplaceState, ResetState, RestartState, RollbackState, UpdateQueue,
           UpdateCurrentContributors, UpdateDroppedParticipants, UpdateDroppedQueuedParticipants,
           UpdateBannedParticipants, Aggregate, AggregateFails, AggregateCut, AggregateRefused,
           AdvanceCut, AdvanceFails, StayInRound
  <2> QED
    BY <1>0, <2>1
<1> QED
  BY <1>1, <1>2, <1>3

\* A round takes its contributors from the front of the queue, whatever happens
\* between the assignment and the commit (coordinator_state.rs: update_queue).
THEOREM ServedInOrder == Spec => FirstComeFirstServed
<1>1. Init => OrderOK
  BY DEF Init, OrderOK
<1>2. Spec => [](StorageInv /\ TypeInv /\ OrderOK)
  BY <1>1, InitStorage, StepStorage, InitTypes, StepTypeInv, StepOrder, PTL DEF Spec
<1>3. StorageInv /\ TypeInv /\ OrderOK /\ [Next]_vars
      => [height' = height + 1 =>
            \A p \in current', q \in Queued' : queue[p].joined <= queue[q].joined]_vars
  BY StepServesFirst
<1> QED
  BY <1>2, <1>3, PTL DEF Spec, FirstComeFirstServed

-----------------------------------------------------------------------------
(***************************************************************************)
(* Nobody is lost.                                                         *)
(***************************************************************************)
MembersOK == members \subseteq Queued \cup current \cup finished

\* Who is in the queue after ranking, leaving and joining.
LEMMA QueueDomains ==
    ASSUME NEW q, NEW T, NEW assigned
    PROVE  /\ DOMAIN Ranked(q) = DOMAIN q
           /\ DOMAIN Dequeue(q, T) = DOMAIN q \ T
           /\ DOMAIN Requeue(q, T, assigned) = DOMAIN q \cup T
  BY DEF Ranked, Dequeue, Requeue

\* Dropping T takes no one else from the round.
LEMMA DropKeepsOthers ==
    ASSUME NEW T, NEW pick, DropState(T, pick)
    PROVE  (current \cup finished) \ T \subseteq current' \cup finished'
  BY DEF DropState, ReplaceState, ResetState, RestartState, RollbackState, Left

\* Every operation keeps everyone.
LEMMA StepMembers ==
    ASSUME MembersOK, [Next]_vars
    PROVE  MembersOK'
<1>1. ASSUME UNCHANGED <<queue, current, finished>>, members' \subseteq members
      PROVE  MembersOK'
  BY <1>1 DEF MembersOK, Queued
<1>3. CASE \/ Initialize \/ Restart \/ Crash \/ Verify \/ VerifyFails \/ WaitTimeOver
           \/ SetManualLock
           \/ UpdateBannedParticipants \/ Aggregate \/ AggregateFails \/ AggregateCut
           \/ AggregateRefused \/ StayInRound \/ InitializeCut \/ AdvanceCut
  BY <1>1, <1>3
     DEF Initialize, InitializeCut, AdvanceCut, Restart, Crash, Verify, VerifyFails,
         WaitTimeOver, SetManualLock,
         UpdateBannedParticipants, Aggregate, AggregateFails, AggregateCut, AggregateRefused,
         StayInRound, state
<1>4. ASSUME NEW T \in SUBSET current, DropCut(T) PROVE MembersOK'
  BY <1>1, <1>4 DEF DropCut, state
<1>5. ASSUME NEW T \in SUBSET current, DropFails(T) PROVE MembersOK'
  <2>1. (\E pick : DropState(T, pick)) /\ members' = members \ T /\ Queued' = Queued
    BY <1>5 DEF DropFails, Queued
  <2>2. (current \cup finished) \ T \subseteq current' \cup finished'
    BY <2>1, DropKeepsOthers
  <2> QED
    BY <2>1, <2>2 DEF MembersOK
<1>6. ASSUME NEW p \in Participants, Contribute(p) \/ UnbanParticipant(p) PROVE MembersOK'
  BY <1>1, <1>6 DEF Contribute, UnbanParticipant
<1>7. ASSUME NEW p \in Contributors, AddToQueue(p) PROVE MembersOK'
  <2>1. Queued' = Queued \cup {p}
    BY <1>7, QueueDomains, ZenonT(60) DEF AddToQueue, Queued
  <2> QED
    BY <1>7, <2>1 DEF AddToQueue, MembersOK
<1>8. ASSUME NEW p \in Contributors, RemoveFromQueue(p) PROVE MembersOK'
  <2>1. Queued' = Queued \ {p}
    BY <1>8, QueueDomains DEF RemoveFromQueue, Queued
  <2> QED
    BY <1>8, <2>1 DEF RemoveFromQueue, MembersOK
<1>9. ASSUME NEW p \in Participants, DropParticipant(p) \/ BanParticipant(p) PROVE MembersOK'
  <2>1. DropOne(p)
    BY <1>9 DEF DropParticipant, BanParticipant
  <2>2. CASE p \in Queued
    <3>1. Queued' = Queued \ {p}
      BY <2>1, <2>2, QueueDomains DEF DropOne, Queued
    <3> QED
      BY <2>1, <2>2, <3>1 DEF DropOne, MembersOK
  <2>3. CASE p \notin Queued
    <3>1. (\E pick : DropState({p}, pick)) /\ members' = members \ {p} /\ Queued' = Queued
      BY <2>1, <2>3 DEF DropOne, Drop, Queued
    <3>2. (current \cup finished) \ {p} \subseteq current' \cup finished'
      BY <3>1, DropKeepsOthers
    <3> QED
      BY <2>1, <3>1, <3>2 DEF MembersOK
  <2> QED
    BY <2>2, <2>3
<1>10. CASE ResetRoundDone \/ ResetRoundCut
  <2>1. queue' = Requeue(queue, Left({}), height) /\ members' = members
    BY <1>10 DEF ResetRoundDone, ResetRoundCut, ResetRound
  <2>2. DOMAIN Requeue(queue, Left({}), height) = Queued \cup Left({})
    BY QueueDomains DEF Queued
  <2>3. Queued' = Queued \cup current \cup finished
    BY <2>1, <2>2 DEF Queued, Left
  <2> QED
    BY <2>1, <2>3 DEF MembersOK
<1>11. CASE UpdateQueue
  <2>1. PICK order \in Orders(Queued \ banned) :
          queue' = Ranked([p \in Queued \ banned |->
                             [queue[p] EXCEPT !.round = AssignedRound(order[p])]])
    BY <1>11 DEF UpdateQueue
  <2>2. Queued' = Queued \ banned
    BY <2>1, QueueDomains DEF Queued
  <2> QED
    BY <1>11, <2>2 DEF UpdateQueue, MembersOK
<1>12. CASE UpdateCurrentContributors
  BY <1>12 DEF UpdateCurrentContributors, MembersOK, Queued
<1>13. CASE UpdateDroppedParticipants
  <2>1. PICK late \in SUBSET (current \ env.replacement), gone \in SUBSET current :
          /\ late \ Queued \subseteq gone
          /\ queue' = Dequeue(queue, late)
          /\ members' = members \ gone
          /\ IF gone = {}
             THEN UNCHANGED <<status, height, aggregated, wait, current, done, pending, finished,
                              dropped, manual_lock, store>>
             ELSE Drop(gone)
    BY <1>13 DEF UpdateDroppedParticipants
  <2>2. Queued' = Queued \ late
    BY <2>1, QueueDomains DEF Queued
  <2>3. (current \cup finished) \ gone \subseteq current' \cup finished'
    BY <2>1, DropKeepsOthers DEF Drop
  <2> QED
    BY <2>1, <2>2, <2>3 DEF MembersOK
<1>14. CASE UpdateDroppedQueuedParticipants
  <2>1. PICK late \in SUBSET Queued :
          /\ queue' = Dequeue(queue, late)
          /\ members' = members \ (late \ (current \cup finished))
    BY <1>14 DEF UpdateDroppedQueuedParticipants
  <2>2. Queued' = Queued \ late
    BY <2>1, QueueDomains DEF Queued
  <2> QED
    BY <1>14, <2>1, <2>2 DEF UpdateDroppedQueuedParticipants, MembersOK
<1>15. CASE Advance
  <2>1. Queued' = Queued \ Assigned
    BY <1>15, QueueDomains DEF Advance, Queued
  <2> QED
    BY <1>15, <2>1 DEF Advance, MembersOK
<1>16. CASE AdvanceFails
  <2>1. /\ queue' = Requeue(Dequeue(queue, Assigned), Assigned, height + 1)
        /\ UNCHANGED <<current, finished, members>>
    BY <1>16 DEF AdvanceFails, RollbackNextRound
  <2>2. DOMAIN Dequeue(queue, Assigned) = Queued \ Assigned
    BY QueueDomains DEF Queued
  <2>3. DOMAIN Requeue(Dequeue(queue, Assigned), Assigned, height + 1)
          = (DOMAIN Dequeue(queue, Assigned)) \cup Assigned
    BY QueueDomains
  <2>4. Queued' = (Queued \ Assigned) \cup Assigned
    BY <2>1, <2>2, <2>3 DEF Queued
  <2> QED
    BY <2>1, <2>4 DEF MembersOK
<1>17. CASE UNCHANGED vars
  BY <1>1, <1>17 DEF vars, state
<1> QED
  BY <1>3, <1>4, <1>5, <1>6, <1>7, <1>8, <1>9, <1>10, <1>11, <1>12, <1>13, <1>14, <1>15, <1>16,
     <1>17
     DEF Next, Update

\* Whoever joined stays in the queue or in the round until they leave, are dropped
\* or banned, or are through: failed advances, resets, rollbacks and crashes
\* between any two writes lose nobody (coordinator_state.rs: rollback_next_round,
\* reset_current_round).
THEOREM NobodyEverLost == Spec => []NobodyLost
<1>1. Init => MembersOK
  BY DEF Init, MembersOK
<1>2. Spec => []MembersOK
  BY <1>1, StepMembers, PTL DEF Spec
<1>3. MembersOK => NobodyLost
  BY DEF MembersOK, NobodyLost
<1> QED
  BY <1>2, <1>3, PTL
=============================================================================
