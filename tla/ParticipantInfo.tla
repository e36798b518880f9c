--------------------------- MODULE ParticipantInfo ---------------------------
(***************************************************************************)
(* The work list of one contributor of the current round: struct           *)
(* ParticipantInfo of phase1-coordinator/src/coordinator_state.rs.         *)
(*                                                                         *)
(* Each method is a pair: CanX(info, ..) is the conjunction of the checks  *)
(* that make the method return Err before it changes anything, X(info, ..) *)
(* is the record it leaves.  assigned_tasks is a sequence (tasks are       *)
(* popped and pushed at its front); the other lists are only searched,     *)
(* extended and filtered by value, so they are sets.  The checks on        *)
(* started_at, dropped_at and finished_at are not repeated: a contributor  *)
(* of the current round is started, and is moved out of the current round  *)
(* in the same step that sets one of the other two.                        *)
(***************************************************************************)
EXTENDS Tasks, Functions

Info(Chunks, Ids, Buckets) ==
    LET AllTasks == [chunk : Chunks, id : Ids]
    IN  [bucket : Buckets,
         assigned : Seq(AllTasks),
         pending : SUBSET AllTasks,
         completed : SUBSET AllTasks,
         disposing : SUBSET AllTasks,
         disposed : SUBSET AllTasks,
         locked : SUBSET Chunks]

\* ParticipantInfo::new followed by start(tasks).
StartedInfo(bucket_id, tasks) ==
    [bucket |-> bucket_id, assigned |-> tasks, pending |-> {}, completed |-> {},
     disposing |-> {}, disposed |-> {}, locked |-> {}]

\* Clears tasks and locks and starts again; the bucket ID stays as it was.
RestartTasks(info, tasks) == StartedInfo(info.bucket, tasks)

OnChunk(tasks, c) == {t \in tasks : t.chunk = c}

CanPushFrontTask(info, t) ==
    /\ t.chunk \notin info.locked
    /\ t \notin Range(info.assigned)
    /\ t \notin info.pending
    /\ t \notin info.completed

PushFrontTask(info, t) == [info EXCEPT !.assigned = <<t>> \o @]

CanPopTask(info) == info.assigned # << >>

PopTask(info) ==
    [info EXCEPT !.assigned = Tail(@), !.pending = @ \cup {Head(info.assigned)}]

CanAcquireLock(info, c) ==
    /\ c \notin info.locked
    /\ OnChunk(info.pending, c) # {}
    /\ OnChunk(info.completed, c) = {}

AcquiredLock(info, c) == [info EXCEPT !.locked = @ \cup {c}]

\* Puts a task that is no longer pending back at the front.  When
\* push_front_task refuses it, it is in none of the lists any more.
ReturnTask(info, t) ==
    LET removed == [info EXCEPT !.pending = @ \ {t}]
    IN  IF CanPushFrontTask(removed, t) THEN PushFrontTask(removed, t) ELSE removed

CanRollbackPendingTask(info, t) ==
    /\ t.chunk \notin info.locked
    /\ OnChunk(info.pending, t.chunk) # {}
    /\ OnChunk(info.completed, t.chunk) = {}

RollbackPendingTask(info, t) == ReturnTask(info, t)

CanRollbackLockedTask(info, t) ==
    /\ t.chunk \in info.locked
    /\ OnChunk(info.pending, t.chunk) # {}
    /\ OnChunk(info.completed, t.chunk) = {}

\* Mutant: the lock stays among the locked chunks.
RollbackLockedTask_KeepsLock(info, t) == ReturnTask(info, t)

RollbackLockedTask(info, t) ==
    ReturnTask([info EXCEPT !.locked = @ \ {t.chunk}], t)

CanCompleteTask(info, t) ==
    /\ t.chunk \in info.locked
    /\ t \notin Range(info.assigned)
    /\ t \in info.pending
    /\ OnChunk(info.completed, t.chunk) = {}

CompletedTask(info, t) ==
    [info EXCEPT !.locked = @ \ {t.chunk}, !.pending = @ \ {t},
                 !.completed = @ \cup {t}]

CanDisposeTask(info, t) == t.chunk \in info.locked /\ t \in info.disposing

DisposeTask(info, t) ==
    [info EXCEPT !.locked = @ \ {t.chunk}, !.disposing = @ \ {t},
                 !.disposed = @ \cup {t}]

\* The checks of ParticipantInfo::finish.
CanFinish(info) ==
    /\ info.locked = {}
    /\ info.assigned = << >>
    /\ info.pending = {}
    /\ info.completed # {}
    /\ info.disposing = {}

\* Mutants of the loop over the current contributors: completed tasks built on
\* a dropped contribution are kept; chunks that are pending are assigned again.
AfterDropOf_KeepsCompleted(info, dropped, tasks) ==
    LET pending == {t \in info.pending : \A d \in dropped : d.chunk # t.chunk}
        Remains(t) == t.chunk \notin {u.chunk : u \in info.completed \cup pending}
    IN  [info EXCEPT !.assigned = SelectSeq(tasks, Remains), !.pending = pending,
                     !.disposing = info.pending \ pending]
AfterDropOf_PendingAgain(info, dropped, tasks) ==
    LET pending == {t \in info.pending : \A d \in dropped : d.chunk # t.chunk}
        completed == {t \in info.completed :
                         \A d \in dropped : ~(d.chunk = t.chunk /\ d.id < t.id)}
        Remains(t) == t.chunk \notin {u.chunk : u \in completed}
    IN  [info EXCEPT !.assigned = SelectSeq(tasks, Remains), !.pending = pending,
                     !.completed = completed, !.disposing = info.pending \ pending]

\* What the drop of a contributor whose completed tasks are `dropped` does to
\* the work list of a contributor of the current round (the loop of
\* CoordinatorState::drop_participant): work in progress on the same chunks is
\* to be disposed of, completed work built on a dropped contribution is
\* disposed of, and `tasks`, the bucket's original list, is assigned again
\* except for the chunks that are still pending or completed.
AfterDropOf(info, dropped, tasks) ==
    LET affected  == {t.chunk : t \in dropped}
        disposing == {t \in info.pending : t.chunk \in affected}
        pending   == info.pending \ disposing
        invalid   == {t \in info.completed :
                         \E d \in dropped : d.chunk = t.chunk /\ d.id < t.id}
        completed == info.completed \ invalid
        excluded  == {t.chunk : t \in completed \cup pending}
        Remains(t) == t.chunk \notin excluded
    IN  [info EXCEPT !.assigned = SelectSeq(tasks, Remains),
                     !.pending = pending, !.completed = completed,
                     !.disposing = disposing, !.disposed = @ \cup invalid]
=============================================================================
