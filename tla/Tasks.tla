------------------------------- MODULE Tasks -------------------------------
(***************************************************************************)
(* Tasks and their assignment to the contributors of a round               *)
(* (phase1-coordinator/src/objects/task.rs).                               *)
(*                                                                         *)
(* A round of a ceremony with `chunks` chunks and `n` contributors assigns *)
(* to the contributor of bucket b one task per chunk: the contribution     *)
(* with a given ID on that chunk.  initialize_tasks walks over the chunks  *)
(* once, starting at the first chunk of bucket b, and raises the           *)
(* contribution ID whenever it enters a new bucket.  The operators below   *)
(* state in closed form what its loop computes; module TaskLoop steps      *)
(* through the loop and shows that it computes exactly this.               *)
(***************************************************************************)
EXTENDS Integers, Sequences, FiniteSets

Task(chunk_id, contribution_id) == [chunk |-> chunk_id, id |-> contribution_id]

\* The range checks at the head of initialize_tasks.  Zero contributors is
\* not an error: the function returns no tasks.
TaskInitializationOk(bucket, chunks, n) ==
    \/ n = 0
    \/ bucket < n /\ chunks >= n

IsNewBucket(index, chunks, n) == (index % chunks) % (chunks \div n) = 0

\* Where the walk enters a new bucket, among the indices from..to.
NewBuckets(from, to, chunks, n) ==
    {i \in from..to : IsNewBucket(i, chunks, n)}

CappedAt(limit, k) == IF k < limit THEN k ELSE limit

\* How often initial_steps and final_steps have been incremented when the
\* loop has passed current_index, for the bucket that starts at `start`.
InitialSteps(start, index, bucket, chunks, n) ==
    CappedAt(n - 1 - bucket, Cardinality(NewBuckets(start + 1, index, chunks, n)))

FinalSteps(start, index, bucket, chunks, n) ==
    LET wrapped == IF start + 1 < chunks THEN chunks ELSE start + 1
    IN  CappedAt(bucket, Cardinality(NewBuckets(wrapped, index, chunks, n)))

\* Mutant: contribution IDs counted from 0, as in the diagrams of the doc.
InitializeTasks_ZeroBased(bucket, chunks, n) ==
    LET start == bucket * (chunks \div n)
    IN  [k \in 1..chunks |->
           LET i == start + k - 1
           IN  Task(i % chunks, InitialSteps(start, i, bucket, chunks, n)
                                  + FinalSteps(start, i, bucket, chunks, n))]

\* The list that initialize_tasks returns when TaskInitializationOk holds.
InitializeTasks(bucket, chunks, n) ==
    IF n = 0 THEN << >>
    ELSE LET start == bucket * (chunks \div n)
             Steps(i) == InitialSteps(start, i, bucket, chunks, n)
                           + FinalSteps(start, i, bucket, chunks, n)
         IN  [k \in 1..chunks |->
                LET i == start + k - 1
                IN  Task(i % chunks, (Steps(i) % n) + 1)]
=============================================================================
