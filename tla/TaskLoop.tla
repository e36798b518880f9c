------------------------------ MODULE TaskLoop ------------------------------
(***************************************************************************)
(* The loop of initialize_tasks (objects/task.rs), one step per iteration, *)
(* for every bucket of every round size up to MaxChunks chunks.            *)
(***************************************************************************)
EXTENDS Tasks, Functions

CONSTANT MaxChunks   \* the largest number of chunks examined

ASSUME MaxChunksAssumption == MaxChunks \in Nat \ {0}

VARIABLES
    chunks,          \* number_of_chunks
    n,               \* number_of_contributors
    bucket,          \* starting_bucket_id
    index,           \* the next current_index of the for loop
    initial_steps,
    final_steps,
    tasks            \* the list built so far

vars == <<chunks, n, bucket, index, initial_steps, final_steps, tasks>>

bucket_size == chunks \div n
start == bucket * bucket_size

\* The arguments that pass the range checks, and the first task.
Init ==
    /\ chunks \in 1..MaxChunks
    /\ n \in 1..chunks
    /\ bucket \in 0..(n - 1)
    /\ index = start + 1
    /\ initial_steps = 0
    /\ final_steps = 0
    /\ tasks = <<Task(start % chunks, 1)>>

\* Mutants of the two step counters: a limit left out, a limit off by one, and
\* the wrap-around test left out.
NextInitialSteps_NoLimit(new_bucket) ==
    IF new_bucket THEN initial_steps + 1 ELSE initial_steps
NextInitialSteps_OffByOne(new_bucket) ==
    IF new_bucket /\ initial_steps < n - bucket THEN initial_steps + 1 ELSE initial_steps
NextFinalSteps_NoWrap(new_bucket) ==
    IF new_bucket /\ final_steps < bucket THEN final_steps + 1 ELSE final_steps

\* initial_steps after an iteration.
NextInitialSteps(new_bucket) ==
    IF new_bucket /\ initial_steps < n - 1 - bucket
    THEN initial_steps + 1 ELSE initial_steps

\* final_steps after an iteration.
NextFinalSteps(new_bucket) ==
    IF new_bucket /\ index >= chunks /\ final_steps < bucket
    THEN final_steps + 1 ELSE final_steps

Iterate ==
    /\ index < start + chunks
    /\ LET chunk_id == index % chunks
           new_bucket == chunk_id % bucket_size = 0
       IN  /\ initial_steps' = NextInitialSteps(new_bucket)
           /\ final_steps' = NextFinalSteps(new_bucket)
           /\ tasks' = Append(tasks,
                         Task(chunk_id, ((initial_steps' + final_steps') % n) + 1))
    /\ index' = index + 1
    /\ UNCHANGED <<chunks, n, bucket>>

Next == Iterate

Spec == Init /\ [][Next]_vars

-----------------------------------------------------------------------------
Returned == index = start + chunks

\* The arguments stay in range and every task names a chunk and a contribution
\* of the round.
TypeOK ==
    /\ chunks \in 1..MaxChunks
    /\ n \in 1..chunks
    /\ bucket \in 0..(n - 1)
    /\ index \in (start + 1)..(start + chunks)
    /\ initial_steps \in 0..(n - 1)
    /\ final_steps \in 0..(n - 1)
    /\ tasks \in Seq([chunk : 0..(chunks - 1), id : 1..n])

\* The loop returns the list that Tasks!InitializeTasks describes (the closed
\* form the model of the coordinator uses), task by task and in order.
ComputesInitializeTasks ==
    Returned => tasks = InitializeTasks(bucket, chunks, n)

\* "Each contribution for a given task will be created by a unique
\* contributor" and "the total number of contributions per task at the end of
\* a successful round will be equal to the number of contributors in that
\* round" (doc of Task): together with the lists of the other buckets, the list
\* the loop returns gives every contribution of every chunk to exactly one.
OneContributorPerContribution ==
    Returned =>
        \A t \in [chunk : 0..(chunks - 1), id : 1..n] :
            Cardinality({b \in 0..(n - 1) :
                t \in Range(IF b = bucket THEN tasks ELSE InitializeTasks(b, chunks, n))}) = 1
=============================================================================
