--------------------------- MODULE TaskLoopProofs ---------------------------
(***************************************************************************)
(* The loop of initialize_tasks computes the closed form of module Tasks,  *)
(* for every number of chunks and contributors and every bucket.           *)
(***************************************************************************)
EXTENDS TaskLoop, FiniteSetTheorems, SequenceTheorems, TLAPS

\* The task the closed form puts at place k of the list.
TaskAt(k) ==
    Task((start + k - 1) % chunks,
         ((InitialSteps(start, start + k - 1, bucket, chunks, n)
             + FinalSteps(start, start + k - 1, bucket, chunks, n)) % n) + 1)

\* The counters are those of the closed form, and so are the tasks so far.
LoopInv ==
    /\ TypeOK
    /\ initial_steps = InitialSteps(start, index - 1, bucket, chunks, n)
    /\ final_steps = FinalSteps(start, index - 1, bucket, chunks, n)
    /\ Len(tasks) = index - start
    /\ \A k \in 1..(index - start) : tasks[k] = TaskAt(k)

\* One index more is at most one new bucket more.
LEMMA NewBucketsExtend ==
    ASSUME NEW from \in Int, NEW to \in Int, from <= to + 1, NEW c, NEW m
    PROVE  /\ Cardinality(NewBuckets(from, to, c, m)) \in Nat
           /\ Cardinality(NewBuckets(from, to + 1, c, m))
                = IF IsNewBucket(to + 1, c, m) THEN Cardinality(NewBuckets(from, to, c, m)) + 1
                                               ELSE Cardinality(NewBuckets(from, to, c, m))
<1> DEFINE B == NewBuckets(from, to, c, m)
<1>1. IsFiniteSet(B)
  <2>1. IsFiniteSet(from..to) /\ B \in SUBSET (from..to)
    BY FS_Interval DEF NewBuckets
  <2> QED
    BY <2>1, FS_Subset
<1>2. Cardinality(B) \in Nat
  BY <1>1, FS_CardinalityType
<1>3. NewBuckets(from, to + 1, c, m) = IF IsNewBucket(to + 1, c, m) THEN B \cup {to + 1} ELSE B
  BY DEF NewBuckets
<1>4. to + 1 \notin B
  BY DEF NewBuckets
<1> HIDE DEF B
<1>5. Cardinality(B \cup {to + 1}) = Cardinality(B) + 1
  BY <1>1, <1>4, FS_AddElement
<1>6. /\ Cardinality(B) \in Nat
      /\ Cardinality(NewBuckets(from, to + 1, c, m))
           = IF IsNewBucket(to + 1, c, m) THEN Cardinality(B) + 1 ELSE Cardinality(B)
  BY <1>2, <1>3, <1>5
<1> QED
  BY <1>6 DEF B

\* No index, no new bucket.
LEMMA NoNewBuckets ==
    ASSUME NEW from \in Int, NEW to \in Int, to < from, NEW c, NEW m
    PROVE  Cardinality(NewBuckets(from, to, c, m)) = 0
<1>1. NewBuckets(from, to, c, m) = {}
  BY DEF NewBuckets
<1> QED
  BY <1>1, FS_EmptySet

\* A counter that stops at a limit is the capped count.
LEMMA CappedSuccessor ==
    ASSUME NEW limit \in Nat, NEW k \in Nat
    PROVE  /\ CappedAt(limit, k) \in 0..limit
           /\ CappedAt(limit, 0) = 0
           /\ CappedAt(limit, k + 1)
                = IF CappedAt(limit, k) < limit THEN CappedAt(limit, k) + 1 ELSE CappedAt(limit, k)
  BY DEF CappedAt

\* How the closed forms of the two counters grow with the index.
InitialGrows(s, i, b, c, m) ==
    /\ InitialSteps(s, s, b, c, m) = 0
    /\ InitialSteps(s, i, b, c, m) \in 0..(m - 1 - b)
    /\ InitialSteps(s, i + 1, b, c, m)
         = IF IsNewBucket(i + 1, c, m) /\ InitialSteps(s, i, b, c, m) < m - 1 - b
           THEN InitialSteps(s, i, b, c, m) + 1 ELSE InitialSteps(s, i, b, c, m)

FinalGrows(s, i, b, c, m) ==
    /\ FinalSteps(s, s, b, c, m) = 0
    /\ FinalSteps(s, i, b, c, m) \in 0..b
    /\ FinalSteps(s, i + 1, b, c, m)
         = IF IsNewBucket(i + 1, c, m) /\ i + 1 >= c /\ FinalSteps(s, i, b, c, m) < b
           THEN FinalSteps(s, i, b, c, m) + 1 ELSE FinalSteps(s, i, b, c, m)

\* One iteration moves the initial step counter as its closed form says.
LEMMA InitialStepsNext ==
    ASSUME NEW s \in Int, NEW i \in Int, s <= i, NEW b \in Int, NEW c \in Int, NEW m \in Int,
           m - 1 - b \in Nat
    PROVE  InitialGrows(s, i, b, c, m)
<1> USE DEF InitialGrows
<1> DEFINE k == Cardinality(NewBuckets(s + 1, i, c, m))
<1>1. /\ k \in Nat
      /\ Cardinality(NewBuckets(s + 1, i + 1, c, m)) = IF IsNewBucket(i + 1, c, m) THEN k + 1 ELSE k
  BY NewBucketsExtend
<1>2. Cardinality(NewBuckets(s + 1, s, c, m)) = 0
  BY NoNewBuckets
<1>3. /\ InitialSteps(s, i, b, c, m) = CappedAt(m - 1 - b, k)
      /\ InitialSteps(s, i + 1, b, c, m)
           = CappedAt(m - 1 - b, IF IsNewBucket(i + 1, c, m) THEN k + 1 ELSE k)
      /\ InitialSteps(s, s, b, c, m) = CappedAt(m - 1 - b, 0)
  BY <1>1, <1>2 DEF InitialSteps
<1> HIDE DEF k
<1> QED
  BY <1>1, <1>3, CappedSuccessor

\* One iteration moves the final step counter as its closed form says.
LEMMA FinalStepsNext ==
    ASSUME NEW s \in Int, NEW i \in Int, s <= i, NEW b \in Nat, NEW c \in Int, NEW m \in Int
    PROVE  FinalGrows(s, i, b, c, m)
<1> USE DEF FinalGrows
<1> DEFINE w == IF s + 1 < c THEN c ELSE s + 1
           k == Cardinality(NewBuckets(w, i, c, m))
<1>1. w \in Int /\ s < w /\ (i + 1 < w <=> i + 1 < c)
  OBVIOUS
<1>2. \A j : FinalSteps(s, j, b, c, m) = CappedAt(b, Cardinality(NewBuckets(w, j, c, m)))
  BY DEF FinalSteps
<1> HIDE DEF w
<1>3. Cardinality(NewBuckets(w, s, c, m)) = 0
  BY <1>1, NoNewBuckets
<1>4. CASE i + 1 < w
  <2>1. k = 0 /\ Cardinality(NewBuckets(w, i + 1, c, m)) = 0
    BY <1>1, <1>4, NoNewBuckets
  <2> QED
    BY <1>1, <1>2, <1>3, <1>4, <2>1, CappedSuccessor
<1>5. CASE w <= i + 1
  <2>1. /\ k \in Nat
        /\ Cardinality(NewBuckets(w, i + 1, c, m)) = IF IsNewBucket(i + 1, c, m) THEN k + 1 ELSE k
    BY <1>1, <1>5, NewBucketsExtend
  <2>2. i + 1 >= c
    BY <1>1, <1>5
  <2>3. /\ FinalSteps(s, i, b, c, m) = CappedAt(b, k)
        /\ FinalSteps(s, i + 1, b, c, m)
             = CappedAt(b, IF IsNewBucket(i + 1, c, m) THEN k + 1 ELSE k)
        /\ FinalSteps(s, s, b, c, m) = CappedAt(b, 0)
    BY <1>2, <1>3, <2>1
  <2> HIDE DEF k
  <2> QED
    BY <2>1, <2>2, <2>3, CappedSuccessor
<1> QED
  BY <1>1, <1>4, <1>5

\* The arguments are numbers, and so is where the walk starts.
LEMMA StartType ==
    ASSUME chunks \in 1..MaxChunks, n \in 1..chunks, bucket \in 0..(n - 1)
    PROVE  /\ start \in Int /\ chunks \in Nat \ {0} /\ n \in Nat \ {0} /\ bucket \in Nat
           /\ n - 1 - bucket \in Nat
<1>1. chunks \in Nat \ {0} /\ n \in Nat \ {0} /\ bucket \in Nat /\ n - 1 - bucket \in Nat
  BY MaxChunksAssumption
<1>2. bucket_size \in Int
  BY <1>1 DEF bucket_size
<1>3. bucket * bucket_size \in Int
  BY <1>1, <1>2
<1> QED
  BY <1>1, <1>3 DEF start

\* Before the first iteration the list has its first task and both counters are zero.
LEMMA InitLoop == Init => LoopInv
<1> SUFFICES ASSUME Init PROVE LoopInv
  OBVIOUS
<1>1. /\ start \in Int /\ chunks \in Nat \ {0} /\ n \in Nat \ {0} /\ bucket \in Nat
      /\ n - 1 - bucket \in Nat
  BY StartType DEF Init
<1>2. /\ InitialSteps(start, start, bucket, chunks, n) = 0
      /\ FinalSteps(start, start, bucket, chunks, n) = 0
  <2>0. /\ start \in Int /\ start <= start /\ bucket \in Int /\ chunks \in Int /\ n \in Int
        /\ bucket \in Nat /\ n - 1 - bucket \in Nat
    BY <1>1
  <2>1. InitialGrows(start, start, bucket, chunks, n)
    BY <2>0, InitialStepsNext, Zenon
  <2>2. FinalGrows(start, start, bucket, chunks, n)
    BY <2>0, FinalStepsNext, Zenon
  <2> QED
    BY <2>1, <2>2 DEF InitialGrows, FinalGrows
<1>3. /\ index = start + 1 /\ initial_steps = 0 /\ final_steps = 0
      /\ tasks = <<Task(start % chunks, 1)>>
  BY DEF Init
<1>4. Task(start % chunks, 1) \in [chunk : 0..(chunks - 1), id : 1..n]
  BY <1>1 DEF Task
<1>5. TypeOK
  BY <1>1, <1>3, <1>4 DEF Init, TypeOK
<1>6. TaskAt(1) = Task(start % chunks, 1)
  <2>1. start + 1 - 1 = start /\ (0 + 0) % n = 0
    BY <1>1
  <2> QED
    BY <1>2, <2>1 DEF TaskAt
<1>7. Len(tasks) = 1 /\ tasks[1] = TaskAt(1)
  BY <1>3, <1>6
<1> QED
  BY <1>1, <1>2, <1>3, <1>5, <1>7 DEF LoopInv

\* One iteration.
LEMMA IterateKeepsLoop ==
    ASSUME LoopInv, Iterate
    PROVE  LoopInv'
<1>1. /\ chunks \in 1..MaxChunks /\ n \in 1..chunks /\ bucket \in 0..(n - 1)
      /\ index \in (start + 1)..(start + chunks)
  BY DEF LoopInv, TypeOK
<1>2. /\ start \in Int /\ chunks \in Nat \ {0} /\ n \in Nat \ {0} /\ bucket \in Nat
      /\ n - 1 - bucket \in Nat
  BY <1>1, StartType
<1>3. UNCHANGED <<chunks, n, bucket>> /\ start' = start /\ index' = index + 1
  BY DEF Iterate, start, bucket_size
<1>4. index \in Int /\ start <= index - 1 /\ index < start + chunks
  BY <1>1, <1>2 DEF Iterate
<1> DEFINE i == index - 1
           new == IsNewBucket(index, chunks, n)
           I(j) == InitialSteps(start, j, bucket, chunks, n)
           F(j) == FinalSteps(start, j, bucket, chunks, n)
<1>5. /\ i \in Int /\ start <= i /\ i + 1 = index /\ start <= index
      /\ start \in Int /\ bucket \in Int /\ chunks \in Int /\ n \in Int
  BY <1>2, <1>4
<1>6. initial_steps = I(i) /\ final_steps = F(i)
  BY DEF LoopInv
<1>7. new <=> (index % chunks) % bucket_size = 0
  BY DEF IsNewBucket, bucket_size
<1> HIDE DEF i
<1>8. /\ I(i) \in 0..(n - 1 - bucket)
      /\ I(i + 1) = IF IsNewBucket(i + 1, chunks, n) /\ I(i) < n - 1 - bucket
                    THEN I(i) + 1 ELSE I(i)
  <2>1. InitialGrows(start, i, bucket, chunks, n)
    BY <1>2, <1>5, InitialStepsNext, Zenon
  <2> QED
    BY <2>1 DEF InitialGrows
<1>9. /\ F(i) \in 0..bucket
      /\ F(i + 1) = IF IsNewBucket(i + 1, chunks, n) /\ i + 1 >= chunks /\ F(i) < bucket
                    THEN F(i) + 1 ELSE F(i)
  <2>1. FinalGrows(start, i, bucket, chunks, n)
    BY <1>2, <1>5, FinalStepsNext, Zenon
  <2> QED
    BY <2>1 DEF FinalGrows
<1>10. initial_steps' = I(index)
  BY <1>5, <1>6, <1>7, <1>8 DEF Iterate, NextInitialSteps
<1>11. final_steps' = F(index)
  BY <1>5, <1>6, <1>7, <1>9 DEF Iterate, NextFinalSteps
<1>12. I(index) \in 0..(n - 1 - bucket) /\ F(index) \in 0..bucket
  <2>1. InitialGrows(start, index, bucket, chunks, n)
    BY <1>2, <1>4, <1>5, InitialStepsNext, Zenon
  <2>2. FinalGrows(start, index, bucket, chunks, n)
    BY <1>2, <1>4, <1>5, FinalStepsNext, Zenon
  <2> QED
    BY <2>1, <2>2 DEF InitialGrows, FinalGrows
<1> DEFINE t == Task(index % chunks, ((I(index) + F(index)) % n) + 1)
<1>13. tasks' = Append(tasks, t)
  BY <1>10, <1>11 DEF Iterate
<1>14. t \in [chunk : 0..(chunks - 1), id : 1..n]
  <2>1. index % chunks \in 0..(chunks - 1) /\ (I(index) + F(index)) % n \in 0..(n - 1)
    BY <1>2, <1>4, <1>12
  <2> QED
    BY <1>2, <2>1 DEF Task
<1>15. t = TaskAt(index - start + 1)
  <2>1. start + (index - start + 1) - 1 = index
    BY <1>2, <1>4
  <2> QED
    BY <2>1 DEF TaskAt
<1> HIDE DEF t, I, F
<1>16. /\ tasks \in Seq([chunk : 0..(chunks - 1), id : 1..n]) /\ Len(tasks) = index - start
       /\ \A k \in 1..(index - start) : tasks[k] = TaskAt(k)
  BY DEF LoopInv, TypeOK
<1>17. /\ tasks' \in Seq([chunk : 0..(chunks - 1), id : 1..n])
       /\ Len(tasks') = index - start + 1
       /\ \A k \in 1..(index - start) : tasks'[k] = tasks[k]
       /\ tasks'[index - start + 1] = t
  BY <1>13, <1>14, <1>16, AppendProperties
<1>18. \A k : TaskAt(k)' = TaskAt(k)
  BY <1>3 DEF TaskAt
<1>19. \A k \in 1..(index' - start') : tasks'[k] = TaskAt(k)
  <2> TAKE k \in 1..(index' - start')
  <2>1. k \in 1..(index - start) \/ k = index - start + 1
    BY <1>2, <1>3, <1>4
  <2>2. CASE k \in 1..(index - start)
    BY <1>16, <1>17, <2>2
  <2>3. CASE k = index - start + 1
    BY <1>15, <1>17, <2>3
  <2> QED
    BY <2>1, <2>2, <2>3
<1>20. TypeOK'
  BY <1>1, <1>2, <1>3, <1>4, <1>10, <1>11, <1>12, <1>17 DEF TypeOK
<1>21. /\ initial_steps' = InitialSteps(start', index' - 1, bucket', chunks', n')
       /\ final_steps' = FinalSteps(start', index' - 1, bucket', chunks', n')
  <2>1. index' - 1 = index
    BY <1>3, <1>4
  <2> QED
    BY <1>3, <1>10, <1>11, <2>1 DEF I, F
<1> QED
  BY <1>2, <1>3, <1>4, <1>17, <1>18, <1>19, <1>20, <1>21 DEF LoopInv

\* The closed form, place by place.
LEMMA ClosedForm ==
    ASSUME LoopInv, Returned
    PROVE  tasks = InitializeTasks(bucket, chunks, n)
<1>1. /\ start \in Int /\ chunks \in Nat \ {0} /\ n \in Nat \ {0}
  BY StartType DEF LoopInv, TypeOK
<1>2. index - start = chunks
  BY <1>1 DEF Returned
<1>3. InitializeTasks(bucket, chunks, n) = [k \in 1..chunks |-> TaskAt(k)]
  BY <1>1 DEF InitializeTasks, TaskAt, start, bucket_size
<1>4. tasks = [k \in 1..chunks |-> tasks[k]]
  BY <1>2 DEF LoopInv, TypeOK
<1>5. \A k \in 1..chunks : tasks[k] = TaskAt(k)
  BY <1>2 DEF LoopInv
<1> QED
  BY <1>3, <1>4, <1>5

\* The counters stay below the number of contributors and every task names a
\* chunk and a contribution of the round (objects/task.rs: initialize_tasks).
THEOREM LoopTyped == Spec => []TypeOK
<1>1. LoopInv /\ [Next]_vars => LoopInv'
  <2>1. LoopInv /\ UNCHANGED vars => LoopInv'
    BY DEF vars, LoopInv, TypeOK, TaskAt, start, bucket_size
  <2> QED
    BY <2>1, IterateKeepsLoop DEF Next
<1> QED
  BY <1>1, InitLoop, PTL DEF Spec, LoopInv

\* initialize_tasks returns the list of module Tasks, on which the model of the
\* coordinator rests, for every number of chunks.
THEOREM LoopComputesTasks == Spec => []ComputesInitializeTasks
<1>1. LoopInv /\ [Next]_vars => LoopInv'
  <2>1. LoopInv /\ UNCHANGED vars => LoopInv'
    BY DEF vars, LoopInv, TypeOK, TaskAt, start, bucket_size
  <2> QED
    BY <2>1, IterateKeepsLoop DEF Next
<1>2. LoopInv => ComputesInitializeTasks
  BY ClosedForm DEF ComputesInitializeTasks
<1> QED
  BY <1>1, <1>2, InitLoop, PTL DEF Spec
=============================================================================
