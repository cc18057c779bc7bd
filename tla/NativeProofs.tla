---------------------------- MODULE NativeProofs ----------------------------
(***************************************************************************)
(* Proofs about the native components: the threads that enclave code       *)
(* creates, the clock, the nesting of ecalls and ocalls, and the memory    *)
(* manager.                                                                *)
(***************************************************************************)
EXTENDS EnclaveThreads, MemoryManager, NativeCalls, SharedTime, FiniteSetTheorems, SequenceTheorems,
        WellFoundedInduction, TLAPS

(***************************************************************************)
(* Threads.  A task is in the queue, in the hands of one thread, or done.  *)
(***************************************************************************)
AttachedPlaces == {"attached", "let go", "counted", "running", "completed"}
CountedPlaces  == {"counted", "running", "completed"}
Places == {"none", "started", "ended"} \cup AttachedPlaces

\* Types.
ThreadTypes ==
    /\ queue_ \in Seq(Tasks) /\ finished \in Seq(Tasks)
    /\ creator \in [Tasks -> {"none", "queued", "waiting", "returned"}]
    /\ hostThread \in [Tasks -> [at : Places, runnable : Tasks \cup {"none"}]]
    /\ running_threads_ \in Int

\* A thread holds a task from when it enters the enclave, and is started after the task it is
\* for was queued.
TasksInHand ==
    \A k \in Tasks :
        /\ At(k, "none") \/ At(k, "started") => hostThread[k].runnable = "none"
        /\ hostThread[k].at \in AttachedPlaces => hostThread[k].runnable \in Tasks
        /\ creator[k] \in {"none", "queued"} => At(k, "none")

\* No task is twice in the queue, or in it and in a thread, or in two threads; and only a
\* task that was created is in any of them.
QueuedOnce ==
    /\ \A i \in 1 .. Len(queue_) : creator[queue_[i]] # "none"
    /\ \A i, j \in 1 .. Len(queue_) : queue_[i] = queue_[j] => i = j
HeldOnce ==
    /\ \A k \in Tasks : \A i \in 1 .. Len(queue_) : hostThread[k].runnable # queue_[i]
    /\ \A k \in Tasks : hostThread[k].runnable \in Tasks => creator[hostThread[k].runnable] # "none"
    /\ \A k, j \in Tasks :
          hostThread[k].runnable \in Tasks /\ hostThread[k].runnable = hostThread[j].runnable => k = j

\* What has finished was in a thread that is done with it, and finished once.
FinishedOnce ==
    /\ \A i \in 1 .. Len(finished) : \E k \in Tasks :
          hostThread[k].runnable = finished[i] /\ hostThread[k].at \in {"completed", "ended"}
    /\ \A i, j \in 1 .. Len(finished) : finished[i] = finished[j] => i = j

\* Tasks that were created and whose threads have taken no task from the queue.
Untaken == {k \in Tasks : creator[k] # "none" /\ hostThread[k].runnable = "none"}

ThreadCounts ==
    /\ Len(queue_) = Cardinality(Untaken)
    /\ running_threads_ = Cardinality(Runnables(CountedPlaces))

ThreadsInv == ThreadTypes /\ TasksInHand /\ QueuedOnce /\ HeldOnce /\ FinishedOnce /\ ThreadCounts

-----------------------------------------------------------------------------
\* The fields of the threads after thread k has moved.
LEMMA MovedThread ==
    ASSUME ThreadTypes, NEW k \in Tasks, NEW place \in Places, Move(k, place)
    PROVE  /\ hostThread' \in [Tasks -> [at : Places, runnable : Tasks \cup {"none"}]]
           /\ \A j \in Tasks : /\ hostThread'[j].runnable = hostThread[j].runnable
                               /\ hostThread'[j].at = IF j = k THEN place ELSE hostThread[j].at
  <1>1. hostThread \in [Tasks -> [at : Places, runnable : Tasks \cup {"none"}]]
    BY DEF ThreadTypes
  <1>2. hostThread' = [hostThread EXCEPT ![k].at = place]
    BY DEF Move
  <1> QED BY <1>1, <1>2

\* The set that is counted, and its size, when thread k has moved.
LEMMA CountMoved ==
    ASSUME ThreadTypes, NEW k \in Tasks, NEW place \in Places, Move(k, place)
    PROVE  /\ IsFiniteSet(Runnables(CountedPlaces)) /\ Cardinality(Runnables(CountedPlaces)) \in Nat
           /\ place \in CountedPlaces /\ hostThread[k].at \in CountedPlaces =>
                 Cardinality(Runnables(CountedPlaces))' = Cardinality(Runnables(CountedPlaces))
           /\ place \notin CountedPlaces /\ hostThread[k].at \notin CountedPlaces =>
                 Cardinality(Runnables(CountedPlaces))' = Cardinality(Runnables(CountedPlaces))
           /\ place \in CountedPlaces /\ hostThread[k].at \notin CountedPlaces =>
                 Cardinality(Runnables(CountedPlaces))' = Cardinality(Runnables(CountedPlaces)) + 1
           /\ place \notin CountedPlaces /\ hostThread[k].at \in CountedPlaces =>
                 Cardinality(Runnables(CountedPlaces))' = Cardinality(Runnables(CountedPlaces)) - 1
  <1>1. \A j \in Tasks : hostThread'[j].at = IF j = k THEN place ELSE hostThread[j].at
    BY MovedThread
  <1>2. PICK C : C = CountedPlaces
    OBVIOUS
  <1>3. PICK R : R = Runnables(C)
    OBVIOUS
  <1>4. PICK Q : Q = Runnables(C)'
    OBVIOUS
  <1>5. R = {j \in Tasks : hostThread[j].at \in C} /\ Q = {j \in Tasks : hostThread'[j].at \in C}
    BY <1>3, <1>4 DEF Runnables
  <1>6. IsFiniteSet(R) /\ Cardinality(R) \in Nat
    <2>1. R \in SUBSET Tasks
      BY <1>5
    <2>2. IsFiniteSet(R)
      BY <2>1, TasksAssumption, FS_Subset
    <2> QED BY <2>2, FS_CardinalityType
  <1>7. CASE (place \in C) = (hostThread[k].at \in C)
    <2>1. Q = R
      BY <1>1, <1>5, <1>7
    <2> QED BY <1>2, <1>3, <1>4, <1>6, <1>7, <2>1
  <1>8. CASE place \in C /\ hostThread[k].at \notin C
    <2>1. Q = R \cup {k} /\ k \notin R
      BY <1>1, <1>5, <1>8
    <2>2. Cardinality(Q) = Cardinality(R) + 1
      BY <1>6, <2>1, FS_AddElement
    <2> QED BY <1>2, <1>3, <1>4, <1>6, <1>8, <2>2
  <1>9. CASE place \notin C /\ hostThread[k].at \in C
    <2>1. Q = R \ {k} /\ k \in R
      BY <1>1, <1>5, <1>9
    <2>2. Cardinality(Q) = Cardinality(R) - 1
      BY <1>6, <2>1, FS_RemoveElement
    <2> QED BY <1>2, <1>3, <1>4, <1>6, <1>9, <2>2
  <1> QED BY <1>7, <1>8, <1>9

\* Which task is where, but for those that finished, when thread k has moved and taken no task.
LEMMA TasksKept ==
    ASSUME ThreadsInv, NEW k \in Tasks, NEW place \in Places, Move(k, place), UNCHANGED queue_,
           place # "none", place = "started" => At(k, "none"),
           place \in AttachedPlaces => hostThread[k].at \in AttachedPlaces,
           creator' \in [Tasks -> {"none", "queued", "waiting", "returned"}],
           creator[k] # "none", creator'[k] \in {"waiting", "returned"},
           \A j \in Tasks \ {k} : creator'[j] = creator[j]
    PROVE  TasksInHand' /\ QueuedOnce' /\ HeldOnce' /\ Len(queue_') = Cardinality(Untaken')
  <1>1. ThreadTypes /\ TasksInHand /\ QueuedOnce /\ HeldOnce /\ ThreadCounts
    BY DEF ThreadsInv
  <1>2. \A j \in Tasks : /\ hostThread'[j].runnable = hostThread[j].runnable
                         /\ hostThread'[j].at = IF j = k THEN place ELSE hostThread[j].at
    BY <1>1, MovedThread
  <1>3. \A j \in Tasks : creator'[j] # "none" <=> creator[j] # "none"
    OBVIOUS
  <1>4. TasksInHand'
    <2> SUFFICES ASSUME NEW j \in Tasks
                 PROVE  /\ hostThread'[j].at = "none" \/ hostThread'[j].at = "started" =>
                              hostThread'[j].runnable = "none"
                        /\ hostThread'[j].at \in AttachedPlaces => hostThread'[j].runnable \in Tasks
                        /\ creator'[j] \in {"none", "queued"} => hostThread'[j].at = "none"
      BY DEF TasksInHand, At
    <2>1. CASE j # k
      BY <1>1, <1>2, <2>1 DEF TasksInHand, At
    <2>2. CASE j = k
      BY <1>1, <1>2, <2>2 DEF TasksInHand, At
    <2> QED BY <2>1, <2>2
  <1>5. queue_ \in Seq(Tasks) /\ \A i \in 1 .. Len(queue_) : queue_[i] \in Tasks
    BY <1>1 DEF ThreadTypes
  <1>6. QueuedOnce'
    BY <1>1, <1>3, <1>5 DEF QueuedOnce
  <1>7. HeldOnce'
    BY <1>1, <1>2, <1>3 DEF HeldOnce
  <1>8. Untaken' = Untaken
    BY <1>2, <1>3 DEF Untaken
  <1> QED BY <1>1, <1>4, <1>6, <1>7, <1>8 DEF ThreadCounts

\* What has finished, when thread k has moved on.
LEMMA FinishedKept ==
    ASSUME ThreadsInv, NEW k \in Tasks, NEW place \in Places, Move(k, place), UNCHANGED finished,
           hostThread[k].at \in {"completed", "ended"} => place \in {"completed", "ended"}
    PROVE  FinishedOnce'
  <1>1. ThreadTypes /\ FinishedOnce
    BY DEF ThreadsInv
  <1>2. \A j \in Tasks : /\ hostThread'[j].runnable = hostThread[j].runnable
                         /\ hostThread'[j].at = IF j = k THEN place ELSE hostThread[j].at
    BY <1>1, MovedThread
  <1> QED BY <1>1, <1>2 DEF FinishedOnce

\* Steps of thread k that take no task and finish none.
LEMMA ThreadMoves ==
    ASSUME ThreadsInv, NEW k \in Tasks, NEW place \in Places, Move(k, place), UNCHANGED <<queue_, finished>>,
           place # "none", place = "started" => At(k, "none"),
           place \in AttachedPlaces => hostThread[k].at \in AttachedPlaces,
           hostThread[k].at \in {"completed", "ended"} => place \in {"completed", "ended"},
           creator' \in [Tasks -> {"none", "queued", "waiting", "returned"}],
           creator[k] # "none", creator'[k] \in {"waiting", "returned"},
           \A j \in Tasks \ {k} : creator'[j] = creator[j],
           running_threads_' \in Int, running_threads_' = Cardinality(Runnables(CountedPlaces))'
    PROVE  ThreadsInv'
  <1>1. ThreadTypes'
    BY MovedThread DEF ThreadsInv, ThreadTypes
  <1>2. TasksInHand' /\ QueuedOnce' /\ HeldOnce' /\ Len(queue_') = Cardinality(Untaken')
    BY TasksKept
  <1>3. FinishedOnce'
    BY FinishedKept
  <1> QED BY <1>1, <1>2, <1>3 DEF ThreadsInv, ThreadCounts

\* A task is queued for a thread that will be asked for.
LEMMA ThreadCreated ==
    ASSUME ThreadsInv, NEW k \in Tasks, CreateThread(k)
    PROVE  ThreadsInv'
  <1>1. ThreadTypes /\ TasksInHand /\ QueuedOnce /\ HeldOnce /\ FinishedOnce /\ ThreadCounts
    BY DEF ThreadsInv
  <1>2. /\ creator[k] = "none" /\ queue_' = Append(queue_, k)
        /\ creator' = [creator EXCEPT ![k] = "queued"] /\ UNCHANGED <<hostThread, running_threads_, finished>>
    BY DEF CreateThread
  <1>3. queue_ \in Seq(Tasks) /\ creator \in [Tasks -> {"none", "queued", "waiting", "returned"}]
    BY <1>1 DEF ThreadTypes
  <1>4. PICK n \in Nat : n = Len(queue_)
    BY <1>3
  <1>5. /\ queue_' \in Seq(Tasks) /\ Len(queue_') = n + 1 /\ queue_'[n + 1] = k
        /\ \A i \in 1 .. n : queue_'[i] = queue_[i] /\ queue_[i] \in Tasks
    BY <1>2, <1>3, <1>4, AppendProperties
  <1>6. \A j \in Tasks : creator'[j] = IF j = k THEN "queued" ELSE creator[j]
    BY <1>2, <1>3
  <1>7. ThreadTypes'
    BY <1>1, <1>2, <1>5 DEF ThreadTypes
  <1>8. \A i \in 1 .. n : creator[queue_[i]] # "none" /\ queue_[i] # k
    BY <1>1, <1>2, <1>4 DEF QueuedOnce
  <1>9. TasksInHand'
    BY <1>1, <1>2, <1>6 DEF TasksInHand, At
  <1>10. \A i \in 1 .. n + 1 : i \in 1 .. n \/ i = n + 1
    BY <1>4
  <1>11. QueuedOnce'
    <2>1. ASSUME NEW i \in 1 .. n + 1 PROVE creator'[queue_'[i]] # "none"
      BY <1>5, <1>6, <1>8, <1>10
    <2>2. ASSUME NEW i \in 1 .. n + 1, NEW j \in 1 .. n + 1, queue_'[i] = queue_'[j] PROVE i = j
      <3>1. CASE i \in 1 .. n /\ j \in 1 .. n
        BY <1>1, <1>4, <1>5, <2>2, <3>1 DEF QueuedOnce
      <3>2. CASE i = n + 1 \/ j = n + 1
        BY <1>5, <1>8, <1>10, <2>2, <3>2
      <3> QED BY <1>10, <3>1, <3>2
    <2> QED BY <1>5, <2>1, <2>2 DEF QueuedOnce
  <1>12. HeldOnce'
    <2>1. ASSUME NEW j \in Tasks, NEW i \in 1 .. n + 1 PROVE hostThread'[j].runnable # queue_'[i]
      <3>1. CASE i \in 1 .. n
        BY <1>1, <1>2, <1>4, <1>5, <3>1 DEF HeldOnce
      <3>2. CASE i = n + 1
        BY <1>1, <1>2, <1>5, <3>2 DEF HeldOnce
      <3> QED BY <1>10, <3>1, <3>2
    <2>2. \A j \in Tasks : hostThread'[j].runnable \in Tasks => creator'[hostThread'[j].runnable] # "none"
      BY <1>1, <1>2, <1>6 DEF HeldOnce
    <2> QED BY <1>1, <1>2, <1>5, <2>1, <2>2 DEF HeldOnce
  <1>13. FinishedOnce'
    BY <1>1, <1>2 DEF FinishedOnce
  <1>14. ThreadCounts'
    <2>1. hostThread[k].runnable = "none"
      BY <1>1, <1>2 DEF TasksInHand
    <2>2. PICK U : U = Untaken
      OBVIOUS
    <2>3. Untaken' = U \cup {k} /\ k \notin U
      BY <1>2, <1>6, <2>1, <2>2 DEF Untaken
    <2>4. IsFiniteSet(U)
      BY <2>2, TasksAssumption, FS_Subset DEF Untaken
    <2>5. Cardinality(Untaken') = Cardinality(U) + 1
      BY <2>3, <2>4, FS_AddElement
    <2>6. n = Cardinality(U) /\ running_threads_ = Cardinality(Runnables(CountedPlaces))
      BY <1>1, <1>4, <2>2 DEF ThreadCounts
    <2>7. Runnables(CountedPlaces)' = Runnables(CountedPlaces)
      BY <1>2 DEF Runnables
    <2> QED BY <1>2, <1>5, <2>5, <2>6, <2>7 DEF ThreadCounts
  <1> QED BY <1>7, <1>9, <1>11, <1>12, <1>13, <1>14 DEF ThreadsInv

\* A thread enters the enclave and takes the first task.
LEMMA TaskTaken ==
    ASSUME ThreadsInv, NEW k \in Tasks, attach_host_thread(k)
    PROVE  ThreadsInv'
  <1>1. ThreadTypes /\ TasksInHand /\ QueuedOnce /\ HeldOnce /\ FinishedOnce /\ ThreadCounts
    BY DEF ThreadsInv
  <1>2. PICK r : r = Head(queue_)
    OBVIOUS
  <1>3. /\ hostThread[k].at = "started" /\ queue_ # <<>> /\ queue_' = Tail(queue_)
        /\ hostThread' = [hostThread EXCEPT ![k] = [at |-> "attached", runnable |-> r]]
        /\ UNCHANGED <<creator, running_threads_, finished>>
    BY <1>2 DEF attach_host_thread, At
  <1>4. /\ queue_ \in Seq(Tasks) /\ hostThread \in [Tasks -> [at : Places, runnable : Tasks \cup {"none"}]]
    BY <1>1 DEF ThreadTypes
  <1>5. PICK n \in Nat : Len(queue_) = n + 1
    <2>1. Len(queue_) \in Nat /\ Len(queue_) # 0
      BY <1>3, <1>4, EmptySeq
    <2>2. Len(queue_) - 1 \in Nat /\ Len(queue_) = (Len(queue_) - 1) + 1
      BY <2>1
    <2> QED BY <2>2
  <1>6. /\ queue_' \in Seq(Tasks) /\ Len(queue_') = n /\ r = queue_[1] /\ r \in Tasks
        /\ \A i \in 1 .. n : queue_'[i] = queue_[i + 1]
    <2>1. /\ Head(queue_) \in Tasks /\ Tail(queue_) \in Seq(Tasks) /\ Len(Tail(queue_)) = Len(queue_) - 1
          /\ \A i \in 1 .. Len(Tail(queue_)) : Tail(queue_)[i] = queue_[i + 1]
      BY <1>3, <1>4, HeadTailProperties
    <2>2. Len(Tail(queue_)) = n
      BY <1>5, <2>1
    <2>3. Head(queue_) = queue_[1]
      BY <1>3, <1>4
    <2> QED BY <1>2, <1>3, <2>1, <2>2, <2>3
  <1>7. /\ hostThread' \in [Tasks -> [at : Places, runnable : Tasks \cup {"none"}]]
        /\ hostThread'[k].at = "attached" /\ hostThread'[k].runnable = r
        /\ \A j \in Tasks \ {k} : hostThread'[j] = hostThread[j]
    BY <1>3, <1>4, <1>6 DEF Places, AttachedPlaces
  <1>8. ThreadTypes'
    BY <1>1, <1>3, <1>6, <1>7 DEF ThreadTypes
  <1>9. hostThread[k].runnable = "none" /\ creator[k] \notin {"none", "queued"}
    <2>1. creator[k] \in {"none", "queued"} => hostThread[k].at = "none"
      BY <1>1 DEF TasksInHand, At
    <2> QED BY <1>1, <1>3, <2>1 DEF TasksInHand, At
  <1>10. \A i \in 1 .. n : i + 1 \in 1 .. n + 1 /\ i + 1 # 1 /\ 1 \in 1 .. n + 1
    BY <1>5
  <1>11. TasksInHand'
    <2> SUFFICES ASSUME NEW j \in Tasks
                 PROVE  /\ hostThread'[j].at = "none" \/ hostThread'[j].at = "started" =>
                              hostThread'[j].runnable = "none"
                        /\ hostThread'[j].at \in AttachedPlaces => hostThread'[j].runnable \in Tasks
                        /\ creator'[j] \in {"none", "queued"} => hostThread'[j].at = "none"
      BY DEF TasksInHand, At
    <2>1. CASE j # k
      BY <1>1, <1>3, <1>7, <2>1 DEF TasksInHand, At
    <2>2. CASE j = k
      BY <1>3, <1>6, <1>7, <1>9, <2>2
    <2> QED BY <2>1, <2>2
  <1>12. QueuedOnce'
    <2>1. ASSUME NEW i \in 1 .. n PROVE creator'[queue_'[i]] # "none"
      BY <1>1, <1>3, <1>5, <1>6, <1>10 DEF QueuedOnce
    <2>2. ASSUME NEW i \in 1 .. n, NEW j \in 1 .. n, queue_'[i] = queue_'[j] PROVE i = j
      <3>1. queue_[i + 1] = queue_[j + 1]
        BY <1>6, <2>2
      <3>2. i + 1 = j + 1
        BY <1>1, <1>5, <1>10, <3>1 DEF QueuedOnce
      <3> QED BY <1>5, <3>2
    <2> QED BY <1>6, <2>1, <2>2 DEF QueuedOnce
  <1>13. \A j \in Tasks : hostThread[j].runnable # r
    BY <1>1, <1>5, <1>6 DEF HeldOnce
  <1>14. HeldOnce'
    <2>1. ASSUME NEW j \in Tasks, NEW i \in 1 .. n PROVE hostThread'[j].runnable # queue_'[i]
      <3>1. CASE j # k
        BY <1>1, <1>5, <1>6, <1>7, <1>10, <3>1 DEF HeldOnce
      <3>2. CASE j = k
        <4>1. queue_[i + 1] # queue_[1]
          BY <1>1, <1>5, <1>10 DEF QueuedOnce
        <4> QED BY <1>6, <1>7, <3>2, <4>1
      <3> QED BY <3>1, <3>2
    <2>2. creator[r] # "none"
      BY <1>1, <1>5, <1>6 DEF QueuedOnce
    <2>3. \A j \in Tasks : hostThread'[j].runnable \in Tasks => creator'[hostThread'[j].runnable] # "none"
      BY <1>1, <1>3, <1>7, <2>2 DEF HeldOnce
    <2>4. ASSUME NEW i \in Tasks, NEW j \in Tasks, hostThread'[i].runnable \in Tasks,
                 hostThread'[i].runnable = hostThread'[j].runnable
          PROVE  i = j
      BY <1>1, <1>7, <1>13, <2>4 DEF HeldOnce
    <2> QED BY <1>6, <2>1, <2>3, <2>4 DEF HeldOnce
  <1>15. FinishedOnce'
    <2> SUFFICES ASSUME NEW i \in 1 .. Len(finished)
                 PROVE  \E j \in Tasks :
                          hostThread'[j].runnable = finished[i] /\ hostThread'[j].at \in {"completed", "ended"}
      BY <1>1, <1>3 DEF FinishedOnce
    <2>1. PICK j \in Tasks : hostThread[j].runnable = finished[i] /\ hostThread[j].at \in {"completed", "ended"}
      BY <1>1 DEF FinishedOnce
    <2>2. j # k
      BY <1>3, <2>1
    <2> QED BY <1>7, <2>1, <2>2
  <1>16. ThreadCounts'
    <2>1. PICK U : U = Untaken
      OBVIOUS
    <2>2. r # "none"
      BY <1>6, TasksAssumption
    <2>3. Untaken' = U \ {k} /\ k \in U
      BY <1>3, <1>7, <1>9, <2>1, <2>2 DEF Untaken
    <2>4. IsFiniteSet(U)
      BY <2>1, TasksAssumption, FS_Subset DEF Untaken
    <2>5. Cardinality(Untaken') = Cardinality(U) - 1
      BY <2>3, <2>4, FS_RemoveElement
    <2>6. n + 1 = Cardinality(U) /\ running_threads_ = Cardinality(Runnables(CountedPlaces))
      BY <1>1, <1>5, <2>1 DEF ThreadCounts
    <2>7. Runnables(CountedPlaces)' = Runnables(CountedPlaces)
      <3>1. "attached" \notin CountedPlaces /\ "started" \notin CountedPlaces
        BY DEF CountedPlaces
      <3> QED BY <1>3, <1>7, <3>1 DEF Runnables
    <2>8. Len(queue_') = Cardinality(Untaken')
      BY <1>6, <2>5, <2>6
    <2> QED BY <1>3, <2>6, <2>7, <2>8 DEF ThreadCounts
  <1> QED BY <1>8, <1>11, <1>12, <1>14, <1>15, <1>16 DEF ThreadsInv

\* A thread finishes its task, which none has finished before.
LEMMA TaskFinished ==
    ASSUME ThreadsInv, NEW k \in Tasks, TaskEnds(k)
    PROVE  ThreadsInv'
  <1>1. ThreadTypes /\ TasksInHand /\ QueuedOnce /\ HeldOnce /\ FinishedOnce /\ ThreadCounts
    BY DEF ThreadsInv
  <1>2. PICK r : r = hostThread[k].runnable
    OBVIOUS
  <1>3. /\ hostThread[k].at = "running" /\ Move(k, "completed") /\ finished' = Append(finished, r)
        /\ UNCHANGED <<queue_, creator, running_threads_>>
    BY <1>2 DEF TaskEnds, At
  <1>4. "completed" \in Places
    BY DEF Places, AttachedPlaces
  <1>5. /\ hostThread' \in [Tasks -> [at : Places, runnable : Tasks \cup {"none"}]]
        /\ \A j \in Tasks : /\ hostThread'[j].runnable = hostThread[j].runnable
                            /\ hostThread'[j].at = IF j = k THEN "completed" ELSE hostThread[j].at
    BY <1>1, <1>3, <1>4, MovedThread
  <1>6. r \in Tasks /\ creator[k] \in {"waiting", "returned"}
    BY <1>1, <1>2, <1>3 DEF TasksInHand, At, AttachedPlaces, ThreadTypes
  <1>7. TasksInHand' /\ QueuedOnce' /\ HeldOnce' /\ Len(queue_') = Cardinality(Untaken')
    <2>1. creator' \in [Tasks -> {"none", "queued", "waiting", "returned"}]
      BY <1>1, <1>3 DEF ThreadTypes
    <2>2. hostThread[k].at \in AttachedPlaces
      BY <1>3 DEF AttachedPlaces
    <2> QED BY <1>3, <1>4, <1>6, <2>1, <2>2, TasksKept
  <1>8. PICK n \in Nat : n = Len(finished)
    BY <1>1 DEF ThreadTypes
  <1>9. /\ finished' \in Seq(Tasks) /\ Len(finished') = n + 1 /\ finished'[n + 1] = r
        /\ \A i \in 1 .. n : finished'[i] = finished[i]
    BY <1>1, <1>3, <1>6, <1>8, AppendProperties DEF ThreadTypes
  <1>10. \A i \in 1 .. n + 1 : i \in 1 .. n \/ i = n + 1
    BY <1>8
  <1>11. \A i \in 1 .. n : finished[i] # r
    <2> SUFFICES ASSUME NEW i \in 1 .. n, finished[i] = r PROVE FALSE
      OBVIOUS
    <2>1. PICK j \in Tasks : hostThread[j].runnable = finished[i] /\ hostThread[j].at \in {"completed", "ended"}
      BY <1>1, <1>8 DEF FinishedOnce
    <2>2. j = k
      BY <1>1, <1>2, <1>6, <2>1 DEF HeldOnce
    <2> QED BY <1>3, <2>1, <2>2
  <1>12. FinishedOnce'
    <2>1. ASSUME NEW i \in 1 .. n + 1
          PROVE  \E j \in Tasks :
                    hostThread'[j].runnable = finished'[i] /\ hostThread'[j].at \in {"completed", "ended"}
      <3>1. CASE i \in 1 .. n
        <4>1. PICK j \in Tasks : hostThread[j].runnable = finished[i] /\ hostThread[j].at \in {"completed", "ended"}
          BY <1>1, <1>8, <3>1 DEF FinishedOnce
        <4> QED BY <1>5, <1>9, <3>1, <4>1
      <3>2. CASE i = n + 1
        BY <1>2, <1>5, <1>9, <3>2
      <3> QED BY <1>10, <3>1, <3>2
    <2>2. ASSUME NEW i \in 1 .. n + 1, NEW j \in 1 .. n + 1, finished'[i] = finished'[j] PROVE i = j
      <3>1. CASE i \in 1 .. n /\ j \in 1 .. n
        BY <1>1, <1>8, <1>9, <2>2, <3>1 DEF FinishedOnce
      <3>2. CASE i = n + 1 \/ j = n + 1
        BY <1>9, <1>10, <1>11, <2>2, <3>2
      <3> QED BY <1>10, <3>1, <3>2
    <2> QED BY <1>9, <2>1, <2>2 DEF FinishedOnce
  <1>13. running_threads_' = Cardinality(Runnables(CountedPlaces))'
    <2>1. "completed" \in CountedPlaces /\ hostThread[k].at \in CountedPlaces
      BY <1>3 DEF CountedPlaces
    <2>2. Cardinality(Runnables(CountedPlaces))' = Cardinality(Runnables(CountedPlaces))
      BY <1>1, <1>3, <1>4, <2>1, CountMoved
    <2> QED BY <1>1, <1>3, <2>2 DEF ThreadCounts
  <1>14. ThreadTypes'
    BY <1>1, <1>3, <1>5, <1>9 DEF ThreadTypes
  <1> QED BY <1>7, <1>12, <1>13, <1>14 DEF ThreadsInv, ThreadCounts

\* The other steps of thread k and of the call that created it.
LEMMA ThreadAdvances ==
    ASSUME ThreadsInv, NEW k \in Tasks,
           \/ ocall_request_thread(k) \/ AttachFails(k) \/ ocall_complete_request_thread(k)
           \/ RunnableCheckpoint(k) \/ RunTask(k) \/ detach_thread(k)
    PROVE  ThreadsInv'
  <1>1. ThreadTypes /\ TasksInHand /\ ThreadCounts
    BY DEF ThreadsInv
  <1>2. UNCHANGED <<queue_, finished>>
    BY DEF ocall_request_thread, AttachFails, ocall_complete_request_thread, RunnableCheckpoint, RunTask,
           detach_thread
  <1>3. /\ creator \in [Tasks -> {"none", "queued", "waiting", "returned"}] /\ running_threads_ \in Int
        /\ running_threads_ = Cardinality(Runnables(CountedPlaces))
    BY <1>1 DEF ThreadTypes, ThreadCounts
  <1>4. ~At(k, "none") => creator[k] \in {"waiting", "returned"}
    BY <1>1, <1>3 DEF TasksInHand
  <1>5. ASSUME NEW place \in Places PROVE Move(k, place) <=> hostThread' = [hostThread EXCEPT ![k].at = place]
    BY DEF Move
  <1>6. {"none", "started", "ended", "attached", "let go", "counted", "running", "completed"} \subseteq Places
    BY DEF Places, AttachedPlaces
  <1>7. CASE ocall_request_thread(k)
    <2>1. creator[k] = "queued" /\ Move(k, "started") /\ creator' = [creator EXCEPT ![k] = "waiting"]
          /\ running_threads_' = running_threads_
      BY <1>7 DEF ocall_request_thread
    <2>2. At(k, "none") /\ hostThread[k].at = "none"
      BY <1>1, <2>1 DEF TasksInHand, At
    <2>3. "started" \notin CountedPlaces /\ "none" \notin CountedPlaces /\ "started" \notin AttachedPlaces
      BY DEF CountedPlaces, AttachedPlaces
    <2>4. running_threads_' = Cardinality(Runnables(CountedPlaces))'
      BY <1>1, <1>3, <1>6, <2>1, <2>2, <2>3, CountMoved
    <2>5. /\ creator' \in [Tasks -> {"none", "queued", "waiting", "returned"}] /\ creator'[k] = "waiting"
          /\ \A j \in Tasks \ {k} : creator'[j] = creator[j]
      BY <1>3, <2>1
    <2> QED BY <1>2, <1>3, <1>6, <2>1, <2>2, <2>3, <2>4, <2>5, ThreadMoves
  <1>8. CASE AttachFails(k)
    <2>1. hostThread[k].at = "started" /\ Move(k, "ended") /\ UNCHANGED <<creator, running_threads_>>
      BY <1>8 DEF AttachFails, At
    <2>2. "ended" \notin CountedPlaces /\ "started" \notin CountedPlaces /\ "ended" \notin AttachedPlaces
      BY DEF CountedPlaces, AttachedPlaces
    <2>3. running_threads_' = Cardinality(Runnables(CountedPlaces))'
      BY <1>1, <1>3, <1>6, <2>1, <2>2, CountMoved
    <2>4. creator[k] \in {"waiting", "returned"}
      BY <1>4, <2>1 DEF At
    <2> QED BY <1>2, <1>3, <1>6, <2>1, <2>2, <2>3, <2>4, ThreadMoves
  <1>9. CASE ocall_complete_request_thread(k)
    <2>1. hostThread[k].at = "attached" /\ Move(k, "let go") /\ UNCHANGED <<creator, running_threads_>>
      BY <1>9 DEF ocall_complete_request_thread, At
    <2>2. "attached" \notin CountedPlaces /\ "let go" \notin CountedPlaces /\ "attached" \in AttachedPlaces
      BY DEF CountedPlaces, AttachedPlaces
    <2>3. running_threads_' = Cardinality(Runnables(CountedPlaces))'
      BY <1>1, <1>3, <1>6, <2>1, <2>2, CountMoved
    <2>4. creator[k] \in {"waiting", "returned"}
      BY <1>4, <2>1 DEF At
    <2> QED BY <1>2, <1>3, <1>6, <2>1, <2>2, <2>3, <2>4, ThreadMoves
  <1>10. CASE RunnableCheckpoint(k)
    <2>1. hostThread[k].at = "let go" /\ Move(k, "counted") /\ UNCHANGED creator
          /\ running_threads_' = running_threads_ + 1
      BY <1>10 DEF RunnableCheckpoint, At
    <2>2. "counted" \in CountedPlaces /\ "let go" \notin CountedPlaces /\ "let go" \in AttachedPlaces
      BY DEF CountedPlaces, AttachedPlaces
    <2>3. running_threads_' = Cardinality(Runnables(CountedPlaces))'
      BY <1>1, <1>3, <1>6, <2>1, <2>2, CountMoved
    <2>4. creator[k] \in {"waiting", "returned"}
      BY <1>4, <2>1 DEF At
    <2>5. running_threads_' \in Int
      <3>1. PICK n : n = running_threads_
        OBVIOUS
      <3>2. n \in Int /\ n + 1 \in Int /\ n - 1 \in Int
        BY <1>3, <3>1
      <3> QED BY <2>1, <3>1, <3>2
    <2> QED BY <1>2, <1>3, <1>6, <2>1, <2>2, <2>3, <2>4, <2>5, ThreadMoves
  <1>11. CASE RunTask(k)
    <2>1. hostThread[k].at = "counted" /\ Move(k, "running") /\ UNCHANGED <<creator, running_threads_>>
      BY <1>11 DEF RunTask, At
    <2>2. "counted" \in CountedPlaces /\ "running" \in CountedPlaces /\ "counted" \in AttachedPlaces
      BY DEF CountedPlaces, AttachedPlaces
    <2>3. running_threads_' = Cardinality(Runnables(CountedPlaces))'
      BY <1>1, <1>3, <1>6, <2>1, <2>2, CountMoved
    <2>4. creator[k] \in {"waiting", "returned"}
      BY <1>4, <2>1 DEF At
    <2> QED BY <1>2, <1>3, <1>6, <2>1, <2>2, <2>3, <2>4, ThreadMoves
  <1>12. CASE detach_thread(k)
    <2>1. hostThread[k].at = "completed" /\ Move(k, "ended") /\ UNCHANGED creator
          /\ running_threads_' = running_threads_ - 1
      BY <1>12 DEF detach_thread, At
    <2>2. "completed" \in CountedPlaces /\ "ended" \notin CountedPlaces /\ "ended" \notin AttachedPlaces
      BY DEF CountedPlaces, AttachedPlaces
    <2>3. running_threads_' = Cardinality(Runnables(CountedPlaces))'
      BY <1>1, <1>3, <1>6, <2>1, <2>2, CountMoved
    <2>4. creator[k] \in {"waiting", "returned"}
      BY <1>4, <2>1 DEF At
    <2>5. running_threads_' \in Int
      <3>1. PICK n : n = running_threads_
        OBVIOUS
      <3>2. n \in Int /\ n + 1 \in Int /\ n - 1 \in Int
        BY <1>3, <3>1
      <3> QED BY <2>1, <3>1, <3>2
    <2> QED BY <1>2, <1>3, <1>6, <2>1, <2>2, <2>3, <2>4, <2>5, ThreadMoves
  <1> QED BY <1>7, <1>8, <1>9, <1>10, <1>11, <1>12

\* create returns.
LEMMA CreateReturned ==
    ASSUME ThreadsInv, NEW k \in Tasks, set_state_on_start(k)
    PROVE  ThreadsInv'
  <1>1. ThreadTypes /\ TasksInHand /\ QueuedOnce /\ HeldOnce /\ FinishedOnce /\ ThreadCounts
    BY DEF ThreadsInv
  <1>2. /\ creator[k] = "waiting" /\ creator' = [creator EXCEPT ![k] = "returned"]
        /\ UNCHANGED <<queue_, hostThread, running_threads_, finished>>
    BY DEF set_state_on_start
  <1>3. /\ creator' \in [Tasks -> {"none", "queued", "waiting", "returned"}]
        /\ \A j \in Tasks : creator'[j] = IF j = k THEN "returned" ELSE creator[j]
    BY <1>1, <1>2 DEF ThreadTypes
  <1>4. ThreadTypes' /\ TasksInHand'
    BY <1>1, <1>2, <1>3 DEF ThreadTypes, TasksInHand, At
  <1>5. queue_ \in Seq(Tasks) /\ \A i \in 1 .. Len(queue_) : queue_[i] \in Tasks
    BY <1>1 DEF ThreadTypes
  <1>6. QueuedOnce'
    BY <1>1, <1>2, <1>3, <1>5 DEF QueuedOnce
  <1>7. HeldOnce' /\ FinishedOnce'
    BY <1>1, <1>2, <1>3 DEF HeldOnce, FinishedOnce
  <1>8. Untaken' = Untaken /\ Runnables(CountedPlaces)' = Runnables(CountedPlaces)
    BY <1>2, <1>3 DEF Untaken, Runnables
  <1> QED BY <1>1, <1>2, <1>4, <1>6, <1>7, <1>8 DEF ThreadsInv, ThreadCounts

\* What the invariant says of the threads that may still come, and of those inside.
LEMMA ThreadsInvImplies == ThreadsInv => ThreadsAccounted
  <1> SUFFICES ASSUME ThreadsInv PROVE ThreadsAccounted
    OBVIOUS
  <1>1. ThreadTypes /\ TasksInHand /\ HeldOnce /\ FinishedOnce /\ ThreadCounts
    BY DEF ThreadsInv
  <1>2. Cardinality(Runnables({"started"})) <= Len(queue_)
    <2>1. IsFiniteSet(Untaken)
      BY TasksAssumption, FS_Subset DEF Untaken
    <2>2. Runnables({"started"}) \in SUBSET Untaken
      BY <1>1 DEF Runnables, Untaken, TasksInHand, At
    <2>3. Cardinality(Runnables({"started"})) <= Cardinality(Untaken)
      BY <2>1, <2>2, FS_Subset
    <2> QED BY <1>1, <2>3 DEF ThreadCounts
  <1>3. ASSUME NEW k \in Tasks, NEW j \in Tasks, k # j, hostThread[k].runnable = hostThread[j].runnable
        PROVE  hostThread[k].runnable = "none"
    BY <1>1, <1>3 DEF HeldOnce, ThreadTypes
  <1>4. \A k, j \in Runnables({"attached", "let go", "counted", "running", "completed", "ended"}) :
           k # j /\ hostThread[k].runnable = hostThread[j].runnable => hostThread[k].runnable = "none"
    BY <1>3 DEF Runnables
  <1>5. DOMAIN finished = 1 .. Len(finished)
    BY <1>1 DEF ThreadTypes
  <1>6. \A i, j \in DOMAIN finished : finished[i] = finished[j] => i = j
    BY <1>1, <1>5 DEF FinishedOnce
  <1>7. running_threads_ = Cardinality(Runnables({"counted", "running", "completed"}))
    BY <1>1 DEF ThreadCounts, CountedPlaces
  <1> QED BY <1>2, <1>4, <1>6, <1>7 DEF ThreadsAccounted

\* However creating threads, entering the enclave, failing to and running interleave, every
\* thread that enters finds a task, no task is taken or run twice, and the count that
\* shutdown waits on is that of the threads inside; for any number of tasks.
THEOREM ThreadsStayAccounted == ThreadsSpec => []ThreadsAccounted
  <1>1. ThreadsInit => ThreadsInv
    <2> SUFFICES ASSUME ThreadsInit PROVE ThreadsInv
      OBVIOUS
    <2>1. queue_ = <<>> /\ finished = <<>> /\ Len(queue_) = 0 /\ Len(finished) = 0
      BY DEF ThreadsInit
    <2>2. \A k \in Tasks : /\ creator[k] = "none" /\ hostThread[k].at = "none"
                           /\ hostThread[k].runnable = "none"
      BY DEF ThreadsInit, NoHostThread
    <2>3. ThreadTypes
      BY DEF ThreadsInit, NoHostThread, ThreadTypes, Places
    <2>4. TasksInHand
      BY <2>2 DEF TasksInHand, At, AttachedPlaces
    <2>5. QueuedOnce /\ FinishedOnce
      BY <2>1 DEF QueuedOnce, FinishedOnce
    <2>6. HeldOnce
      BY <2>1, <2>2, TasksAssumption DEF HeldOnce
    <2>7. ThreadCounts
      <3>1. Untaken = {} /\ Runnables(CountedPlaces) = {}
        BY <2>2 DEF Untaken, Runnables, CountedPlaces
      <3>2. running_threads_ = 0
        BY DEF ThreadsInit
      <3> QED BY <2>1, <3>1, <3>2, FS_EmptySet DEF ThreadCounts
    <2> QED BY <2>3, <2>4, <2>5, <2>6, <2>7 DEF ThreadsInv
  <1>2. ThreadsInv /\ [ThreadsNext]_threadVars => ThreadsInv'
    <2> SUFFICES ASSUME ThreadsInv, [ThreadsNext]_threadVars PROVE ThreadsInv'
      OBVIOUS
    <2>1. CASE ShutdownThreads \/ ShutdownThreadsReturns \/ UNCHANGED threadVars
      <3>1. UNCHANGED <<queue_, creator, hostThread, running_threads_, finished>>
        BY <2>1 DEF ShutdownThreads, ShutdownThreadsReturns, threadVars
      <3>2. ThreadTypes' /\ TasksInHand'
        BY <3>1 DEF ThreadsInv, ThreadTypes, TasksInHand, At
      <3>3. QueuedOnce' /\ HeldOnce' /\ FinishedOnce'
        BY <3>1 DEF ThreadsInv, QueuedOnce, HeldOnce, FinishedOnce
      <3>4. Untaken' = Untaken /\ Runnables(CountedPlaces)' = Runnables(CountedPlaces)
        BY <3>1 DEF Untaken, Runnables
      <3>5. ThreadCounts'
        BY <3>1, <3>4 DEF ThreadsInv, ThreadCounts
      <3> QED BY <3>2, <3>3, <3>5 DEF ThreadsInv
    <2>2. ASSUME NEW k \in Tasks, CreateThread(k) \/ ThreadSteps(k) PROVE ThreadsInv'
      BY <2>2, ThreadCreated, TaskTaken, TaskFinished, ThreadAdvances, CreateReturned DEF ThreadSteps
    <2> QED BY <2>1, <2>2 DEF ThreadsNext
  <1> QED BY <1>1, <1>2, ThreadsInvImplies, PTL DEF ThreadsSpec

-----------------------------------------------------------------------------
(***************************************************************************)
(* Calls.  The ecalls of a thread are at the odd places of its frames, and *)
(* each but the last has made an ocall, which follows it.                  *)
(***************************************************************************)
Ecall(e) == [kind |-> "ecall", enclave |-> e]
Ocall(e) == [kind |-> "ocall", enclave |-> e]

Nested(s, c) ==
    /\ s \in Seq([kind : {"ecall", "ocall"}, enclave : Enclaves]) /\ c \in Seq(Enclaves)
    /\ Len(s) = 2 * Len(c) \/ Len(s) = 2 * Len(c) - 1
    /\ \A j \in 1 .. Len(c) : s[2 * j - 1] = Ecall(c[j])
    /\ \A j \in 1 .. Len(c) : 2 * j <= Len(s) => s[2 * j] = Ocall(c[j])

\* The calls into enclave e among those of the contexts c.
CallsInto(c, e) == {j \in 1 .. Len(c) : c[j] = e}

NativeTypes ==
    /\ frames \in [HostThreads -> Seq([kind : {"ecall", "ocall"}, enclave : Enclaves])]
    /\ contextStack \in [HostThreads -> Seq(Enclaves)]
    /\ threads_ \in [Enclaves -> [HostThreads -> Int]]
    /\ attached \in [Enclaves -> SUBSET HostThreads]

\* A thread is attached as long as it is counted, and counted once for each call inside.
Attachment(t, e) ==
    /\ threads_[e][t] = Cardinality(CallsInto(contextStack[t], e))
    /\ t \in attached[e] <=> CallsInto(contextStack[t], e) # {}

NativeInv ==
    /\ NativeTypes
    /\ \A t \in HostThreads : Nested(frames[t], contextStack[t])
    /\ \A t \in HostThreads, e \in Enclaves : Attachment(t, e)

\* Where the innermost call of a thread is.
LEMMA InnermostCall ==
    ASSUME NEW s, NEW c, Nested(s, c)
    PROVE  /\ s # <<>> /\ s[Len(s)].kind = "ecall" =>
                 Len(s) = 2 * Len(c) - 1 /\ Len(c) > 0 /\ s[Len(s)] = Ecall(c[Len(c)])
           /\ s = <<>> \/ s[Len(s)].kind # "ecall" => Len(s) = 2 * Len(c)
  <1>1. PICK n \in Nat : n = Len(c)
    BY DEF Nested
  <1>2. PICK m \in Nat : m = Len(s)
    BY DEF Nested
  <1>3. m = 0 <=> s = <<>>
    BY <1>2, EmptySeq DEF Nested
  <1>4. m = 2 * n \/ m = 2 * n - 1
    BY <1>1, <1>2 DEF Nested
  <1>5. CASE m = 2 * n /\ n > 0
    <2>1. n \in 1 .. n /\ 2 * n <= m
      BY <1>5
    <2>2. s[m] = Ocall(c[n])
      BY <1>1, <1>2, <1>5, <2>1 DEF Nested
    <2>3. s[m].kind = "ocall"
      BY <2>2 DEF Ocall
    <2> QED BY <1>1, <1>2, <1>5, <2>3
  <1>6. CASE m = 2 * n - 1 /\ n > 0
    <2>1. n \in 1 .. n
      BY <1>6
    <2>2. s[m] = Ecall(c[n])
      BY <1>1, <1>2, <1>6, <2>1 DEF Nested
    <2>3. s[m].kind = "ecall" /\ m # 0
      BY <1>6, <2>2 DEF Ecall
    <2> QED BY <1>1, <1>2, <1>3, <1>6, <2>2, <2>3
  <1>7. CASE n = 0
    <2>1. m = 0
      BY <1>4, <1>7
    <2> QED BY <1>1, <1>2, <1>3, <1>7, <2>1
  <1> QED BY <1>4, <1>5, <1>6, <1>7

\* A thread enters an enclave.
LEMMA EcallPushed ==
    ASSUME NEW s, NEW c, Nested(s, c), Len(s) = 2 * Len(c), NEW e \in Enclaves
    PROVE  Nested(Append(s, Ecall(e)), Append(c, e))
  <1>1. PICK n \in Nat : n = Len(c)
    BY DEF Nested
  <1>2. PICK d : d = Append(c, e)
    OBVIOUS
  <1>3. PICK r : r = Append(s, Ecall(e))
    OBVIOUS
  <1>4. d \in Seq(Enclaves) /\ Len(d) = n + 1 /\ d[n + 1] = e /\ \A j \in 1 .. n : d[j] = c[j]
    BY <1>1, <1>2, AppendProperties DEF Nested
  <1>5. Ecall(e) \in [kind : {"ecall", "ocall"}, enclave : Enclaves] /\ Len(s) = 2 * n
    BY <1>1 DEF Ecall
  <1>6. /\ r \in Seq([kind : {"ecall", "ocall"}, enclave : Enclaves]) /\ Len(r) = 2 * n + 1
        /\ r[2 * n + 1] = Ecall(e) /\ \A j \in 1 .. 2 * n : r[j] = s[j]
    BY <1>3, <1>5, AppendProperties DEF Nested
  <1>7. ASSUME NEW j \in 1 .. n + 1
        PROVE  r[2 * j - 1] = Ecall(d[j]) /\ (2 * j <= 2 * n + 1 => r[2 * j] = Ocall(d[j]))
    <2>1. CASE j = n + 1
      <3>1. 2 * j - 1 = 2 * n + 1 /\ ~(2 * j <= 2 * n + 1)
        BY <1>1, <2>1
      <3> QED BY <1>4, <1>6, <2>1, <3>1
    <2>2. CASE j \in 1 .. n
      <3>1. 2 * j - 1 \in 1 .. 2 * n /\ 2 * j \in 1 .. 2 * n /\ 2 * j <= Len(s)
        BY <1>1, <1>5, <2>2
      <3>2. s[2 * j - 1] = Ecall(c[j]) /\ s[2 * j] = Ocall(c[j])
        BY <1>1, <2>2, <3>1 DEF Nested
      <3> QED BY <1>4, <1>6, <2>2, <3>1, <3>2
    <2> QED BY <1>1, <2>1, <2>2
  <1>8. Len(r) = 2 * Len(d) - 1
    BY <1>4, <1>6
  <1>9. Nested(r, d)
    BY <1>4, <1>6, <1>7, <1>8 DEF Nested
  <1> QED BY <1>2, <1>3, <1>9

\* The innermost ecall makes an ocall.
LEMMA OcallPushed ==
    ASSUME NEW s, NEW c, Nested(s, c), Len(s) = 2 * Len(c) - 1, Len(c) > 0
    PROVE  Nested(Append(s, Ocall(c[Len(c)])), c)
  <1>1. PICK n \in Nat : n = Len(c)
    BY DEF Nested
  <1>2. PICK r : r = Append(s, Ocall(c[n]))
    OBVIOUS
  <1>3. c \in Seq(Enclaves) /\ n > 0 /\ c[n] \in Enclaves
    BY <1>1 DEF Nested
  <1>4. Ocall(c[n]) \in [kind : {"ecall", "ocall"}, enclave : Enclaves] /\ Len(s) = 2 * n - 1
    BY <1>1, <1>3 DEF Ocall
  <1>5. /\ r \in Seq([kind : {"ecall", "ocall"}, enclave : Enclaves]) /\ Len(r) = Len(s) + 1
        /\ r[Len(s) + 1] = Ocall(c[n]) /\ \A j \in 1 .. Len(s) : r[j] = s[j]
    BY <1>2, <1>4, AppendProperties DEF Nested
  <1>6. Len(r) = 2 * n /\ r[2 * n] = Ocall(c[n]) /\ \A j \in 1 .. 2 * n - 1 : r[j] = s[j]
    BY <1>1, <1>4, <1>5
  <1>7. ASSUME NEW j \in 1 .. n PROVE r[2 * j - 1] = Ecall(c[j]) /\ r[2 * j] = Ocall(c[j])
    <2>1. 2 * j - 1 \in 1 .. 2 * n - 1
      BY <1>1
    <2>2. s[2 * j - 1] = Ecall(c[j])
      BY <1>1 DEF Nested
    <2>3. CASE j = n
      BY <1>6, <2>1, <2>2, <2>3
    <2>4. CASE j # n
      <3>1. 2 * j \in 1 .. 2 * n - 1 /\ 2 * j <= Len(s)
        BY <1>1, <1>4, <2>4
      <3>2. s[2 * j] = Ocall(c[j])
        BY <1>1, <3>1 DEF Nested
      <3> QED BY <1>6, <2>1, <2>2, <3>1, <3>2
    <2> QED BY <2>3, <2>4
  <1>8. Nested(r, c)
    BY <1>1, <1>3, <1>5, <1>6, <1>7 DEF Nested
  <1> QED BY <1>1, <1>2, <1>8

\* A sequence without its last element.
LEMMA PopFields ==
    ASSUME NEW S, NEW s \in Seq(S), NEW n \in Nat, Len(s) = n + 1
    PROVE  Pop(s) \in Seq(S) /\ Len(Pop(s)) = n /\ \A j \in 1 .. n : Pop(s)[j] = s[j]
  <1>1. Pop(s) = SubSeq(s, 1, n)
    BY DEF Pop
  <1>2. SubSeq(s, 1, n) \in Seq(S) /\ Len(SubSeq(s, 1, n)) = n
    BY SubSeqProperties
  <1>3. \A j \in 1 .. n : SubSeq(s, 1, n)[j] = s[j]
    BY SubSeqProperties
  <1> QED BY <1>1, <1>2, <1>3

\* An ocall returns.
LEMMA OcallPopped ==
    ASSUME NEW s, NEW c, Nested(s, c), Len(s) = 2 * Len(c), s # <<>>
    PROVE  Nested(Pop(s), c)
  <1>1. PICK n \in Nat : n = Len(c)
    BY DEF Nested
  <1>2. PICK r : r = Pop(s)
    OBVIOUS
  <1>3. Len(s) # 0
    BY EmptySeq DEF Nested
  <1>4. n > 0 /\ 2 * n - 1 \in Nat /\ Len(s) = (2 * n - 1) + 1
    BY <1>1, <1>3
  <1>5. /\ r \in Seq([kind : {"ecall", "ocall"}, enclave : Enclaves]) /\ Len(r) = 2 * n - 1
        /\ \A j \in 1 .. 2 * n - 1 : r[j] = s[j]
    BY <1>2, <1>4, PopFields DEF Nested
  <1>6. ASSUME NEW j \in 1 .. n
        PROVE  r[2 * j - 1] = Ecall(c[j]) /\ (2 * j <= 2 * n - 1 => r[2 * j] = Ocall(c[j]))
    <2>1. 2 * j - 1 \in 1 .. 2 * n - 1 /\ 2 * j <= Len(s)
      BY <1>1, <1>4
    <2>2. s[2 * j - 1] = Ecall(c[j]) /\ s[2 * j] = Ocall(c[j])
      BY <1>1, <2>1 DEF Nested
    <2>3. 2 * j <= 2 * n - 1 => 2 * j \in 1 .. 2 * n - 1
      BY <1>1
    <2> QED BY <1>5, <2>1, <2>2, <2>3
  <1>7. Nested(r, c)
    BY <1>1, <1>5, <1>6 DEF Nested
  <1> QED BY <1>2, <1>7

\* An ecall returns.
LEMMA EcallPopped ==
    ASSUME NEW s, NEW c, Nested(s, c), Len(s) = 2 * Len(c) - 1, Len(c) > 0
    PROVE  Nested(Pop(s), Pop(c))
  <1>1. PICK n \in Nat : Len(c) = n + 1
    <2>1. Len(c) \in Nat /\ Len(c) - 1 \in Nat /\ Len(c) = (Len(c) - 1) + 1
      BY DEF Nested
    <2> QED BY <2>1
  <1>2. PICK r : r = Pop(s)
    OBVIOUS
  <1>3. PICK d : d = Pop(c)
    OBVIOUS
  <1>4. 2 * n \in Nat /\ Len(s) = 2 * n + 1
    BY <1>1
  <1>5. /\ r \in Seq([kind : {"ecall", "ocall"}, enclave : Enclaves]) /\ Len(r) = 2 * n
        /\ \A j \in 1 .. 2 * n : r[j] = s[j]
    BY <1>2, <1>4, PopFields DEF Nested
  <1>6. d \in Seq(Enclaves) /\ Len(d) = n /\ \A j \in 1 .. n : d[j] = c[j]
    BY <1>1, <1>3, PopFields DEF Nested
  <1>7. ASSUME NEW j \in 1 .. n PROVE r[2 * j - 1] = Ecall(d[j]) /\ r[2 * j] = Ocall(d[j])
    <2>1. 2 * j - 1 \in 1 .. 2 * n /\ 2 * j \in 1 .. 2 * n /\ 2 * j <= Len(s) /\ j \in 1 .. n + 1
      BY <1>1, <1>4
    <2>2. s[2 * j - 1] = Ecall(c[j]) /\ s[2 * j] = Ocall(c[j])
      BY <1>1, <2>1 DEF Nested
    <2> QED BY <1>5, <1>6, <2>1, <2>2
  <1>8. Nested(r, d)
    BY <1>5, <1>6, <1>7 DEF Nested
  <1> QED BY <1>2, <1>3, <1>8

\* The calls into enclave f after a thread has entered e.
LEMMA CallsIntoPushed ==
    ASSUME NEW c \in Seq(Enclaves), NEW e \in Enclaves, NEW f \in Enclaves
    PROVE  /\ IsFiniteSet(CallsInto(c, f)) /\ Cardinality(CallsInto(c, f)) \in Nat
           /\ f # e => CallsInto(Append(c, e), f) = CallsInto(c, f)
           /\ CallsInto(Append(c, e), e) # {}
           /\ Cardinality(CallsInto(Append(c, e), e)) = Cardinality(CallsInto(c, e)) + 1
  <1>1. PICK n \in Nat : n = Len(c)
    OBVIOUS
  <1>2. PICK d : d = Append(c, e)
    OBVIOUS
  <1>3. d \in Seq(Enclaves) /\ Len(d) = n + 1 /\ d[n + 1] = e /\ \A j \in 1 .. n : d[j] = c[j]
    BY <1>1, <1>2, AppendProperties
  <1>4. \A j \in 1 .. n + 1 : j \in 1 .. n \/ j = n + 1
    BY <1>1
  <1>5. n + 1 \in 1 .. n + 1 /\ n + 1 \notin 1 .. n /\ 1 .. n \subseteq 1 .. n + 1
    BY <1>1
  <1>6. ASSUME NEW g \in Enclaves PROVE IsFiniteSet(CallsInto(c, g)) /\ Cardinality(CallsInto(c, g)) \in Nat
    <2>1. IsFiniteSet(1 .. n)
      BY <1>1, FS_Interval
    <2>2. CallsInto(c, g) \in SUBSET (1 .. n)
      BY <1>1 DEF CallsInto
    <2>3. IsFiniteSet(CallsInto(c, g))
      BY <2>1, <2>2, FS_Subset
    <2> QED BY <2>3, FS_CardinalityType
  <1>7. ASSUME f # e PROVE CallsInto(d, f) = CallsInto(c, f)
    BY <1>1, <1>3, <1>4, <1>5, <1>7 DEF CallsInto
  <1>8. CallsInto(d, e) = CallsInto(c, e) \cup {n + 1} /\ n + 1 \notin CallsInto(c, e)
    BY <1>1, <1>3, <1>4, <1>5 DEF CallsInto
  <1>9. Cardinality(CallsInto(d, e)) = Cardinality(CallsInto(c, e)) + 1
    BY <1>6, <1>8, FS_AddElement
  <1> QED BY <1>2, <1>6, <1>7, <1>8, <1>9

\* The calls into enclave f after a thread has left the innermost one.
LEMMA CallsIntoPopped ==
    ASSUME NEW c \in Seq(Enclaves), Len(c) > 0, NEW f \in Enclaves
    PROVE  /\ f # c[Len(c)] => CallsInto(Pop(c), f) = CallsInto(c, f)
           /\ f = c[Len(c)] =>
                 /\ Cardinality(CallsInto(Pop(c), f)) = Cardinality(CallsInto(c, f)) - 1
                 /\ CallsInto(c, f) # {}
                 /\ CallsInto(Pop(c), f) # {} <=> Cardinality(CallsInto(c, f)) # 1
  <1>1. PICK n \in Nat : Len(c) = n + 1
    <2>1. Len(c) \in Nat /\ Len(c) - 1 \in Nat /\ Len(c) = (Len(c) - 1) + 1
      OBVIOUS
    <2> QED BY <2>1
  <1>2. PICK d : d = Pop(c)
    OBVIOUS
  <1>3. d \in Seq(Enclaves) /\ Len(d) = n /\ \A j \in 1 .. n : d[j] = c[j]
    BY <1>1, <1>2, PopFields
  <1>4. \A j \in 1 .. n + 1 : j \in 1 .. n \/ j = n + 1
    BY <1>1
  <1>5. n + 1 \in 1 .. n + 1 /\ n + 1 \notin 1 .. n /\ 1 .. n \subseteq 1 .. n + 1
    BY <1>1
  <1>6. CASE f # c[n + 1]
    <2>1. CallsInto(d, f) = CallsInto(c, f)
      BY <1>1, <1>3, <1>4, <1>5, <1>6 DEF CallsInto
    <2> QED BY <1>1, <1>2, <1>6, <2>1
  <1>7. CASE f = c[n + 1]
    <2>1. CallsInto(d, f) = CallsInto(c, f) \ {n + 1} /\ n + 1 \in CallsInto(c, f)
      BY <1>1, <1>3, <1>4, <1>5, <1>7 DEF CallsInto
    <2>2. IsFiniteSet(CallsInto(c, f)) /\ Cardinality(CallsInto(c, f)) \in Nat
      BY CallsIntoPushed
    <2>3. IsFiniteSet(CallsInto(d, f)) /\ Cardinality(CallsInto(d, f)) = Cardinality(CallsInto(c, f)) - 1
      BY <2>1, <2>2, FS_RemoveElement
    <2>4. Cardinality(CallsInto(d, f)) = 0 <=> CallsInto(d, f) = {}
      BY <2>3, FS_EmptySet
    <2>5. CallsInto(d, f) # {} <=> Cardinality(CallsInto(c, f)) # 1
      BY <2>2, <2>3, <2>4
    <2> QED BY <1>1, <1>2, <1>7, <2>1, <2>3, <2>5
  <1> QED BY <1>6, <1>7

\* jvmECall.
LEMMA EcallInContext ==
    ASSUME NativeInv, NEW t \in HostThreads, NEW e \in Enclaves, jvmECall(t, e)
    PROVE  NativeInv'
  <1>1. NativeTypes /\ Nested(frames[t], contextStack[t])
    BY DEF NativeInv
  <1>2. /\ frames \in [HostThreads -> Seq([kind : {"ecall", "ocall"}, enclave : Enclaves])]
        /\ contextStack \in [HostThreads -> Seq(Enclaves)]
        /\ threads_ \in [Enclaves -> [HostThreads -> Int]] /\ attached \in [Enclaves -> SUBSET HostThreads]
    BY <1>1 DEF NativeTypes
  <1>3. PICK s : s = Append(frames[t], Ecall(e))
    OBVIOUS
  <1>4. PICK c : c = Append(contextStack[t], e)
    OBVIOUS
  <1>5. /\ frames' = [frames EXCEPT ![t] = s] /\ contextStack' = [contextStack EXCEPT ![t] = c]
        /\ threads_' = [threads_ EXCEPT ![e][t] = threads_[e][t] + 1]
        /\ attached' = [attached EXCEPT ![e] = attached[e] \cup {t}]
    BY <1>3, <1>4 DEF jvmECall, Ecall
  <1>6. frames[t] = <<>> \/ frames[t][Len(frames[t])].kind # "ecall"
    BY DEF jvmECall, InHost, Inside
  <1>7. Len(frames[t]) = 2 * Len(contextStack[t])
    BY <1>1, <1>6, InnermostCall
  <1>8. Nested(s, c)
    BY <1>1, <1>3, <1>4, <1>7, EcallPushed
  <1>9. s \in Seq([kind : {"ecall", "ocall"}, enclave : Enclaves]) /\ c \in Seq(Enclaves)
    BY <1>8 DEF Nested
  <1>10. /\ frames'[t] = s /\ contextStack'[t] = c
         /\ \A u \in HostThreads \ {t} : frames'[u] = frames[u] /\ contextStack'[u] = contextStack[u]
    BY <1>2, <1>5
  <1>11. /\ threads_'[e][t] = threads_[e][t] + 1 /\ attached'[e] = attached[e] \cup {t}
         /\ \A f \in Enclaves, u \in HostThreads : f # e \/ u # t => threads_'[f][u] = threads_[f][u]
         /\ \A f \in Enclaves \ {e} : attached'[f] = attached[f]
    BY <1>2, <1>5
  <1>12. NativeTypes'
    <2>1. frames' \in [HostThreads -> Seq([kind : {"ecall", "ocall"}, enclave : Enclaves])]
      BY <1>2, <1>5, <1>9
    <2>2. contextStack' \in [HostThreads -> Seq(Enclaves)]
      BY <1>2, <1>5, <1>9
    <2>3. attached' \in [Enclaves -> SUBSET HostThreads]
      BY <1>2, <1>5
    <2>4. threads_' \in [Enclaves -> [HostThreads -> Int]]
      BY <1>2, <1>5
    <2> QED BY <2>1, <2>2, <2>3, <2>4 DEF NativeTypes
  <1>13. ASSUME NEW u \in HostThreads PROVE Nested(frames[u], contextStack[u])'
    BY <1>8, <1>10 DEF NativeInv
  <1>14. ASSUME NEW u \in HostThreads, NEW f \in Enclaves PROVE Attachment(u, f)'
    <2>1. /\ threads_[f][u] = Cardinality(CallsInto(contextStack[u], f))
          /\ u \in attached[f] <=> CallsInto(contextStack[u], f) # {}
      BY DEF NativeInv, Attachment
    <2>2. CASE u # t
      BY <1>10, <1>11, <2>1, <2>2 DEF Attachment
    <2>3. CASE u = t /\ f # e
      <3>1. CallsInto(c, f) = CallsInto(contextStack[u], f)
        BY <1>2, <1>4, <2>3, CallsIntoPushed
      <3> QED BY <1>10, <1>11, <2>1, <2>3, <3>1 DEF Attachment
    <2>4. CASE u = t /\ f = e
      <3>1. CallsInto(c, f) # {} /\ Cardinality(CallsInto(c, f)) = Cardinality(CallsInto(contextStack[u], f)) + 1
        BY <1>2, <1>4, <2>4, CallsIntoPushed
      <3> QED BY <1>10, <1>11, <2>1, <2>4, <3>1 DEF Attachment
    <2> QED BY <2>2, <2>3, <2>4
  <1> QED BY <1>12, <1>13, <1>14 DEF NativeInv

\* The end of an ecall.
LEMMA EcallOutOfContext ==
    ASSUME NativeInv, NEW t \in HostThreads, ECallReturns(t)
    PROVE  NativeInv'
  <1>1. NativeTypes /\ Nested(frames[t], contextStack[t])
    BY DEF NativeInv
  <1>2. /\ frames \in [HostThreads -> Seq([kind : {"ecall", "ocall"}, enclave : Enclaves])]
        /\ contextStack \in [HostThreads -> Seq(Enclaves)] /\ contextStack[t] \in Seq(Enclaves)
        /\ threads_ \in [Enclaves -> [HostThreads -> Int]] /\ attached \in [Enclaves -> SUBSET HostThreads]
    BY <1>1 DEF NativeTypes
  <1>3. PICK s : s = Pop(frames[t])
    OBVIOUS
  <1>4. PICK c : c = Pop(contextStack[t])
    OBVIOUS
  <1>5. PICK e : e = TopFrame(t).enclave
    OBVIOUS
  <1>6. /\ frames' = [frames EXCEPT ![t] = s] /\ contextStack' = [contextStack EXCEPT ![t] = c]
        /\ threads_' = [threads_ EXCEPT ![e][t] = threads_[e][t] - 1]
        /\ attached' = [attached EXCEPT ![e] = IF threads_[e][t] = 1 THEN attached[e] \ {t} ELSE attached[e]]
    BY <1>3, <1>4, <1>5 DEF ECallReturns, notify_detach
  <1>7. frames[t] # <<>> /\ frames[t][Len(frames[t])].kind = "ecall"
    BY DEF ECallReturns, Inside
  <1>8. /\ Len(frames[t]) = 2 * Len(contextStack[t]) - 1 /\ Len(contextStack[t]) > 0
        /\ frames[t][Len(frames[t])] = Ecall(contextStack[t][Len(contextStack[t])])
    BY <1>1, <1>7, InnermostCall
  <1>9. e = contextStack[t][Len(contextStack[t])] /\ e \in Enclaves
    <2>1. e = contextStack[t][Len(contextStack[t])]
      BY <1>5, <1>8 DEF TopFrame, Ecall
    <2>2. Len(contextStack[t]) \in 1 .. Len(contextStack[t])
      BY <1>2, <1>8
    <2> QED BY <1>2, <2>1, <2>2
  <1>10. Nested(s, c)
    BY <1>1, <1>3, <1>4, <1>8, EcallPopped
  <1>11. s \in Seq([kind : {"ecall", "ocall"}, enclave : Enclaves]) /\ c \in Seq(Enclaves)
    BY <1>10 DEF Nested
  <1>12. /\ frames'[t] = s /\ contextStack'[t] = c
         /\ \A u \in HostThreads \ {t} : frames'[u] = frames[u] /\ contextStack'[u] = contextStack[u]
    BY <1>2, <1>6
  <1>13. /\ threads_'[e][t] = threads_[e][t] - 1
         /\ t \in attached'[e] <=> t \in attached[e] /\ threads_[e][t] # 1
         /\ \A u \in HostThreads \ {t} : u \in attached'[e] <=> u \in attached[e]
         /\ \A f \in Enclaves, u \in HostThreads : f # e \/ u # t => threads_'[f][u] = threads_[f][u]
         /\ \A f \in Enclaves \ {e} : attached'[f] = attached[f]
    BY <1>2, <1>6, <1>9
  <1>14. NativeTypes'
    <2>1. frames' \in [HostThreads -> Seq([kind : {"ecall", "ocall"}, enclave : Enclaves])]
      BY <1>2, <1>6, <1>11
    <2>2. contextStack' \in [HostThreads -> Seq(Enclaves)]
      BY <1>2, <1>6, <1>11
    <2>3. attached' \in [Enclaves -> SUBSET HostThreads]
      BY <1>2, <1>6, <1>9
    <2>4. threads_' \in [Enclaves -> [HostThreads -> Int]]
      BY <1>2, <1>6, <1>9
    <2> QED BY <2>1, <2>2, <2>3, <2>4 DEF NativeTypes
  <1>15. ASSUME NEW u \in HostThreads PROVE Nested(frames[u], contextStack[u])'
    BY <1>10, <1>12 DEF NativeInv
  <1>16. ASSUME NEW u \in HostThreads, NEW f \in Enclaves PROVE Attachment(u, f)'
    <2>1. /\ threads_[f][u] = Cardinality(CallsInto(contextStack[u], f))
          /\ u \in attached[f] <=> CallsInto(contextStack[u], f) # {}
      BY DEF NativeInv, Attachment
    <2>2. CASE u # t
      BY <1>12, <1>13, <2>1, <2>2 DEF Attachment
    <2>3. CASE u = t /\ f # e
      <3>1. CallsInto(c, f) = CallsInto(contextStack[u], f)
        BY <1>2, <1>4, <1>8, <1>9, <2>3, CallsIntoPopped
      <3> QED BY <1>12, <1>13, <2>1, <2>3, <3>1 DEF Attachment
    <2>4. CASE u = t /\ f = e
      <3>1. /\ CallsInto(contextStack[u], f) # {}
            /\ Cardinality(CallsInto(c, f)) = Cardinality(CallsInto(contextStack[u], f)) - 1
            /\ CallsInto(c, f) # {} <=> Cardinality(CallsInto(contextStack[u], f)) # 1
        BY <1>2, <1>4, <1>8, <1>9, <2>4, CallsIntoPopped
      <3> QED BY <1>12, <1>13, <2>1, <2>4, <3>1 DEF Attachment
    <2> QED BY <2>2, <2>3, <2>4
  <1> QED BY <1>14, <1>15, <1>16 DEF NativeInv

\* An ocall, and its return: the contexts and the attachments stay.
LEMMA OcallInContext ==
    ASSUME NativeInv, NEW t \in HostThreads, jvm_ocall(t) \/ OCallReturns(t)
    PROVE  NativeInv'
  <1>1. NativeTypes /\ Nested(frames[t], contextStack[t])
    BY DEF NativeInv
  <1>2. PICK s : frames' = [frames EXCEPT ![t] = s] /\ Nested(s, contextStack[t])
    <2>1. CASE jvm_ocall(t)
      <3>1. PICK e : e = contextStack[t][Len(contextStack[t])]
        OBVIOUS
      <3>2. /\ frames' = [frames EXCEPT ![t] = Append(frames[t], Ocall(e))]
            /\ frames[t] # <<>> /\ frames[t][Len(frames[t])].kind = "ecall"
        BY <2>1, <3>1 DEF jvm_ocall, Inside, Ocall
      <3>3. Len(frames[t]) = 2 * Len(contextStack[t]) - 1 /\ Len(contextStack[t]) > 0
        BY <1>1, <3>2, InnermostCall
      <3>4. Nested(Append(frames[t], Ocall(e)), contextStack[t])
        BY <1>1, <3>1, <3>3, OcallPushed
      <3> QED BY <3>2, <3>4
    <2>2. CASE OCallReturns(t)
      <3>1. /\ frames' = [frames EXCEPT ![t] = Pop(frames[t])]
            /\ frames[t] # <<>> /\ frames[t][Len(frames[t])].kind # "ecall"
        BY <2>2 DEF OCallReturns, InHost, Inside
      <3>2. Len(frames[t]) = 2 * Len(contextStack[t])
        BY <1>1, <3>1, InnermostCall
      <3>3. Nested(Pop(frames[t]), contextStack[t])
        BY <1>1, <3>1, <3>2, OcallPopped
      <3> QED BY <3>1, <3>3
    <2> QED BY <2>1, <2>2
  <1>3. UNCHANGED <<contextStack, threads_, attached>>
    BY DEF jvm_ocall, OCallReturns
  <1>4. /\ frames \in [HostThreads -> Seq([kind : {"ecall", "ocall"}, enclave : Enclaves])]
        /\ s \in Seq([kind : {"ecall", "ocall"}, enclave : Enclaves])
    BY <1>1, <1>2 DEF NativeTypes, Nested
  <1>5. frames'[t] = s /\ \A u \in HostThreads \ {t} : frames'[u] = frames[u]
    BY <1>2, <1>4
  <1>6. NativeTypes'
    <2>1. frames' \in [HostThreads -> Seq([kind : {"ecall", "ocall"}, enclave : Enclaves])]
      BY <1>2, <1>4
    <2> QED BY <1>1, <1>3, <2>1 DEF NativeTypes
  <1>7. ASSUME NEW u \in HostThreads PROVE Nested(frames[u], contextStack[u])'
    BY <1>2, <1>3, <1>5 DEF NativeInv
  <1>8. ASSUME NEW u \in HostThreads, NEW f \in Enclaves PROVE Attachment(u, f)'
    BY <1>3 DEF NativeInv, Attachment
  <1> QED BY <1>6, <1>7, <1>8 DEF NativeInv

\* An enclave is destroyed: no thread is attached to it, nor counted.
LEMMA DestroyedUnused ==
    ASSUME NativeInv, NEW t \in HostThreads, NEW e \in Enclaves, destroyEnclave(t, e)
    PROVE  NativeInv'
  <1>1. NativeTypes
    BY DEF NativeInv
  <1>2. /\ attached' = [attached EXCEPT ![e] = {}] /\ UNCHANGED <<frames, contextStack, threads_>>
        /\ \A u \in HostThreads : \A i \in DOMAIN frames[u] : frames[u][i].enclave # e
    BY DEF destroyEnclave
  <1>3. attached'[e] = {} /\ \A f \in Enclaves \ {e} : attached'[f] = attached[f]
    BY <1>1, <1>2 DEF NativeTypes
  <1>4. NativeTypes'
    BY <1>1, <1>2 DEF NativeTypes
  <1>5. ASSUME NEW u \in HostThreads PROVE CallsInto(contextStack[u], e) = {}
    <2> SUFFICES ASSUME NEW j \in 1 .. Len(contextStack[u]), contextStack[u][j] = e PROVE FALSE
      BY DEF CallsInto
    <2>1. Nested(frames[u], contextStack[u])
      BY DEF NativeInv
    <2>2. PICK n \in Nat : n = Len(contextStack[u])
      BY <2>1 DEF Nested
    <2>3. PICK m \in Nat : m = Len(frames[u])
      BY <2>1 DEF Nested
    <2>4. DOMAIN frames[u] = 1 .. m /\ (m = 2 * n \/ m = 2 * n - 1)
      BY <2>1, <2>2, <2>3 DEF Nested
    <2>5. 2 * j - 1 \in 1 .. m
      BY <2>2, <2>3, <2>4
    <2>6. frames[u][2 * j - 1] = Ecall(e)
      BY <2>1 DEF Nested
    <2> QED BY <1>2, <2>4, <2>5, <2>6 DEF Ecall
  <1>6. ASSUME NEW u \in HostThreads, NEW f \in Enclaves PROVE Attachment(u, f)'
    <2>1. /\ threads_[f][u] = Cardinality(CallsInto(contextStack[u], f))
          /\ u \in attached[f] <=> CallsInto(contextStack[u], f) # {}
      BY DEF NativeInv, Attachment
    <2>2. CASE f # e
      BY <1>2, <1>3, <2>1, <2>2 DEF Attachment
    <2>3. CASE f = e
      BY <1>2, <1>3, <1>5, <2>1, <2>3 DEF Attachment
    <2> QED BY <2>2, <2>3
  <1>7. \A u \in HostThreads : Nested(frames[u], contextStack[u])'
    BY <1>2 DEF NativeInv
  <1> QED BY <1>4, <1>6, <1>7 DEF NativeInv

\* The fields of frames.
LEMMA FrameFields ==
    ASSUME NEW e
    PROVE  Ecall(e).kind = "ecall" /\ Ecall(e).enclave = e /\ Ocall(e).kind = "ocall" /\ Ocall(e).enclave = e
  BY DEF Ecall, Ocall

\* What CallsInContext says of the frames s and the contexts c of one thread.
InContext(s, c) ==
    /\ \A i \in DOMAIN s : s[i].kind = "ocall" => s[i].enclave = s[i - 1].enclave
    /\ \A i \in DOMAIN s : s[i].kind = "ecall" <=> i % 2 = 1
    /\ c = [i \in 1 .. (Len(s) + 1) \div 2 |-> s[2 * i - 1].enclave]
    /\ \A e \in Enclaves : CallsInto(c, e) # {} <=> \E i \in DOMAIN s : s[i].enclave = e

\* The invariant implies it.
LEMMA NestedInContext ==
    ASSUME NEW s, NEW c, Nested(s, c)
    PROVE  InContext(s, c)
  <1>1. PICK n \in Nat : n = Len(c)
    BY DEF Nested
  <1>2. PICK m \in Nat : m = Len(s)
    BY DEF Nested
  <1>3. m = 2 * n \/ m = 2 * n - 1
    BY <1>1, <1>2 DEF Nested
  <1>4. DOMAIN s = 1 .. m /\ c \in Seq(Enclaves)
    BY <1>2 DEF Nested
  <1>5. ASSUME NEW i \in 1 .. m
        PROVE  \E j \in 1 .. n : \/ i = 2 * j - 1 /\ i % 2 = 1 /\ s[i] = Ecall(c[j])
                                 \/ /\ i = 2 * j /\ i % 2 = 0 /\ i - 1 = 2 * j - 1
                                    /\ s[i] = Ocall(c[j]) /\ s[i - 1] = Ecall(c[j])
    <2>1. CASE i % 2 = 1
      <3>1. PICK j \in 1 .. n : i = 2 * j - 1
        <4>1. (i + 1) \div 2 \in 1 .. n /\ i = 2 * ((i + 1) \div 2) - 1
          BY <1>1, <1>2, <1>3, <2>1
        <4> QED BY <4>1
      <3>2. s[i] = Ecall(c[j])
        BY <1>1, <3>1 DEF Nested
      <3> QED BY <2>1, <3>1, <3>2
    <2>2. CASE i % 2 = 0
      <3>1. PICK j \in 1 .. n : i = 2 * j
        <4>1. i \div 2 \in 1 .. n /\ i = 2 * (i \div 2)
          BY <1>1, <1>2, <1>3, <2>2
        <4> QED BY <4>1
      <3>2. 2 * j <= Len(s) /\ i - 1 = 2 * j - 1
        BY <1>2, <3>1
      <3>3. s[i] = Ocall(c[j]) /\ s[i - 1] = Ecall(c[j])
        BY <1>1, <3>1, <3>2 DEF Nested
      <3> QED BY <2>2, <3>1, <3>2, <3>3
    <2>3. i % 2 \in {0, 1}
      BY <1>2
    <2> QED BY <2>1, <2>2, <2>3
  <1>6. ASSUME NEW i \in 1 .. m
        PROVE  /\ s[i].kind = "ocall" => s[i].enclave = s[i - 1].enclave
               /\ s[i].kind = "ecall" <=> i % 2 = 1
    <2>1. PICK j \in 1 .. n : \/ i % 2 = 1 /\ s[i] = Ecall(c[j])
                              \/ i % 2 = 0 /\ s[i] = Ocall(c[j]) /\ s[i - 1] = Ecall(c[j])
      BY <1>5
    <2> QED BY <2>1, FrameFields
  <1>7. c = [i \in 1 .. (Len(s) + 1) \div 2 |-> s[2 * i - 1].enclave]
    <2>1. (m + 1) \div 2 = n
      BY <1>1, <1>2, <1>3
    <2>2. \A i \in 1 .. n : s[2 * i - 1].enclave = c[i]
      BY <1>1, FrameFields DEF Nested
    <2>3. c = [i \in 1 .. n |-> c[i]]
      BY <1>1, <1>4
    <2> QED BY <1>2, <2>1, <2>2, <2>3
  <1>8. ASSUME NEW e \in Enclaves PROVE CallsInto(c, e) # {} <=> \E i \in 1 .. m : s[i].enclave = e
    <2>1. ASSUME NEW j \in 1 .. n, c[j] = e PROVE \E i \in 1 .. m : s[i].enclave = e
      <3>1. 2 * j - 1 \in 1 .. m
        BY <1>1, <1>2, <1>3
      <3>2. s[2 * j - 1].enclave = e
        BY <1>1, <2>1, FrameFields DEF Nested
      <3> QED BY <3>1, <3>2
    <2>2. ASSUME NEW i \in 1 .. m, s[i].enclave = e PROVE \E j \in 1 .. n : c[j] = e
      <3>1. PICK j \in 1 .. n : s[i] = Ecall(c[j]) \/ s[i] = Ocall(c[j])
        BY <1>5
      <3> QED BY <2>2, <3>1, FrameFields
    <2> QED BY <1>1, <2>1, <2>2 DEF CallsInto
  <1> QED BY <1>4, <1>6, <1>7, <1>8 DEF InContext

\* However the calls of the host's threads nest through the enclaves, every ocall is made in
\* the name of the enclave it comes from, the contexts are those of the ecalls inside, and a
\* thread is attached to an isolate exactly as long as one of its calls is inside; for any
\* number of threads and enclaves and any depth.
THEOREM CallsStayInContext == NativeSpec => []CallsInContext
  <1>1. NativeInit => NativeInv
    <2> SUFFICES ASSUME NativeInit PROVE NativeInv
      OBVIOUS
    <2>1. NativeTypes
      BY DEF NativeInit, NativeTypes
    <2>2. \A t \in HostThreads : frames[t] = <<>> /\ contextStack[t] = <<>>
      BY DEF NativeInit
    <2>3. Nested(<<>>, <<>>)
      BY DEF Nested
    <2>4. ASSUME NEW t \in HostThreads, NEW e \in Enclaves PROVE Attachment(t, e)
      <3>1. threads_[e][t] = 0 /\ t \notin attached[e]
        BY DEF NativeInit
      <3>2. CallsInto(<<>>, e) = {}
        BY DEF CallsInto
      <3> QED BY <2>2, <3>1, <3>2, FS_EmptySet DEF Attachment
    <2> QED BY <2>1, <2>2, <2>3, <2>4 DEF NativeInv
  <1>2. NativeInv /\ [NativeNext]_nativeVars => NativeInv'
    <2> SUFFICES ASSUME NativeInv, [NativeNext]_nativeVars PROVE NativeInv'
      OBVIOUS
    <2>1. ASSUME UNCHANGED <<frames, contextStack, threads_, attached>> PROVE NativeInv'
      BY <2>1 DEF NativeInv, NativeTypes, Attachment
    <2>2. ASSUME NEW t \in HostThreads, NEW e \in Enclaves, createEnclave(t, e) PROVE NativeInv'
      BY <2>1, <2>2 DEF createEnclave
    <2>3. ASSUME NEW t \in HostThreads, HostThrows(t) \/ HostCatches(t) PROVE NativeInv'
      BY <2>1, <2>3 DEF HostThrows, HostCatches
    <2>4. CASE UNCHANGED nativeVars
      BY <2>1, <2>4 DEF nativeVars
    <2> QED BY <2>2, <2>3, <2>4, EcallInContext, EcallOutOfContext, OcallInContext, DestroyedUnused DEF NativeNext
  <1>3. NativeInv => CallsInContext
    <2> SUFFICES ASSUME NativeInv, NEW t \in HostThreads
                 PROVE  /\ \A i \in DOMAIN frames[t] : frames[t][i].kind = "ocall" =>
                              frames[t][i].enclave = frames[t][i - 1].enclave
                        /\ \A i \in DOMAIN frames[t] : frames[t][i].kind = "ecall" <=> i % 2 = 1
                        /\ contextStack[t] =
                              [i \in 1 .. (Len(frames[t]) + 1) \div 2 |-> frames[t][2 * i - 1].enclave]
                        /\ \A e \in Enclaves :
                              t \in attached[e] <=> \E i \in DOMAIN frames[t] : frames[t][i].enclave = e
      BY DEF CallsInContext
    <2>1. Nested(frames[t], contextStack[t]) /\ \A e \in Enclaves : Attachment(t, e)
      BY DEF NativeInv
    <2>2. PICK s : s = frames[t]
      OBVIOUS
    <2>3. PICK c : c = contextStack[t]
      OBVIOUS
    <2>4. InContext(s, c)
      BY <2>1, <2>2, <2>3, NestedInContext
    <2>5. ASSUME NEW e \in Enclaves
          PROVE  t \in attached[e] <=> \E i \in DOMAIN s : s[i].enclave = e
      <3>1. t \in attached[e] <=> CallsInto(c, e) # {}
        BY <2>1, <2>3 DEF Attachment
      <3>2. CallsInto(c, e) # {} <=> \E i \in DOMAIN s : s[i].enclave = e
        BY <2>4 DEF InContext
      <3> QED BY <3>1, <3>2
    <2> QED BY <2>2, <2>3, <2>4, <2>5 DEF InContext
  <1> QED BY <1>1, <1>2, <1>3, PTL DEF NativeSpec

-----------------------------------------------------------------------------
(***************************************************************************)
(* Time.  The last time that an enclave handed out is at most the latest   *)
(* time T of the clock and one more for each call that has returned.       *)
(***************************************************************************)
Calls == TimeReaders \X (1 .. TimeReads)

\* The calls that have returned: each thread counts its calls down.
Returned(e) ==
    {p \in Calls : p[2] > reader[<<e, p[1]>>].left + IF reader[<<e, p[1]>>].at = "read" THEN 1 ELSE 0}

TimeTypes(T) ==
    /\ enclave \in [TimeEnclaves -> {"new", "live", "destroyed"}]
    /\ \A e \in TimeEnclaves : enclave[e] = "live" => e \in Live
    /\ \A e \in Live : shared_data_[e] \in 0 .. T
    /\ reader \in [Readers -> [at : {"idle", "read"}, sd : 0 .. T, left : 0 .. TimeReads]]
    /\ \A r \in Readers : reader[r].at = "read" => reader[r].left < TimeReads
    /\ last_time_ \in [TimeEnclaves -> Nat]

TimeInv(T) == TimeTypes(T) /\ \A e \in TimeEnclaves : last_time_[e] <= T + Cardinality(Returned(e))

\* The step of TimesIncrease.
TimeGrows ==
    \A e \in TimeEnclaves :
        /\ last_time_'[e] >= last_time_[e]
        /\ \A t \in TimeReaders :
              reader[<<e, t>>].at = "read" /\ reader'[<<e, t>>].at = "idle" => last_time_'[e] > last_time_[e]

\* No overflow.
LEMMA NoWrap ==
    ASSUME NEW a \in Nat, NEW b \in Nat, a < b
    PROVE  a % b = a
  OBVIOUS

\* The calls that have returned are finitely many.
LEMMA ReturnedFinite ==
    ASSUME IsFiniteSet(TimeReaders), NEW e \in TimeEnclaves
    PROVE  /\ IsFiniteSet(Returned(e)) /\ Cardinality(Returned(e)) \in Nat
           /\ Cardinality(Returned(e)) <= Cardinality(Calls) /\ Cardinality(Calls) \in Nat
           /\ \A p \in Calls \ Returned(e) :
                 /\ Cardinality(Returned(e) \cup {p}) = Cardinality(Returned(e)) + 1
                 /\ Cardinality(Returned(e) \cup {p}) <= Cardinality(Calls)
  <1>1. IsFiniteSet(Calls)
    <2>1. IsFiniteSet(1 .. TimeReads)
      BY FS_Interval, TimeAssumption
    <2> QED BY <2>1, FS_Product DEF Calls
  <1>2. Returned(e) \in SUBSET Calls
    BY DEF Returned
  <1>3. IsFiniteSet(Returned(e)) /\ Cardinality(Returned(e)) <= Cardinality(Calls)
    BY <1>1, <1>2, FS_Subset
  <1>4. Cardinality(Returned(e)) \in Nat /\ Cardinality(Calls) \in Nat
    BY <1>1, <1>3, FS_CardinalityType
  <1>5. ASSUME NEW p \in Calls \ Returned(e)
        PROVE  /\ Cardinality(Returned(e) \cup {p}) = Cardinality(Returned(e)) + 1
               /\ Cardinality(Returned(e) \cup {p}) <= Cardinality(Calls)
    <2>1. Cardinality(Returned(e) \cup {p}) = Cardinality(Returned(e)) + 1
      BY <1>3, FS_AddElement
    <2>2. Returned(e) \cup {p} \in SUBSET Calls
      BY <1>2
    <2> QED BY <1>1, <2>1, <2>2, FS_Subset
  <1> QED BY <1>3, <1>4, <1>5

\* Steps that leave the readers alone.
LEMMA ReadersKept ==
    ASSUME NEW T \in Nat, TimeInv(T), UNCHANGED <<reader, last_time_>>,
           enclave' \in [TimeEnclaves -> {"new", "live", "destroyed"}],
           \A e \in TimeEnclaves : enclave'[e] = "live" => e \in Live',
           \A e \in Live' : shared_data_'[e] \in 0 .. T
    PROVE  TimeInv(T)' /\ TimeGrows
  <1>1. \A e \in TimeEnclaves : Returned(e)' = Returned(e)
    BY DEF Returned
  <1>2. TimeTypes(T)'
    BY DEF TimeInv, TimeTypes
  <1>3. \A e \in TimeEnclaves : last_time_[e] \in Nat
    BY DEF TimeInv, TimeTypes
  <1>4. TimeGrows
    BY <1>3 DEF TimeGrows
  <1> QED BY <1>1, <1>2, <1>4 DEF TimeInv

\* A thread reads the block.
LEMMA BlockRead ==
    ASSUME NEW T \in Nat, TimeInv(T), NEW e \in TimeEnclaves, NEW t \in TimeReaders, getSharedData(e, t)
    PROVE  TimeInv(T)' /\ TimeGrows
  <1>1. TimeTypes(T)
    BY DEF TimeInv
  <1>2. reader \in [Readers -> [at : {"idle", "read"}, sd : 0 .. T, left : 0 .. TimeReads]] /\ <<e, t>> \in Readers
    BY <1>1 DEF TimeTypes, Readers
  <1>3. PICK n : n = reader[<<e, t>>].left
    OBVIOUS
  <1>4. /\ reader[<<e, t>>].at = "idle" /\ n > 0 /\ enclave[e] = "live" /\ n \in 0 .. TimeReads
        /\ reader' = [reader EXCEPT ![<<e, t>>] = [at |-> "read", sd |-> shared_data_[e], left |-> n - 1]]
        /\ UNCHANGED <<enclave, shared_data_, last_time_>>
    BY <1>2, <1>3 DEF getSharedData
  <1>5. shared_data_[e] \in 0 .. T /\ n - 1 \in 0 .. TimeReads /\ n - 1 < TimeReads
    BY <1>1, <1>4, TimeAssumption DEF TimeTypes
  <1>6. /\ reader' \in [Readers -> [at : {"idle", "read"}, sd : 0 .. T, left : 0 .. TimeReads]]
        /\ reader'[<<e, t>>].at = "read" /\ reader'[<<e, t>>].left = n - 1
        /\ \A r \in Readers : r # <<e, t>> => reader'[r] = reader[r]
    BY <1>2, <1>4, <1>5
  <1>7. TimeTypes(T)'
    BY <1>1, <1>4, <1>5, <1>6 DEF TimeTypes, Live
  <1>8. ASSUME NEW d \in TimeEnclaves PROVE Returned(d)' = Returned(d)
    <2> SUFFICES ASSUME NEW p \in Calls
                 PROVE  p[2] > reader'[<<d, p[1]>>].left + (IF reader'[<<d, p[1]>>].at = "read" THEN 1 ELSE 0)
                        <=> p[2] > reader[<<d, p[1]>>].left + IF reader[<<d, p[1]>>].at = "read" THEN 1 ELSE 0
      BY DEF Returned
    <2>1. p[1] \in TimeReaders /\ p[2] \in Nat /\ <<d, p[1]>> \in Readers
      BY DEF Calls, Readers
    <2>2. CASE <<d, p[1]>> = <<e, t>>
      BY <1>3, <1>4, <1>6, <2>1, <2>2
    <2>3. CASE <<d, p[1]>> # <<e, t>>
      BY <1>6, <2>1, <2>3
    <2> QED BY <2>2, <2>3
  <1>9. \A d \in TimeEnclaves : last_time_[d] \in Nat
    BY <1>1 DEF TimeTypes
  <1>10. TimeGrows
    BY <1>2, <1>4, <1>6, <1>9 DEF TimeGrows, Readers
  <1> QED BY <1>4, <1>7, <1>8, <1>10 DEF TimeInv

\* A thread hands out a time.
LEMMA TimeHandedOut ==
    ASSUME NEW T \in Nat, IsFiniteSet(TimeReaders), T + Cardinality(Calls) < TimeRange, TimeInv(T),
           NEW e \in TimeEnclaves, NEW t \in TimeReaders, real_time(e, t)
    PROVE  TimeInv(T)' /\ TimeGrows
  <1>1. TimeTypes(T)
    BY DEF TimeInv
  <1>2. reader \in [Readers -> [at : {"idle", "read"}, sd : 0 .. T, left : 0 .. TimeReads]] /\ <<e, t>> \in Readers
    BY <1>1 DEF TimeTypes, Readers
  <1>3. PICK n : n = reader[<<e, t>>].left
    OBVIOUS
  <1>4. PICK sd : sd = reader[<<e, t>>].sd
    OBVIOUS
  <1>5. /\ reader[<<e, t>>].at = "read"
        /\ last_time_' = [last_time_ EXCEPT ![e] = IF sd > last_time_[e] THEN sd ELSE (last_time_[e] + 1) % TimeRange]
        /\ reader' = [reader EXCEPT ![<<e, t>>].at = "idle", ![<<e, t>>].sd = 0]
        /\ UNCHANGED <<enclave, shared_data_>>
    BY <1>4 DEF real_time
  <1>6. n \in 0 .. TimeReads /\ n < TimeReads /\ sd \in 0 .. T
    BY <1>1, <1>2, <1>3, <1>4, <1>5 DEF TimeTypes
  <1>7. /\ reader' \in [Readers -> [at : {"idle", "read"}, sd : 0 .. T, left : 0 .. TimeReads]]
        /\ reader'[<<e, t>>].at = "idle" /\ reader'[<<e, t>>].left = n
        /\ \A r \in Readers : r # <<e, t>> => reader'[r] = reader[r]
    BY <1>2, <1>3, <1>5
  <1>8. PICK p : p = <<t, n + 1>>
    OBVIOUS
  <1>9. p \in Calls /\ p \notin Returned(e)
    <2>1. p[1] = t /\ p[2] = n + 1
      BY <1>8
    <2>2. n + 1 \in 1 .. TimeReads
      BY <1>6, TimeAssumption
    <2>3. p \in Calls
      BY <1>8, <2>2 DEF Calls
    <2>4. p \in Returned(e) <=> n + 1 > n + 1
      BY <1>3, <1>5, <2>1, <2>3 DEF Returned
    <2> QED BY <1>6, <2>3, <2>4
  <1>10. ASSUME NEW d \in TimeEnclaves, d # e PROVE Returned(d)' = Returned(d)
    <2> SUFFICES ASSUME NEW q \in Calls PROVE reader'[<<d, q[1]>>] = reader[<<d, q[1]>>]
      BY DEF Returned
    <2> QED BY <1>7, <1>10 DEF Calls, Readers
  <1>11. Returned(e)' = Returned(e) \cup {p}
    <2> SUFFICES ASSUME NEW q \in Calls PROVE q \in Returned(e)' <=> q \in Returned(e) \/ q = p
      BY <1>9 DEF Returned
    <2>1. q[1] \in TimeReaders /\ q[2] \in Nat /\ <<e, q[1]>> \in Readers /\ q = <<q[1], q[2]>>
      BY DEF Calls, Readers
    <2>2. CASE q[1] = t
      <3>1. q \in Returned(e)' <=> q[2] > n
        <4>1. q \in Returned(e)' <=> q[2] > n + 0
          BY <1>7, <2>2 DEF Returned
        <4> QED BY <1>6, <4>1
      <3>2. q \in Returned(e) <=> q[2] > n + 1
        BY <1>3, <1>5, <2>2 DEF Returned
      <3>3. q = p <=> q[2] = n + 1
        BY <1>8, <2>1, <2>2
      <3> QED BY <1>6, <2>1, <3>1, <3>2, <3>3
    <2>3. CASE q[1] # t
      <3>1. reader'[<<e, q[1]>>] = reader[<<e, q[1]>>] /\ q # p
        BY <1>7, <1>8, <2>1, <2>3
      <3> QED BY <3>1 DEF Returned
    <2> QED BY <2>2, <2>3
  <1>12. PICK k \in Nat : k = Cardinality(Returned(e))
    BY ReturnedFinite
  <1>13. Cardinality(Returned(e)') = k + 1 /\ k + 1 <= Cardinality(Calls) /\ Cardinality(Calls) \in Nat
    BY <1>9, <1>11, <1>12, ReturnedFinite
  <1>14. last_time_ \in [TimeEnclaves -> Nat] /\ last_time_[e] <= T + k
    BY <1>1, <1>12 DEF TimeTypes, TimeInv
  <1>15. last_time_[e] + 1 < TimeRange /\ (last_time_[e] + 1) % TimeRange = last_time_[e] + 1
    <2>1. last_time_[e] + 1 \in Nat /\ TimeRange \in Nat
      BY <1>14, TimeAssumption
    <2>2. last_time_[e] + 1 < TimeRange
      BY <1>13, <1>14, <2>1
    <2> QED BY <2>1, <2>2, NoWrap
  <1>16. /\ last_time_'[e] \in Nat /\ last_time_'[e] > last_time_[e] /\ last_time_'[e] <= T + (k + 1)
         /\ \A d \in TimeEnclaves \ {e} : last_time_'[d] = last_time_[d]
    <2>1. last_time_'[e] = IF sd > last_time_[e] THEN sd ELSE last_time_[e] + 1
      BY <1>5, <1>14, <1>15
    <2>2. last_time_[e] \in Nat
      BY <1>14
    <2> QED BY <1>5, <1>6, <1>14, <2>1, <2>2
  <1>17. last_time_' \in [TimeEnclaves -> Nat]
    <2>1. PICK x : last_time_' = [last_time_ EXCEPT ![e] = x]
      BY <1>5
    <2>2. x \in Nat
      BY <1>14, <1>16, <2>1
    <2> QED BY <1>14, <2>1, <2>2
  <1>18. TimeTypes(T)'
    BY <1>1, <1>5, <1>7, <1>17 DEF TimeTypes, Live
  <1>19. ASSUME NEW d \in TimeEnclaves PROVE last_time_'[d] <= T + Cardinality(Returned(d)')
    BY <1>10, <1>13, <1>16 DEF TimeInv
  <1>20. TimeGrows
    <2>1. ASSUME NEW d \in TimeEnclaves PROVE last_time_'[d] >= last_time_[d]
      BY <1>14, <1>16, <1>17
    <2>2. ASSUME NEW d \in TimeEnclaves, NEW u \in TimeReaders, reader[<<d, u>>].at = "read",
                 reader'[<<d, u>>].at = "idle"
          PROVE  last_time_'[d] > last_time_[d]
      <3>1. <<d, u>> = <<e, t>>
        BY <1>7, <2>2 DEF Readers
      <3> QED BY <1>16, <3>1
    <2> QED BY <2>1, <2>2 DEF TimeGrows
  <1> QED BY <1>18, <1>19, <1>20 DEF TimeInv

\* The times that an enclave hands out grow with every call, whichever thread makes it and
\* whatever the host's clock says, until the 64 bits are used up: the last time of the clock
\* and one more for every call have to fit.
THEOREM TimesAlwaysIncrease ==
    ASSUME NEW T \in Nat, ClockTimes \subseteq 0 .. T, IsFiniteSet(TimeReaders), T + Cardinality(Calls) < TimeRange
    PROVE  TimeSpec => TimesIncrease
  <1>1. TimeInit => TimeInv(T)
    <2> SUFFICES ASSUME TimeInit PROVE TimeInv(T)
      OBVIOUS
    <2>1. shared_data_ = <<>> /\ Live = {}
      BY DEF TimeInit, Live
    <2>2. reader = [r \in Readers |-> ReaderIdle] /\ last_time_ = [e \in TimeEnclaves |-> 0]
          /\ enclave = [e \in TimeEnclaves |-> "new"]
      BY DEF TimeInit
    <2>3. ReaderIdle \in [at : {"idle", "read"}, sd : 0 .. T, left : 0 .. TimeReads] /\ ReaderIdle.at = "idle"
      BY TimeAssumption DEF ReaderIdle
    <2>4. TimeTypes(T)
      BY <2>1, <2>2, <2>3 DEF TimeTypes
    <2>5. ASSUME NEW e \in TimeEnclaves PROVE last_time_[e] <= T + Cardinality(Returned(e))
      <3>1. last_time_[e] = 0 /\ Cardinality(Returned(e)) \in Nat
        BY <2>2, ReturnedFinite
      <3> QED BY <3>1
    <2> QED BY <2>4, <2>5 DEF TimeInv
  <1>2. TimeInv(T) /\ [TimeNext]_timeVars => TimeInv(T)' /\ [TimeGrows]_timeVars
    <2> SUFFICES ASSUME TimeInv(T), [TimeNext]_timeVars PROVE TimeInv(T)' /\ TimeGrows
      OBVIOUS
    <2>0. /\ enclave \in [TimeEnclaves -> {"new", "live", "destroyed"}]
          /\ \A e \in TimeEnclaves : enclave[e] = "live" => e \in Live
          /\ \A e \in Live : shared_data_[e] \in 0 .. T
      BY DEF TimeInv, TimeTypes
    <2>1. ASSUME NEW e \in TimeEnclaves, get(e) PROVE TimeInv(T)' /\ TimeGrows
      <3>1. /\ UNCHANGED <<reader, last_time_>>
            /\ shared_data_' = [x \in Live \cup {e} |-> IF x = e THEN 0 ELSE shared_data_[x]]
            /\ enclave' = [enclave EXCEPT ![e] = "live"]
        BY <2>1 DEF get
      <3>2. Live' = Live \cup {e}
        BY <3>1 DEF Live
      <3>3. \A x \in Live' : shared_data_'[x] \in 0 .. T
        BY <2>0, <3>1, <3>2
      <3>4. /\ \A x \in TimeEnclaves : enclave'[x] = "live" => x = e \/ enclave[x] = "live"
            /\ enclave' \in [TimeEnclaves -> {"new", "live", "destroyed"}]
        BY <2>0, <3>1
      <3> QED BY <2>0, <3>1, <3>2, <3>3, <3>4, ReadersKept
    <2>2. ASSUME NEW e \in TimeEnclaves, free(e) PROVE TimeInv(T)' /\ TimeGrows
      <3>1. /\ UNCHANGED <<reader, last_time_>>
            /\ shared_data_' = [x \in Live \ {e} |-> shared_data_[x]]
            /\ enclave[e] = "live" /\ enclave' = [enclave EXCEPT ![e] = "destroyed"]
        BY <2>2 DEF free
      <3>2. Live' = Live \ {e}
        BY <3>1 DEF Live
      <3>3. \A x \in Live' : shared_data_'[x] \in 0 .. T
        BY <2>0, <3>1, <3>2
      <3>4. /\ \A x \in TimeEnclaves : enclave'[x] = "live" => x # e /\ enclave[x] = "live"
            /\ enclave' \in [TimeEnclaves -> {"new", "live", "destroyed"}]
        BY <2>0, <3>1
      <3> QED BY <2>0, <3>1, <3>2, <3>3, <3>4, ReadersKept
    <2>3. ASSUME \/ \E e \in TimeEnclaves : deinit(e) \/ StopUpdater(e) \/ JoinUpdater(e)
                 \/ UpdaterLooks \/ UpdaterTimeout \/ UNCHANGED timeVars
          PROVE  TimeInv(T)' /\ TimeGrows
      <3>1. UNCHANGED <<reader, last_time_, enclave, shared_data_>>
        BY <2>3 DEF deinit, StopUpdater, JoinUpdater, UpdaterLooks, UpdaterTimeout, timeVars
      <3>2. Live' = Live
        BY <3>1 DEF Live
      <3> QED BY <2>0, <3>1, <3>2, ReadersKept
    <2>4. CASE update
      <3>1. PICK now \in ClockTimes : shared_data_' = [e \in Live |-> now]
        BY <2>4 DEF update
      <3>2. UNCHANGED <<reader, last_time_, enclave>> /\ Live' = Live
        BY <2>4, <3>1 DEF update, Live
      <3>3. \A x \in Live' : shared_data_'[x] \in 0 .. T
        BY <3>1, <3>2
      <3> QED BY <2>0, <3>2, <3>3, ReadersKept
    <2> QED BY <2>1, <2>2, <2>3, <2>4, BlockRead, TimeHandedOut DEF TimeNext
  <1>3. [][TimeGrows]_timeVars => TimesIncrease
    BY PTL DEF TimesIncrease, TimeGrows
  <1> QED BY <1>1, <1>2, <1>3, PTL DEF TimeSpec

-----------------------------------------------------------------------------
(***************************************************************************)
(* Memory, for any number of threads, pages and calls and any page size.   *)
(* Addresses and sizes of blocks are multiples of the page size, so that   *)
(* the pages of a block are those from its base to its end; blocks lie     *)
(* apart from each other, so the nearest region at or below an address is  *)
(* the one that the address lies in; and a block that a call has in hand,  *)
(* before its region is entered or after it was removed, belongs to that   *)
(* call alone.                                                             *)
(***************************************************************************)

(* Multiples of the page size.                                             *)

Multiples == {k * page_size : k \in Nat}

\* The assumptions on the constants, in the form in which they are used.
LEMMA PageSize == page_size \in Nat \ {0} /\ MemPages \in Nat /\ MemCalls \in Nat /\ MmapSizes \subseteq Nat \ {0}
  BY MemoryAssumption

\* What a product with a positive number preserves.
LEMMA Scaling ==
    ASSUME NEW n \in Int, NEW m \in Int, NEW p \in Nat \ {0}
    PROVE  /\ n * p \in Int /\ (n * p = m * p <=> n = m) /\ (n * p < m * p <=> n < m)
           /\ n * p + m * p = (n + m) * p /\ n * p - m * p = (n - m) * p
  <1>1. n < m => n * p < m * p
    OBVIOUS
  <1>2. m < n => m * p < n * p
    OBVIOUS
  <1>3. n * p \in Int /\ m * p \in Int
    OBVIOUS
  <1>4. n * p + m * p = (n + m) * p
    OBVIOUS
  <1>5. n * p - m * p = (n - m) * p
    OBVIOUS
  <1>6. n < m \/ n = m \/ m < n
    OBVIOUS
  <1>7. n * p < m * p => n < m
    BY <1>2, <1>3, <1>6
  <1>8. n * p = m * p => n = m
    BY <1>1, <1>2, <1>3, <1>6
  <1> QED BY <1>1, <1>3, <1>4, <1>5, <1>7, <1>8

\* Sums, differences and distances of multiples.
LEMMA MultiplesAdd ==
    ASSUME NEW a \in Multiples, NEW b \in Multiples
    PROVE  /\ a \in Nat /\ a + b \in Multiples /\ page_size \in Multiples
           /\ a < b => a + page_size <= b
           /\ b <= a => \E i \in Nat : a = b + i * page_size
  <1>1. PICK k \in Nat : a = k * page_size
    BY DEF Multiples
  <1>2. PICK j \in Nat : b = j * page_size
    BY DEF Multiples
  <1> USE PageSize
  <1>3. a + b = (k + j) * page_size /\ a + page_size = (k + 1) * page_size /\ a - b = (k - j) * page_size
    BY <1>1, <1>2, Scaling, 1 * page_size = page_size
  <1>4. k + j \in Nat
    OBVIOUS
  <1>5. a + b \in Multiples
    BY <1>3, <1>4 DEF Multiples
  <1>6. page_size \in Multiples
    BY 1 * page_size = page_size DEF Multiples
  <1>7. a \in Nat /\ b \in Nat
    BY <1>1, <1>2
  <1>8. ASSUME a < b PROVE a + page_size <= b
    <2>1. k < j
      BY <1>1, <1>2, <1>8, Scaling
    <2>2. k + 1 = j \/ k + 1 < j
      BY <2>1
    <2>3. (k + 1) * page_size = j * page_size \/ (k + 1) * page_size < j * page_size
      BY <2>2, Scaling
    <2> QED BY <1>2, <1>3, <1>7, <2>3
  <1>9. ASSUME b <= a PROVE \E i \in Nat : a = b + i * page_size
    <2>1. j <= k
      BY <1>1, <1>2, <1>9, Scaling
    <2>2. k - j \in Nat
      BY <2>1
    <2>3. a = b + (k - j) * page_size
      BY <1>3, <1>7, <2>2
    <2> QED BY <2>2, <2>3
  <1> QED BY <1>5, <1>6, <1>7, <1>8, <1>9

\* A multiple divided by the page size.
LEMMA MultipleDivided == ASSUME NEW n \in Nat PROVE (n * page_size) \div page_size = n
  <1>1. ASSUME NEW p \in Nat \ {0} PROVE (n * p) \div p = n
    OBVIOUS
  <1> QED BY <1>1, PageSize

\* The pages of a block are the multiples from its base up to its end.
LEMMA PagesAre ==
    ASSUME NEW b \in Multiples, NEW s \in Multiples, NEW a
    PROVE  a \in Pages(b, s) <=> a \in Multiples /\ b <= a /\ a < b + s
  <1>1. PICK n \in Nat : s = n * page_size
    BY DEF Multiples
  <1>2. Pages(b, s) = {b + i * page_size : i \in 0 .. n - 1}
    BY <1>1, MultipleDivided DEF Pages
  <1>3. b \in Nat /\ s \in Nat
    BY MultiplesAdd
  <1>4. ASSUME NEW i \in 0 .. n - 1 PROVE b + i * page_size \in Multiples /\ b <= b + i * page_size /\ b + i * page_size < b + s
    <2>1. i * page_size \in Multiples /\ i * page_size \in Nat
      BY PageSize DEF Multiples
    <2>2. i * page_size < n * page_size
      BY <1>4, PageSize, Scaling
    <2> DEFINE d == i * page_size
    <2> HIDE DEF d
    <2>3. b + d \in Multiples
      BY <2>1, MultiplesAdd DEF d
    <2>4. d \in Nat /\ d < s
      BY <1>1, <2>1, <2>2 DEF d
    <2>5. b <= b + d /\ b + d < b + s
      BY <1>3, <2>4
    <2> QED BY <2>3, <2>5 DEF d
  <1>5. ASSUME a \in Multiples, b <= a, a < b + s PROVE a \in Pages(b, s)
    <2>1. PICK i \in Nat : a = b + i * page_size
      BY <1>5, MultiplesAdd
    <2>2. i * page_size \in Nat /\ i * page_size < n * page_size
      BY <1>1, <1>3, <1>5, <2>1, PageSize
    <2>3. i < n
      BY <2>2, PageSize, Scaling
    <2> QED BY <1>2, <2>1, <2>3
  <1> QED BY <1>2, <1>4, <1>5

\* How many pages a block has.
LEMMA PagesCount ==
    ASSUME NEW b \in Multiples, NEW n \in Nat
    PROVE  IsFiniteSet(Pages(b, n * page_size)) /\ Cardinality(Pages(b, n * page_size)) = n
  <1> DEFINE T == Pages(b, n * page_size)
             f == [i \in 0 .. n - 1 |-> b + i * page_size]
  <1>1. T = {b + i * page_size : i \in 0 .. n - 1}
    BY MultipleDivided DEF Pages
  <1>2. b \in Nat
    BY MultiplesAdd
  <1>3. ASSUME NEW i \in 0 .. n - 1, NEW j \in 0 .. n - 1, f[i] = f[j] PROVE i = j
    <2>1. i * page_size \in Nat /\ j * page_size \in Nat
      BY PageSize
    <2>2. i * page_size = j * page_size
      BY <1>2, <1>3, <2>1
    <2> QED BY <2>2, PageSize, Scaling
  <1>4. f \in [0 .. n - 1 -> T] /\ \A y \in T : \E i \in 0 .. n - 1 : f[i] = y
    <2>1. \A i \in 0 .. n - 1 : f[i] \in T
      BY <1>1
    <2>2. \A y \in T : \E i \in 0 .. n - 1 : f[i] = y
      BY <1>1
    <2> QED BY <2>1, <2>2
  <1> HIDE DEF f, T
  <1>5. f \in Bijection(0 .. n - 1, T)
    BY <1>3, <1>4 DEF Bijection, Injection, Surjection, IsInjective
  <1>6. ExistsBijection(0 .. n - 1, T)
    BY <1>5 DEF ExistsBijection
  <1>7. IsFiniteSet(0 .. n - 1) /\ Cardinality(0 .. n - 1) = n
    BY FS_Interval
  <1> QED BY <1>6, <1>7, FS_Bijection DEF T

\* A size in bytes is rounded up to whole pages, at least one.
LEMMA RoundedUp ==
    ASSUME NEW size \in Nat \ {0}
    PROVE  \E n \in Nat \ {0} : Rounded(size) = n * page_size /\ (n - 1) * page_size < size
  <1>1. ASSUME NEW p \in Nat \ {0}
        PROVE  (size + p - 1) \div p \in Nat \ {0} /\ ((size + p - 1) \div p - 1) * p < size
    <2>1. (size + p - 1) \div p \in Nat \ {0} /\ ((size + p - 1) \div p) * p <= size + p - 1
      OBVIOUS
    <2> DEFINE q == (size + p - 1) \div p
    <2> HIDE DEF q
    <2>2. q \in Nat \ {0} /\ q * p <= size + p - 1
      BY <2>1 DEF q
    <2>3. (q - 1) * p = q * p - p
      BY <2>2
    <2>4. (q - 1) * p < size
      BY <2>2, <2>3
    <2> QED BY <2>2, <2>4 DEF q
  <1> QED BY <1>1, PageSize DEF Rounded

\* The greatest of a set of numbers.
LEMMA GreatestIs ==
    ASSUME NEW S \in SUBSET Int, NEW x \in S, \A y \in S : y <= x
    PROVE  Max(S) = x
  <1>1. x \in S /\ \A y \in S : x >= y
    OBVIOUS
  <1>2. Max(S) \in S /\ \A y \in S : Max(S) >= y
    <2> DEFINE P(z) == z \in S /\ \A y \in S : z >= y
    <2>1. Max(S) = CHOOSE z : P(z)
      BY DEF Max
    <2>2. \E z : P(z)
      BY <1>1
    <2> HIDE DEF P
    <2>3. P(CHOOSE z : P(z))
      BY <2>2
    <2> QED BY <2>1, <2>3 DEF P
  <1> DEFINE m == Max(S)
  <1> HIDE DEF m
  <1>3. m \in Int /\ m >= x /\ x >= m
    BY <1>1, <1>2 DEF m
  <1> QED BY <1>3 DEF m

\* A set of numbers up to a bound has a greatest one, and so Max is one of them.
LEMMA MaxIn ==
    ASSUME NEW S \in SUBSET Nat, S # {}, NEW p \in Nat, \A y \in S : y <= p
    PROVE  Max(S) \in S
  <1> DEFINE T == {p - y : y \in S}
  <1>1. T \in SUBSET Nat /\ T # {}
    <2>1. PICK x \in S : TRUE
      OBVIOUS
    <2>2. p - x \in T
      OBVIOUS
    <2>3. ASSUME NEW y \in S PROVE p - y \in Nat
      OBVIOUS
    <2> QED BY <2>2, <2>3
  <1>2. PICK m \in T : \A y \in T : ~(<<y, m>> \in OpToRel(<, Nat))
    BY <1>1, WFMin, NatLessThanWellFounded, Zenon
  <1>3. PICK x \in S : m = p - x
    OBVIOUS
  <1>4. ASSUME NEW y \in S, x < y PROVE FALSE
    <2>1. p - y \in T /\ p - y \in Nat /\ m \in Nat /\ p - y < m
      BY <1>3, <1>4
    <2>2. <<p - y, m>> \in Nat \X Nat /\ <<p - y, m>>[1] < <<p - y, m>>[2]
      BY <2>1
    <2>3. <<p - y, m>> \in OpToRel(<, Nat)
      BY <2>2 DEF OpToRel
    <2> QED BY <1>2, <2>1, <2>3
  <1>5. S \in SUBSET Int /\ \A y \in S : y <= x
    BY <1>4
  <1> QED BY <1>5, GreatestIs

LEMMA MinIn == ASSUME NEW S \in SUBSET Nat, S # {} PROVE Min(S) \in S
  <1>1. PICK m \in S : \A y \in S : ~(<<y, m>> \in OpToRel(<, Nat))
    BY WFMin, NatLessThanWellFounded, Zenon
  <1>2. ASSUME NEW y \in S, y < m PROVE FALSE
    <2>1. <<y, m>> \in Nat \X Nat /\ <<y, m>>[1] < <<y, m>>[2]
      BY <1>2
    <2>2. <<y, m>> \in OpToRel(<, Nat)
      BY <2>1 DEF OpToRel
    <2> QED BY <1>1, <2>2
  <1> DEFINE P(z) == z \in S /\ \A y \in S : z <= y
  <1>3. P(m)
    BY <1>2
  <1>4. Min(S) = CHOOSE z : P(z)
    BY DEF Min
  <1> HIDE DEF P
  <1>5. P(CHOOSE z : P(z))
    BY <1>3
  <1> QED BY <1>4, <1>5 DEF P

-----------------------------------------------------------------------------
(* The inductive invariant.                                                *)

\* A call that has a block in hand: before its region is entered, or after it was removed.
InsertCalls == [at : {"insert"}, base : Multiples, size : Nat \ {0}]
ReleaseCalls == [at : {"release"}, base : Multiples]

MemTypes ==
    /\ \A b \in DOMAIN blocks : b \in Multiples /\ blocks[b] \in Multiples /\ blocks[b] > 0
    /\ \A r \in DOMAIN regions_ : regions_[r] \in [initial_size_ : Multiples, committed_ : Nat]
    /\ memCall \in [MemThreads -> {MemIdle} \cup InsertCalls \cup ReleaseCalls]

\* Two blocks lie one after the other.
BlocksApart ==
    \A b, c \in DOMAIN blocks : b # c => b + blocks[b] <= c \/ c + blocks[c] <= b

\* A region is the whole of a block, and its committed_ counts the pages still mapped.
RegionsBacked ==
    \A r \in DOMAIN regions_ :
        /\ r \in DOMAIN blocks /\ blocks[r] = regions_[r].initial_size_
        /\ regions_[r].committed_ > 0
        /\ ~remapped => regions_[r].committed_ = page_size * Cardinality(mapped \cap Pages(r, blocks[r]))

MappedInRegions ==
    \A a \in mapped : \E r \in DOMAIN regions_ : a \in Pages(r, blocks[r])

\* The block in hand of a call has no region, and no other call has it.
CallsHold ==
    \A t \in MemThreads : memCall[t] # MemIdle =>
        /\ memCall[t].base \in DOMAIN blocks \ DOMAIN regions_
        /\ memCall[t].at = "insert" => blocks[memCall[t].base] = Rounded(memCall[t].size)
        /\ \A u \in MemThreads : u # t /\ memCall[u] # MemIdle => memCall[u].base # memCall[t].base

MemInv == MemTypes /\ BlocksApart /\ RegionsBacked /\ MappedInRegions /\ CallsHold

\* Once a region was freed under a mapped page nothing is known, but that needs a page that was
\* mapped again.
MemSafe ==
    /\ ~remapped => dangling = {}
    /\ dangling = {} => MemInv

\* The calls are told apart by where they are.
LEMMA CallKinds ==
    ASSUME MemTypes, NEW t \in MemThreads
    PROVE  /\ memCall[t].at = "insert" => memCall[t] \in InsertCalls /\ memCall[t] # MemIdle
           /\ memCall[t].at = "release" => memCall[t] \in ReleaseCalls /\ memCall[t] # MemIdle
           /\ memCall[t].at = "idle" => memCall[t] = MemIdle
  <1>1. memCall[t] = MemIdle \/ memCall[t] \in InsertCalls \/ memCall[t] \in ReleaseCalls
    BY DEF MemTypes
  <1> QED BY <1>1 DEF MemIdle, InsertCalls, ReleaseCalls

\* The pages of a block that malloc holds.
LEMMA BlockPages ==
    ASSUME MemTypes, NEW b \in DOMAIN blocks
    PROVE  /\ b \in Pages(b, blocks[b])
           /\ \A a : a \in Pages(b, blocks[b]) <=> a \in Multiples /\ b <= a /\ a < b + blocks[b]
           /\ IsFiniteSet(Pages(b, blocks[b]))
           /\ b \in Nat /\ blocks[b] \in Nat
  <1>1. b \in Multiples /\ blocks[b] \in Multiples /\ blocks[b] > 0
    BY DEF MemTypes
  <1>2. b \in Nat /\ blocks[b] \in Nat
    BY <1>1, MultiplesAdd
  <1>3. \A a : a \in Pages(b, blocks[b]) <=> a \in Multiples /\ b <= a /\ a < b + blocks[b]
    BY <1>1, PagesAre
  <1>4. PICK n \in Nat : blocks[b] = n * page_size
    BY <1>1 DEF Multiples
  <1> QED BY <1>1, <1>2, <1>3, <1>4, PagesCount

\* Two blocks share no page.
LEMMA BlocksDisjoint ==
    ASSUME MemTypes, BlocksApart, NEW b \in DOMAIN blocks, NEW c \in DOMAIN blocks,
           NEW a, a \in Pages(b, blocks[b]), a \in Pages(c, blocks[c])
    PROVE  b = c
  <1>1. a \in Multiples /\ b <= a /\ a < b + blocks[b] /\ c <= a /\ a < c + blocks[c]
    BY BlockPages
  <1>2. a \in Nat /\ b \in Nat /\ c \in Nat /\ blocks[b] \in Nat /\ blocks[c] \in Nat
    BY <1>1, MultiplesAdd, BlockPages
  <1> QED BY <1>1, <1>2 DEF BlocksApart

\* The search for an address ends at the region that the address lies in.
LEMMA NearestIs ==
    ASSUME MemInv, NEW r \in DOMAIN regions_, NEW a, a \in Pages(r, blocks[r])
    PROVE  Nearest(a) = r
  <1> DEFINE S == {q \in DOMAIN regions_ : q <= a}
  <1>0. MemTypes /\ BlocksApart /\ r \in DOMAIN blocks
    BY DEF MemInv, RegionsBacked
  <1>1. a \in Multiples /\ r <= a /\ a < r + blocks[r] /\ r \in Nat /\ blocks[r] \in Nat
    BY <1>0, BlockPages
  <1>2. a \in Nat
    BY <1>1, MultiplesAdd
  <1>3. ASSUME NEW q \in S PROVE q \in Int /\ q <= r
    <2>1. q \in DOMAIN blocks /\ q <= a
      BY DEF MemInv, RegionsBacked
    <2>2. q \in Nat /\ blocks[q] \in Nat
      BY <1>0, <2>1, BlockPages
    <2>3. q = r \/ q + blocks[q] <= r \/ r + blocks[r] <= q
      BY <1>0, <2>1 DEF BlocksApart
    <2> QED BY <1>1, <1>2, <2>1, <2>2, <2>3
  <1>4. r \in S /\ S \in SUBSET Int
    BY <1>1, <1>3
  <1>5. Max(S) = r
    BY <1>3, <1>4, GreatestIs
  <1> QED BY <1>4, <1>5 DEF Nearest

\* Where a mapped page lies, and that a run of pages in one block lies in its region.
LEMMA RunInRegion ==
    ASSUME MemInv, NEW p, NEW n \in Nat \ {0}, p \in Multiples, NEW b \in DOMAIN blocks,
           Pages(p, n * page_size) \subseteq mapped \cap Pages(b, blocks[b])
    PROVE  /\ b \in DOMAIN regions_ /\ Nearest(p) = b /\ WithinRegion(b, p, n * page_size)
           /\ Cardinality(mapped \cap Pages(b, blocks[b])) \in Nat
           /\ IsFiniteSet(mapped \cap Pages(b, blocks[b]))
           /\ n <= Cardinality(mapped \cap Pages(b, blocks[b]))
           /\ Cardinality((mapped \cap Pages(b, blocks[b])) \ Pages(p, n * page_size))
                = Cardinality(mapped \cap Pages(b, blocks[b])) - n
  <1> DEFINE s == n * page_size
             M == mapped \cap Pages(b, blocks[b])
  <1>0. MemTypes /\ BlocksApart /\ RegionsBacked /\ MappedInRegions
    BY DEF MemInv
  <1>1. s \in Multiples /\ (n - 1) * page_size \in Multiples /\ (n - 1) * page_size + page_size = s
    <2>1. n - 1 \in Nat
      OBVIOUS
    <2>2. (n - 1) * page_size + 1 * page_size = ((n - 1) + 1) * page_size
      BY PageSize, Scaling
    <2>3. 1 * page_size = page_size /\ (n - 1) + 1 = n
      BY PageSize
    <2> QED BY <2>1, <2>2, <2>3 DEF Multiples
  <1> DEFINE d == (n - 1) * page_size
  <1> HIDE DEF s, d
  <1>2. d \in Multiples /\ d + page_size = s /\ s \in Multiples /\ d \in Nat /\ p \in Nat /\ page_size \in Nat \ {0} /\ s \in Nat
    BY <1>1, MultiplesAdd, PageSize DEF s, d
  <1>3. p + d \in Multiples
    BY <1>2, MultiplesAdd
  <1>4. p \in Pages(p, s) /\ p + d \in Pages(p, s)
    BY <1>2, <1>3, PagesAre
  <1>5. p \in mapped /\ p \in Pages(b, blocks[b]) /\ p + d \in Pages(b, blocks[b])
    BY <1>4 DEF s
  <1>6. PICK r \in DOMAIN regions_ : p \in Pages(r, blocks[r])
    BY <1>0, <1>5 DEF MappedInRegions
  <1>7. r = b
    BY <1>0, <1>5, <1>6, BlocksDisjoint DEF RegionsBacked
  <1>8. Nearest(p) = b
    BY <1>5, <1>6, <1>7, NearestIs
  <1>9. b \in Multiples /\ blocks[b] \in Multiples /\ b \in Nat /\ blocks[b] \in Nat /\ b <= p /\ p + d < b + blocks[b]
    BY <1>0, <1>5, BlockPages DEF MemTypes
  <1>10. b + blocks[b] \in Multiples
    BY <1>9, MultiplesAdd
  <1>11. (p + d) + page_size <= b + blocks[b]
    BY <1>3, <1>9, <1>10, MultiplesAdd
  <1>12. WithinRegion(b, p, s)
    <2>1. blocks[b] = regions_[b].initial_size_
      BY <1>0, <1>6, <1>7 DEF RegionsBacked
    <2>2. p + s <= b + blocks[b]
      BY <1>2, <1>9, <1>11
    <2> QED BY <1>2, <1>9, <2>1, <2>2 DEF WithinRegion
  <1>13. IsFiniteSet(M) /\ Cardinality(M) \in Nat
    <2>1. M \in SUBSET Pages(b, blocks[b]) /\ IsFiniteSet(Pages(b, blocks[b]))
      BY <1>0, BlockPages
    <2> QED BY <2>1, FS_Subset, FS_CardinalityType
  <1>14. Pages(p, s) \in SUBSET M /\ IsFiniteSet(Pages(p, s)) /\ Cardinality(Pages(p, s)) = n
    BY PagesCount DEF s
  <1> HIDE DEF M
  <1>15. n <= Cardinality(M)
    BY <1>13, <1>14, FS_Subset
  <1>16. Cardinality(M \ Pages(p, s)) = Cardinality(M) - n
    <2>1. M = Pages(p, s) \cup (M \ Pages(p, s)) /\ Pages(p, s) \cap (M \ Pages(p, s)) = {}
      BY <1>14
    <2>2. IsFiniteSet(M \ Pages(p, s)) /\ Cardinality(M \ Pages(p, s)) \in Nat
      BY <1>13, FS_Subset, FS_CardinalityType
    <2>3. Cardinality(M) = Cardinality(Pages(p, s)) + Cardinality(M \ Pages(p, s)) - Cardinality({})
      BY <1>14, <2>1, <2>2, FS_Union
    <2>4. Cardinality({}) = 0
      BY FS_EmptySet
    <2> QED BY <1>13, <1>14, <2>2, <2>3, <2>4
  <1> QED BY <1>6, <1>7, <1>8, <1>12, <1>13, <1>15, <1>16 DEF s, M

-----------------------------------------------------------------------------
(* One lemma for each step.                                                *)

\* A block that lies nowhere in the others lies apart from each of them.
LEMMA NewBlockApart ==
    ASSUME NEW b \in Multiples, NEW s \in Multiples, s > 0, NEW c \in Multiples, NEW z \in Multiples, z > 0,
           Pages(b, s) \cap Pages(c, z) = {}
    PROVE  b # c /\ (b + s <= c \/ c + z <= b)
  <1>1. b \in Nat /\ s \in Nat /\ c \in Nat /\ z \in Nat
    BY MultiplesAdd
  <1>2. b \in Pages(b, s) /\ c \in Pages(c, z)
    BY <1>1, PagesAre
  <1>3. b \notin Pages(c, z) /\ c \notin Pages(b, s)
    BY <1>2
  <1>4. ~(c <= b /\ b < c + z) /\ ~(b <= c /\ c < b + s)
    BY <1>3, PagesAre
  <1> QED BY <1>1, <1>4

\* memalign: the new block lies apart from all others, and the call alone has it.
LEMMA AllocKeeps ==
    ASSUME MemInv, NEW t \in MemThreads, NEW size \in MmapSizes, AllocMemory(t, size)
    PROVE  MemInv'
  <1>0. MemTypes /\ BlocksApart /\ RegionsBacked /\ MappedInRegions /\ CallsHold
    BY DEF MemInv
  <1>1. PICK base \in {k * page_size : k \in 1 .. MemPages} :
            /\ Pages(base, Rounded(size)) \cap Held = {}
            /\ memCall[t] = MemIdle
            /\ memCall' = [memCall EXCEPT ![t] = [at |-> "insert", base |-> base, size |-> size]]
            /\ blocks' = With(blocks, base, Rounded(size))
            /\ UNCHANGED <<regions_, mapped, remapped>>
    <2>1. PICK base \in {k * page_size : k \in 1 .. MemPages} :
            /\ Pages(base, Rounded(size)) \subseteq Pages(page_size, MemPages * page_size) \ Held
            /\ MemStep(t, [at |-> "insert", base |-> base, size |-> size])
            /\ blocks' = With(blocks, base, Rounded(size))
            /\ UNCHANGED <<regions_, mapped, remapped>>
      BY DEF AllocMemory
    <2> QED BY <2>1 DEF MemStep
  <1> DEFINE s == Rounded(size)
  <1>2. size \in Nat \ {0} /\ base \in Multiples
    <2>1. PICK k \in 1 .. MemPages : base = k * page_size
      OBVIOUS
    <2>2. k \in Nat
      BY PageSize
    <2>3. base \in Multiples
      BY <2>1, <2>2 DEF Multiples
    <2> QED BY <2>3, PageSize
  <1>3. s \in Multiples /\ s > 0
    <2>1. PICK n \in Nat \ {0} : s = n * page_size
      BY <1>2, RoundedUp
    <2>2. 0 * page_size < n * page_size /\ 0 * page_size = 0
      BY PageSize, Scaling
    <2> QED BY <2>1, <2>2 DEF Multiples
  <1> HIDE DEF s
  <1>4. ASSUME NEW b \in DOMAIN blocks PROVE b # base /\ (b + blocks[b] <= base \/ base + s <= b)
    <2>1. b \in Multiples /\ blocks[b] \in Multiples /\ blocks[b] > 0
      BY <1>0 DEF MemTypes
    <2>2. Pages(b, blocks[b]) \subseteq Held
      BY DEF Held
    <2>3. Pages(base, s) \cap Pages(b, blocks[b]) = {}
      BY <1>1, <2>2 DEF s
    <2> QED BY <1>2, <1>3, <2>1, <2>3, NewBlockApart
  <1>5. /\ DOMAIN blocks' = DOMAIN blocks \cup {base} /\ blocks'[base] = s
        /\ \A b \in DOMAIN blocks : blocks'[b] = blocks[b]
    BY <1>1, <1>4 DEF With, s
  <1>6. memCall'[t] = [at |-> "insert", base |-> base, size |-> size] /\ \A u \in MemThreads : u # t => memCall'[u] = memCall[u]
    BY <1>0, <1>1 DEF MemTypes
  <1>7. [at |-> "insert", base |-> base, size |-> size] \in InsertCalls
    BY <1>2 DEF InsertCalls
  <1>8. MemTypes'
    BY <1>0, <1>1, <1>2, <1>3, <1>5, <1>7 DEF MemTypes
  <1>9. BlocksApart'
    BY <1>0, <1>4, <1>5 DEF BlocksApart
  <1>10. RegionsBacked' /\ MappedInRegions'
    BY <1>0, <1>1, <1>5 DEF RegionsBacked, MappedInRegions
  <1>11. CallsHold'
    <2>0. base \notin DOMAIN blocks /\ base \notin DOMAIN regions_
      BY <1>0, <1>4 DEF RegionsBacked
    <2>1. ASSUME NEW u \in MemThreads, u # t, memCall[u] # MemIdle
          PROVE  memCall[u].base \in DOMAIN blocks \ DOMAIN regions_ /\ memCall[u].base # base
      BY <1>0, <2>0, <2>1 DEF CallsHold
    <2> SUFFICES ASSUME NEW u \in MemThreads, memCall'[u] # MemIdle
                 PROVE  /\ memCall'[u].base \in DOMAIN blocks' \ DOMAIN regions_'
                        /\ memCall'[u].at = "insert" => blocks'[memCall'[u].base] = Rounded(memCall'[u].size)
                        /\ \A w \in MemThreads : w # u /\ memCall'[w] # MemIdle => memCall'[w].base # memCall'[u].base
      BY DEF CallsHold
    <2>2. CASE u = t
      BY <1>1, <1>5, <1>6, <2>0, <2>1, <2>2 DEF s
    <2>3. CASE u # t
      <3>1. memCall'[u] = memCall[u]
        BY <1>6, <2>3
      <3>2. memCall'[u].at = "insert" => blocks'[memCall'[u].base] = Rounded(memCall'[u].size)
        BY <1>0, <1>5, <2>1, <2>3, <3>1 DEF CallsHold
      <3>3. ASSUME NEW w \in MemThreads, w # u, memCall'[w] # MemIdle PROVE memCall'[w].base # memCall'[u].base
        BY <1>0, <1>6, <2>1, <2>3, <3>1, <3>3 DEF CallsHold
      <3> QED BY <1>1, <1>5, <2>1, <2>3, <3>1, <3>2, <3>3
    <2> QED BY <2>2, <2>3
  <1> QED BY <1>8, <1>9, <1>10, <1>11 DEF MemInv

\* The region is entered: all pages of the block are mapped and committed.
LEMMA InsertKeeps ==
    ASSUME MemInv, NEW t \in MemThreads, InsertRegion(t)
    PROVE  MemInv'
  <1>0. MemTypes /\ BlocksApart /\ RegionsBacked /\ MappedInRegions /\ CallsHold
    BY DEF MemInv
  <1> DEFINE b == memCall[t].base
             z == memCall[t].size
  <1>1. /\ memCall[t].at = "insert"
        /\ memCall' = [memCall EXCEPT ![t] = MemIdle]
        /\ regions_' = With(regions_, b, MemoryRegion(z))
        /\ mapped' = mapped \cup Pages(b, Rounded(z))
        /\ blocks' = blocks /\ remapped' = remapped
    BY DEF InsertRegion
  <1>2. memCall[t] # MemIdle /\ b \in Multiples /\ z \in Nat \ {0}
    BY <1>0, <1>1, CallKinds DEF InsertCalls
  <1>3. b \in DOMAIN blocks /\ b \notin DOMAIN regions_ /\ blocks[b] = Rounded(z)
    BY <1>0, <1>1, <1>2 DEF CallsHold
  <1>4. \A u \in MemThreads : u # t /\ memCall[u] # MemIdle => memCall[u].base # b
    BY <1>0, <1>2 DEF CallsHold
  <1>5. PICK n \in Nat \ {0} : Rounded(z) = n * page_size
    BY <1>2, RoundedUp
  <1> HIDE DEF b, z
  <1>6. /\ DOMAIN regions_' = DOMAIN regions_ \cup {b}
        /\ regions_'[b] = [initial_size_ |-> blocks[b], committed_ |-> blocks[b]]
        /\ \A r \in DOMAIN regions_ : regions_'[r] = regions_[r]
    BY <1>1, <1>3 DEF With, MemoryRegion
  <1>7. blocks[b] \in Multiples /\ blocks[b] > 0 /\ blocks[b] \in Nat
    BY <1>0, <1>3, MultiplesAdd DEF MemTypes
  <1>8. memCall'[t] = MemIdle /\ \A u \in MemThreads : u # t => memCall'[u] = memCall[u]
    BY <1>0, <1>1 DEF MemTypes
  <1>9. MemTypes'
    <2>1. regions_'[b] \in [initial_size_ : Multiples, committed_ : Nat]
      BY <1>6, <1>7
    <2> QED BY <1>0, <1>1, <1>6, <2>1 DEF MemTypes
  <1>10. BlocksApart'
    BY <1>0, <1>1 DEF BlocksApart
  <1>11. RegionsBacked'
    <2> SUFFICES ASSUME NEW r \in DOMAIN regions_'
                 PROVE  /\ r \in DOMAIN blocks /\ blocks[r] = regions_'[r].initial_size_
                        /\ regions_'[r].committed_ > 0
                        /\ ~remapped => regions_'[r].committed_ = page_size * Cardinality(mapped' \cap Pages(r, blocks[r]))
      BY <1>1 DEF RegionsBacked
    <2>1. CASE r = b
      <3>1. mapped' \cap Pages(b, blocks[b]) = Pages(b, n * page_size)
        BY <1>1, <1>3, <1>5
      <3>2. Cardinality(mapped' \cap Pages(b, blocks[b])) = n
        BY <1>0, <1>3, <3>1, PagesCount DEF MemTypes
      <3>3. blocks[b] = page_size * n
        BY <1>3, <1>5, PageSize
      <3> QED BY <1>3, <1>6, <1>7, <2>1, <3>2, <3>3
    <2>2. CASE r # b
      <3>1. r \in DOMAIN regions_ /\ r \in DOMAIN blocks
        BY <1>0, <1>6, <2>2 DEF RegionsBacked
      <3>2. mapped' \cap Pages(r, blocks[r]) = mapped \cap Pages(r, blocks[r])
        <4>1. ASSUME NEW a, a \in Pages(b, blocks[b]), a \in Pages(r, blocks[r]) PROVE FALSE
          BY <1>0, <1>3, <2>2, <3>1, <4>1, BlocksDisjoint
        <4> QED BY <1>1, <1>3, <4>1
      <3> QED BY <1>0, <1>6, <3>1, <3>2 DEF RegionsBacked
    <2> QED BY <2>1, <2>2
  <1>12. MappedInRegions'
    BY <1>0, <1>1, <1>3, <1>6 DEF MappedInRegions
  <1>13. CallsHold'
    <2>1. ASSUME NEW u \in MemThreads, memCall'[u] # MemIdle
          PROVE  u # t /\ memCall'[u] = memCall[u] /\ memCall[u].base # b
      BY <1>4, <1>8, <2>1
    <2> QED BY <1>0, <1>1, <1>6, <2>1 DEF CallsHold
  <1> QED BY <1>9, <1>10, <1>11, <1>12, <1>13 DEF MemInv

\* The block is lost when the region cannot be made.
LEMMA ThrowsKeeps ==
    ASSUME MemInv, NEW t \in MemThreads, RegionThrows(t)
    PROVE  MemInv'
  <1>1. memCall' = [memCall EXCEPT ![t] = MemIdle] /\ UNCHANGED <<blocks, regions_, mapped, remapped>>
    BY DEF RegionThrows
  <1>2. memCall'[t] = MemIdle /\ \A u \in MemThreads : u # t => memCall'[u] = memCall[u]
    BY <1>1 DEF MemInv, MemTypes
  <1>3. MemTypes' /\ BlocksApart' /\ RegionsBacked' /\ MappedInRegions'
    BY <1>1 DEF MemInv, MemTypes, BlocksApart, RegionsBacked, MappedInRegions
  <1>4. CallsHold'
    BY <1>1, <1>2 DEF MemInv, CallsHold
  <1> QED BY <1>3, <1>4 DEF MemInv

\* free: the block that leaves was in no region and in the hand of no other call.
LEMMA ReleaseKeeps ==
    ASSUME MemInv, NEW t \in MemThreads, ReleaseBlock(t)
    PROVE  MemInv'
  <1>0. MemTypes /\ BlocksApart /\ RegionsBacked /\ MappedInRegions /\ CallsHold
    BY DEF MemInv
  <1> DEFINE b == memCall[t].base
  <1>1. /\ memCall[t].at = "release"
        /\ memCall' = [memCall EXCEPT ![t] = MemIdle]
        /\ blocks' = Without(blocks, b)
        /\ UNCHANGED <<regions_, mapped, remapped>>
    BY DEF ReleaseBlock
  <1>2. memCall[t] # MemIdle
    BY <1>0, <1>1, CallKinds
  <1>3. b \notin DOMAIN regions_ /\ \A u \in MemThreads : u # t /\ memCall[u] # MemIdle => memCall[u].base # b
    BY <1>0, <1>2 DEF CallsHold
  <1> HIDE DEF b
  <1>4. DOMAIN blocks' = DOMAIN blocks \ {b} /\ \A c \in DOMAIN blocks' : blocks'[c] = blocks[c]
    BY <1>1 DEF Without
  <1>5. memCall'[t] = MemIdle /\ \A u \in MemThreads : u # t => memCall'[u] = memCall[u]
    BY <1>0, <1>1 DEF MemTypes
  <1>6. MemTypes'
    BY <1>0, <1>1, <1>4 DEF MemTypes
  <1>7. BlocksApart'
    BY <1>0, <1>4 DEF BlocksApart
  <1>8. \A r \in DOMAIN regions_ : r \in DOMAIN blocks' /\ blocks'[r] = blocks[r]
    BY <1>0, <1>3, <1>4 DEF RegionsBacked
  <1>9. RegionsBacked' /\ MappedInRegions'
    BY <1>0, <1>1, <1>8 DEF RegionsBacked, MappedInRegions
  <1>10. CallsHold'
    <2>1. ASSUME NEW u \in MemThreads, memCall'[u] # MemIdle
          PROVE  u # t /\ memCall'[u] = memCall[u] /\ memCall[u].base \in DOMAIN blocks'
      BY <1>0, <1>3, <1>4, <1>5, <2>1 DEF CallsHold
    <2> QED BY <1>0, <1>1, <1>4, <2>1 DEF CallsHold
  <1> QED BY <1>6, <1>7, <1>9, <1>10 DEF MemInv

\* mmap at an address: the pages lie in the region that the search ends at.
LEMMA MmapAtKeeps ==
    ASSUME MemInv, NEW t \in MemThreads, NEW p \in Pages(page_size, MemPages * page_size), NEW size \in MmapSizes, MmapAt(t, p, size)
    PROVE  MemInv' /\ (~remapped' => ~remapped)
  <1>0. MemTypes /\ BlocksApart /\ RegionsBacked /\ MappedInRegions /\ CallsHold
    BY DEF MemInv
  <1> DEFINE z == Rounded(size)
             pages == IF AllocAt(p, size) = p THEN Pages(p, z) ELSE {}
  <1>1. /\ memCall' = memCall /\ mapped' = mapped \cup pages /\ UNCHANGED <<blocks, regions_>>
        /\ ~remapped' => ~remapped /\ pages \subseteq mapped
    <2>1. memCall[t] = MemIdle /\ memCall' = [memCall EXCEPT ![t] = MemIdle]
      BY DEF MmapAt, MemStep
    <2>2. memCall' = memCall
      BY <1>0, <2>1 DEF MemTypes
    <2> QED BY <2>2 DEF MmapAt
  <1>2. p \in Multiples /\ p \in Nat /\ size \in Nat \ {0}
    <2>1. page_size \in Multiples /\ MemPages * page_size \in Multiples
      <3>1. 1 * page_size = page_size /\ 1 \in Nat /\ MemPages \in Nat
        BY PageSize
      <3> QED BY <3>1 DEF Multiples
    <2>2. p \in Multiples
      BY <2>1, PagesAre
    <2> QED BY <2>2, MultiplesAdd, PageSize
  <1>3. ASSUME NEW a \in pages PROVE \E r \in DOMAIN regions_ : a \in Pages(r, blocks[r])
    <2> DEFINE r == Nearest(p)
    <2>1. AllocAt(p, size) = p /\ a \in Pages(p, z)
      BY <1>3
    <2>2. p # -1
      BY <1>2
    <2>3. regions_ # <<>> /\ WithinRegion(r, p, size)
      BY <2>1, <2>2 DEF AllocAt
    <2>4. \A q \in DOMAIN regions_ : q \in DOMAIN blocks /\ q \in Nat /\ q \in Multiples
      BY <1>0, BlockPages DEF RegionsBacked, MemTypes
    <2>5. r \in DOMAIN regions_
      <3> DEFINE S == {q \in DOMAIN regions_ : q <= p}
      <3>1. S \in SUBSET Nat /\ \A y \in S : y <= p
        BY <2>4
      <3>2. CASE S # {}
        <4>1. Max(S) \in S
          BY <1>2, <3>1, <3>2, MaxIn
        <4>2. r = Max(S)
          BY <3>2 DEF Nearest
        <4> QED BY <4>1, <4>2
      <3>3. CASE S = {}
        <4>1. r = Min(DOMAIN regions_)
          BY <3>3 DEF Nearest
        <4>2. DOMAIN regions_ # {}
          <5>1. CASE DOMAIN regions_ = {}
            <6>1. regions_ = [x \in {} |-> 0]
              BY <5>1, <1>0 DEF MemTypes
            <6> QED BY <2>3, <6>1
          <5> QED BY <5>1
        <4> QED BY <4>1, <4>2, <2>4, MinIn
      <3> QED BY <3>2, <3>3
    <2>6. PICK n \in Nat \ {0} : z = n * page_size /\ (n - 1) * page_size < size
      BY <1>2, RoundedUp
    <2>7. /\ r \in Nat /\ r \in Multiples /\ blocks[r] \in Multiples /\ blocks[r] \in Nat
          /\ r <= p /\ p + size <= r + blocks[r]
      BY <1>0, <1>2, <2>3, <2>4, <2>5, BlockPages DEF RegionsBacked, MemTypes, WithinRegion
    <2> DEFINE d == (n - 1) * page_size
    <2>8. d \in Multiples /\ d \in Nat /\ d + page_size = z /\ page_size \in Nat \ {0} /\ d < size /\ z \in Multiples
      <3>1. n - 1 \in Nat /\ (n - 1) * page_size + 1 * page_size = ((n - 1) + 1) * page_size
        BY PageSize, Scaling
      <3>2. 1 * page_size = page_size /\ (n - 1) + 1 = n
        BY PageSize
      <3>3. d \in Multiples /\ z \in Multiples
        BY <2>6, <3>1 DEF Multiples
      <3>4. d \in Nat
        BY <3>3, MultiplesAdd
      <3> QED BY <2>6, <3>1, <3>2, <3>3, <3>4, PageSize
    <2> HIDE DEF d, z, r
    <2>9. p + d \in Multiples /\ r + blocks[r] \in Multiples
      BY <1>2, <2>7, <2>8, MultiplesAdd
    <2>10. p + d < r + blocks[r]
      BY <1>2, <2>7, <2>8
    <2>11. (p + d) + page_size <= r + blocks[r]
      BY <2>9, <2>10, MultiplesAdd
    <2>12. a \in Multiples /\ p <= a /\ a < p + z
      BY <1>2, <2>1, <2>8, PagesAre
    <2>13. a \in Nat
      BY <2>12, MultiplesAdd
    <2>14. r <= a /\ a < r + blocks[r]
      BY <1>2, <2>7, <2>8, <2>11, <2>12, <2>13
    <2>15. a \in Pages(r, blocks[r])
      BY <2>7, <2>12, <2>14, PagesAre
    <2> QED BY <2>5, <2>15
  <1> HIDE DEF pages
  <1>4. MemTypes' /\ BlocksApart' /\ CallsHold'
    BY <1>0, <1>1 DEF MemTypes, BlocksApart, CallsHold
  <1>5. MappedInRegions'
    BY <1>0, <1>1, <1>3 DEF MappedInRegions
  <1>6. RegionsBacked'
    <2>1. ~remapped' => ~remapped /\ mapped' = mapped
      BY <1>1
    <2> QED BY <1>0, <1>1, <2>1 DEF RegionsBacked
  <1> QED BY <1>1, <1>4, <1>5, <1>6 DEF MemInv

\* munmap: the pages leave the region they lie in, and the last of them takes the region along.
LEMMA MunmapKeeps ==
    ASSUME MemInv, NEW t \in MemThreads, NEW p \in mapped, NEW n \in 1 .. MemPages, dangling = {},
           Munmap(t, p, n * page_size)
    PROVE  (dangling' = {} => MemInv') /\ (~remapped => dangling' = {}) /\ remapped' = remapped
  <1>0. MemTypes /\ BlocksApart /\ RegionsBacked /\ MappedInRegions /\ CallsHold
    BY DEF MemInv
  <1> DEFINE s == n * page_size
             C(r) == Cardinality(mapped \cap Pages(r, blocks[r]))
  <1>1. PICK b \in DOMAIN blocks : Pages(p, s) \subseteq mapped \cap Pages(b, blocks[b])
    BY DEF Munmap
  <1>2. p \in Multiples
    BY <1>0, BlockPages DEF MappedInRegions, RegionsBacked
  <1>3. n \in Nat \ {0}
    BY PageSize
  <1>4. /\ b \in DOMAIN regions_ /\ Nearest(p) = b /\ WithinRegion(b, p, s)
        /\ C(b) \in Nat /\ n <= C(b)
        /\ IsFiniteSet(mapped \cap Pages(b, blocks[b]))
        /\ Cardinality((mapped \cap Pages(b, blocks[b])) \ Pages(p, s)) = C(b) - n
    BY <1>1, <1>2, <1>3, RunInRegion
  <1> DEFINE left == regions_[b].committed_ - s
  <1>a. left \in Int /\ s \in Nat
    BY <1>0, <1>3, <1>4, PageSize DEF MemTypes
  <1>5. ~remapped => left = page_size * (C(b) - n) /\ left \in Nat /\ (left = 0 <=> C(b) = n)
    <2> SUFFICES ASSUME ~remapped PROVE left = page_size * (C(b) - n) /\ left \in Nat /\ (left = 0 <=> C(b) = n)
      OBVIOUS
    <2> DEFINE c == C(b)
    <2>1. regions_[b].committed_ = page_size * c
      BY <1>0, <1>4 DEF RegionsBacked
    <2>2. c \in Nat /\ n <= c
      BY <1>4
    <2> HIDE DEF c
    <2>3. page_size * c = c * page_size /\ page_size * (c - n) = (c - n) * page_size
      BY <2>2, PageSize
    <2>4. c * page_size - n * page_size = (c - n) * page_size
      BY <2>2, PageSize, Scaling
    <2>5. c - n \in Nat /\ (c - n) * page_size \in Nat
      BY <2>2, PageSize
    <2>6. 0 * page_size = 0 /\ ((c - n) * page_size = 0 * page_size <=> c - n = 0)
      BY <2>5, PageSize, Scaling
    <2>7. c - n = 0 <=> c = n
      BY <2>2
    <2> QED BY <2>1, <2>3, <2>4, <2>5, <2>6, <2>7 DEF c
  <1> HIDE DEF left
  <1>6. /\ memCall[t] = MemIdle
        /\ memCall' = [memCall EXCEPT ![t] = IF left = 0 THEN [at |-> "release", base |-> b] ELSE MemIdle]
        /\ mapped' = mapped \ Pages(p, s)
        /\ regions_' = IF left < 0 THEN regions_
                       ELSE IF left = 0 THEN Without(regions_, b) ELSE [regions_ EXCEPT ![b].committed_ = left]
        /\ dangling' = IF left = 0 THEN mapped' \cap Pages(b, blocks[b]) ELSE {}
        /\ blocks' = blocks /\ remapped' = remapped
    <2> DEFINE found == regions_ # <<>> /\ WithinRegion(b, p, s) /\ left >= 0
    <2>0. regions_ # <<>>
      <3>1. DOMAIN regions_ # {}
        BY <1>4
      <3> QED BY <3>1
    <2>1. found <=> ~(left < 0)
      BY <1>4, <1>a, <2>0
    <2>2. /\ MemStep(t, IF found /\ left = 0 THEN [at |-> "release", base |-> b] ELSE MemIdle)
          /\ mapped' = mapped \ Pages(p, s)
          /\ regions_' = CASE ~found -> regions_
                           [] found /\ left = 0 -> Without(regions_, b)
                           [] OTHER -> [regions_ EXCEPT ![b].committed_ = left]
          /\ dangling' = IF found /\ left = 0 THEN dangling \cup (mapped' \cap Pages(b, blocks[b])) ELSE dangling
          /\ blocks' = blocks /\ remapped' = remapped
      BY <1>4 DEF Munmap, left
    <2> HIDE DEF found
    <2>3. regions_' = IF left < 0 THEN regions_
                      ELSE IF left = 0 THEN Without(regions_, b) ELSE [regions_ EXCEPT ![b].committed_ = left]
      BY <1>a, <2>1, <2>2
    <2>4. found /\ left = 0 <=> left = 0
      BY <1>a, <2>1
    <2>5. MemStep(t, IF left = 0 THEN [at |-> "release", base |-> b] ELSE MemIdle)
      BY <2>2, <2>4
    <2>6. dangling' = IF left = 0 THEN mapped' \cap Pages(b, blocks[b]) ELSE {}
      BY <2>2, <2>4
    <2> QED BY <2>2, <2>3, <2>5, <2>6 DEF MemStep
  <1>7. b \in Multiples
    BY <1>0 DEF MemTypes
  <1>8. mapped' \cap Pages(b, blocks[b]) = (mapped \cap Pages(b, blocks[b])) \ Pages(p, s)
    BY <1>6
  <1>9. ASSUME NEW r \in DOMAIN regions_, r # b
        PROVE  mapped' \cap Pages(r, blocks[r]) = mapped \cap Pages(r, blocks[r])
    <2>1. r \in DOMAIN blocks
      BY <1>0 DEF RegionsBacked
    <2>2. ASSUME NEW a, a \in Pages(b, blocks[b]), a \in Pages(r, blocks[r]) PROVE FALSE
      BY <1>0, <1>9, <2>1, <2>2, BlocksDisjoint
    <2> QED BY <1>1, <1>6, <2>2
  <1>10. BlocksApart'
    BY <1>0, <1>6 DEF BlocksApart
  <1>b. ~remapped => dangling' = {}
    <2> SUFFICES ASSUME ~remapped, left = 0 PROVE dangling' = {}
      BY <1>6
    <2>1. C(b) - n = 0
      BY <1>4, <1>5
    <2>2. IsFiniteSet((mapped \cap Pages(b, blocks[b])) \ Pages(p, s))
      BY <1>4, FS_Subset
    <2> QED BY <1>4, <1>6, <1>8, <2>1, <2>2, FS_EmptySet
  <1>c. CASE left < 0
    <2>1. regions_' = regions_ /\ memCall' = memCall
      BY <1>0, <1>6, <1>a, <1>c DEF MemTypes
    <2>2. remapped
      BY <1>5, <1>a, <1>c
    <2>3. MemTypes' /\ RegionsBacked' /\ MappedInRegions' /\ CallsHold'
      BY <1>0, <1>6, <2>1, <2>2 DEF MemTypes, RegionsBacked, MappedInRegions, CallsHold
    <2> QED BY <1>6, <1>10, <1>b, <2>3 DEF MemInv
  <1>11. ASSUME left = 0, dangling' = {} PROVE MemInv'
    <2>1. DOMAIN regions_' = DOMAIN regions_ \ {b} /\ \A r \in DOMAIN regions_' : regions_'[r] = regions_[r]
      BY <1>6, <1>11 DEF Without
    <2>2. memCall' = [memCall EXCEPT ![t] = [at |-> "release", base |-> b]]
      BY <1>6, <1>11
    <2>3. [at |-> "release", base |-> b] \in ReleaseCalls
      BY <1>7 DEF ReleaseCalls
    <2>4. MemTypes'
      BY <1>0, <1>6, <2>1, <2>2, <2>3 DEF MemTypes
    <2>5. RegionsBacked'
      BY <1>0, <1>6, <1>9, <2>1 DEF RegionsBacked
    <2>6. mapped' \cap Pages(b, blocks[b]) = {}
      BY <1>6, <1>11
    <2>7. MappedInRegions'
      <3> SUFFICES ASSUME NEW a \in mapped' PROVE \E r \in DOMAIN regions_' : a \in Pages(r, blocks[r])
        BY <1>6 DEF MappedInRegions
      <3>1. PICK r \in DOMAIN regions_ : a \in Pages(r, blocks[r])
        BY <1>0, <1>6 DEF MappedInRegions
      <3>2. r # b
        BY <2>6, <3>1
      <3> QED BY <2>1, <3>1, <3>2
    <2>8. CallsHold'
      <3>1. memCall'[t] = [at |-> "release", base |-> b] /\ \A u \in MemThreads : u # t => memCall'[u] = memCall[u]
        BY <1>0, <2>2 DEF MemTypes
      <3>2. ASSUME NEW u \in MemThreads, memCall[u] # MemIdle
            PROVE  memCall[u].base \in DOMAIN blocks \ DOMAIN regions_ /\ memCall[u].base # b
        BY <1>0, <1>4, <3>2 DEF CallsHold
      <3> SUFFICES ASSUME NEW u \in MemThreads, memCall'[u] # MemIdle
                   PROVE  /\ memCall'[u].base \in DOMAIN blocks \ DOMAIN regions_'
                          /\ memCall'[u].at = "insert" => blocks[memCall'[u].base] = Rounded(memCall'[u].size)
                          /\ \A w \in MemThreads : w # u /\ memCall'[w] # MemIdle => memCall'[w].base # memCall'[u].base
        BY <1>6 DEF CallsHold
      <3>3. CASE u = t
        <4>1. memCall'[u].base = b /\ memCall'[u].at = "release"
          BY <3>1, <3>3
        <4>2. ASSUME NEW w \in MemThreads, w # u, memCall'[w] # MemIdle PROVE memCall'[w].base # memCall'[u].base
          BY <3>1, <3>2, <3>3, <4>1, <4>2
        <4> QED BY <2>1, <4>1, <4>2
      <3>4. CASE u # t
        <4>1. memCall'[u] = memCall[u] /\ memCall[u] # MemIdle
          BY <3>1, <3>4
        <4>2. ASSUME NEW w \in MemThreads, w # u, memCall'[w] # MemIdle PROVE memCall'[w].base # memCall'[u].base
          <5>1. CASE w = t
            BY <3>1, <3>2, <4>1, <5>1
          <5>2. CASE w # t
            BY <1>0, <3>1, <4>1, <4>2, <5>2 DEF CallsHold
          <5> QED BY <5>1, <5>2
        <4>3. memCall'[u].at = "insert" => blocks[memCall'[u].base] = Rounded(memCall'[u].size)
          BY <1>0, <4>1 DEF CallsHold
        <4> QED BY <2>1, <3>2, <4>1, <4>2, <4>3
      <3> QED BY <3>3, <3>4
    <2> QED BY <1>10, <2>4, <2>5, <2>7, <2>8 DEF MemInv
  <1>12. CASE left > 0
    <2>0. left # 0 /\ ~(left < 0) /\ left \in Nat
      BY <1>a, <1>12
    <2>1. regions_' = [regions_ EXCEPT ![b].committed_ = left]
      BY <1>6, <2>0
    <2>2. regions_[b] \in [initial_size_ : Multiples, committed_ : Nat]
      BY <1>0, <1>4 DEF MemTypes
    <2>3. /\ DOMAIN regions_' = DOMAIN regions_
          /\ regions_'[b] = [initial_size_ |-> regions_[b].initial_size_, committed_ |-> left]
          /\ \A r \in DOMAIN regions_ : r # b => regions_'[r] = regions_[r]
      BY <1>4, <2>1, <2>2
    <2>4. memCall' = memCall
      BY <1>0, <1>6, <2>0 DEF MemTypes
    <2>5. MemTypes'
      <3>1. regions_'[b] \in [initial_size_ : Multiples, committed_ : Nat]
        BY <2>0, <2>2, <2>3
      <3>2. \A r \in DOMAIN regions_' : regions_'[r] \in [initial_size_ : Multiples, committed_ : Nat]
        BY <1>0, <2>3, <3>1 DEF MemTypes
      <3> QED BY <1>0, <1>6, <2>4, <3>2 DEF MemTypes
    <2>6. RegionsBacked'
      <3>1. ~remapped => left = page_size * Cardinality(mapped' \cap Pages(b, blocks[b]))
        BY <1>4, <1>5, <1>8
      <3>2. left > 0
        BY <1>12
      <3>3. blocks[b] = regions_'[b].initial_size_ /\ regions_'[b].committed_ = left
        BY <1>0, <1>4, <2>3 DEF RegionsBacked
      <3> SUFFICES ASSUME NEW r \in DOMAIN regions_'
                   PROVE  /\ r \in DOMAIN blocks /\ blocks[r] = regions_'[r].initial_size_
                          /\ regions_'[r].committed_ > 0
                          /\ ~remapped => regions_'[r].committed_ = page_size * Cardinality(mapped' \cap Pages(r, blocks[r]))
        BY <1>6 DEF RegionsBacked
      <3>4. CASE r = b
        BY <3>1, <3>2, <3>3, <3>4
      <3>5. CASE r # b
        <4>1. r \in DOMAIN regions_ /\ regions_'[r] = regions_[r]
          BY <2>3, <3>5
        <4> QED BY <1>0, <1>9, <3>5, <4>1 DEF RegionsBacked
      <3> QED BY <3>4, <3>5
    <2>7. MappedInRegions' /\ CallsHold'
      BY <1>0, <1>6, <2>3, <2>4 DEF MappedInRegions, CallsHold
    <2>8. MemInv'
      BY <1>10, <2>5, <2>6, <2>7 DEF MemInv
    <2> QED BY <1>6, <1>b, <2>8
  <1> QED BY <1>6, <1>11, <1>12, <1>a, <1>b, <1>c

-----------------------------------------------------------------------------
\* However mmap, mmap at an address and munmap of the threads mix: unless a page was mapped
\* again no region is freed under a mapped page; as long as none was, a page that a caller has
\* mapped lies in a region whose block malloc still holds and the search for its address finds
\* that region; and unless a page was mapped again a region stays exactly as long as one of its
\* pages is mapped.  For any memory, page size, sizes of mappings and runs of pages unmapped.
THEOREM PagesStayBacked == MemSpec => []PagesBacked
  <1>1. MemInit => MemSafe
    <2> SUFFICES ASSUME MemInit PROVE MemSafe
      OBVIOUS
    <2>1. DOMAIN blocks = {} /\ DOMAIN regions_ = {} /\ mapped = {} /\ memCall = [t \in MemThreads |-> MemIdle] /\ dangling = {}
      BY DEF MemInit
    <2> QED BY <2>1 DEF MemSafe, MemInv, MemTypes, BlocksApart, RegionsBacked, MappedInRegions, CallsHold
  <1>2. MemSafe /\ [MemNext]_memVars => MemSafe'
    <2> SUFFICES ASSUME MemSafe, [MemNext]_memVars PROVE MemSafe'
      OBVIOUS
    <2>a. (remapped => remapped') /\ (dangling' = {} => dangling = {})
      <3>1. CASE UNCHANGED memVars
        BY <3>1 DEF memVars
      <3>2. ASSUME NEW t \in MemThreads, NEW p, NEW size, MmapAt(t, p, size) PROVE (remapped => remapped') /\ dangling' = dangling
        BY <3>2 DEF MmapAt
      <3>3. ASSUME NEW t \in MemThreads, NEW p, NEW size, Munmap(t, p, size) PROVE remapped' = remapped /\ (dangling' = {} => dangling = {})
        BY <3>3 DEF Munmap
      <3>4. ASSUME NEW t \in MemThreads, NEW size, AllocMemory(t, size) \/ Exhausted(t, size)
            PROVE  UNCHANGED <<remapped, dangling>>
        BY <3>4 DEF AllocMemory, Exhausted
      <3>5. ASSUME NEW t \in MemThreads, InsertRegion(t) \/ RegionThrows(t) \/ ReleaseBlock(t)
            PROVE  UNCHANGED <<remapped, dangling>>
        BY <3>5 DEF InsertRegion, RegionThrows, ReleaseBlock
      <3>6. CASE MemNext
        BY <3>2, <3>3, <3>4, <3>5, <3>6, Zenon DEF MemNext
      <3> QED BY <3>1, <3>6
    <2>b. SUFFICES ASSUME dangling = {}, MemInv PROVE (~remapped' => dangling' = {}) /\ (dangling' = {} => MemInv')
      BY <2>a DEF MemSafe
    <2> DEFINE Good == (~remapped' => dangling' = {}) /\ (dangling' = {} => MemInv')
    <2>0. ASSUME UNCHANGED <<blocks, regions_, mapped, memCall, remapped, dangling>> PROVE Good
      <3>1. MemTypes' /\ BlocksApart'
        BY <2>0, <2>b DEF MemInv, MemTypes, BlocksApart
      <3>2. RegionsBacked' /\ MappedInRegions'
        BY <2>0, <2>b DEF MemInv, RegionsBacked, MappedInRegions
      <3>3. CallsHold'
        BY <2>0, <2>b DEF MemInv, CallsHold
      <3> QED BY <2>0, <2>b, <3>1, <3>2, <3>3 DEF MemInv
    <2>1. ASSUME UNCHANGED memVars PROVE Good
      BY <2>0, <2>1 DEF memVars
    <2>2. ASSUME NEW t \in MemThreads, NEW size \in MmapSizes, Exhausted(t, size) PROVE Good
      <3>1. /\ memCall' = [memCall EXCEPT ![t] = MemIdle] /\ memCall[t] = MemIdle
            /\ UNCHANGED <<blocks, regions_, mapped, remapped, dangling>>
        BY <2>2 DEF Exhausted, MemStep
      <3>2. memCall' = memCall
        BY <2>b, <3>1 DEF MemInv, MemTypes
      <3> QED BY <2>0, <3>1, <3>2
    <2>3. ASSUME NEW t \in MemThreads, NEW p \in mapped, NEW n \in 1 .. MemPages, Munmap(t, p, n * page_size) PROVE Good
      BY <2>b, <2>3, MunmapKeeps
    <2>4. ASSUME NEW t \in MemThreads, NEW p \in Pages(page_size, MemPages * page_size), NEW size \in MmapSizes, MmapAt(t, p, size)
          PROVE  Good
      <3>1. dangling' = dangling
        BY <2>4 DEF MmapAt
      <3> QED BY <2>b, <2>4, <3>1, MmapAtKeeps
    <2>5. ASSUME NEW t \in MemThreads, NEW size \in MmapSizes, AllocMemory(t, size) PROVE Good
      <3>1. dangling' = dangling
        BY <2>5 DEF AllocMemory
      <3> QED BY <2>b, <2>5, <3>1, AllocKeeps
    <2>6. ASSUME NEW t \in MemThreads, InsertRegion(t) PROVE Good
      <3>1. dangling' = dangling
        BY <2>6 DEF InsertRegion
      <3> QED BY <2>b, <2>6, <3>1, InsertKeeps
    <2>7. ASSUME NEW t \in MemThreads, RegionThrows(t) PROVE Good
      <3>1. dangling' = dangling
        BY <2>7 DEF RegionThrows
      <3> QED BY <2>b, <2>7, <3>1, ThrowsKeeps
    <2>8. ASSUME NEW t \in MemThreads, ReleaseBlock(t) PROVE Good
      <3>1. dangling' = dangling
        BY <2>8 DEF ReleaseBlock
      <3> QED BY <2>b, <2>8, <3>1, ReleaseKeeps
    <2> HIDE DEF Good
    <2>9. ASSUME MemNext PROVE Good
      BY <2>2, <2>3, <2>4, <2>5, <2>6, <2>7, <2>8, <2>9, Zenon DEF MemNext
    <2>10. Good
      BY <2>1, <2>9
    <2> QED BY <2>10 DEF Good
  <1>3. MemSafe => PagesBacked
    <2> SUFFICES ASSUME dangling = {}, MemInv
                 PROVE  /\ \A a \in mapped : \E r \in DOMAIN regions_ : WithinRegion(r, a, page_size)
                        /\ \A a \in mapped : AllocAt(a, page_size) = a
                        /\ RegionsBacked
      BY DEF MemSafe, PagesBacked, RegionsBacked
    <2>1. ASSUME NEW a \in mapped
          PROVE  \E r \in DOMAIN regions_ : WithinRegion(r, a, page_size) /\ AllocAt(a, page_size) = a
      <3>1. PICK r \in DOMAIN regions_ : a \in Pages(r, blocks[r])
        BY DEF MemInv, MappedInRegions
      <3>2. r \in DOMAIN blocks /\ MemTypes /\ blocks[r] = regions_[r].initial_size_
        BY DEF MemInv, RegionsBacked
      <3>3. /\ a \in Multiples /\ r \in Multiples /\ blocks[r] \in Multiples /\ r <= a /\ a < r + blocks[r]
            /\ r \in Nat /\ blocks[r] \in Nat
        BY <3>1, <3>2, BlockPages DEF MemTypes
      <3>4. r + blocks[r] \in Multiples
        BY <3>3, MultiplesAdd
      <3>5. a + page_size <= r + blocks[r] /\ a \in Nat
        BY <3>3, <3>4, MultiplesAdd
      <3>6. WithinRegion(r, a, page_size)
        BY <3>2, <3>3, <3>5, PageSize DEF WithinRegion
      <3>7. Nearest(a) = r /\ regions_ # <<>>
        BY <3>1, NearestIs
      <3> QED BY <3>6, <3>7 DEF AllocAt
    <2> QED BY <2>1 DEF MemInv
  <1> QED BY <1>1, <1>2, <1>3, PTL DEF MemSpec
=============================================================================
