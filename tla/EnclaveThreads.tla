---------------------------- MODULE EnclaveThreads ---------------------------
(***************************************************************************)
(* Threads that enclave code creates.  EnclaveThreadFactory queues the     *)
(* task, asks the host for a thread and waits until the host answers; the  *)
(* host starts a thread, which enters the enclave and takes the first task *)
(* of the queue, whichever it is.  Entering may fail.  shutdown waits for  *)
(* the threads that run.                                                   *)
(***************************************************************************)
EXTENDS Integers, Sequences, FiniteSets

CONSTANTS Tasks             \* the tasks that are created, one thread for each

ASSUME TasksAssumption == IsFiniteSet(Tasks) /\ "none" \notin Tasks

VARIABLES
    queue_,                 \* tasks that no thread has taken yet
    state_, sgx_status_,    \* the Thread::Impl of each task
    creator,                \* task -> where create stands
    promise,                \* task -> the status that the host's thread set
    hostThread,             \* task -> the thread that the host started for it
    running_threads_, shutdown_started_,
    shutdownDone,           \* has shutdown returned?
    finished                \* tasks that ran to their end, each as often as it did

threadVars == <<queue_, state_, sgx_status_, creator, promise, hostThread, running_threads_,
                shutdown_started_, shutdownDone, finished>>

NoHostThread == [at |-> "none", runnable |-> "none"]
At(k, place) == hostThread[k].at = place
Move(k, place) == hostThread' = [hostThread EXCEPT ![k].at = place]

-----------------------------------------------------------------------------
(* create, in an enclave thread of its own.                                 *)

CreateThread(k) ==
    /\ creator[k] = "none" /\ ~shutdown_started_
    /\ queue_' = Append(queue_, k)
    /\ creator' = [creator EXCEPT ![k] = "queued"]
    /\ UNCHANGED <<state_, sgx_status_, promise, hostThread, running_threads_, shutdown_started_,
                   shutdownDone, finished>>

ocall_request_thread(k) ==
    /\ creator[k] = "queued"
    /\ creator' = [creator EXCEPT ![k] = "waiting"]
    /\ Move(k, "started")
    /\ UNCHANGED <<queue_, state_, sgx_status_, promise, running_threads_, shutdown_started_,
                   shutdownDone, finished>>

(* The status comes after the thread was let go, and may overwrite what     *)
(* run() has set since.                                                     *)
set_state_on_start(k) ==
    /\ creator[k] = "waiting" /\ promise[k] # "unset"
    /\ state_' = [state_ EXCEPT ![k] = IF promise[k] = "SGX_SUCCESS" THEN "STARTED" ELSE "COMPLETED"]
    /\ sgx_status_' = [sgx_status_ EXCEPT ![k] = promise[k]]
    /\ creator' = [creator EXCEPT ![k] = "returned"]
    /\ UNCHANGED <<queue_, promise, hostThread, running_threads_, shutdown_started_, shutdownDone,
                   finished>>

-----------------------------------------------------------------------------
(* The thread that the host started for task k.                             *)

setThreadStartStatus(k, status) ==
    promise' = IF promise[k] = "unset" THEN [promise EXCEPT ![k] = status] ELSE promise

AttachFailsSilently(k) ==               \* mutant: the error is only printed
    /\ At(k, "started")
    /\ Move(k, "ended")
    /\ UNCHANGED <<queue_, state_, sgx_status_, creator, promise, running_threads_,
                   shutdown_started_, shutdownDone, finished>>
AttachFails(k) ==                       \* ecall_attach_thread: no room in the enclave
    /\ At(k, "started")
    /\ Move(k, "ended")
    /\ setThreadStartStatus(k, "SGX_ERROR")
    /\ UNCHANGED <<queue_, state_, sgx_status_, creator, running_threads_, shutdown_started_,
                   shutdownDone, finished>>

AttachPeeks(k) ==                       \* mutant: the task stays in the queue
    /\ At(k, "started") /\ queue_ # <<>>
    /\ hostThread' = [hostThread EXCEPT ![k] = [at |-> "attached", runnable |-> Head(queue_)]]
    /\ UNCHANGED <<queue_, state_, sgx_status_, creator, promise, running_threads_,
                   shutdown_started_, shutdownDone, finished>>
attach_host_thread(k) ==
    /\ At(k, "started") /\ queue_ # <<>>
    /\ hostThread' = [hostThread EXCEPT ![k] = [at |-> "attached", runnable |-> Head(queue_)]]
    /\ queue_' = Tail(queue_)
    /\ UNCHANGED <<state_, sgx_status_, creator, promise, running_threads_, shutdown_started_,
                   shutdownDone, finished>>

ocall_complete_request_thread(k) ==
    /\ At(k, "attached")
    /\ setThreadStartStatus(k, "SGX_SUCCESS")
    /\ Move(k, "let go")
    /\ UNCHANGED <<queue_, state_, sgx_status_, creator, running_threads_, shutdown_started_,
                   shutdownDone, finished>>

RunnableCheckpoint(k) ==
    /\ At(k, "let go")
    /\ running_threads_' = running_threads_ + 1
    /\ Move(k, "counted")
    /\ UNCHANGED <<queue_, state_, sgx_status_, creator, promise, shutdown_started_, shutdownDone,
                   finished>>

RunTask(k) ==
    /\ At(k, "counted")
    /\ state_' = [state_ EXCEPT ![hostThread[k].runnable] = "STARTED"]
    /\ Move(k, "running")
    /\ UNCHANGED <<queue_, sgx_status_, creator, promise, running_threads_, shutdown_started_,
                   shutdownDone, finished>>

TaskEnds(k) ==
    /\ At(k, "running")
    /\ state_' = [state_ EXCEPT ![hostThread[k].runnable] = "COMPLETED"]
    /\ finished' = Append(finished, hostThread[k].runnable)
    /\ Move(k, "completed")
    /\ UNCHANGED <<queue_, sgx_status_, creator, promise, running_threads_, shutdown_started_,
                   shutdownDone>>

detach_thread(k) ==
    /\ At(k, "completed")
    /\ running_threads_' = running_threads_ - 1
    /\ Move(k, "ended")
    /\ UNCHANGED <<queue_, state_, sgx_status_, creator, promise, shutdown_started_, shutdownDone,
                   finished>>

-----------------------------------------------------------------------------
ShutdownThreads ==
    /\ ~shutdown_started_
    /\ shutdown_started_' = TRUE
    /\ UNCHANGED <<queue_, state_, sgx_status_, creator, promise, hostThread, running_threads_,
                   shutdownDone, finished>>
ShutdownThreadsReturns ==
    /\ shutdown_started_ /\ ~shutdownDone /\ running_threads_ = 0
    /\ shutdownDone' = TRUE
    /\ UNCHANGED <<queue_, state_, sgx_status_, creator, promise, hostThread, running_threads_,
                   shutdown_started_, finished>>

ThreadsInit ==
    /\ queue_ = <<>> /\ finished = <<>>
    /\ state_ = [k \in Tasks |-> "CREATED"]
    /\ sgx_status_ = [k \in Tasks |-> "SGX_SUCCESS"]
    /\ creator = [k \in Tasks |-> "none"]
    /\ promise = [k \in Tasks |-> "unset"]
    /\ hostThread = [k \in Tasks |-> NoHostThread]
    /\ running_threads_ = 0 /\ shutdown_started_ = FALSE /\ shutdownDone = FALSE

(* What the threads do once they are on their way.                          *)
ThreadSteps(k) ==
    \/ ocall_request_thread(k) \/ set_state_on_start(k)
    \/ AttachFails(k) \/ attach_host_thread(k) \/ ocall_complete_request_thread(k)
    \/ RunnableCheckpoint(k) \/ RunTask(k) \/ TaskEnds(k) \/ detach_thread(k)

ThreadsNext ==
    \/ \E k \in Tasks : CreateThread(k) \/ ThreadSteps(k)
    \/ ShutdownThreads \/ ShutdownThreadsReturns

ThreadsSpec == ThreadsInit /\ [][ThreadsNext]_threadVars

(* The operating system runs every thread that can run.                     *)
ThreadsFairness ==
    /\ \A k \in Tasks : WF_threadVars(ThreadSteps(k))
    /\ WF_threadVars(ShutdownThreadsReturns)

-----------------------------------------------------------------------------
Runnables(places) == {k \in Tasks : hostThread[k].at \in places}

(* attach_host_thread: a thread that enters the enclave finds a task, as it *)
(* asserts; no task is taken by two threads or runs twice, even when other  *)
(* threads failed to enter; and the count that shutdown waits on is that of *)
(* the threads inside.                                                      *)
ThreadsAccounted ==
    /\ Cardinality(Runnables({"started"})) <= Len(queue_)
    /\ \A k, j \in Runnables({"attached", "let go", "counted", "running", "completed", "ended"}) :
           k # j /\ hostThread[k].runnable = hostThread[j].runnable => hostThread[k].runnable = "none"
    /\ \A i, j \in DOMAIN finished : finished[i] = finished[j] => i = j
    /\ running_threads_ = Cardinality(Runnables({"counted", "running", "completed"}))

(* create returns, whether the host's thread entered the enclave or not,    *)
(* and shutdown returns.                                                    *)
CreatesReturn ==
    /\ \A k \in Tasks : creator[k] = "queued" ~> creator[k] = "returned"
    /\ shutdown_started_ ~> shutdownDone
=============================================================================
