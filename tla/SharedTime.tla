------------------------------ MODULE SharedTime -----------------------------
(***************************************************************************)
(* The clock that the host shares with its enclaves.  HostSharedData keeps *)
(* a block for each enclave; a thread of its own, started with the first   *)
(* enclave and joined after the last, copies the time into the blocks.     *)
(* EnclaveSharedData reads the block without a lock and hands out times    *)
(* that only grow, whatever it read.  A thread of the host creates and     *)
(* destroys each enclave, and those threads run side by side.              *)
(***************************************************************************)
EXTENDS Integers, FiniteSets

CONSTANTS TimeEnclaves,     \* ids of the enclaves, each created once
          TimeReaders,      \* threads of each enclave that ask for the time
          ClockTimes,       \* what clock_gettime may return, in any order
          TimeReads,        \* how often each thread asks
          TimeRange         \* 2^64

ASSUME TimeAssumption ==
    ClockTimes \subseteq Nat \ {0} /\ TimeReads \in Nat /\ TimeRange \in Nat

VARIABLES
    initialised_, master_sd_,
    thread_,        \* the updating thread, "none" if there is none to join,
                    \*   or "terminate" once std::terminate was called
    shared_data_,   \* enclave -> the time in its block
    enclave,        \* enclave -> "new", "live" or "destroyed"
    freeing,        \* enclave -> where the host's call of free stands
    overlapped,     \* history: a get or a free ran while the free of the last
                    \*   enclave was still stopping the updater
    reader,         \* thread of an enclave -> where its call stands
    last_time_      \* enclave -> the last time it handed out

timeVars == <<initialised_, master_sd_, thread_, shared_data_, enclave, freeing, overlapped, reader,
              last_time_>>

Live == DOMAIN shared_data_
Readers == TimeEnclaves \X TimeReaders
ReaderIdle == [at |-> "idle", sd |-> 0, left |-> TimeReads]

-----------------------------------------------------------------------------
(* The host.                                                                *)

Stopping == \E x \in TimeEnclaves : freeing[x] # "no"

(* A thread that is not joined yet must not be replaced.                    *)
init ==
    /\ initialised_' = TRUE
    /\ thread_' = IF thread_ = "none" THEN "top" ELSE "terminate"
    /\ master_sd_' \in ClockTimes

get(e) ==
    /\ enclave[e] = "new"
    /\ enclave' = [enclave EXCEPT ![e] = "live"]
    /\ \/ ~initialised_ /\ init
       \/ initialised_ /\ UNCHANGED <<initialised_, thread_, master_sd_>>
    /\ shared_data_' = [x \in Live \cup {e} |-> IF x = e THEN 0 ELSE shared_data_[x]]
    /\ overlapped' = (overlapped \/ Stopping)
    /\ UNCHANGED <<freeing, reader, last_time_>>

(* destroyEnclave: no thread is left in the enclave.  The lock is given up  *)
(* before deinit.                                                           *)
free(e) ==
    /\ enclave[e] = "live"
    /\ \A t \in TimeReaders : reader[<<e, t>>].at = "idle"
    /\ enclave' = [enclave EXCEPT ![e] = "destroyed"]
    /\ shared_data_' = [x \in Live \ {e} |-> shared_data_[x]]
    /\ freeing' = IF Live = {e} THEN [freeing EXCEPT ![e] = "check"] ELSE freeing
    /\ overlapped' = (overlapped \/ Stopping)
    /\ UNCHANGED <<initialised_, master_sd_, thread_, reader, last_time_>>

deinit(e) ==
    /\ freeing[e] = "check"
    /\ freeing' = [freeing EXCEPT ![e] = IF initialised_ THEN "stop" ELSE "no"]
    /\ UNCHANGED <<initialised_, master_sd_, thread_, shared_data_, enclave, overlapped, reader, last_time_>>

(* The notification is lost on a thread that does not wait yet: that one    *)
(* waits until its timeout.                                                 *)
StopKeeps(e) ==                         \* mutant: the flag stays set
    /\ freeing[e] = "stop"
    /\ thread_' = IF thread_ = "waits" THEN "top" ELSE thread_
    /\ freeing' = [freeing EXCEPT ![e] = "join"]
    /\ UNCHANGED <<initialised_, master_sd_, shared_data_, enclave, overlapped, reader, last_time_>>
StopUpdater(e) ==
    /\ freeing[e] = "stop"
    /\ initialised_' = FALSE
    /\ thread_' = IF thread_ = "waits" THEN "top" ELSE thread_
    /\ freeing' = [freeing EXCEPT ![e] = "join"]
    /\ UNCHANGED <<master_sd_, shared_data_, enclave, overlapped, reader, last_time_>>

(* A thread that another call has joined already cannot be joined again.    *)
JoinUpdater(e) ==
    /\ freeing[e] = "join" /\ thread_ \in {"exited", "none"}
    /\ freeing' = [freeing EXCEPT ![e] = "no"]
    /\ thread_' = IF thread_ = "exited" THEN "none" ELSE "terminate"
    /\ UNCHANGED <<initialised_, master_sd_, shared_data_, enclave, overlapped, reader, last_time_>>

-----------------------------------------------------------------------------
(* The updating thread: it looks at the flag, then takes the lock.          *)

UpdaterLooks ==
    /\ thread_ = "top"
    /\ thread_' = IF initialised_ THEN "update" ELSE "exited"
    /\ UNCHANGED <<initialised_, master_sd_, shared_data_, enclave, freeing, overlapped, reader, last_time_>>
update ==
    /\ thread_ = "update"
    /\ \E now \in ClockTimes :
           master_sd_' = now /\ shared_data_' = [e \in Live |-> now]
    /\ thread_' = "waits"
    /\ UNCHANGED <<initialised_, enclave, freeing, overlapped, reader, last_time_>>
UpdaterTimeout ==
    /\ thread_ = "waits"
    /\ thread_' = "top"
    /\ UNCHANGED <<initialised_, master_sd_, shared_data_, enclave, freeing, overlapped, reader, last_time_>>

-----------------------------------------------------------------------------
(* real_time: the block is read, later the spinlock is taken.               *)

getSharedData(e, t) ==
    /\ enclave[e] = "live" /\ reader[<<e, t>>].at = "idle" /\ reader[<<e, t>>].left > 0
    /\ reader' = [reader EXCEPT ![<<e, t>>] =
                     [at |-> "read", sd |-> shared_data_[e], left |-> reader[<<e, t>>].left - 1]]
    /\ UNCHANGED <<initialised_, master_sd_, thread_, shared_data_, enclave, freeing, overlapped, last_time_>>

RealTimeTrusting(e, t) ==               \* mutant: the host's time is taken as it is
    /\ reader[<<e, t>>].at = "read"
    /\ last_time_' = [last_time_ EXCEPT ![e] = reader[<<e, t>>].sd]
    /\ reader' = [reader EXCEPT ![<<e, t>>].at = "idle", ![<<e, t>>].sd = 0]
    /\ UNCHANGED <<initialised_, master_sd_, thread_, shared_data_, enclave, freeing, overlapped>>
real_time(e, t) ==
    LET sd == reader[<<e, t>>].sd
    IN  /\ reader[<<e, t>>].at = "read"
        /\ last_time_' = [last_time_ EXCEPT ![e] = IF sd > @ THEN sd ELSE (@ + 1) % TimeRange]
        /\ reader' = [reader EXCEPT ![<<e, t>>].at = "idle", ![<<e, t>>].sd = 0]
        /\ UNCHANGED <<initialised_, master_sd_, thread_, shared_data_, enclave, freeing, overlapped>>

TimeInit ==
    /\ initialised_ = FALSE /\ master_sd_ = 0 /\ thread_ = "none" /\ shared_data_ = <<>>
    /\ enclave = [e \in TimeEnclaves |-> "new"] /\ freeing = [e \in TimeEnclaves |-> "no"]
    /\ overlapped = FALSE
    /\ reader = [r \in Readers |-> ReaderIdle]
    /\ last_time_ = [e \in TimeEnclaves |-> 0]

TimeNext ==
    /\ thread_ # "terminate"
    /\ \/ \E e \in TimeEnclaves : get(e) \/ free(e) \/ deinit(e) \/ StopUpdater(e) \/ JoinUpdater(e)
       \/ UpdaterLooks \/ update \/ UpdaterTimeout
       \/ \E e \in TimeEnclaves, t \in TimeReaders : getSharedData(e, t) \/ real_time(e, t)

TimeSpec == TimeInit /\ [][TimeNext]_timeVars

(* The updating thread is scheduled, its wait times out, and the calls of   *)
(* the host go on.                                                          *)
TimeFairness ==
    /\ WF_timeVars(UpdaterLooks \/ update \/ UpdaterTimeout)
    /\ \A e \in TimeEnclaves : WF_timeVars(thread_ # "terminate" /\ (deinit(e) \/ StopUpdater(e) \/ JoinUpdater(e)))

FairTimeSpec == TimeSpec /\ TimeFairness

-----------------------------------------------------------------------------
(* real_time: each call hands out a later time than the one before, by any  *)
(* thread and whatever the host's clock says.                               *)
TimesIncrease ==
    [][\A e \in TimeEnclaves :
           /\ last_time_'[e] >= last_time_[e]
           /\ \A t \in TimeReaders :
                  reader[<<e, t>>].at = "read" /\ reader'[<<e, t>>].at = "idle" => last_time_'[e] > last_time_[e]]_timeVars

(* get and free: the block of a new enclave gets a time, unless it is       *)
(* destroyed before, and the call that destroys the last enclave returns;   *)
(* but for calls that meet the stopping of the updater.                     *)
ClockServes ==
    \A e \in TimeEnclaves :
        /\ enclave[e] = "live" ~> e \notin Live \/ shared_data_[e] > 0 \/ overlapped
        /\ freeing[e] # "no" ~> freeing[e] = "no" \/ overlapped

(* get: "initialisation is performed which may include starting a thread to *)
(* keep shared data up-to-date".  The block of every new enclave gets a     *)
(* time, unless it is destroyed before.                                     *)
EveryBlockUpdated ==
    \A e \in TimeEnclaves : enclave[e] = "live" ~> e \notin Live \/ shared_data_[e] > 0
=============================================================================
