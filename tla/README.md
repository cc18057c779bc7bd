# A TLA+ model of the Conclave Core SDK

The Conclave Core SDK runs Java/Kotlin code inside SGX enclaves.  A *host* loads
an enclave and talks to it through calls that may nest in both directions;
remote *clients* talk to the enclave through encrypted, authenticated *mail*
that the host, which nobody trusts, only carries.  This project models the parts
of the SDK whose correctness depends on interleavings, exceptions, crashes,
message order and the state of a disk, checks them with TLC on small instances, and proves the central
properties with TLAPS for all instances.

Paths below are relative to the repository; `host/`, `enclave/`, `common/`,
`client/` stand for `conclave-host/src/main/kotlin/com/r3/conclave/host/` and so on.

## 1. Inventory

| Component | State | Operations | Interacts with |
|---|---|---|---|
| **Call protocol** (`host/EnclaveHost.kt`, `enclave/Enclave.kt`, `common/internal/StateManager.kt`) | per thread: a call state on each side, pending mail commands; enclave: state, lock, running receives, receive context | `callEnclave`, `deliverMail`, `callUntrustedHost`, callbacks, `postMail`, commands callback, `close` | call interface below, application code above |
| **Mail** (`client/EnclaveClient.kt`, `host/internal/EnclaveHostService.kt`, mail part of `Enclave.kt`) | client: enclave key, sequence numbers, last seen state ID; enclave: session key, watermarks, last seen IDs; host: queues, stored sealed state | `sendMail`, `pollMail`, `save`, restore, receive, store, restart | the network, an untrusted host |
| **Socket call interface** (`host/internal/SocketHostEnclaveInterface.kt`, `enclave/internal/SocketEnclaveHostInterface.kt`, Gramine) | lifecycle state and its monitor, pool of contexts, a stream each way per context, workers, semaphore | `bindPort`, `start`, `executeOutgoingCall`, `close`, handler loop, `awaitTermination` | call protocol, a child process |
| **Native call interface** (`host_jni.cpp`, `ecall_context.cpp`, `substrate_jvm.cpp`, `enclave_jni.cpp`) | per thread: ECALL contexts, a pending Java exception; per enclave: the isolate, its threads and their counts | `createEnclave`, `destroyEnclave`, `jvmECall`, `jvm_ocall`, detach | call protocol, JNI, SGX |
| **Host lifecycle** (`EnclaveHost.start`, `updateAttestation`, `close`) | New/Started/Closed, registered handlers, attestation | start with its failure paths, close | enclave handle, KDS |
| **KDS keys** (`Enclave.kt` 513-601, 716-737; `EnclaveHost.kt` 847-891) | persistence key, cached private keys, host's set of seen key specs | set key, look up, request | HTTP service |
| **Enclave threads** (`enclave_thread.cpp`, `host_start_thread.cpp`) | queue of requested threads, thread states, running count | create, attach, run, shutdown | host threads |
| **Memory manager** (`memory_manager.cpp`) | regions and committed bytes | `mmap`, `munmap` | Java runtime, malloc |
| **Shared time** (`host_shared_data.cpp`, `enclave_shared_data.cpp`) | a block per enclave, the updating thread, the last time handed out | `get`, `free`, `update`, `real_time` | host clock |
| **File system: FAT driver** (`ff.cpp`, `ffunicode.cpp`) | volume on sectors, window, free count, DIR and FIL objects | `f_open` ... `f_rename`, `f_mkfs`, `f_mount` | disks below, file manager above |
| **File system: file manager** (`fatfs_file_manager.cpp`) | handles, paths, open directories | the POSIX calls | Java runtime |
| **File system: disks** (`persistent_disk.cpp`, `inmemory_disk.cpp`, `diskio.cpp`) | write buffer, sector tables, the host's file | read, write, sync | host |
| **File system: entry points** (`api.cpp`, `file_manager.cpp`, stubs) | file systems, special files, handles | routing by path and handle, set-up | Java runtime |
| **Mail format, padding, Noise, attestation, constraints** | none (pure) | encode, decode, verify | - |
| Gradle plugin, `conclave-init`, scripts, containers, Python adapter | build time | - | - |

What is hard here:

* calls nest alternately in host and enclave on one thread, each side keeps a
  *single* call state per thread, and exceptions unwind any number of levels;
* the enclave lock is held through calls out of the enclave and is re-entered;
  mail commands and sealed states leave the enclave at different moments;
* close waits for receives, sockets and workers that others hold;
* the host may crash between any two steps, and may also cheat: deliver mail
  twice, restore an old sealed state, answer with old mail;
* sequence numbers, keys and state IDs are kept in three places (client, saved
  client, enclave) that restart independently;
* a file call writes several sectors, each through a window, a file buffer and the disk's own
  buffer, and the enclave may die, or the host refuse, between any two;
* threads, memory and time of the enclave are served by host threads that start, fail and
  stop at moments of their own.

`PROJECT.json` lists every such hazard at its line, with the properties that
would catch it, or why none does yet.

## 2. Plan

1. `EnclaveCalls`: the call protocol. *Done; every invariant its runs check is proved.*
2. `ClientMail`: mail end to end. *Done; every property its runs check is proved.*
3. `NestedCalls`, `SocketCalls`: what a call interface promises, and the socket
   implementation of it. *Done; the invariants and the refinement are proved.*
4. `FatVolume`, `FileManager`: the file system down to sectors, with a tree of files as the
   reference. *Done, model-checked.*  `FatDisk`, `FatGeometry`, `FatNames`: what `FatVolume`
   takes as given. *Done; `FatDisk`, `FatGeometry` and the storage of long names are proved.*
5. `FileApi`, `MemoryManager`, `EnclaveThreads`, `SharedTime`, `NativeCalls`: the C++
   runtime. *Done; the invariants and the action properties are proved.*

What is left to TLC: the operators of `FatVolume` and `FileManager` recurse over chains and
directories, so nothing is proved about them; and of `FatNames` the short names and the way from the units
of a name back to its bytes (`NamesKept`).

## 3. The modules

### EnclaveCalls (`EnclaveHost.kt` 702-726, 757-938; `Enclave.kt` 606-621, 633-927, 952-1012)

A host thread runs on both sides of the boundary, so the model gives it one
`stack` of activations.  `hostCall[t]` and `enclaveCall[t]` are the two
`StateManager`s of that thread; `lock`/`holds` is the enclave's `ReentrantLock`;
`mailCommands[t]` is `Transaction.mailCommands`; `batches` records every list
handed to the commands callback.  Application code (the host's and the enclave's
callbacks, `receiveMail`, `receiveFromUntrustedHost`) may at any time call the other
side, post mail, return, throw, or catch what was thrown.

| Actions | Code |
|---|---|
| `CallIntoEnclave`, `CallIntoEnclaveReturns`, `CommandsReturn` | `callIntoEnclave` up to the call; its `finally` and the firing of commands; the end of the callback |
| `EnterEnclave`, `RejectReceive`, `BeginReceive`, `ReceiveReturns`, `ExitReceive` | `handleCall`/`onMail`, `checkOrdering`, `executeReceive` with its lock, `sendSealedState`, quiescence signal |
| `CallUntrustedHost`, `HostCallbackReturns`, `CallUntrustedHostReturns`, `EnclaveCallbackReturns` | the nested directions |
| `CreateMail`, `PostMail` | `getMailPrivateHeader`, `postMail` |
| `Fail`, `Catch` | application code throws; application code swallows |
| `Close`, `StopEnclave`, `StopAwakes`, `ShutdownReturns`, `Destroy` | `EnclaveHost.close` and `StopCallHandler` |

Steps that touch only one thread's own state are merged with its next step that
touches shared state.  `ASSUME ConfigAssumption` repeats the check of
`StartCallHandler`: no persistent map in a multi-threaded enclave.

### ClientMail (`EnclaveClient.kt`, `EnclaveHostService.kt`, `Enclave.kt` 387-453, 688-836, 967-1003)

The enclave has the persistent map and hence roll back detection.  Random keys
and IDs become numbers: `epoch` numbers session keys by restart, state IDs are
numbered by the receives that create them.  A mail is its recipient, the key
that sent it and the two IDs of its private header; encryption is ideal, so a
mail of another session simply cannot be read.  `memory` is what gets sealed: the last
seen IDs, and the set of receives whose effects the map contains, which is how the
model knows what a rolled-back state has forgotten (`lineages`).  A receive is one step because
`Enclave.lock` is held from the sequence check until the host has processed the
commands; the host's processing of them (`ProcessPostMail` for each mail, then
`DeliverMailReturns`, which stores the state) takes several steps, between which
clients poll and the host may crash (`Restart`).  `leaked[h]` are the commands a
failed receive leaves on a host thread (section 6).  `losses[c]` counts the times client `c`
missed mail or was restored from an old save: the events that justify an alarm.

`Honest = FALSE` adds what an untrusted host can do: restore any sealed state it
ever had, deliver any request any number of times, answer a client with any mail
it has for it, report decryption failures at will.

### NestedCalls and SocketCalls

`NestedCalls` says what the layers above rely on: the calls in progress on a host
thread are one stack on which host and enclave take turns; a handler runs once
and its outcome goes to the side that called.  `SocketCalls` is the Gramine
implementation: `state` and `monitor` (`stateManager`), the `pool` of contexts
(`ArrayBlockingQueue`), `active` (`activeCalls`), the two streams of each context,
the workers' own stacks and the semaphore.  `pc[t]` tells where a thread is inside the
interface (`check`, `take`, `drain`, ...); the check of the state and the taking of
a context are separate steps, as in the code.  `Die` lets the process end at the
stages in `DiesWhen`, with or without what it had already sent.  A write to a
dead process is modelled as lost, and the failure as the failing read that follows.

The refinement mapping takes the longer of a context's two stacks as the
thread's stack (the message on its way has yet to reach, or to leave, the other
one) and an answer on its way as the outcome.

Left out: the forced kill ten seconds after `close` (`GramineEnclaveHandle.destroy`),
so that `EnclaveExits` says the process ends by itself; the death of the host; `close`
called from inside a handler, which waits for the caller's own context.

### FatVolume and FileManager

`FatVolume` is the FAT driver.  The volume and the mounted `FATFS` object are one record `v`;
each function of `ff.cpp` is an operator from `v` to `v` that leaves its `FRESULT` in `v.res`.  So
the operators compose in the order of the code, early returns included (`AndThen` goes on only
after `OK`), and the state in between is never lost: the sector window with its dirty flag, the free
count, the FSInfo flag, the directory position, the sector buffer of a file.  `v.budget` is the
number of sectors that the disk still accepts; when it is used up every write fails, which is
how a crash or a refusing host cuts a call after any sector.  Sectors hold FAT entries, directory
entries or bytes; a sector read as something it is not gives `Junk`.  Long names occupy
several entries with a checksum of the short one, as in the code.  A cluster is `CSize` sectors: transfers of
whole sectors are clipped at its end (`csect`, `WholeSectors`), a directory moves to the next cluster only after its
last sector, and clearing a new directory cluster takes `CSize` writes.  An entry of a FAT12 table is one and a half
bytes: `FatPlaces` names the two bytes and which digits of the entry each holds, `get_fat` and `put_fat` move the window
to one after the other, and where they lie in two sectors a crash in between leaves half of the entry.  `NibbleRange` is 16 scaled down.  `FSizeRange` is 2^32: a write is clipped below it and
the position wraps.  `v.half` is a directory cluster that is linked but not yet cleared.

`FileManager` is `FatFsFileManager`: `files_`, `file_paths_`, `inverse_file_paths_`,
`next_handle_`, `dir_paths_` and `dirents_` keep their names.  A call is one step because it
holds `file_mutex_` throughout.  Beside this state the module keeps what a client may expect:
`tree`, a plain map from paths to contents; `want[h]`, the bytes handle `h` must read; `kept`, what a
restart must not lose; `torn`, the files of interrupted renames and unsaved truncations, about which
the driver promises nothing.  `Lseek` takes the three kinds of `whence` and converts the offset to `FSIZE_t`.
`Restart` mounts the disk anew after its first read has destroyed one sector, as `disk_restart` shows it does; files
and directories with something in that sector are lost, everything else must survive.  `TreeOf` reads a disk image without the driver, and the properties
compare the two.  The client follows the driver's own rule (`ffconf.hpp`,
`FF_FS_LOCK`): objects that are open are not removed, renamed, truncated or opened for writing.

### FatDisk, FatGeometry, FatNames

`FatDisk`: `PersistentDisk` (encryption as the pair of IV and data, the shuffle of sectors, the one-sector
write buffer that a read flushes first) and `InMemoryDisk`, behind `diskio.cpp`; host calls may fail
or throw.  An index past the end of the first shuffle table reads `PastTable`, whatever lies there; `RamSpan` is the number of
sectors that a 32-bit offset reaches, at which reads (not writes) of the disk in memory wrap.  `FatGeometry`: `f_mkfs` with its trial and error for cluster size and FAT type, the writes in their
order with a fault at each, then `mount_volume`, which derives the same numbers from the boot record.
`FatNames`: a name from code points to UTF-16 and to code page 437, its numbered short form, the entries,
the search, and the way back to UTF-8, in buffers of `FF_LFN_BUF` and `FF_SFN_BUF` bytes (a short name that
does not fit is listed as `?`).

### FileApi, MemoryManager, EnclaveThreads, SharedTime, NativeCalls

`FileApi`: the set-up of the file systems from the size of the host's file, and for each POSIX
function the layer that gets the call.  `MemoryManager`: threads map, at any address or at one of their own, and unmap any run
of pages; the block is taken before, and given back after, the lock.  `remapped` and `dangling` record that an unmapped page
was mapped again and that a block was freed under a mapped page.  `EnclaveThreads`: a task is queued, the host starts a thread, which
attaches or fails to, takes the *first* task, lets the creator go, and runs.  `SharedTime`: the updating
thread, the block of each enclave, and the clock inside that never goes back; each enclave is created and destroyed by a
host thread of its own, and `free` gives up the lock before it looks at `initialised_`, stops and joins the updater
(`deinit`, `StopUpdater`, `JoinUpdater`).  Replacing or joining a thread wrongly ends in `std::terminate`.
`NativeCalls`: the context stack of each host thread, the attachment of threads to isolates, exceptions that
stay pending in the host.  `destroyEnclave` runs when no other thread is inside the enclave, which
`ShutdownQuiescent` of `EnclaveCalls` gives.

## 4. Runs

Bounds are calls ("fuel"), messages, restarts: all behaviours *within* them are explored.

| Run | Instance | Shows |
|---|---|---|
| `calls_persistent` (718k states) | 2 threads, persistent map, one thread can nest four deep | `TypeOK`; `CallStatesConsistent`, `ResponseReachesItsCall`: after any unwinding both call states fit the stack; `ReceivesExclusive`, `LockAccounting`; `SealedStatesInOrder`: states are handed over in the order of the receives; `MailTravelsWithItsState` |
| `calls_threadsafe` (90k) | 2 threads, thread safe, fairness | `ShutdownQuiescent`: `onShutdown` runs when no receive is executing; `CallsReturn`: every call and every close ends |
| `mail_replies` (899k) | 2 clients, honest host, lossy network, one restart of the enclave and one of a client | `AlarmsJustified`, `StateStoredBeforeSeen`, `AtMostOnce` |
| `mail_untrusted` (814k) | 1 client, 2 host threads, untrusted host, mail from host calls, failing receives, time-outs | `NoReplay`, `RollbackDetected` |
| `mail_in_step` (77k) | 3 messages, 2 restarts, failing receives, no loss | `NeverAhead` |
| `socket_nested` (87k) | 3 threads, 2 contexts, re-entry, close, death at any stage | `StacksAgree`, `ContextsAccounted` (with the types), and the refinement `ImplementsNestedCalls` |
| `socket_return` (123k) | 3 threads, 2 contexts, re-entry, death while serving, fairness | `CallsReturn`, `StartReturns` |
| `socket_close` (13k) | no re-entry of host handlers, fairness | `CloseReturns`, `EnclaveExits` |
| `files` (97k) | a volume of 6 clusters of two sectors, FAT12, FAT16 and FAT32, five scenarios | `ReadsSeeWrites`, `AnswersTrue`, `TreeAgrees`, `Durable`, `VolumeSound` |
| `native` (136k) | the other C++ components, one at a time, fairness | `DiskReadsWritten`, `SectorsApart`, `FormatMounts`, `NamesKept`, `LongNamesStored`, `CallsRouted`, `FormattedOnce`, `PagesBacked`, `ThreadsAccounted`, `CreatesReturn`, `CallsInContext`, `TimesIncrease`, `ClockServes` |
| `files_reopen` | two readers beside a writer | violates `ReadsSeeWrites` (section 6) |
| `disk_restart` | the persistent disk with one restart | violates `DiskReadsWritten` (section 6) |

Ten more configurations are kept for the cases that the passing runs leave out.  TLC ends each with a counterexample, which
section 6 describes:

| Configuration | Module | Violates |
|---|---|---|
| `FatDiskUneven.cfg` (9 sectors, tables that reach 8), `FatDiskLarge.cfg` (a disk in memory beyond `RamSpan`) | `MCFatDisk` | `DiskReadsWritten` |
| `MemoryRemap.cfg` | `MemoryManager` | `FreedWhenUnmapped` |
| `SharedTimeRace.cfg` | `SharedTime` | `EveryBlockUpdated` |
| `ClientMailOvertaken.cfg` | `MCClientMail` | `AlarmsJustified` |
| `ClientMailUnstored.cfg` | `MCClientMail` | `StateStoredBeforeSeen` |
| `SocketCallsCloseReentered.cfg` | `MCSocketCalls` | `CloseReturns` |
| `SocketCallsCloseRace.cfg` | `MCSocketCalls` | `CallsReturn` |
| `SocketCallsStartDies.cfg` | `MCSocketCalls` | `StartReturns` |
| `EnclaveCallsCloseInside.cfg` | `MCEnclaveCalls` | `ShutdownQuiescent` |

Why the bounds are enough for the cases of interest.  *Calls*: the states of two
levels interact only with their neighbours; four nested calls give each side a
call inside a call of its own, and a second thread competes for the lock.
*Mail*: a roll back needs two receives and one restart, a wrong alarm two mails, a
repeated message one retry; `MaxRetryAttempts` is 2 instead of 10, enough for
both a retry that succeeds and one that gives up.  *Sockets*: three threads and two contexts
make one wait for the pool; two calls of each thread and of each worker nest as host,
enclave, host, enclave, so that a context is re-entered and its inner return differs from the outermost one.
*Files*: a behaviour takes one scenario, a short sequence of calls after a set-up.  `Contents`: four calls on two files
through two handles, with lengths on and between the bounds of sectors and clusters, seeks of every kind, negative ones
among them, that wrap at `FSizeRange` = 16, on a volume that the larger writes and seeks fill; `Names`: three calls in directories that must grow, with two names that share a short form;
`Lookups`: paths by `access` and `utimes`; `Listings`: a directory changes while it is read; `Crashes`, on FAT12 and FAT32: the disk
stops after any of the first nine sector writes, then a restart that destroys no sector, or one of the root directory, of a
directory or of a file.  Sectors hold two bytes or
two directory entries, and clusters two sectors, so that files and directories of a few elements already span several clusters, a transfer
crosses the end of a cluster, and the free cluster search wraps; a FAT sector holds four entries, or eight bytes of FAT12, so
that one entry lies across two sectors.  *Native*: `MCNative` chooses a component and lets the others rest, since they share no
variables.  Drive sizes lie at, below and above every bound of `f_mkfs`; names are all of length one and two, and some
longer, over letters with and without case and accent, dots, spaces and a character outside the basic
plane; the name buffers are scaled down to a few characters.
What a bound still cuts off is covered by the theorems where there is one.

Deadlock is checked except in `socket_nested` and `socket_close`, where the code really can hang
(section 6) and TLC would stop at that known state, and in the runs of the C++ modules, whose bounded calls
come to an end.  Where deadlock is checked, `Idle` lets a system in which no call is in
progress stay as it is.

## 5. Fairness

`EnclaveCalls`: weak fairness of every thread's steps once it is inside a call,
which is what the JVM scheduler and application code that terminates give;
nobody is obliged to start a call, to throw or to close.  The lock needs no strong fairness in
the instances because each thread's calls are bounded.
`SocketCalls`: weak fairness of the host threads inside the interface, of each
worker and of the enclave's main thread; no fairness of `Initialise`,
`ExecuteOutgoingCall`, `Close` or `Die`.  The pool is a FIFO queue and the
threads' calls are bounded.  `ClientMail` has no liveness property: a host may always refuse service.
`EnclaveThreads`: weak fairness of the creating and of the host's threads, which the operating
system schedules, of tasks that end, and of the waiting `shutdown`; nobody must create a thread or shut down.
`SharedTime`: weak fairness of the updating thread, whose wait has a timeout, and of the host call that
has begun to stop it.  The file system and the other C++ modules have safety properties only.

## 6. Disagreements between code and documentation

The first two are runs that TLC ends with a counterexample, and `PROJECT.json` quotes the texts; the others are the
configurations of section 4.

* `files_reopen`: opening a file saves the handle that was opened *last*, not the one that writes; a
  third handle reads old bytes.
* `disk_restart`: the first read of the persistent disk in a new enclave flushes an empty buffer to
  physical sector 0.
* `FatDiskUneven.cfg`: `mapSectorId` (`persistent_disk.cpp` 137) reads past its first table for the last sectors of a disk whose
  number of sectors is no multiple of that table's size; 1 GiB is such a size (tables of 1536 and 1365, which reach 2096640 of
  2097152 sectors).  The size is limited only by "Fat32 max size, which is 2T" (`api.cpp` 30).
* `FatDiskLarge.cfg`: `InMemoryDisk::diskRead` computes the offset in 32 bits, `diskWrite` in 64 (`inmemory_disk.cpp` 21, 37);
  beyond 4 GiB a read returns another sector.
* `MemoryRemap.cfg`: `mmap` at an address inside a region commits nothing (`memory_manager.cpp` 132); once an unmapped page was
  mapped again, the next `munmap` frees the block under a mapped page ("we leave it allocated until the entire region is
  freed", 66).
* `SharedTimeRace.cfg`: an enclave created between lines 64 and 66 of `host_shared_data.cpp` keeps a block that nobody updates
  (`get`: "initialisation is performed which may include starting a thread to keep shared data up-to-date",
  `host_shared_data.h` 29).
* `ClientMailOvertaken.cfg`: with an honest host a synchronous reply overtakes mail that waits to be
  polled, and the client reports a roll back (`EnclaveClient.kt` 285, 491).
* `ClientMailUnstored.cfg`: mail can be polled before the
  sealed state at the end of the same command list is stored (`EnclaveHostService.kt` 42).
* `SocketCallsCloseReentered.cfg`: `close()` holds the monitor that a running nested call needs
  (`SocketHostEnclaveInterface.kt` 119, 131).
* `SocketCallsCloseRace.cfg`: a call that passed the check just
  before `close()` drained the pool waits in `take()` forever
  (`SocketHostEnclaveInterface.kt` 247, "Prevent new calls from entering the interface", 123).
* `SocketCallsStartDies.cfg`: `start()` joins a thread that waits in
  `accept()` for a dead process (`SocketHostEnclaveInterface.kt` 96, "Check the enclave
  subprocess periodically to ensure that it's still alive", 75).
* `EnclaveCallsCloseInside.cfg`: closing from a callback passes
  the re-entrant lock and runs `onShutdown` in the middle of a receive ("Wait until all
  receive calls being processed have completed", `Enclave.kt` 610).

The passing runs of the same properties leave these cases out by their constants, each named in its cfg (`MaxReboots`,
`CallSectors`, `AsyncMail`, `HostReenters`, `Closing`, `DiesWhen`, `CloseInCallback`) or by a history variable in the property
(`remapped`, `overlapped`).

Three more bound what the properties may say:

* Without the persistent map two threads can be in the commands callback at once, which is documented as "serially,
  never concurrently" (`EnclaveHost.kt` 393, 931).
* Mail posted by a receive that then throws is delivered by the next call of the same thread
  (`EnclaveHost.kt` 932); posting is documented as transactional (`Enclave.kt` 1134).  `MailTravelsWithItsState`
  therefore exempts the receives in `failed`.
* A request that is lost leaves the client one sequence number ahead for the rest of the session (`EnclaveClient.kt` 296);
  `NeverAhead` is therefore about networks that lose none.

What the C++ code does that its callers may not expect, found while modelling it; the properties are
stated so as to leave these cases out, and each is visible in the module named:

* `FileManager`: `lseek` returns 0 instead of the new offset, `write` to an unknown handle returns 1 and
  `close` of one 0; `closedir` refuses a directory that was never read from; `fstat` looks the file up by the path it was
  opened with; paths are compared as spelled, so that `rename` can move an open file that was opened by another
  spelling; after two opens and one close the path is forgotten.  `dup2` locks `file_mutex_` twice.
* `FileApi`: `fsync` and `fdatasync` return 0 without saving anything; a `FILE` from `fopen` can neither be
  read nor closed.
* `FatVolume`: a directory cluster is linked before it is cleared, so a crash there leaves entries of whatever
  the cluster held (`v.half`); a rename cut short leaves both names or none.
  A FAT12 entry that lies across two sectors is written in two moves.  When the end of a chain is replaced by a link and
  only the first is written, the entry reads as 0xF00 (3840) or more: still an end of chain as long as `n_fatent` is at most
  3840, which `VolumeAssumption` asks for; FAT12 volumes of up to 4085 clusters (`MAX_FAT12`) can get a wrong link there.  A
  truncation cut in half can leave one on any volume; its file is in `torn`.
  A seek before the start of a file becomes one to nearly 4 GiB and, for a handle that writes, extends the file.
* `FatNames`: a small e with acute accent becomes E in the short name without being marked as lost, so `é` and `E` name the
  same file; names longer than `FF_LFN_BUF` bytes are listed by their short form, or as `?` if that is longer than `FF_SFN_BUF` bytes in UTF-8.  `put_lfn` fills entries with
  U+FFFF and takes one in a name for the filler, losing what follows it in the entry; `NamesAssumption` leaves that character out.
* `FatDisk`: a host call that throws counts as a write that worked; the last sector of `InMemoryDisk` is out of reach.
* `FileManager`: the sector that a restart destroys may also be one of the FAT, the FSInfo or the boot sector, depending on the key;
  then the volume does not mount or its files cannot be followed, and `Durable` has nothing to say.  The
  scenarios destroy sectors of directories and of files.
* `EnclaveThreads`: a state of `COMPLETED` can be overwritten by `STARTED`, after which `join` waits forever;
  `shutdown` does not wait for threads that have not attached.
* `SharedTime`: the block of a new enclave is zero until the next update; calls that meet the stopping of the updater can also
  end in `std::terminate`, because the thread is replaced before, or joined after, it was joined.

## 7. Proofs

For every value of the constants that satisfies the modules' `ASSUME`s.

**`EnclaveCallsProofs`** (from `ConfigAssumption`).
`TypeCorrect`: `TypeOK` is inductive; one lemma per group of actions.
`LockAccounted` and `MutualExclusion`: the lock is released in `finally` blocks by a
thread that may hold it several times, so "the owner is the only thread in a
receive" is not inductive by itself.  The strengthening says that the hold count is
the number of stack entries of the owner that hold the lock, and that no
other thread has such an entry.  An action pushes, pops or changes the top
activation only, so each case reduces to the cardinality of that set of positions.

**`ClientMailProofs`** (from `MailConfigAssumption`).
`MailTypeCorrect`: `MailTypeOK` is inductive, with the untrusted host included (no run needs to check it).
`RollbackIsDetected`: `LineageInv` says that every sealed state, and the running one,
names as last seen only IDs of receives whose effects it contains, that every mail the enclave posted
has a previous ID in the lineage of its own ID, and that host and clients hold
only such mail.  A client accepts an ID silently only if the previous ID is the
one it last saw, which is then in the lineage: the host can choose among sealed states
and mails but cannot make a new one.
`MailIsNotReplayed`: every received request has a key of this epoch and a sequence number not above
the watermark, or a key of an earlier epoch (`ReplayInv`); a request is received only with the
current key and above the watermark.

**`CallStatesProofs`** (from `ConfigAssumption`).
`CallStatesAlwaysConsistent`, `ResponsesReachTheirCalls`: each side keeps one call state per thread while the calls
nest, so a state must fit not only the top activation but all below it once it is restored.
`CallStatesInv` says for each activation which kind lies under it and which state it saved
(`FrameInPlace`, `WellNested`), and which state each side has now as a function of its topmost activation
(`HostSide`, `EnclaveSide`).  A step pushes, pops or changes the top; the part below is untouched.
`ShutdownIsQuiescent`: `ShutdownInv` says that a thread-safe enclave counts exactly the receives on all stacks
(`ReceivesCounted`), that the enclave is closed from the stop handler on (`ClosedOnceStopped`), and that no
receive is left once `onShutdown` runs (`QuietOnceShut`).  It has the hypothesis `~CloseInCallback`, without which it is false (section 6).
`SealedStatesStayInOrder`, `MailStaysWithItsState`: `MailInv` says that at most one receive runs its method and owns the
context, whose number is below the next (`ContextNumbered`, `ContextOwned`), that a command which
waits on a thread was posted by that receive or by one that failed (`CommandsWait`), and that in the lists handed over a sealed
state comes last, after the mail of its receive (`BatchesInv`).

**`MailDeliveryProofs`** (from `MailConfigAssumption`; the properties themselves speak of an honest host).
`MessagesReceivedOnce`: `OneCopyInv`: requests are told apart by the number of their message, and one that was refused,
and so may be sent again, has no copy that was received.  `ClientsNeverAhead`: `InStepInv` says that a
client that waits for no answer, and its save, are at most one number ahead of the watermark of the session, and what the
request that is being sent adds to that.
`StatesStoredBeforeSeen` and `AlarmsAreJustified`: `RepliesInv` says that the reply of the receive in progress leads
from the stored state to the one in memory, that what a client has seen or is about to see is stored, and that the losses of a client cover the alarms
it has raised and the one it is bound to raise next.  Both have the hypotheses `~AsyncMail` and
`~Failing`, the setting of `mail_replies`: they are about enclaves whose receives answer their sender and succeed.  Mail that waits
to be polled, or that a failed receive left behind, reaches the
client before its state is stored or out of order; `ClientMailUnstored.cfg` and `ClientMailOvertaken.cfg` show that without the hypotheses both are false.

**`SocketCallsProofs`** (from `SocketConfigAssumption`).
`SocketInvariant`: `SocketInv` has the types, the owner of the monitor (`MonitorOwned`), the connection that start() reads first
(`HelloFirst`), the one place of every context: unconnected, waiting, in the pool, with one thread, or closed (`Places`), the
count of ended workers (`Stopping`), the bounds (`FuelBounded`), and the heart of it, `CallsInStep`: the two ends of a context hold the same calls but for the one
whose message is in one of the two streams, and at most one of the streams holds a message.
`StacksStayInStep` and `ContextsStayAccounted` follow.  `SocketsImplementNestedCalls`: with the mapping of section 3 each
action of `SocketCalls` is one action of `NestedCalls` (`CallStack` and `Outcome` change together) or leaves the mapped
variables alone; the invariant is what tells which stack is the longer one.

**`NativeProofs`**.
`ThreadsStayAccounted` (from `TasksAssumption`): `ThreadsInv` says that a task is in the queue, with one thread
or done, and that the queue is as long as there are threads requested that have taken no task, so that
none of them finds it empty.
`CallsStayInContext`: `NativeInv` says that the ecalls of a thread are the odd places of its frames, in the order of its
context stack, each but the last followed by its ocall, and that each isolate counts a thread once for every call inside it.
`TimesAlwaysIncrease`: `TimeInv` bounds the last time by the largest of the host's clock plus the calls that
have returned, so that the counter does not wrap.  The hypothesis says that 64 bits are not
used up: the largest time of the host's clock plus the number of calls stays in range.
`PagesStayBacked` (from `MemoryAssumption`, for `mmap` with and without an address and `munmap` of any run of pages of a
mapping): `MemInv` says that blocks start at and measure multiples of the page size, that they
do not overlap (`BlocksApart`), that every region is a whole block and counts its mapped pages (`RegionsBacked`), that
mapped pages lie in regions (`MappedInRegions`), and that a block which a call has taken before, or will give back after, the
lock has no region and is in no other call's hands (`CallsHold`).  Since blocks lie apart, the nearest region
below an address is the only one that can contain it, which is what the search of `munmap` relies on.  Mapping a page again
breaks the count, not the rest: until a block is freed under a mapped page (`dangling`) the places are right, and that
happens only after an unmapped page was mapped again (`remapped`), which `MemoryRemap.cfg` shows it can.

**`FileSystemProofs`** (from `DiskAssumption`: positive sizes, and shuffles that are
permutations of the tables; and from `ApiAssumption`: the special files that can be opened have handles below those of the file systems).
`SectorsStayApart`: a place is a quotient and a remainder, each moved by a permutation, so that two sectors
with one place are the same (`PlacesApart`).  It says so of the sectors that the tables reach, on a disk of any size; restarts and every failure of the host are included.
`DiskReadsStayTrue`: what the host's file holds for a sector is one of the values that the sector may have, and
*so is what the write buffer holds for it* (`PersistentKept`).  The second half is needed because a read flushes the buffer
first: a write that failed takes effect at the next read, unless another write replaces the buffer.  Its hypotheses are
that no host call throws, which the code takes for success (section 6), and `CallsReach`, that calls keep to the sectors which the
tables reach and to the first 4 GiB of the disk in memory; `FatDiskUneven.cfg` and `FatDiskLarge.cfg` show that it fails beyond, and restarts are
left out because `disk_restart` shows that it fails there.
`CallsStayRouted`: a call is routed by comparing a handle with ranges, so the ranges must stay apart.  `ApiInv` says which
file systems exist at each stage of the start and where their handles end (`Mounted`), that special files have
the lowest handles, file systems come next and sockets last (`HandlesInUse`), and in which of them each open handle lies
(`OpenedAt`).  That the special files stay below rests on the assumption: `next_handle_` only counts up, so an enclave that
opens them often enough would run into the first file system.
`NeverFormattedTwice`: no step but `setupPersistent` and `FormatEnds` writes the state of the host's file, and
`getInitializationType` asks for a format only if the host says that there is no file.  A host that lies
about the size is outside the model.
`LongNamesStayStored` (from `NamesAssumption`): `NamesInv` says that a file created under a long name has the entries of
that name.  Place `p` of the name is place `(p - 1) % 13` of entry `(p - 1) \div 13` (`Placed`, for any number instead of 13),
so `pick_lfn` stops at the terminator or, for a name that fills its entries, at their end; and two names of different lengths
in as many entries differ where the shorter one has its terminator, which is the upper case of no unit.  That create_name's
long name consists of such units is shown character by character (`CharRead`, through UTF-8 and back) and then for the joined
sequence by the least place at which it could fail (`FlattenTyped`).

**`FatGeometryProofs`** (from `GeometryAssumption`: sector numbers have 32 bits).
`FormattedVolumesMount` rests on three facts.  *Every volume of at least 128 sectors gets a shape* (`ShapeFound`): there are
fourteen ranges of sizes, from one where the loop of `f_mkfs` decides the same to the next; in eight it ends after one pass, in
three it doubles a cluster because FAT16 would have too few of them, in one because it would have too many, and in
two it turns to FAT32.  *A shape that passed the tests of `f_mkfs` passes those of `mount_volume`* (`FittingMounts`), whatever the
size: the FAT was sized for the estimate of the clusters, which is never below their final number, and no field of the
boot record is cut.  *The partition table is written last* (`LandedAreas`): `GeometryInv` says that after an
error or a crash the first sector is unwritten, and that after a success every area that mounting reads is what `f_mkfs`
put there, but for an FSInfo sector whose failed write `f_mkfs` does not look at.

**Only model-checked.**  The invariants of `FileManager` and `FatVolume`, `NamesKept` of `FatNames`, and
every liveness property: fairness and `ENABLED` are outside what TLAPS 1.4.5 can
reason about, as are inductions over data and `RECURSIVE` operators.  `FatVolume` and `FileManager` follow
chains and directories by recursion, so nothing is proved about them.

## 8. Not modelled

*Kotlin.*  KDS keyed mail (it skips the sequence check), several topics per client (each has
its own independent counter), `EnclaveClient.close`, min-size policies, the
attestation checks, the start of the host and its failures, the frame stacks of the native interface, the
contents of messages and of the persistent map.  Cryptography is taken as ideal.

*C++.*  `fopen` and `dup2` of the file manager (section 6), time stamps of files (the code stores none),
the waits of `Thread::start` and `join`, a constructor of `std::thread` that fails in `ocall_request_thread`, the table of pthread attributes (a lock around an array), `MemoryManager::clear`.
Quotes, reports, sealing (`host_jni.cpp`, `enclave_jni.cpp`, `dcap.cpp`), CPU features and error texts
(`sgx_cap.cpp`, `cpu_info.cpp`, `sgx_errors.cpp`), the console, and the stubs that return a constant only
pass data through: they keep no state and make no choice that a property could be about.

*How much of the source the map covers.*  Under `ffconf.hpp` (no exFAT, no string functions, code page 437)
2351 lines of the 6982 of `ff.cpp` are compiled, and 147 of the 15593 of `ffunicode.cpp`, the rest being other
configurations and the tables of other code pages (so exFAT is out; FAT12, FAT16 and FAT32 are in).  Of these lines the map covers about 2030 and 147; of the file
manager, the entry points, the disks, the memory manager and the shared clock it covers most.  Since two thirds of the lines under
`cpp/` are tables and code that no build of the SDK contains, the share of all lines remains below a quarter however much
is modelled; the map is not stretched over lines that the modules do not describe.

Build tools, scripts and other vendored code keep no state while an enclave runs.
