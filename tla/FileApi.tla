------------------------------- MODULE FileApi -------------------------------
(***************************************************************************)
(* The POSIX file functions that the enclave's Java runtime is linked to.  *)
(* A call is answered by the FileManager of the special files, or by the   *)
(* file system that owns the handle or the path.  setupFileSystems makes   *)
(* the file systems; whether the persistent one is formatted or opened is  *)
(* decided by the size of the host's file.  The file systems themselves    *)
(* are the subject of module FileManager.                                  *)
(***************************************************************************)
EXTENDS Integers, Sequences, FiniteSets, SequencesExt

CONSTANTS kMaxNumFiles,     \* handles of each file system
          FirstFsHandle,    \* the first value of currentFirstAvailableHandle
          FirstDevHandle,   \* the first value of next_handle_
          ApiPaths,         \* paths that are used, as sequences of names
          MountTmp,         \* the mount point /tmp/
          ApiCalls,         \* how many calls are made
          ApiStarts         \* how often the enclave is started

VARIABLES
    filesystems,    \* in their order: the mount point and the handles
    currentFirstAvailableHandle, currentDummyHandle, dummyHandles,
    devices,        \* files_ of the special files: handle -> what it is
    next_handle_,
    fsHandles,      \* handles that are in use in the file systems
    opened,         \* handle -> who it was opened at, until the caller closes it
    apiState,       \* "down", "starting", "up" or "failed"
    hostDisk,       \* the host's file: "absent", "partial" or "formatted"
    apiCalls, apiStarts

apiVars == <<filesystems, currentFirstAvailableHandle, currentDummyHandle, dummyHandles, devices,
             next_handle_, fsHandles, opened, apiState, hostDisk, apiCalls, apiStarts>>

ASSUME ApiAssumption ==
    /\ {kMaxNumFiles, FirstFsHandle, FirstDevHandle, ApiCalls} \subseteq Nat /\ FirstDevHandle > 2
    /\ FirstDevHandle + ApiCalls <= FirstFsHandle
    /\ MountTmp # <<>> /\ \A path \in ApiPaths \cup {MountTmp} : path \in Seq(Range(path))

Root == <<>>
NoFs == 0                           \* nullptr
StdFiles == [h \in {1, 2} |-> "std"]
Drop(f, x) == [y \in DOMAIN f \ {x} |-> f[y]]
Put(f, x, v) == [y \in DOMAIN f \cup {x} |-> IF y = x THEN v ELSE f[y]]

-----------------------------------------------------------------------------
(* Which file system a call goes to, as an index into filesystems.          *)

isPathOwner(fs, path) == IsPrefix(fs.mount, path)
isHandleOwner(fs, fd) == fd \in fs.first .. fs.last

FromPathFirst(path) ==                  \* mutant: the first that owns the path
    LET found == {i \in DOMAIN filesystems : isPathOwner(filesystems[i], path)}
    IN  IF found = {} THEN NoFs ELSE CHOOSE i \in found : \A j \in found : i <= j
getFatFsInstanceFromPath(path) ==
    LET found == {i \in DOMAIN filesystems : isPathOwner(filesystems[i], path)}
        child == {i \in found : filesystems[i].mount # Root}
    IN  CASE Cardinality(found) = 1 -> CHOOSE i \in found : TRUE
          [] Cardinality(found) = 2 /\ child # {} -> CHOOSE i \in child : \A j \in child : i <= j
          [] OTHER -> NoFs
getFatFsInstanceFromHandle(fd) ==
    LET found == {i \in DOMAIN filesystems : isHandleOwner(filesystems[i], fd)}
    IN  IF fd = -1 \/ found = {} THEN NoFs ELSE CHOOSE i \in found : \A j \in found : i <= j

(* The functions of api.cpp: those on a path and those on a handle all find *)
(* their file system first.                                                 *)
open_impl(path) == getFatFsInstanceFromPath(path)
fopen_impl(path) == getFatFsInstanceFromPath(path)
mkdir_impl(path) == getFatFsInstanceFromPath(path)
stat_impls(path) == getFatFsInstanceFromPath(path)
remove_impls(path) == getFatFsInstanceFromPath(path)
access_impl(path) == getFatFsInstanceFromPath(path)
opendir_impl(path) == getFatFsInstanceFromPath(path)
utimes_impl(path) == getFatFsInstanceFromPath(path)
rename_impl(old, new) ==
    LET from == getFatFsInstanceFromPath(old)
        to == getFatFsInstanceFromPath(new)
    IN  IF NoFs \in {from, to} THEN "ENOENT" ELSE IF from # to THEN "EXDEV" ELSE "renamed"

read_impl(fd) == getFatFsInstanceFromHandle(fd)
pread_impl(fd) == getFatFsInstanceFromHandle(fd)    \* not compared with nullptr
write_impls(fd) == getFatFsInstanceFromHandle(fd)
lseek64_impl(fd) == getFatFsInstanceFromHandle(fd)
fstat_impl(fd) == getFatFsInstanceFromHandle(fd)
dup2_impl(fd) == getFatFsInstanceFromHandle(fd)
ftruncate_impl(fd) == getFatFsInstanceFromHandle(fd)
fchown_impls(fd) == getFatFsInstanceFromHandle(fd)

(* The stubs ask the FileManager of the special files before.               *)
Device == -1
fromHandle(fd) == fd \in DOMAIN devices
read(fd) == IF fromHandle(fd) THEN Device ELSE read_impl(fd)
pread(fd) == IF fromHandle(fd) THEN Device ELSE pread_impl(fd)
write(fd) == IF fromHandle(fd) THEN Device ELSE write_impls(fd)
fxstat64(fd) == IF fromHandle(fd) THEN Device ELSE fstat_impl(fd)

PathCalls(path) ==
    {open_impl(path), fopen_impl(path), mkdir_impl(path), stat_impls(path), remove_impls(path),
     access_impl(path), opendir_impl(path), utimes_impl(path)}
HandleCalls(fd) == {read(fd), pread(fd), write(fd), fxstat64(fd)}
FsHandleCalls(fd) == {lseek64_impl(fd), dup2_impl(fd), ftruncate_impl(fd), fchown_impls(fd)}

-----------------------------------------------------------------------------
(* setupFileSystems.                                                        *)

createFileSystem(fss, first, mount) ==
    [fss |-> Append(fss, [mount |-> mount, first |-> first, last |-> first + kMaxNumFiles - 1]),
     next |-> first + kMaxNumFiles]

InitTypeByError(size) ==                \* mutant: an exception is taken for no file
    IF size > 0 THEN "OPEN" ELSE "FORMAT"
getInitializationType(size) ==
    CASE size = -1 -> "ERROR"
      [] size > 0 -> "OPEN"
      [] OTHER -> "FORMAT"

DiskSize == IF hostDisk = "absent" THEN 0 ELSE 1

(* One start.  The persistent file system comes first; its formatting is a  *)
(* step of its own, so that the enclave can die in it.                      *)
SetHandles(c) ==
    /\ filesystems' = c.fss
    /\ currentFirstAvailableHandle' = c.next /\ currentDummyHandle' = c.next

setupPersistent(size, both) ==
    LET type == getInitializationType(size)
        c == createFileSystem(<<>>, FirstFsHandle, Root)
    IN  /\ apiState = "starting"
        /\ CASE type = "ERROR" -> apiState' = "failed" /\ UNCHANGED hostDisk
             [] type = "FORMAT" ->
                    apiState' = (IF both THEN "formatting both" ELSE "formatting") /\ hostDisk' \in {hostDisk, "partial"}
             [] type = "OPEN" /\ hostDisk = "formatted" ->
                    apiState' = (IF both THEN "persistent" ELSE "up") /\ UNCHANGED hostDisk
             [] OTHER -> apiState' = "failed" /\ UNCHANGED hostDisk     \* MOUNT_FAILED
        /\ IF type = "OPEN" /\ hostDisk = "formatted" THEN SetHandles(c)
           ELSE UNCHANGED <<filesystems, currentFirstAvailableHandle, currentDummyHandle>>
        /\ UNCHANGED <<dummyHandles, devices, next_handle_, fsHandles, opened, apiCalls, apiStarts>>

FormatEnds ==
    /\ apiState \in {"formatting", "formatting both"}
    /\ hostDisk' = "formatted"
    /\ SetHandles(createFileSystem(<<>>, FirstFsHandle, Root))
    /\ apiState' = IF apiState = "formatting" THEN "up" ELSE "persistent"
    /\ UNCHANGED <<dummyHandles, devices, next_handle_, fsHandles, opened, apiCalls, apiStarts>>

setupInMemory ==
    /\ apiState \in {"starting", "persistent"}
    /\ SetHandles(createFileSystem(filesystems, currentFirstAvailableHandle,
                                   IF apiState = "persistent" THEN MountTmp ELSE Root))
    /\ apiState' = "up"
    /\ UNCHANGED <<dummyHandles, devices, next_handle_, fsHandles, opened, hostDisk, apiCalls, apiStarts>>

(* The enclave is started, after it has stopped, died or failed to start.   *)
StartApi ==
    /\ apiStarts < ApiStarts
    /\ apiStarts' = apiStarts + 1
    /\ apiState' = "starting"
    /\ filesystems' = <<>>
    /\ currentFirstAvailableHandle' = FirstFsHandle /\ currentDummyHandle' = FirstFsHandle
    /\ dummyHandles' = {} /\ devices' = StdFiles /\ next_handle_' = FirstDevHandle
    /\ fsHandles' = {} /\ opened' = <<>>
    /\ UNCHANGED <<hostDisk, apiCalls>>

-----------------------------------------------------------------------------
(* Opening and closing.                                                     *)

ApiCall ==
    /\ apiState = "up" /\ apiCalls < ApiCalls
    /\ apiCalls' = apiCalls + 1
    /\ UNCHANGED <<filesystems, currentFirstAvailableHandle, apiState, hostDisk, apiStarts>>

(* open of /dev/random or /dev/urandom.                                     *)
OpenDevice ==
    /\ ApiCall
    /\ devices' = Put(devices, next_handle_, "random")
    /\ opened' = Put(opened, next_handle_, Device)
    /\ next_handle_' = next_handle_ + 1
    /\ UNCHANGED <<currentDummyHandle, dummyHandles, fsHandles>>

(* open and fopen of any other path; the file system picks a free handle of *)
(* its own.  A FILE has a handle too, which fclose does not give back.      *)
OpenFile(path, isFILE) ==
    LET i == open_impl(path)
    IN  /\ ApiCall /\ i # NoFs
        /\ \E fd \in filesystems[i].first .. filesystems[i].last \ fsHandles :
              /\ fsHandles' = fsHandles \cup {fd}
              /\ opened' = IF isFILE THEN opened ELSE Put(opened, fd, i)
        /\ UNCHANGED <<currentDummyHandle, dummyHandles, devices, next_handle_>>

socketpair_impl ==
    LET h == currentDummyHandle
    IN  /\ ApiCall
        /\ currentDummyHandle' = h + 2
        /\ dummyHandles' = dummyHandles \cup {h, h + 1}
        /\ opened' = Put(Put(opened, h, NoFs), h + 1, NoFs)
        /\ UNCHANGED <<devices, next_handle_, fsHandles>>

(* close: the special files, then the dummies, then the file systems.       *)
close(fd) ==
    /\ ApiCall
    /\ fd \in DOMAIN opened
    /\ opened' = Drop(opened, fd)
    /\ devices' = Drop(devices, fd)
    /\ dummyHandles' = IF ~fromHandle(fd) /\ fd >= currentFirstAvailableHandle
                       THEN dummyHandles \ {fd} ELSE dummyHandles
    /\ fsHandles' = IF ~fromHandle(fd) /\ fd < currentFirstAvailableHandle
                    THEN fsHandles \ {fd} ELSE fsHandles
    /\ UNCHANGED <<currentDummyHandle, next_handle_>>

ApiInit ==
    /\ filesystems = <<>> /\ opened = <<>> /\ dummyHandles = {} /\ fsHandles = {}
    /\ devices = StdFiles
    /\ currentFirstAvailableHandle = FirstFsHandle /\ currentDummyHandle = FirstFsHandle
    /\ next_handle_ = FirstDevHandle
    /\ apiState = "down" /\ hostDisk = "absent" /\ apiCalls = 0 /\ apiStarts = 0

ApiNext ==
    \/ StartApi
    \/ \E size \in {-1, DiskSize}, both \in BOOLEAN : setupPersistent(size, both)
    \/ FormatEnds \/ setupInMemory
    \/ OpenDevice \/ socketpair_impl
    \/ \E path \in ApiPaths, isFILE \in BOOLEAN : OpenFile(path, isFILE)
    \/ \E fd \in DOMAIN opened : close(fd)

ApiSpec == ApiInit /\ [][ApiNext]_apiVars

-----------------------------------------------------------------------------
(* getFatFsInstanceFromPath and -FromHandle: while a handle is open, every  *)
(* function that takes it reaches the file system, or the special file,     *)
(* that it was opened at, and no other layer claims it; and every function  *)
(* on a path goes to the one file system with the deepest mount point.      *)
CallsRouted ==
    /\ \A fd \in DOMAIN opened :
           /\ HandleCalls(fd) = {opened[fd]}
           /\ opened[fd] > 0 => FsHandleCalls(fd) = {opened[fd]} /\ fd \in fsHandles
           /\ (fd \in dummyHandles) = (opened[fd] = NoFs)
    /\ apiState = "up" => \A path \in ApiPaths :
           \E i \in DOMAIN filesystems :
               /\ PathCalls(path) = {i}
               /\ isPathOwner(filesystems[i], path)
               /\ \A j \in DOMAIN filesystems \ {i} :
                      isPathOwner(filesystems[j], path) => Len(filesystems[j].mount) < Len(filesystems[i].mount)
               /\ \A new \in ApiPaths : (rename_impl(path, new) = "renamed") = (PathCalls(new) = {i})

(* getInitializationType: a host's file that was once formatted is never    *)
(* formatted again by any later start, whether the host answers with its    *)
(* size or fails to; a start that fails leaves it as it was.                *)
FormattedOnce == [][hostDisk = "formatted" => hostDisk' = "formatted"]_apiVars
=============================================================================
