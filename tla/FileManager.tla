----------------------------- MODULE FileManager -----------------------------
(***************************************************************************)
(* FatFsFileManager (src/cpp/fatfs/common/src/fatfs_file_manager.cpp): the *)
(* POSIX calls of the enclave's runtime on a FAT volume.  Every call holds *)
(* file_mutex_ for its whole duration, so a call is one step; the disk may *)
(* stop accepting writes in the middle of one, and the enclave may be      *)
(* restarted after it.                                                     *)
(*                                                                         *)
(* A behaviour follows one scenario: a volume that earlier calls prepared, *)
(* the calls that may follow and the paths they name.  The client keeps to *)
(* the rule of the driver (ffconf.hpp, FF_FS_LOCK): it does not remove,    *)
(* rename, truncate or open for writing an object that is open.            *)
(***************************************************************************)
EXTENDS FatVolume

CONSTANTS Scenarios,    \* what a behaviour may do, see Fields
          FirstHandle, LastHandle,
          Reopen        \* is a file opened again after its writer was forgotten?

(* A scenario: the volume (types, disks, budgets, earlier calls and the     *)
(* sector that a restart destroys), and the calls with their arguments.     *)
Fields == {"types", "disks", "budgets", "setup", "lost", "steps", "ops", "paths", "modes",
           "lengths", "seeks", "data"}

ASSUME ManagerAssumption ==
    /\ FirstHandle \in Nat /\ LastHandle \in Nat /\ FirstHandle <= LastHandle
    /\ Reopen \in BOOLEAN
    /\ \A s \in Scenarios : Fields = DOMAIN s

VARIABLES
    sc,                 \* the scenario
    steps,              \* how many calls were made
    vol,                \* the volume
    files_, inverse_file_paths_,    \* handle -> FIL, handle -> path
    file_paths_,        \* path -> handle
    next_handle_,
    dirs,               \* DIR objects by pointer: they are never freed
    dir_paths_,         \* path -> DIR pointer
    dirents_,           \* the pointers that were read from
    (* What the client knows of the files, by canonical path:              *)
    tree,               \* what is there, once every file is closed
    want,               \* handle -> the path it was opened at, what it must read
    kept,               \* path -> the data that a restart must not change
    torn,               \* paths of interrupted renames and unsaved truncations
    cwd,                \* the current directory
    boots,              \* restarts so far
    broken              \* the promises that the last call broke

managerVars == <<files_, inverse_file_paths_, file_paths_, next_handle_>>
dirVars == <<dirs, dir_paths_, dirents_>>
ghostVars == <<tree, want, kept, torn>>
vars == <<sc, steps, vol, managerVars, dirVars, ghostVars, cwd, boots, broken>>

-----------------------------------------------------------------------------
(* What the client may expect.                                              *)

Any == -2               \* a byte the client cannot predict
Matches(got, expected) ==
    /\ Len(got) = Len(expected)
    /\ \A i \in DOMAIN got : expected[i] \in {Any, got[i]}

(* data with bytes written at offset pos.                                   *)
Overlay(data, pos, bytes) ==
    [i \in 1 .. (IF Len(data) > pos + Len(bytes) THEN Len(data) ELSE pos + Len(bytes)) |->
        IF i \in pos + 1 .. pos + Len(bytes) THEN bytes[i - pos]
        ELSE IF i \in DOMAIN data THEN data[i] ELSE Any]

(* The canonical form of a path: the upper-case names from the root.        *)
RECURSIVE Canonical(_, _)
Canonical(at, segs) ==
    IF segs = <<>> THEN at
    ELSE LET s == Head(segs)
             next == CASE s = "." -> at
                       [] s = ".." -> IF at = <<>> THEN at ELSE SubSeq(at, 1, Len(at) - 1)
                       [] OTHER -> Append(at, NameInfo[s].key)
         IN  Canonical(next, Tail(segs))
Canon(p) == Canonical(IF p.abs THEN <<>> ELSE cwd, p.segs)
ParentOf(c) == SubSeq(c, 1, Len(c) - 1)
Under(c, d) == Len(c) >= Len(d) /\ SubSeq(c, 1, Len(d)) = d

Put(f, x, y) == [z \in DOMAIN f \cup {x} |-> IF z = x THEN y ELSE f[z]]
Drop(f, s) == [z \in DOMAIN f \ s |-> f[z]]

Dir == "dir"
IsDir(c) == c = <<>> \/ (c \in DOMAIN tree /\ tree[c].kind = Dir)
IsFile(c) == c \in DOMAIN tree /\ tree[c].kind = "file"
FileWith(data) == [kind |-> "file", data |-> data]
DirNode == [kind |-> Dir, data |-> <<>>]

(* The handles that are open on a file, and those that may write to it.     *)
On(c) == {h \in DOMAIN want : want[h].at = c}
Writers(c) == {h \in On(c) : "WRITE" \in files_[h].mode}
Busy(c) == \/ \E h \in DOMAIN want : Under(want[h].at, c)
           \/ \E d \in DOMAIN dirs : dirs[d].open /\ Under(dirs[d].at, c)
           \/ Under(cwd, c)

-----------------------------------------------------------------------------
(* The objects of a disk image, found without the driver.                   *)

Image(v) == IF v.wflag THEN [v.disk EXCEPT ![v.winsect] = v.win] ELSE v.disk
RECURSIVE EntryAt(_, _)
EntryAt(img, places) ==
    IF places = <<>> THEN 0
    ELSE LET p == Head(places)
         IN  Digits(p, img[p.sect][p.at]) * p.scale + EntryAt(img, Tail(places))
TypeOf(img) == IF DOMAIN img[fatbase] = 0 .. FatBytes - 1 THEN "FAT12" ELSE "FAT32"
FatOf(img, c) == EntryAt(img, FatPlaces(TypeOf(img), c))

(* The clusters from c on; a chain that does not end is cut at NFatEnt.     *)
RECURSIVE ChainOf(_, _, _)
ChainOf(img, c, n) ==
    IF n = 0 \/ c \notin 2 .. NFatEnt - 1 THEN <<>>
    ELSE <<c>> \o ChainOf(img, FatOf(img, c), n - 1)
Chain(img, c) == ChainOf(img, c, NFatEnt)
Members(s) == {s[i] : i \in DOMAIN s}
ClustersOf(img, c) == Members(Chain(img, c))
Ends(img, c) ==
    c = 0 \/ \E ch \in {Chain(img, c)} :
                ch # <<>> /\ Len(ch) < NFatEnt /\ FatOf(img, ch[Len(ch)]) >= NFatEnt

RootTable(type) ==
    IF type = "FAT32" THEN 2 ELSE 0
RECURSIVE Concat(_)
Concat(seqs) == IF seqs = <<>> THEN <<>> ELSE Head(seqs) \o Concat(Tail(seqs))
Entries(img, sect) == LET t == AsTable(img[sect]) IN [i \in 1 .. DirPerSect |-> t[i - 1]]
SectorsOf(ch) ==
    [i \in 1 .. CSize * Len(ch) |-> clst2sect(ch[(i - 1) \div CSize + 1]) + ((i - 1) % CSize)]
ChainSectors(img, c) == SectorsOf(Chain(img, c))
TableSectors(img, c) ==
    IF c = 0 THEN [i \in 1 .. NRootSect |-> rootbase + i - 1] ELSE ChainSectors(img, c)
EntriesOf(img, sects) == Concat([i \in DOMAIN sects |-> Entries(img, sects[i])])
Table(img, c) == EntriesOf(img, TableSectors(img, c))

(* The long name that belongs to entry i of a table, "" when it has none.   *)
LongName(t, i) ==
    LET runs == {k \in 1 .. i - 1 :
            /\ t[i - k].last /\ t[i - k].ord = k
            /\ \A j \in 1 .. k : /\ t[i - j].c = InUse /\ t[i - j].attr = "lfn"
                                 /\ t[i - j].ord = j /\ t[i - j].sum = sum_sfn(t[i].fn)
                                 /\ t[i - j].nm = t[i - k].nm}
    IN  IF runs = {} THEN "" ELSE t[i - (CHOOSE k \in runs : TRUE)].nm

(* The name a client sees: the long name, or the short one.                 *)
KeyOf(t, i) ==
    LET long == LongName(t, i)
        short == {n \in DOMAIN NameInfo : ~NameInfo[n].loss /\ NameInfo[n].fn = t[i].fn}
    IN  CASE long # "" -> NameInfo[long].key
          [] t[i].nm # "" -> NameInfo[t[i].nm].key
          [] short # {} -> NameInfo[CHOOSE n \in short : TRUE].key
          [] OTHER -> "?"

Listed(t) ==
    LET ends == {j \in DOMAIN t : t[j].c = EndMark}
    IN  {i \in DOMAIN t : /\ t[i].c = InUse /\ t[i].attr # "lfn"
                          /\ t[i].fn \notin {Dot, DotDot}
                          /\ \A j \in ends : i < j}

(* Entries of a cluster that was linked to a directory but not yet cleared. *)
Uncleared(e) == e.fn[1] = 99

ObjectsOf(t, c, path) ==
    {[path |-> Append(path, KeyOf(t, i)), entry |-> t[i], parent |-> c] :
        i \in {i \in Listed(t) : ~Uncleared(t[i])}}

RECURSIVE WithBelow(_, _, _)
WithBelow(img, objs, depth) ==
    IF depth = 0 THEN objs
    ELSE objs \cup UNION {WithBelow(img, ObjectsOf(Table(img, o.entry.clu), o.entry.clu, o.path), depth - 1) :
                              o \in {o \in objs : o.entry.attr = "dir"}}
Objects(img, type) == WithBelow(img, ObjectsOf(Table(img, RootTable(type)), RootTable(type), <<>>), 3)

(* The bytes of a file, as many as its chain holds.  Nobody can tell what a *)
(* sector holds that was never written.                                     *)
BytesIn(c) == IF DOMAIN c = {} THEN [i \in 1 .. SS |-> Any] ELSE AsBytes(c)
SectorData(img, sects) == Concat([i \in DOMAIN sects |-> BytesIn(img[sects[i]])])
UpTo(size, data) == SubSeq(data, 1, Min2(size, Len(data)))
Bytes(img, e) == UpTo(e.size, SectorData(img, ChainSectors(img, e.clu)))

NodeOf(img, o) == IF o.entry.attr = "dir" THEN DirNode ELSE FileWith(Bytes(img, o.entry))

(* What a client finds on a disk.                                           *)
TreeFrom(img, objs) ==
    [c \in {o.path : o \in objs} |-> NodeOf(img, CHOOSE o \in objs : o.path = c)]
TreeOf(img, type) == TreeFrom(img, Objects(img, type))

-----------------------------------------------------------------------------
(* The volume at rest: registers are scratch space of one call.             *)
Rest(v) == [v EXCEPT !.res = "OK", !.val = 0, !.dp = NoDir, !.fil = NoFil, !.out = <<>>]

(* The enabling condition common to all calls.                              *)
Call(op) ==
    /\ op \in sc.ops
    /\ steps < sc.steps
    /\ disk_ok(vol)
    /\ boots = 0 \/ torn = {}
    /\ steps' = steps + 1
    /\ UNCHANGED <<sc, boots>>

(* The promises a call may break: that it succeeds or fails as it should    *)
(* ("outcome"), that a read returns what was written ("data"), and that     *)
(* what it tells of the tree is true ("answer").                            *)
Broken(promise, ok) == IF ok THEN {} ELSE {promise}
Must(cond) == IF cond THEN "succeed" ELSE "fail"
Outcome(ok, must) ==
    Broken("outcome", CASE must = "succeed" -> ok \/ ~disk_ok(vol')
                        [] must = "fail" -> ~ok
                        [] must = "either" -> TRUE)
Done(ok, must) == broken' = Outcome(ok, must)

(* A handle whose call failed half-way: its length is known, no byte is.    *)
Blurred(h, w) == [want[h] EXCEPT !.data = [i \in 1 .. w.fil.objsize |-> Any]]

(* getNewHandle: the next handle that is free, -1 when none is.             *)
getNewHandle ==
    LET n == LastHandle - FirstHandle + 1
        start == IF next_handle_ = LastHandle + 1 THEN FirstHandle ELSE next_handle_
        Nth(i) == FirstHandle + ((start - FirstHandle + i) % n)
        free == {i \in 0 .. n - 1 : Nth(i) \notin DOMAIN files_}
        i == CHOOSE i \in free : \A j \in free : i <= j
    IN  IF free = {} THEN [handle |-> -1, next |-> start]
        ELSE [handle |-> Nth(i), next |-> Nth(i) + 1]

(* The open modes: convertFlag and parsePosixModeFlag.                      *)
OpenModes ==
    [r  |-> {"READ"},
     rw |-> {"READ", "WRITE"},
     w  |-> {"CREATE_ALWAYS", "WRITE"},
     wr |-> {"CREATE_ALWAYS", "WRITE", "READ"},
     a  |-> {"OPEN_ALWAYS", "SEEKEND", "WRITE"},
     x  |-> {"CREATE_NEW", "WRITE"},
     o  |-> {"OPEN_ALWAYS", "WRITE", "READ"}]

-----------------------------------------------------------------------------
(* Files.                                                                   *)

(* open saves the file that the path leads to, if it is open.               *)
OpenUnsaved(p) == Return(vol, "OK")     \* mutant: the other handle is not saved
SyncOpen(p) ==
    IF p \in DOMAIN file_paths_
    THEN f_sync([vol EXCEPT !.fil = files_[file_paths_[p]]])
    ELSE Return(vol, "OK")

(* A file whose last byte nobody wrote: it may lie in a sector that cannot  *)
(* be read.                                                                 *)
Unwritten(c) == IsFile(c) /\ tree[c].data # <<>> /\ tree[c].data[Len(tree[c].data)] = Any

(* open and fopen.                                                          *)
Open(p, m) ==
    LET c == Canon(p)
        mode == OpenModes[m]
        write == "WRITE" \in mode
        old == IF p \in DOMAIN file_paths_ THEN file_paths_[p] ELSE -1
        new == getNewHandle
        h == new.handle
        fresh == "CREATE_ALWAYS" \in mode \/ c \notin DOMAIN tree
        shared == IF Writers(c) = {} THEN tree[c].data ELSE want[CHOOSE x \in Writers(c) : TRUE].data
    IN  /\ Call("open")
        /\ On(c) = {} \/ (~write /\ (Reopen \/ Writers(c) \subseteq {old}))
        /\ \E s \in {SyncOpen(p)} :
           \E o \in {IF s.res = "OK" /\ h # -1 THEN f_open(s, p, mode) ELSE s} :
              LET synced == IF s.fil.fs THEN [files_ EXCEPT ![old] = s.fil] ELSE files_
                  ok == h # -1 /\ o.res = "OK"
              IN  /\ vol' = Rest(o)
                  /\ next_handle_' = IF s.res = "OK" THEN new.next ELSE next_handle_
                  /\ files_' = IF ok THEN Put(synced, h, o.fil) ELSE synced
                  /\ file_paths_' = IF ok THEN Put(file_paths_, p, h) ELSE file_paths_
                  /\ inverse_file_paths_' = IF ok THEN Put(inverse_file_paths_, h, p) ELSE inverse_file_paths_
                  /\ tree' = IF ok /\ fresh THEN Put(tree, c, FileWith(<<>>)) ELSE tree
                  /\ want' = IF ok THEN Put(want, h, [at |-> c, data |-> IF fresh THEN <<>> ELSE shared])
                             ELSE want
                  /\ kept' = IF "CREATE_ALWAYS" \in mode THEN Drop(kept, {c}) ELSE kept
                  /\ Done(ok, CASE h = -1 \/ ("SEEKEND" \in mode /\ Unwritten(c)) -> "either"
                                [] h # -1 /\ IsFile(c) -> Must("CREATE_NEW" \notin mode)
                                [] IsDir(c) \/ ~IsDir(ParentOf(c)) -> "fail"
                                [] mode \cap {"CREATE_ALWAYS", "OPEN_ALWAYS", "CREATE_NEW"} = {} -> "fail"
                                [] OTHER -> "either")
        /\ UNCHANGED <<torn, dirVars, cwd>>

(* The handle stays when the file cannot be saved.                          *)
closeInternal(h) ==
    LET c == want[h].at
        write == "WRITE" \in files_[h].mode
        node == FileWith(want[h].data)
    IN  /\ \E w \in {f_close([vol EXCEPT !.fil = files_[h]])} :
              LET ok == w.res = "OK"
              IN  /\ vol' = Rest(w)
                  /\ files_' = IF ok THEN Drop(files_, {h}) ELSE [files_ EXCEPT ![h] = w.fil]
                  /\ file_paths_' = IF ok THEN Drop(file_paths_, {inverse_file_paths_[h]}) ELSE file_paths_
                  /\ inverse_file_paths_' = IF ok THEN Drop(inverse_file_paths_, {h}) ELSE inverse_file_paths_
                  /\ want' = IF ok THEN Drop(want, {h}) ELSE want
                  /\ tree' = IF ok /\ write THEN Put(tree, c, node) ELSE tree
                  /\ kept' = IF ok /\ write THEN Put(kept, c, node) ELSE kept
                  /\ torn' = IF ok /\ write THEN torn \ {c} ELSE torn
                  /\ Done(ok, "succeed")
        /\ UNCHANGED <<next_handle_, dirVars, cwd>>

(* close; of a handle that is not open it returns 0 and does nothing.       *)
Close(h) == Call("close") /\ closeInternal(h)

(* The bytes that a read of n bytes at offset pos should return.            *)
Slice(data, pos, n) == SubSeq(data, pos + 1, Min2(pos + n, Len(data)))

(* A call on handle h that ended in w: the FIL object is shared with it.    *)
OnFile(h, w) ==
    /\ vol' = Rest(w)
    /\ files_' = [files_ EXCEPT ![h] = w.fil]
    /\ UNCHANGED <<file_paths_, inverse_file_paths_, next_handle_, dirVars, cwd>>

(* Whether the caller is told that a read or a write failed.                *)
Excused(h, w) == w.res \in {"DENIED", "DISK_ERR"} \/ files_[h].err # "OK"

(* read and fread.                                                          *)
Read(h, n) ==
    LET expected == Slice(want[h].data, files_[h].fptr, n)
    IN  /\ Call("read")
        /\ \E w \in {f_read([vol EXCEPT !.fil = files_[h]], n)} :
              /\ OnFile(h, w)
              /\ broken' = Broken("data", Excused(h, w) \/ Matches(w.out, expected))
        /\ UNCHANGED ghostVars

(* What handle h must read after a seek left the FIL object of w.           *)
AfterSeek(h, w) ==
    IF (w.res # "OK" /\ ~Excused(h, w)) \/ w.fil.err # "OK"
    THEN Blurred(h, w)
    ELSE [want[h] EXCEPT !.data = Overlay(@, w.fil.objsize, <<>>)]

(* The promises for the file of h after a seek that may have extended it.   *)
IfGrown(h, w) == IF w.fil.objsize = files_[h].objsize THEN kept ELSE Drop(kept, {want[h].at})

(* An off_t becomes an FSIZE_t: an offset before the start of the file is a *)
(* large one.                                                               *)
ToFSize(offset) == offset % FSizeRange
SeekFile(h, offset) == f_lseek([vol EXCEPT !.fil = files_[h]], ToFSize(offset))

(* lseek and lseekInternal.                                                 *)
Lseek(h, whence, offset) ==
    LET from == CASE whence = "SEEK_SET" -> 0
                  [] whence = "SEEK_CUR" -> files_[h].fptr
                  [] whence = "SEEK_END" -> files_[h].objsize
        noop == whence = "SEEK_CUR" /\ offset = 0
    IN  /\ Call("lseek")
        /\ \E w \in {IF noop THEN Return([vol EXCEPT !.fil = files_[h]], "OK") ELSE SeekFile(h, from + offset)} :
              /\ OnFile(h, w)
              /\ want' = IF noop THEN want ELSE [want EXCEPT ![h] = AfterSeek(h, w)]
              /\ Done(w.res = "OK", IF noop THEN "succeed" ELSE "either")
              /\ kept' = IfGrown(h, w)
        /\ UNCHANGED <<tree, torn>>

(* pread moves the file pointer and, past the end, extends the file.        *)
Pread(h, n, ofs) ==
    /\ Call("pread")
    /\ \E s \in {SeekFile(h, ofs)} :
       \E w \in {AndThen(s, LAMBDA x : f_read(x, n))} :
          /\ OnFile(h, w)
          /\ want' = [want EXCEPT ![h] = AfterSeek(h, w)]
          /\ broken' = Broken("data", \/ Excused(h, w) \/ s.res # "OK"
                                      \/ Matches(w.out, Slice(AfterSeek(h, s).data, s.fil.fptr, n)))
          /\ kept' = IfGrown(h, w)
    /\ UNCHANGED <<tree, torn>>

(* What the handles must read after h wrote data at offset pos: a handle    *)
(* that reads the same file may see the new bytes or the old ones.          *)
AfterWrite(h, w, pos, data) ==
    LET done == SubSeq(data, 1, Len(data) - w.val)
        c == want[h].at
    IN  [x \in DOMAIN want |->
            CASE x = h /\ w.res = "DENIED" -> want[x]
              [] x = h /\ w.res # "OK" -> Blurred(h, w)
              [] x = h -> [want[x] EXCEPT !.data = Overlay(@, pos, done)]
              [] want[x].at = c -> [want[x] EXCEPT !.data = [i \in DOMAIN @ |-> Any]]
              [] OTHER -> want[x]]

(* write and fwrite.                                                        *)
Write(h, data) ==
    /\ Call("write")
    /\ \E w \in {f_write([vol EXCEPT !.fil = files_[h]], data)} :
          /\ OnFile(h, w)
          /\ want' = AfterWrite(h, w, files_[h].fptr, data)
          /\ kept' = IF w.res = "DENIED" THEN kept ELSE Drop(kept, {want[h].at})
          /\ Done(w.res = "OK", "either")
    /\ UNCHANGED <<tree, torn>>

(* pwrite: a seek, which may extend the file, and a write there.            *)
Pwrite(h, data, ofs) ==
    /\ Call("pwrite")
    /\ \E s \in {SeekFile(h, ofs)} :
       \E w \in {AndThen(s, LAMBDA x : f_write(x, data))} :
          LET sought == [want EXCEPT ![h] = AfterSeek(h, s)]
          IN  /\ OnFile(h, w)
              /\ want' = IF s.res = "OK" /\ w.res = "OK"
                         THEN [AfterWrite(h, w, s.fil.fptr, data) EXCEPT
                                 ![h].data = Overlay(sought[h].data, s.fil.fptr,
                                                     SubSeq(data, 1, Len(data) - w.val))]
                         ELSE IF w.res = "DENIED" THEN sought ELSE AfterWrite(h, w, 0, <<>>)
              /\ kept' = IF w.res = "DENIED" THEN kept ELSE Drop(kept, {want[h].at})
              /\ Done(w.res = "OK", "either")
    /\ UNCHANGED <<tree, torn>>

(* ftruncate: a seek to the new length and a cut there.  Until the file is  *)
(* saved its entry claims clusters that are free.                           *)
Ftruncate(h, len) ==
    LET c == want[h].at
    IN  /\ Call("ftruncate")
        /\ On(c) = {h}
        /\ \E s \in {SeekFile(h, len)} :
           \E w \in {AndThen(s, f_truncate)} :
              /\ OnFile(h, w)
              /\ want' = [want EXCEPT ![h] =
                           IF w.fil.err # "OK" THEN Blurred(h, w)
                           ELSE [@ EXCEPT !.data = Overlay(SubSeq(@, 1, Min2(Len(@), w.fil.objsize)),
                                                           w.fil.objsize, <<>>)]]
              /\ kept' = IF w.res = "DENIED" THEN kept ELSE Drop(kept, {c})
              /\ torn' = IF w.res = "DENIED" THEN torn ELSE torn \cup {c}
              /\ Done(w.res = "OK", "either")
        /\ UNCHANGED tree

-----------------------------------------------------------------------------
(* Names.                                                                   *)

(* A call on a path that ended in w and left the open files alone.          *)
OnPath(w) == vol' = Rest(w) /\ UNCHANGED <<managerVars, cwd>>

IsRoot(p) == p.abs /\ p.segs = <<>>
Children(t, c) == {x \in DOMAIN t : x # <<>> /\ ParentOf(x) = c}

(* Open listings owe the client the objects that stay where they are.       *)
Watched(t) ==
    [d \in DOMAIN dirs |-> [dirs[d] EXCEPT !.stable = @ \cap Children(t, dirs[d].at)]]

(* mkdir; the root is not passed to the driver.                             *)
Mkdir(p) ==
    LET c == Canon(p)
    IN  /\ Call("mkdir")
        /\ \E w \in {IF IsRoot(p) THEN Return(vol, "OK") ELSE f_mkdir(vol, p)} :
              LET made == w.res = "OK" /\ ~IsRoot(p)
              IN  /\ OnPath(w)
                  /\ tree' = IF made THEN Put(tree, c, DirNode) ELSE tree
                  /\ kept' = IF made THEN Put(kept, c, DirNode) ELSE kept
                  /\ Done(w.res = "OK",
                          CASE IsRoot(p) -> "succeed"
                            [] c \in DOMAIN tree \/ ~IsDir(ParentOf(c)) -> "fail"
                            [] OTHER -> "either")
        /\ UNCHANGED <<want, torn, dirVars>>

unlinkInternal(p) ==
    LET c == Canon(p)
    IN  /\ \E w \in {f_unlink(vol, p)} :
              LET after == IF w.res = "OK" THEN Drop(tree, {c}) ELSE tree
              IN  /\ OnPath(w)
                  /\ tree' = after
                  /\ dirs' = Watched(after)
                  /\ Done(w.res = "OK",
                          CASE c \notin DOMAIN tree \/ Children(tree, c) # {} -> "fail"
                            [] OTHER -> "succeed")
        /\ kept' = Drop(kept, {c})
        /\ UNCHANGED <<want, torn, dir_paths_, dirents_>>

(* unlink, rmdir and remove: the driver removes files and empty directories *)
(* alike.                                                                   *)
Unlink(p) == Call("unlink") /\ ~Busy(Canon(p)) /\ unlinkInternal(p)

(* What rename takes for open: it knows paths as they were spelled.         *)
isDirOpen(p) == p \in DOMAIN dir_paths_
isFileOpen(p) == p \in DOMAIN file_paths_

(* isFileInDirOpen looks for the path of the directory in every open path.  *)
isFileInDirOpen(p) ==
    \E q \in DOMAIN file_paths_ :
        /\ q.abs = p.abs /\ Len(q.segs) > Len(p.segs)
        /\ SubSeq(q.segs, 1, Len(p.segs)) = p.segs

(* The tree after the object at c moved to d, with all that is below it.    *)
Moved(t, c, d) ==
    LET From(x) == IF Under(x, d) THEN c \o SubSeq(x, Len(d) + 1, Len(x)) ELSE x
        stay == {x \in DOMAIN t : ~Under(x, c)}
        move == {d \o SubSeq(x, Len(c) + 1, Len(x)) : x \in DOMAIN t \ stay}
    IN  [x \in stay \cup move |-> IF x \in move THEN t[From(x)] ELSE t[x]]

(* rename: a file or a directory, neither of them open by the same path.    *)
(* When the disk fails both names may be left, or a stale dot-dot entry.    *)
Rename(p, q) ==
    LET c == Canon(p)
        d == Canon(q)
    IN  /\ Call("rename")
        /\ ~Busy(c) /\ ~Busy(d) /\ (Under(d, c) => d = c)
        /\ \E s \in {IF IsRoot(p) THEN Return(vol, "OK") ELSE f_stat(vol, p)} :
           LET isDir == IsRoot(p) \/ s.dp.attr = "dir"
               ebusy == IF isDir
                        THEN \E x \in {p, q} : isDirOpen(x) \/ isFileInDirOpen(x)
                        ELSE isFileOpen(p) \/ isFileOpen(q)
           IN  \E w \in {IF s.res = "OK" /\ ~ebusy THEN f_rename(s, p, q) ELSE s} :
                  LET ok == s.res = "OK" /\ ~ebusy /\ w.res = "OK"
                      after == IF ok THEN Moved(tree, c, d) ELSE tree
                  IN  /\ OnPath(w)
                      /\ tree' = after
                      /\ kept' = CASE ok -> Moved(kept, c, d)
                                   [] ~disk_ok(w) -> [x \in {x \in DOMAIN kept : ~Under(x, c)} |-> kept[x]]
                                   [] OTHER -> kept
                      /\ torn' = IF disk_ok(w) THEN torn ELSE torn \cup {c, d}
                      /\ dirs' = Watched(after)
                      /\ Done(ok,
                              IF c \notin DOMAIN tree \/ ~IsDir(ParentOf(d)) \/ (d \in DOMAIN tree /\ d # c)
                              THEN "fail" ELSE "either")
        /\ UNCHANGED <<want, dir_paths_, dirents_>>

(* What stat tells of an object: its kind and size.                         *)
StatOf(w) == [dir |-> w.out[1].attr = "dir", size |-> w.out[1].size]

(* stat and lstat.  The size of a file that is open is the one it had when  *)
(* it was last saved.                                                       *)
Stat(p) ==
    LET c == Canon(p)
        node == tree[c]
        expected == [dir |-> node.kind = Dir, size |-> Len(node.data)]
    IN  /\ Call("stat")
        /\ ~IsRoot(p)
        /\ \E w \in {f_stat(vol, p)} :
              LET closed == w.res = "OK" /\ c \in DOMAIN tree /\ On(c) = {}
              IN  /\ OnPath(w)
                  /\ broken' = Outcome(w.res = "OK", IF c = <<>> THEN "either" ELSE Must(c \in DOMAIN tree))
                                  \cup Broken("answer", closed => StatOf(w) = expected)
        /\ UNCHANGED <<ghostVars, dirVars>>

(* access grants whatever exists; the root is not passed to the driver.     *)
Access(p) ==
    LET c == Canon(p)
    IN  /\ Call("access")
        /\ \E w \in {IF IsRoot(p) THEN Return(vol, "OK") ELSE f_stat(vol, p)} :
              /\ OnPath(w)
              /\ Done(w.res = "OK", CASE IsRoot(p) -> "succeed"
                                      [] c = <<>> -> "either"
                                      [] OTHER -> Must(c \in DOMAIN tree))
        /\ UNCHANGED <<ghostVars, dirVars>>

(* utimes only looks whether the path exists; for the root it fails.        *)
Utimes(p) ==
    /\ Call("utimes")
    /\ \E w \in {f_stat(vol, p)} :
          /\ OnPath(w)
          /\ Done(w.res = "OK", Must(Canon(p) \in DOMAIN tree))
    /\ UNCHANGED <<ghostVars, dirVars>>

(* fstat looks the file up again, by the path it was opened with.           *)
Fstat(h) ==
    /\ Call("fstat")
    /\ \E w \in {f_stat(vol, inverse_file_paths_[h])} :
          /\ OnPath(w)
          /\ Done(w.res = "OK",
                  IF inverse_file_paths_[h].abs THEN "succeed" ELSE "either")
    /\ UNCHANGED <<ghostVars, dirVars>>

-----------------------------------------------------------------------------
(* Directories.                                                             *)

(* The name a client reads from a directory.                                *)
NameOf(info) ==
    LET short == {n \in DOMAIN NameInfo : ~NameInfo[n].loss /\ NameInfo[n].fn = info.fn}
    IN  CASE info.lfn # "" -> NameInfo[info.lfn].key
          [] short # {} -> NameInfo[CHOOSE n \in short : TRUE].key
          [] OTHER -> "?"

(* opendir: by path, one DIR at a time.                                     *)
Opendir(p) ==
    LET c == Canon(p)
        eacces == p \in DOMAIN dir_paths_
        d == Cardinality(DOMAIN dirs) + 1
    IN  /\ Call("opendir")
        /\ \E w \in {IF eacces THEN Return(vol, "EACCES") ELSE f_opendir(vol, p)} :
              LET ok == w.res = "OK"
              IN  /\ OnPath(w)
                  /\ dirs' = IF ok THEN Put(dirs, d, [dp |-> w.dp, at |-> c, open |-> TRUE, seen |-> <<>>,
                                                     ended |-> FALSE, stable |-> Children(tree, c)])
                             ELSE dirs
                  /\ dir_paths_' = IF ok THEN Put(dir_paths_, p, d) ELSE dir_paths_
                  /\ Done(ok, CASE eacces \/ ~IsDir(c) -> "fail"
                                          [] OTHER -> "succeed")
        /\ UNCHANGED <<dirents_, ghostVars>>

(* readdir and readdir64.                                                   *)
Readdir(d) ==
    LET at == dirs[d].at
    IN  /\ Call("readdir")
        /\ dirs[d].open
        /\ \E w \in {f_readdir([vol EXCEPT !.dp = dirs[d].dp])} :
              LET names == IF w.res = "OK" /\ w.out # <<>> THEN <<Append(at, NameOf(w.out[1]))>> ELSE <<>>
              IN  /\ OnPath(w)
                  /\ dirs' = [dirs EXCEPT ![d].dp = w.dp, ![d].seen = @ \o names,
                                          ![d].ended = w.res = "OK" /\ names = <<>>]
                  /\ broken' = Broken("answer", \A i \in DOMAIN names : names[i] \in DOMAIN tree)
        /\ dirents_' = dirents_ \cup {d}
        /\ UNCHANGED <<dir_paths_, ghostVars>>

(* closedir knows a DIR only once it was read from; the object stays.       *)
Closedir(d) ==
    LET ok == d \in dirents_
        path == {p \in DOMAIN dir_paths_ : dir_paths_[p] = d}
    IN  /\ Call("closedir")
        /\ dirs[d].open
        /\ dirents_' = dirents_ \ {d}
        /\ dir_paths_' = IF ok THEN Drop(dir_paths_, path) ELSE dir_paths_
        /\ dirs' = [dirs EXCEPT ![d].open = ~ok]
        /\ Done(ok, "either")
        /\ UNCHANGED <<vol, managerVars, ghostVars, cwd>>

Chdir(p) ==
    LET c == Canon(p)
    IN  /\ Call("chdir")
        /\ \E w \in {f_chdir(vol, p)} :
              /\ vol' = Rest(w)
              /\ cwd' = IF w.res = "OK" THEN c ELSE cwd
              /\ Done(w.res = "OK", Must(IsDir(c)))
        /\ UNCHANGED <<managerVars, dirVars, ghostVars>>

Getcwd ==
    /\ Call("getcwd")
    /\ \E w \in {f_getcwd(vol)} :
          /\ OnPath(w)
          /\ broken' = Outcome(w.res = "OK", "succeed")
                 \cup Broken("answer", w.res = "OK" => [i \in DOMAIN w.out |-> NameOf(w.out[i])] = cwd)
    /\ UNCHANGED <<ghostVars, dirVars>>

-----------------------------------------------------------------------------
(* Restart and start.                                                       *)

(* Of the objects on the disk, the directories (the root among them) and    *)
(* the files with something in a sector.                                    *)
Holds(sects, sect, size) == \E i \in DOMAIN sects : sects[i] = sect /\ (i - 1) * SS < size
DirsOn(objs, sect) ==
    {d.path : d \in {d \in {[path |-> <<>>, clu |-> RootTable(vol.fs_type)]} \cup
                              {[path |-> o.path, clu |-> o.entry.clu] : o \in {o \in objs : o.entry.attr = "dir"}} :
                     sect \in Members(TableSectors(vol.disk, d.clu))}}
FilesOn(objs, sect) ==
    {o.path : o \in {o \in objs :
                o.entry.attr # "dir" /\ Holds(ChainSectors(vol.disk, o.entry.clu), sect, o.entry.size)}}

(* The enclave dies with the FATFS object; init mounts the disk again.  Its *)
(* first read destroys the sector that the disk keeps at index 0.           *)
Restart(sect) ==
    /\ "restart" \in sc.ops /\ boots = 0
    /\ boots' = 1
    /\ \E img \in {IF sect = NoSect THEN vol.disk ELSE [vol.disk EXCEPT ![sect] = Blank]} :
          /\ vol' = mount_volume(img, vol.fs_type, vol.persistent, Unlimited)
          /\ tree' = TreeOf(img, vol.fs_type)
    /\ \E objs \in {Objects(vol.disk, vol.fs_type)} :
       \E lostDirs \in {DirsOn(objs, sect)}, lostFiles \in {FilesOn(objs, sect)},
          halfStretched \in {IF vol.half = 0 THEN {} ELSE DirsOn(objs, clst2sect(vol.half))} :
          /\ kept' = Drop(kept, lostFiles \cup {c \in DOMAIN kept : \E d \in lostDirs : c # d /\ Under(c, d)})
          /\ torn' = torn \cup halfStretched \cup lostDirs \cup lostFiles
    /\ files_' = <<>> /\ inverse_file_paths_' = <<>> /\ file_paths_' = <<>>
    /\ next_handle_' = FirstHandle
    /\ dirs' = <<>> /\ dir_paths_' = <<>> /\ dirents_' = {}
    /\ want' = <<>>
    /\ cwd' = <<>>
    /\ broken' = {}
    /\ UNCHANGED <<sc, steps>>

(* A call of the setup, as the driver carries it out and as it should.      *)
SetupCall(v, op) ==
    CASE op.do = "mkdir" -> f_mkdir(v, op.path)
      [] op.do = "file" -> AndThen(f_open(v, op.path, OpenModes.w), LAMBDA w :
                           AndThen(f_write(w, op.data), f_close))
SetupTree(t, op) ==
    LET c == Canonical(<<>>, op.path.segs)
    IN  CASE op.do = "mkdir" -> Put(t, c, DirNode)
          [] op.do = "file" -> Put(t, c, FileWith(op.data))

RECURSIVE Prepared(_, _, _)
Prepared(v, t, ops) ==
    IF ops = <<>> THEN [vol |-> v, tree |-> t]
    ELSE Prepared(Rest(SetupCall(v, Head(ops))), SetupTree(t, Head(ops)), Tail(ops))

(* init formats the volume; the setup precedes the scenario.                *)
Init ==
    /\ sc \in Scenarios
    /\ steps = 0 /\ boots = 0
    /\ \E type \in sc.types, persistent \in sc.disks, budget \in sc.budgets :
       \E start \in {Prepared(mount_volume(f_mkfs(type), type, persistent, Unlimited), <<>>, sc.setup)} :
          /\ vol = [start.vol EXCEPT !.budget = budget]
          /\ tree = start.tree /\ kept = start.tree
    /\ files_ = <<>> /\ inverse_file_paths_ = <<>> /\ file_paths_ = <<>>
    /\ next_handle_ = FirstHandle
    /\ dirs = <<>> /\ dir_paths_ = <<>> /\ dirents_ = {}
    /\ want = <<>> /\ torn = {} /\ cwd = <<>>
    /\ broken = {}

Next ==
    \/ \E p \in sc.paths : \/ \E m \in sc.modes : Open(p, m)
                           \/ Mkdir(p) \/ Unlink(p) \/ Stat(p) \/ Access(p) \/ Utimes(p)
                           \/ Opendir(p) \/ Chdir(p)
                           \/ \E q \in sc.paths : Rename(p, q)
    \/ \E h \in DOMAIN files_ :
          \/ Close(h) \/ Fstat(h)
          \/ \E n \in sc.lengths : Read(h, n) \/ Ftruncate(h, n) \/ Pread(h, SS, n)
          \/ \E k \in sc.seeks : Lseek(h, k.whence, k.offset)
          \/ \E data \in sc.data : Write(h, data) \/ \E n \in sc.lengths : Pwrite(h, data, n)
    \/ \E d \in DOMAIN dirs : Readdir(d) \/ Closedir(d)
    \/ Getcwd
    \/ \E sect \in sc.lost : Restart(sect)

Spec == Init /\ [][Next]_vars

-----------------------------------------------------------------------------
(* Properties.                                                              *)

(* The maps of the file manager: a handle in use has a FIL object and a     *)
(* path, and a remembered path or DIR leads to a handle or DIR in use.      *)
HandlesConsistent ==
    /\ DOMAIN files_ \subseteq FirstHandle .. LastHandle
    /\ next_handle_ \in FirstHandle .. LastHandle + 1
    /\ DOMAIN inverse_file_paths_ = DOMAIN files_ /\ DOMAIN want = DOMAIN files_
    /\ \A p \in DOMAIN file_paths_ : /\ file_paths_[p] \in DOMAIN files_
                                     /\ inverse_file_paths_[file_paths_[p]] = p
    /\ \A p \in DOMAIN dir_paths_ : dirs[dir_paths_[p]].open
    /\ vol.winsect \in Sectors \cup {NoSect}
    /\ vol.cdir \in {0} \cup 2 .. NFatEnt - 1

Trusted == disk_ok(vol) /\ (boots = 0 \/ torn = {})

(* The heads of the chains of an image: those of its objects, with the head *)
(* an open file has in memory instead of the one in its entry.              *)
Written == {h \in DOMAIN files_ : "WRITE" \in files_[h].mode}

ProperChains(img, heads) ==
    /\ \A c \in heads : c \in 2 .. NFatEnt - 1 /\ Ends(img, c)
    /\ \A c, d \in heads : c = d \/ ClustersOf(img, c) \cap ClustersOf(img, d) = {}
Fits(img, clu, size) == size <= ClusterBytes * (IF clu = 0 THEN 0 ELSE Len(Chain(img, clu)))

(* fs->free_clst of a FAT32 volume is the number of free clusters: a wrong  *)
(* count makes create_chain refuse space there is.                          *)
FreeCountExact ==
    (disk_ok(vol) /\ boots = 0 /\ vol.fs_type = "FAT32") =>
        vol.free_clst = Cardinality({c \in 2 .. NFatEnt - 1 : FatOf(Image(vol), c) = 0})

(* put_fat, create_chain, remove_chain: no cluster belongs to two files or  *)
(* directories, every chain ends and holds all bytes of its file, and no    *)
(* cluster is lost, whatever calls filled, shrank and moved the files; and  *)
(* free_clst is exact.                                                      *)
VolumeSound ==
    /\ FreeCountExact
    /\ Trusted =>
       \E img \in {Image(vol)} :
       \E objs \in {Objects(img, vol.fs_type)} :
       \E closed \in {{o \in objs : \A h \in Written : want[h].at # o.path}} :
       \E heads \in {(({o.entry.clu : o \in closed} \cup {files_[h].sclust : h \in Written})
                          \cup {RootTable(vol.fs_type)}) \ {0}} :
           /\ ProperChains(img, heads)
           /\ \A o, p \in closed : o.entry.clu = p.entry.clu => o.entry.clu = 0 \/ o = p
           /\ \A o \in closed : Fits(img, o.entry.clu, o.entry.size)
           /\ \A h \in Written : files_[h].err = "OK" => Fits(img, files_[h].sclust, files_[h].objsize)
           /\ boots = 0 =>
                {c \in 2 .. NFatEnt - 1 : FatOf(img, c) # 0} = UNION {ClustersOf(img, d) : d \in heads}

(* A read returns the bytes that were written, through any handle the       *)
(* client may use, after any seeks, cuts, appends and full-volume writes.   *)
ReadsSeeWrites == "data" \notin broken

(* stat, getcwd and readdir tell the truth: the kind and size of a closed   *)
(* file, the current directory, the names of objects that are there.  A     *)
(* call fails when it must and succeeds when nothing stands in its way, and *)
(* leaves the maps of handles and paths consistent.                         *)
AnswersTrue == broken \cap {"answer", "outcome"} = {} /\ HandlesConsistent

(* dir_register: no two entries of a directory have the same name or the    *)
(* same short name.                                                         *)
NamesUnique(objs) ==
    \A o, p \in objs :
        o.parent = p.parent /\ (o.path = p.path \/ o.entry.fn = p.entry.fn) => o = p

(* readdir shows every object that stays in the directory while it is       *)
(* listed, and shows it once.                                               *)
ListingComplete ==
    \A d \in DOMAIN dirs : dirs[d].ended =>
        \A c \in dirs[d].stable :
            Cardinality({i \in DOMAIN dirs[d].seen : dirs[d].seen[i] = c}) = 1

(* The volume holds exactly the files and directories the client made, and  *)
(* the closed ones hold the data it wrote; names are unique and listings    *)
(* complete.                                                                *)
TreeAgrees ==
    /\ ListingComplete
    /\ Trusted =>
       \E objs \in {Objects(Image(vol), vol.fs_type)} :
       \E found \in {TreeFrom(Image(vol), objs)} :
           /\ NamesUnique(objs)
           /\ DOMAIN found = DOMAIN tree
           /\ \A c \in DOMAIN tree : Writers(c) = {} =>
                 /\ found[c].kind = tree[c].kind
                 /\ Matches(found[c].data, tree[c].data)

(* The order in which sectors reach the disk: whenever the enclave dies,    *)
(* the objects on the disk have chains of their own that end and are long   *)
(* enough.  Exempt are files being renamed and files cut but not yet saved. *)
CutSound(objs) ==
    /\ ProperChains(vol.disk, ({o.entry.clu : o \in objs} \cup {RootTable(vol.fs_type)}) \ {0})
    /\ \A o, p \in objs : o.entry.clu = p.entry.clu => o.entry.clu = 0 \/ o = p
    /\ \A o \in objs : Fits(vol.disk, o.entry.clu, o.entry.size)

(* What close, mkdir and rename completed is on the disk with its data, and *)
(* stays there through a failing disk and a restart; what unlink removed    *)
(* does not come back; and at any moment the disk alone is sound.           *)
Durable ==
    \E objs \in {Objects(vol.disk, vol.fs_type)} :
    \E found \in {TreeFrom(vol.disk, objs)} :
        /\ boots = 0 => CutSound({o \in objs : \A c \in torn : ~Under(o.path, c)})
        /\ \A c \in DOMAIN kept : c \in DOMAIN found /\ Matches(found[c].data, kept[c].data)
        /\ Trusted => DOMAIN found \subseteq DOMAIN tree
=============================================================================
