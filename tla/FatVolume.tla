------------------------------ MODULE FatVolume ------------------------------
(***************************************************************************)
(* The FAT driver (src/cpp/fatfs/common/src/ff.cpp) over a disk that may   *)
(* stop accepting writes after any sector.                                 *)
(*                                                                         *)
(* The volume and the FATFS object that is mounted on it are one record v. *)
(* A function of ff.cpp is an operator from v to v; its FRESULT is left in *)
(* v.res, a returned number in v.val, the DIR and FIL objects it works on  *)
(* are v.dp and v.fil, and a read buffer is v.out.  Sectors hold values of *)
(* four shapes: a FAT sector of FAT16 and FAT32 maps entry offsets to      *)
(* cluster numbers, one of FAT12 maps offsets to bytes, a directory sector *)
(* maps entry offsets to directory entries, and any other sector is a      *)
(* tuple of data bytes.                                                    *)
(***************************************************************************)
EXTENDS Integers, Sequences, FiniteSets

CONSTANTS NFatEnt,      \* fs->n_fatent: clusters are 2 .. NFatEnt - 1
          FatPerSect,   \* FAT entries in a sector
          DirPerSect,   \* directory entries in a sector
          SS,           \* bytes in a sector
          CSize,        \* fs->csize: sectors in a cluster
          NibbleRange,  \* 16: a FAT12 entry is one and a half bytes
          FSizeRange,   \* 2^32: file sizes and offsets are FSIZE_t
          NRootSect,    \* sectors of the static root directory of FAT12 and FAT16
          MaxDir,       \* MAX_DIR, in directory entries
          NameInfo      \* what create_name derives from a path segment

ASSUME VolumeAssumption ==
    /\ {NFatEnt, FatPerSect, DirPerSect, SS, CSize, NRootSect, MaxDir, FSizeRange} \subseteq Nat \ {0}
    /\ NFatEnt > 2 /\ DirPerSect > 1 /\ SS > 1
    /\ NibbleRange \in Nat /\ NFatEnt <= (NibbleRange - 1) * NibbleRange * NibbleRange
    /\ \A n \in DOMAIN NameInfo :
          {"key", "fn", "loss", "ents"} = DOMAIN NameInfo[n]

Unlimited == -1         \* a budget that never runs out
EOC == NFatEnt          \* end of chain: any value >= n_fatent
DiskError == -1         \* 0xFFFFFFFF as the value of a FAT entry
Unknown == NFatEnt + 1  \* 0xFFFFFFFF in free_clst and last_clst
NoOfs == -1             \* 0xFFFFFFFF in blk_ofs
NoSect == -1            \* an invalid window

-----------------------------------------------------------------------------
(* Layout of the volume.                                                    *)

volbase == 0
fatbase == volbase + 2
fsize == (NFatEnt + FatPerSect - 1) \div FatPerSect
rootbase == fatbase + fsize
database == rootbase + NRootSect
Sectors == volbase .. database + (NFatEnt - 2) * CSize - 1

clst2sect(clst) == IF clst \in 2 .. NFatEnt - 1 THEN database + (clst - 2) * CSize ELSE 0
ClusterBytes == CSize * SS

(* A directory entry, and its first byte: end of table, deleted, in use.    *)
EndMark == 0
DDEM == 1
InUse == 2
NoEntry == [c |-> EndMark, attr |-> "none", fn |-> <<0, 0>>, nm |-> "",
            ord |-> 0, last |-> FALSE, sum |-> 0, clu |-> 0, size |-> 0]
ZeroDir == [i \in 0 .. DirPerSect - 1 |-> NoEntry]
Dot == <<-1, 0>>
DotDot == <<-2, 0>>

NoDir == [sclust |-> 0, dptr |-> 0, clust |-> 0, sect |-> 0, fn |-> <<0, 0>>,
          nm |-> "", ns |-> {}, blk_ofs |-> NoOfs, attr |-> "none"]
NoFil == [sclust |-> 0, objsize |-> 0, fptr |-> 0, clust |-> 0, sect |-> 0,
          buf |-> <<>>, dirty |-> FALSE, modified |-> FALSE, mode |-> {},
          err |-> "OK", dir_sect |-> 0, dir_ptr |-> 0, fs |-> FALSE]

Min2(a, b) == IF a < b THEN a ELSE b

Return(v, r) == [v EXCEPT !.res = r]
AndThen(v, F(_)) == IF v.res = "OK" THEN F(v) ELSE v
Then(v, F(_)) == F(v)

-----------------------------------------------------------------------------
(* The disk, and the window: the one sector the driver caches.              *)

(* A disk in memory reads and writes always; a persistent one through the   *)
(* host, and once the host fails a write every call fails, since diskRead   *)
(* flushes before it reads.  A persistent sector that was never written     *)
(* cannot be decrypted.                                                     *)
disk_write(v, sect, content) ==
    IF v.budget = 0
    THEN Return(v, "DISK_ERR")
    ELSE [v EXCEPT !.disk[sect] = content, !.res = "OK",
                   !.budget = IF @ = Unlimited THEN @ ELSE @ - 1]

disk_ok(v) == v.budget # 0

(* A write of several sectors stops at the first that fails.                *)
RECURSIVE WriteSectors(_, _, _)
WriteSectors(v, sect, contents) ==
    IF contents = <<>>
    THEN Return(v, "OK")
    ELSE AndThen(disk_write(v, sect, Head(contents)), LAMBDA w : WriteSectors(w, sect + 1, Tail(contents)))

Blank == <<>>           \* a sector that was never written
disk_readable(v, sect) == disk_ok(v) /\ (v.persistent => DOMAIN v.disk[sect] # {})

(* A sector read as file data, and one read as a directory table.           *)
Junk == -1
AsBytes(c) == CASE DOMAIN c = 1 .. SS -> c
                [] DOMAIN c = {} -> [i \in 1 .. SS |-> 0]
                [] OTHER -> [i \in 1 .. SS |-> Junk]
AsTable(c) == CASE DOMAIN c = {} -> ZeroDir
                [] DOMAIN c = 1 .. SS -> [i \in 0 .. DirPerSect - 1 |->
                       [NoEntry EXCEPT !.c = InUse, !.attr = "arc", !.fn = <<99, i>>]]
                [] OTHER -> c

sync_window(v) ==
    IF v.wflag
    THEN AndThen(disk_write(v, v.winsect, v.win), LAMBDA w : [w EXCEPT !.wflag = FALSE])
    ELSE Return(v, "OK")

move_window(v, sect) ==
    IF sect = v.winsect
    THEN Return(v, "OK")
    ELSE AndThen(sync_window(v), LAMBDA w :
            IF disk_readable(w, sect)
            THEN [w EXCEPT !.win = IF sect < rootbase THEN w.disk[sect] ELSE AsTable(w.disk[sect]),
                           !.winsect = sect]
            ELSE [w EXCEPT !.winsect = NoSect, !.res = "DISK_ERR"])

(* The FSInfo sector goes through the window; its write may fail unnoticed. *)
sync_fs(v) ==
    AndThen(sync_window(v), LAMBDA w :
        LET info == [free |-> w.free_clst, nxt |-> w.last_clst]
            x == IF w.fs_type = "FAT32" /\ w.fsi_flag
                 THEN [disk_write(w, volbase + 1, info) EXCEPT
                          !.win = info, !.winsect = volbase + 1, !.fsi_flag = FALSE]
                 ELSE w
        IN  Return(x, IF disk_ok(x) THEN "OK" ELSE "DISK_ERR"))

(* Changes the entry that starts at offset i of the window.                 *)
SetWin(v, i, e) == [v EXCEPT !.win[i] = e, !.wflag = TRUE]

-----------------------------------------------------------------------------
(* The file allocation table.                                               *)

FatBytes == 2 * FatPerSect      \* bytes in a FAT sector of FAT12

(* The places that hold the entry of a cluster, in the order in which they  *)
(* are visited.  A place has the digits of value (entry \div scale) % range *)
(* as its own digits from unit on.  An entry of FAT12 has parts in two      *)
(* bytes, which may lie in two sectors.                                     *)
BytePlace(b, unit, scale, range) ==
    [sect |-> fatbase + b \div FatBytes, at |-> b % FatBytes, unit |-> unit, scale |-> scale, range |-> range]
FatPlaces(fs_type, clst) ==
    LET bc == clst + clst \div 2
    IN  CASE fs_type = "FAT12" /\ clst % 2 = 0 ->
               <<BytePlace(bc, 1, 1, NibbleRange ^ 2), BytePlace(bc + 1, 1, NibbleRange ^ 2, NibbleRange)>>
          [] fs_type = "FAT12" /\ clst % 2 = 1 ->
               <<BytePlace(bc, NibbleRange, 1, NibbleRange), BytePlace(bc + 1, 1, NibbleRange, NibbleRange ^ 2)>>
          [] OTHER -> <<[sect |-> fatbase + clst \div FatPerSect, at |-> clst % FatPerSect,
                         unit |-> 1, scale |-> 1, range |-> EOC + 1]>>

Digits(p, n) == (n \div p.unit) % p.range

(* Moves the window to one place after another and adds up the entry.       *)
RECURSIVE LoadEntry(_, _, _)
LoadEntry(v, places, sum) ==
    IF places = <<>>
    THEN [v EXCEPT !.val = sum]
    ELSE LET p == Head(places)
         IN  Then(move_window(v, p.sect), LAMBDA w :
                IF w.res = "OK" THEN LoadEntry(w, Tail(places), sum + Digits(p, w.win[p.at]) * p.scale)
                ELSE [w EXCEPT !.val = DiskError])

get_fat(v, clst) ==
    IF clst \in 2 .. NFatEnt - 1
    THEN LoadEntry(v, FatPlaces(v.fs_type, clst), 0)
    ELSE [v EXCEPT !.val = 1]

(* The first part of an entry is in the window, and may reach the disk,     *)
(* before the second one is read.                                           *)
RECURSIVE StoreEntry(_, _, _)
StoreEntry(v, places, val) ==
    IF places = <<>>
    THEN v
    ELSE LET p == Head(places)
         IN  AndThen(move_window(v, p.sect), LAMBDA w :
                StoreEntry(SetWin(w, p.at, w.win[p.at] +
                                     (((val \div p.scale) % p.range) - Digits(p, w.win[p.at])) * p.unit),
                           Tail(places), val))

put_fat(v, clst, val) ==
    LET n == IF val = EOC /\ v.fs_type = "FAT12" THEN NibbleRange ^ 3 - 1 ELSE val
    IN  IF clst \in 2 .. NFatEnt - 1
        THEN StoreEntry(v, FatPlaces(v.fs_type, clst), n)
        ELSE Return(v, "INT_ERR")

(* The loop of remove_chain: frees clst and whatever follows it.            *)
RECURSIVE FreeFrom(_, _)
FreeFrom(v, clst) ==
    Then(get_fat(v, clst), LAMBDA g :
        CASE g.val = 0 -> Return(g, "OK")
          [] g.val = 1 -> Return(g, "INT_ERR")
          [] g.val = DiskError -> Return(g, "DISK_ERR")
          [] OTHER ->
             AndThen(put_fat(g, clst, 0), LAMBDA x :
                LET counted == IF x.free_clst < NFatEnt - 2
                               THEN [x EXCEPT !.free_clst = @ + 1, !.fsi_flag = TRUE]
                               ELSE x
                IN  IF g.val < NFatEnt THEN FreeFrom(counted, g.val) ELSE counted))

RemoveChainUncut(v, clst, pclst) ==     \* mutant: the part that stays has no end
    IF clst < 2 \/ clst >= NFatEnt THEN Return(v, "INT_ERR") ELSE FreeFrom(v, clst)

remove_chain(v, clst, pclst) ==
    IF clst < 2 \/ clst >= NFatEnt
    THEN Return(v, "INT_ERR")
    ELSE AndThen(IF pclst # 0 THEN put_fat(v, pclst, EOC) ELSE Return(v, "OK"),
                 LAMBDA w : FreeFrom(w, clst))

(* The search loop of create_chain: the first free cluster after ncl, going *)
(* around once; val is 0 when there is none.                                *)
RECURSIVE FindFree(_, _, _)
FindFree(v, scl, ncl) ==
    LET around == ncl + 1 >= NFatEnt
        n == IF around THEN 2 ELSE ncl + 1
    IN  IF around /\ n > scl
        THEN [v EXCEPT !.val = 0]
        ELSE Then(get_fat(v, n), LAMBDA g :
                CASE g.val = 0 -> [g EXCEPT !.val = n]
                  [] g.val \in {1, DiskError} -> g
                  [] n = scl -> [g EXCEPT !.val = 0]
                  [] OTHER -> FindFree(g, scl, n))

(* Marks ncl the end of the chain, links it from clst and counts it.        *)
TakeCluster(v, clst, ncl) ==
    Then(AndThen(put_fat(v, ncl, EOC), LAMBDA x : IF clst # 0 THEN put_fat(x, clst, ncl) ELSE x), LAMBDA w :
        IF w.res = "OK"
        THEN [w EXCEPT !.val = ncl, !.last_clst = ncl, !.fsi_flag = TRUE,
                       !.free_clst = IF @ <= NFatEnt - 2 THEN @ - 1 ELSE @]
        ELSE [w EXCEPT !.val = IF w.res = "DISK_ERR" THEN DiskError ELSE 1])

(* A free cluster to follow clst: the next one on the disk, or else what    *)
(* the search finds; a new chain starts where the search says.              *)
FreeCluster(v, clst) ==
    LET hint == CASE v.last_clst \in 2 .. NFatEnt - 1 -> v.last_clst
                  [] clst = 0 -> 1
                  [] OTHER -> clst
        next == IF clst + 1 >= NFatEnt THEN 2 ELSE clst + 1
    IN  Then(IF clst = 0 THEN [v EXCEPT !.val = EOC] ELSE get_fat(v, next), LAMBDA nxt :
            CASE nxt.val \in {1, DiskError} -> nxt
              [] nxt.val = 0 -> [nxt EXCEPT !.val = next]
              [] OTHER -> FindFree(nxt, hint, hint))

(* The cluster after clst in its chain, and at the chain's end, or for      *)
(* clst = 0, a new one.                                                     *)
create_chain(v, clst) ==
    Then(IF clst = 0 THEN [v EXCEPT !.val = EOC] ELSE get_fat(v, clst), LAMBDA cur :
        CASE cur.val \in {0, 1} -> [cur EXCEPT !.val = 1]
          [] cur.val = DiskError -> cur
          [] cur.val \in 2 .. NFatEnt - 1 -> cur
          [] cur.free_clst = 0 -> [cur EXCEPT !.val = 0]
          [] OTHER -> Then(FreeCluster(cur, clst), LAMBDA f :
                          IF f.val >= 2 THEN TakeCluster(f, clst, f.val) ELSE f))

(* What a caller of create_chain or get_fat makes of an unusable value.     *)
ChainResult(val) == CASE val = 0 -> "DENIED" [] val = 1 -> "INT_ERR"
                      [] val = DiskError -> "DISK_ERR" [] OTHER -> "OK"

-----------------------------------------------------------------------------
(* Directory tables.  Offsets count entries.                                *)

Entry(v) == v.win[v.dp.dptr % DirPerSect]                       \* *dp->dir
SetEntry(v, e) == SetWin(v, v.dp.dptr % DirPerSect, e)
MoveToEntry(v) == move_window(v, v.dp.sect)

dir_clear(v, clst) ==
    AndThen(sync_window(v), LAMBDA w :
        WriteSectors([w EXCEPT !.winsect = clst2sect(clst), !.win = ZeroDir],
                     clst2sect(clst), [i \in 1 .. CSize |-> ZeroDir]))

(* Follows the chain of a dynamic table to the cluster that holds ofs.      *)
RECURSIVE SeekEntry(_, _, _)
SeekEntry(v, clst, ofs) ==
    IF ofs >= CSize * DirPerSect
    THEN Then(get_fat(v, clst), LAMBDA g :
            CASE g.val = DiskError -> Return(g, "DISK_ERR")
              [] g.val \notin 2 .. NFatEnt - 1 -> Return(g, "INT_ERR")
              [] OTHER -> SeekEntry(g, g.val, ofs - CSize * DirPerSect))
    ELSE LET sect == clst2sect(clst)
         IN  [v EXCEPT !.dp.clust = clst,
                       !.dp.sect = IF sect = 0 THEN 0 ELSE sect + ofs \div DirPerSect,
                       !.res = IF sect = 0 THEN "INT_ERR" ELSE "OK"]

dir_sdi(v, ofs) ==
    LET w == [v EXCEPT !.dp.dptr = ofs]
        root == IF v.fs_type = "FAT32" THEN 2 ELSE 0
        clst == IF v.dp.sclust = 0 THEN root ELSE v.dp.sclust
    IN  CASE ofs >= MaxDir -> Return(v, "INT_ERR")
          [] clst # 0 -> SeekEntry(w, clst, ofs)
          [] ofs >= NRootSect * DirPerSect -> Return(w, "INT_ERR")
          [] OTHER -> [w EXCEPT !.dp.clust = 0, !.dp.sect = rootbase + ofs \div DirPerSect,
                                !.res = "OK"]

(* The cluster that follows the last one of a table, cleared before use but *)
(* after it was linked; v.half remembers it until it is cleared.            *)
StretchTable(v) ==
    Then(create_chain(v, v.dp.clust), LAMBDA c :
        IF ChainResult(c.val) # "OK"
        THEN Return(c, ChainResult(c.val))
        ELSE AndThen(dir_clear([c EXCEPT !.half = c.val], c.val), LAMBDA w :
                [w EXCEPT !.val = c.val, !.half = 0]))

EndOfTable(v) == [v EXCEPT !.dp.sect = 0, !.res = "NO_FILE"]

(* dir_next without stretching: the table ends behind its last cluster.     *)
AtEntry(v, ofs, clst, sect) == [v EXCEPT !.dp.dptr = ofs, !.dp.clust = clst, !.dp.sect = sect, !.res = "OK"]
dir_next(v) ==
    LET ofs == v.dp.dptr + 1
    IN  CASE ofs >= MaxDir \/ v.dp.sect = 0 -> EndOfTable(v)
          [] ofs % DirPerSect # 0 -> AtEntry(v, ofs, v.dp.clust, v.dp.sect)
          [] v.dp.clust = 0 ->
               IF ofs >= NRootSect * DirPerSect THEN EndOfTable(v) ELSE AtEntry(v, ofs, 0, v.dp.sect + 1)
          [] v.dp.clust # 0 /\ (ofs \div DirPerSect) % CSize # 0 -> AtEntry(v, ofs, v.dp.clust, v.dp.sect + 1)
          [] OTHER ->
             Then(get_fat([v EXCEPT !.dp.sect = @ + 1], v.dp.clust), LAMBDA g :
             CASE g.val \in {0, 1} -> Return(g, "INT_ERR")
               [] g.val = DiskError -> Return(g, "DISK_ERR")
               [] g.val < NFatEnt -> AtEntry(g, ofs, g.val, clst2sect(g.val))
               [] OTHER -> EndOfTable(g))

(* dir_next that stretches a dynamic table behind its last cluster.         *)
StretchNext(v) ==
    Then(dir_next(v), LAMBDA w :
        IF w.res = "NO_FILE" /\ v.dp.clust # 0 /\ v.dp.sect # 0 /\ v.dp.dptr + 1 < MaxDir
        THEN AndThen(StretchTable([w EXCEPT !.dp.sect = v.dp.sect + 1]), LAMBDA x :
                AtEntry(x, v.dp.dptr + 1, x.val, clst2sect(x.val)))
        ELSE w)

(* The loop of dir_alloc; n entries before the current one are free.        *)
RECURSIVE AllocFrom(_, _, _)
AllocFrom(v, n, n_ent) ==
    AndThen(MoveToEntry(v), LAMBDA w :
        LET m == IF Entry(w).c \in {DDEM, EndMark} THEN n + 1 ELSE 0
        IN  IF m = n_ent
            THEN w
            ELSE AndThen(StretchNext(w), LAMBDA x : AllocFrom(x, m, n_ent)))

dir_alloc(v, n_ent) ==
    Then(AndThen(dir_sdi(v, 0), LAMBDA x : AllocFrom(x, 0, n_ent)), LAMBDA w :
        Return(w, IF w.res = "NO_FILE" THEN "DENIED" ELSE w.res))

(* Names.  A short name is <<body, number>>; number 0 is the plain body.    *)
sum_sfn(fn) == (fn[1] * 16 + fn[2]) % 256

gen_numname(fn, n) == <<fn[1], n>>

cmp_lfn(nm, e) == nm \in DOMAIN NameInfo /\ NameInfo[e.nm].key = NameInfo[nm].key

put_lfn(nm, ord, sum) ==
    [NoEntry EXCEPT !.c = InUse, !.attr = "lfn", !.nm = nm, !.ord = ord,
                    !.last = ord = NameInfo[nm].ents, !.sum = sum]

NoOrd == -1

(* The loop of dir_find: ord is the long-name part expected next, sum the   *)
(* checksum of the long name being followed.                                *)
RECURSIVE FindFrom(_, _, _)
FindFrom(v, ord, sum) ==
    AndThen(MoveToEntry(v), LAMBDA w :
        LET e == Entry(w)
            start == e.last /\ e.c = InUse
            s == IF start THEN e.sum ELSE sum
            o == IF start THEN e.ord ELSE ord
            a == [w EXCEPT !.dp.attr = e.attr]
            reset == [v |-> [a EXCEPT !.dp.blk_ofs = NoOfs], ord |-> NoOrd, sum |-> sum]
            on == CASE e.c = DDEM \/ e.attr # "lfn" -> reset
                    [] "NOLFN" \in w.dp.ns -> [v |-> a, ord |-> ord, sum |-> sum]
                    [] OTHER -> [v |-> IF start THEN [a EXCEPT !.dp.blk_ofs = a.dp.dptr] ELSE a,
                                 ord |-> IF e.ord = o /\ e.sum = s /\ cmp_lfn(w.dp.nm, e)
                                         THEN o - 1 ELSE NoOrd,
                                 sum |-> s]
            found == /\ e.c # DDEM /\ e.attr # "lfn"
                     /\ \/ ord = 0 /\ sum = sum_sfn(e.fn)
                        \/ "LOSS" \notin w.dp.ns /\ e.fn = w.dp.fn
        IN  CASE e.c = EndMark -> Return(w, "NO_FILE")
              [] e.c # EndMark /\ found -> a
              [] OTHER -> AndThen(dir_next(on.v), LAMBDA y : FindFrom(y, on.ord, on.sum)))

dir_find(v) ==
    AndThen(dir_sdi(v, 0), LAMBDA w : FindFrom([w EXCEPT !.dp.blk_ofs = NoOfs], NoOrd, NoOrd))

(* The loop of dir_read: the next entry that is a file or a directory.      *)
RECURSIVE ReadFrom(_, _, _)
ReadFrom(v, ord, sum) ==
    IF v.dp.sect = 0
    THEN Return(v, "NO_FILE")
    ELSE AndThen(MoveToEntry(v), LAMBDA w :
        LET e == Entry(w)
            start == e.last
            s == IF start THEN e.sum ELSE sum
            o == IF start THEN e.ord ELSE ord
            a == [w EXCEPT !.dp.attr = e.attr]
            skip == e.c = DDEM \/ e.fn \in {Dot, DotDot}
            on == IF skip THEN [v |-> a, ord |-> NoOrd, sum |-> sum]
                  ELSE [v |-> [a EXCEPT !.dp.blk_ofs = IF start THEN a.dp.dptr ELSE @,
                                        !.dp.nm = e.nm],
                        ord |-> IF e.ord = o /\ e.sum = s THEN o - 1 ELSE NoOrd, sum |-> s]
        IN  CASE e.c = EndMark -> Return(w, "NO_FILE")
              [] e.c # EndMark /\ (skip \/ e.attr = "lfn") ->
                   AndThen(dir_next(on.v), LAMBDA y : ReadFrom(y, on.ord, on.sum))
              [] OTHER ->
                   IF ord # 0 \/ sum # sum_sfn(e.fn) THEN [a EXCEPT !.dp.blk_ofs = NoOfs] ELSE a)

dir_read(v) ==
    Then(ReadFrom(v, NoOrd, NoOrd), LAMBDA w :
        IF w.res = "OK" THEN w ELSE [w EXCEPT !.dp.sect = 0])

FileInfoShort(v) ==                     \* mutant: the long name is left out
    LET e == Entry(v) IN [lfn |-> "", fn |-> e.fn, attr |-> e.attr, size |-> e.size]

(* What a directory listing shows of the entry dp points to.                *)
get_fileinfo(v) ==
    LET e == Entry(v)
    IN  [lfn |-> IF v.dp.blk_ofs = NoOfs THEN "" ELSE v.dp.nm,
         fn |-> e.fn, attr |-> e.attr, size |-> e.size]

(* The first numbered short name that no entry of the directory has.        *)
MaxNumName == 99
RECURSIVE NumberName(_, _, _)
NumberName(v, fn, n) ==
    IF n > MaxNumName
    THEN Return(v, "DENIED")
    ELSE Then(dir_find([v EXCEPT !.dp.fn = gen_numname(fn, n), !.dp.ns = {"NOLFN"}]), LAMBDA w :
            IF w.res = "OK" THEN NumberName(w, fn, n + 1) ELSE w)

(* Stores the parts n, n - 1, .. 1 of the long name, one entry after        *)
(* another.                                                                 *)
RECURSIVE PutParts(_, _)
PutParts(v, n) ==
    IF n = 0
    THEN v
    ELSE AndThen(MoveToEntry(v), LAMBDA w :
            AndThen(dir_next(SetEntry(w, put_lfn(w.dp.nm, n, sum_sfn(w.dp.fn)))),
                    LAMBDA x : PutParts(x, n - 1)))

(* The number of entries that hold the long name.                           *)
LongParts(dp) == IF "LFN" \in dp.ns THEN NameInfo[dp.nm].ents ELSE 0

StoreName(v, parts) ==
    AndThen(AndThen(AndThen(dir_alloc(v, parts + 1), LAMBDA a :
        IF parts = 0 THEN a ELSE dir_sdi(a, a.dp.dptr - parts)), LAMBDA b :
        AndThen(PutParts(b, parts), MoveToEntry)), LAMBDA c :
        SetEntry(c, [NoEntry EXCEPT !.c = InUse, !.fn = c.dp.fn, !.nm = IF parts = 0 THEN c.dp.nm ELSE ""]))

dir_register(v) ==
    IF v.dp.ns \cap {"DOT", "NONAME"} # {}
    THEN Return(v, "INVALID_NAME")
    ELSE Then(IF "LOSS" \in v.dp.ns THEN NumberName(v, v.dp.fn, 1) ELSE Return(v, "NO_FILE"), LAMBDA w :
            IF w.res = "NO_FILE" THEN StoreName([w EXCEPT !.dp.ns = v.dp.ns], LongParts(v.dp)) ELSE w)

(* Deletes the entries from the current one up to last.                     *)
RECURSIVE RemoveUpTo(_, _)
RemoveUpTo(v, last) ==
    AndThen(MoveToEntry(v), LAMBDA w :
        LET d == SetEntry(w, [Entry(w) EXCEPT !.c = DDEM])
        IN  IF d.dp.dptr >= last
            THEN d
            ELSE AndThen(dir_next(d), LAMBDA x : RemoveUpTo(x, last)))

dir_remove(v) ==
    Then(AndThen(IF v.dp.blk_ofs = NoOfs THEN Return(v, "OK") ELSE dir_sdi(v, v.dp.blk_ofs), LAMBDA x :
        RemoveUpTo(x, v.dp.dptr)), LAMBDA w :
        Return(w, IF w.res = "NO_FILE" THEN "INT_ERR" ELSE w.res))

-----------------------------------------------------------------------------
(* Paths: [abs |-> does it start with a separator, segs |-> its segments].  *)

create_name(v, seg) ==
    LET info == NameInfo[seg]
    IN  CASE seg = "." -> [v EXCEPT !.dp.fn = Dot, !.dp.nm = seg, !.dp.ns = {"DOT"}]
          [] seg = ".." -> [v EXCEPT !.dp.fn = DotDot, !.dp.nm = seg, !.dp.ns = {"DOT"}]
          [] OTHER -> [v EXCEPT !.dp.fn = info.fn, !.dp.nm = seg,
                                !.dp.ns = (IF info.loss THEN {"LOSS"} ELSE {})
                                              \cup (IF info.ents > 0 THEN {"LFN"} ELSE {})]

RECURSIVE FollowSegments(_, _)
FollowSegments(v, segs) ==
    Then(dir_find(create_name(v, Head(segs))), LAMBDA w :
        LET isLast == Len(segs) = 1
        IN  CASE w.res = "NO_FILE" /\ "DOT" \in w.dp.ns /\ ~isLast -> FollowSegments(w, Tail(segs))
              [] w.res = "NO_FILE" /\ "DOT" \in w.dp.ns /\ isLast ->
                     [w EXCEPT !.dp.ns = {"NONAME"}, !.res = "OK"]
              [] w.res = "NO_FILE" /\ "DOT" \notin w.dp.ns /\ ~isLast -> Return(w, "NO_PATH")
              [] w.res = "OK" /\ ~isLast ->
                     IF w.dp.attr # "dir" THEN Return(w, "NO_PATH")
                     ELSE FollowSegments([w EXCEPT !.dp.sclust = Entry(w).clu], Tail(segs))
              [] OTHER -> w)

follow_path(v, path) ==
    LET w == [v EXCEPT !.dp = [NoDir EXCEPT !.sclust = IF path.abs THEN 0 ELSE v.cdir]]
    IN  IF path.segs = <<>>
        THEN dir_sdi([w EXCEPT !.dp.ns = {"NONAME"}], 0)
        ELSE FollowSegments(w, path.segs)

-----------------------------------------------------------------------------
(* Formatting and mounting.                                                 *)

(* The volume that f_mkfs leaves: the data area is not touched.             *)
f_mkfs(fs_type) ==
    LET root == IF fs_type = "FAT32" THEN {2} ELSE {}
        FatEntry(c) == IF c \in {0, 1} \cup root THEN EOC ELSE 0
        FatByte(b) == IF b < 3 THEN NibbleRange ^ 2 - 1 ELSE 0
    IN  [s \in Sectors |->
            CASE s = volbase + 1 /\ fs_type = "FAT32" ->
                   [free |-> NFatEnt - 3, nxt |-> 2]
              [] s \in fatbase .. rootbase - 1 /\ fs_type = "FAT12" ->
                   [i \in 0 .. FatBytes - 1 |-> FatByte((s - fatbase) * FatBytes + i)]
              [] s \in fatbase .. rootbase - 1 /\ fs_type # "FAT12" ->
                   [i \in 0 .. FatPerSect - 1 |-> FatEntry((s - fatbase) * FatPerSect + i)]
              [] s \in rootbase .. database - 1 /\ fs_type # "FAT32" -> ZeroDir
              [] s \in database .. database + CSize - 1 /\ fs_type = "FAT32" -> ZeroDir
              [] OTHER -> Blank]

(* A FATFS object newly mounted on a disk.                                  *)
mount_volume(disk, fs_type, persistent, budget) ==
    LET fat32 == fs_type = "FAT32"
    IN  [disk |-> disk, fs_type |-> fs_type, persistent |-> persistent, budget |-> budget,
         win |-> disk[volbase + 1], winsect |-> volbase + 1, wflag |-> FALSE,
         free_clst |-> IF fat32 THEN disk[volbase + 1].free ELSE Unknown,
         last_clst |-> IF fat32 THEN disk[volbase + 1].nxt ELSE Unknown,
         fsi_flag |-> FALSE, cdir |-> 0, half |-> 0,
         res |-> "OK", val |-> 0, dp |-> NoDir, fil |-> NoFil, out |-> <<>>]

-----------------------------------------------------------------------------
(* Files.  The FIL object is v.fil.                                         *)

Abort(v, r) == [v EXCEPT !.fil.err = r, !.res = r]

ResetEntryLate(v) ==                    \* mutant: the chain is freed first
    LET cl == Entry(v).clu
        sc == v.winsect
        Cut(x) == SetEntry(x, [Entry(x) EXCEPT !.attr = "arc", !.clu = 0, !.size = 0])
    IN  IF cl = 0 THEN Cut(v)
        ELSE AndThen(AndThen(remove_chain(v, cl, 0), LAMBDA x : move_window(x, sc)), Cut)

(* Truncates the entry dp points to: the chain is freed after the entry no  *)
(* longer refers to it.                                                     *)
ResetEntry(v) ==
    LET cl == Entry(v).clu
        sc == v.winsect
        w == SetEntry(v, [Entry(v) EXCEPT !.attr = "arc", !.clu = 0, !.size = 0])
    IN  IF cl = 0
        THEN w
        ELSE AndThen(remove_chain(w, cl, 0), LAMBDA x :
                [move_window(x, sc) EXCEPT !.last_clst = cl - 1])

(* The chain is followed to the cluster of the last byte.                   *)
RECURSIVE FollowToEnd(_, _, _)
FollowToEnd(v, clst, ofs) ==
    IF ofs <= ClusterBytes
    THEN [v EXCEPT !.val = clst, !.res = "OK"]
    ELSE Then(get_fat(v, clst), LAMBDA g :
            IF g.val \in {0, 1, DiskError}
            THEN Return(g, IF g.val = DiskError THEN "DISK_ERR" ELSE "INT_ERR")
            ELSE FollowToEnd(g, g.val, ofs - ClusterBytes))

(* What is left of the size in the last cluster.                            *)
LastPart(size) == ((size - 1) % ClusterBytes) + 1

SeekEndUnloaded(v) ==                   \* mutant: the last sector is not read
    LET size == v.fil.objsize
    IN  AndThen(FollowToEnd([v EXCEPT !.fil.fptr = size], v.fil.sclust, size), LAMBDA w :
            [w EXCEPT !.fil.clust = w.val,
                      !.fil.sect = IF size % SS # 0 THEN clst2sect(w.val) + LastPart(size) \div SS ELSE @])

(* The FA_OPEN_APPEND part of f_open.                                       *)
SeekEnd(v) ==
    LET size == v.fil.objsize
        part == size % SS # 0
    IN  AndThen(FollowToEnd([v EXCEPT !.fil.fptr = size], v.fil.sclust, size), LAMBDA w :
            LET sc == clst2sect(w.val)
                sect == sc + LastPart(size) \div SS
                x == [w EXCEPT !.fil.clust = w.val, !.fil.sect = IF part /\ sc # 0 THEN sect ELSE @]
            IN  CASE ~part -> x
                  [] part /\ sc = 0 -> Return(x, "INT_ERR")
                  [] part /\ sc # 0 /\ disk_readable(x, sect) -> [x EXCEPT !.fil.buf = AsBytes(x.disk[sect])]
                  [] OTHER -> Return(x, "DISK_ERR"))

Creating(mode) == mode \cap {"CREATE_ALWAYS", "OPEN_ALWAYS", "CREATE_NEW"} # {}

(* The entry of the file: found, made, or an error.                         *)
FileEntry(w, mode) ==
    CASE w.res = "NO_FILE" /\ Creating(mode) -> dir_register(w)
      [] w.res = "OK" /\ "NONAME" \in w.dp.ns -> Return(w, "INVALID_NAME")
      [] w.res = "OK" /\ "NONAME" \notin w.dp.ns /\ w.dp.attr = "dir" ->
             Return(w, IF Creating(mode) THEN "DENIED" ELSE "NO_FILE")
      [] w.res = "OK" /\ "NONAME" \notin w.dp.ns /\ w.dp.attr # "dir" /\ "CREATE_NEW" \in mode ->
             Return(w, "EXIST")
      [] OTHER -> w

FileObject(z, mode, reset) ==
    [NoFil EXCEPT !.sclust = Entry(z).clu, !.objsize = Entry(z).size,
                  !.buf = [i \in 1 .. SS |-> 0], !.modified = reset, !.mode = mode,
                  !.dir_sect = z.winsect, !.dir_ptr = z.dp.dptr % DirPerSect, !.fs = TRUE]

OpenEntry(w, mode) ==
    LET reset == Creating(mode) /\ (w.res = "NO_FILE" \/ "CREATE_ALWAYS" \in mode)
    IN  AndThen(AndThen(AndThen(FileEntry(w, mode), LAMBDA x :
            IF reset THEN ResetEntry(x) ELSE x), LAMBDA y :
            [y EXCEPT !.fil = FileObject(y, mode, reset)]), LAMBDA z :
            IF "SEEKEND" \in mode /\ z.fil.objsize > 0 THEN SeekEnd(z) ELSE z)

f_open(v, path, mode) ==
    Then(Then(follow_path(v, path), LAMBDA w : OpenEntry(w, mode)), LAMBDA z :
        IF z.res = "OK" THEN z ELSE [z EXCEPT !.fil = NoFil])

(* Writes the sector buffer back if it is dirty.                            *)
WriteBack(v) ==
    IF v.fil.dirty
    THEN AndThen(disk_write(v, v.fil.sect, v.fil.buf), LAMBDA w : [w EXCEPT !.fil.dirty = FALSE])
    ELSE Return(v, "OK")

FillBuffer(v, sect) ==
    IF disk_readable(v, sect)
    THEN [v EXCEPT !.fil.buf = AsBytes(v.disk[sect]), !.fil.sect = sect, !.res = "OK"]
    ELSE Return(v, "DISK_ERR")

AbortOnError(v) == IF v.res = "OK" THEN v ELSE Abort(v, v.res)

(* The sector of the cluster that the file pointer is in, and how many of n *)
(* bytes, in sectors, the cluster holds from there on.                      *)
csect(v) == (v.fil.fptr \div SS) % CSize
WholeSectors(v, n) == Min2(n \div SS, CSize - csect(v))

(* The bytes of cc sectors; the cached one may be newer than the disk.      *)
RECURSIVE SectorBytes(_, _, _)
SectorBytes(v, sect, cc) ==
    IF cc = 0 THEN <<>>
    ELSE (IF v.fil.dirty /\ v.fil.sect = sect THEN v.fil.buf ELSE AsBytes(v.disk[sect]))
             \o SectorBytes(v, sect + 1, cc - 1)

(* The loop of f_read: n bytes are still wanted.                            *)
RECURSIVE ReadLoop(_, _)
ReadLoop(v, n) ==
    LET ofs == v.fil.fptr % SS
        k == Min2(n, SS - ofs)
        Take(w, bytes) == [w EXCEPT !.out = @ \o bytes, !.fil.fptr = @ + Len(bytes)]
        FromBuffer(w) == ReadLoop(Take(w, SubSeq(w.fil.buf, ofs + 1, ofs + k)), n - k)
        Cached(w, sect) == IF w.fil.sect = sect THEN Return(w, "OK")
                           ELSE AndThen(WriteBack(w), LAMBDA x : FillBuffer(x, sect))
        Cluster == CASE csect(v) # 0 -> [v EXCEPT !.val = v.fil.clust]
                     [] v.fil.fptr = 0 -> [v EXCEPT !.val = v.fil.sclust]
                     [] OTHER -> get_fat(v, v.fil.clust)
    IN  CASE n = 0 -> Return(v, "OK")
          [] n > 0 /\ ofs # 0 -> FromBuffer(v)
          [] OTHER ->
             Then(Cluster, LAMBDA g :
             LET w == [g EXCEPT !.fil.clust = g.val]
                 sect == clst2sect(g.val) + csect(v)
                 cc == WholeSectors(v, n)
             IN  CASE g.val = DiskError -> Abort(g, "DISK_ERR")
                   [] g.val \in {0, 1} -> Abort(g, "INT_ERR")
                   [] g.val \notin {0, 1, DiskError} /\ clst2sect(g.val) = 0 -> Abort(w, "INT_ERR")
                   [] clst2sect(g.val) # 0 /\ cc > 0 ->
                        IF \A s \in sect .. sect + cc - 1 : disk_readable(w, s)
                        THEN ReadLoop(Take(w, SectorBytes(w, sect, cc)), n - cc * SS)
                        ELSE Abort(w, "DISK_ERR")
                   [] OTHER -> AndThen(AbortOnError(Cached(w, sect)), FromBuffer))

f_read(v, btr) ==
    LET w == [v EXCEPT !.out = <<>>]
    IN  CASE v.fil.err # "OK" -> Return(w, v.fil.err)
          [] "READ" \notin v.fil.mode -> Return(w, "DENIED")
          [] OTHER -> ReadLoop(w, Min2(btr, v.fil.objsize - v.fil.fptr))

(* The cluster that f_write writes to next, allocated when there is none.   *)
WriteCluster(v) ==
    CASE csect(v) # 0 -> [v EXCEPT !.val = v.fil.clust]
      [] csect(v) = 0 /\ v.fil.fptr = 0 /\ v.fil.sclust # 0 -> [v EXCEPT !.val = v.fil.sclust]
      [] OTHER -> create_chain(v, IF v.fil.fptr = 0 THEN 0 ELSE v.fil.clust)

(* The loop of f_write; it ends early, without an error, on a full volume.  *)
(* v.val is the number of bytes that were not written.                      *)
RECURSIVE WriteLoop(_, _)
WriteLoop(v, data) ==
    LET ofs == v.fil.fptr % SS
        k == Min2(Len(data), SS - ofs)
        cc == WholeSectors(v, Len(data))
        After(x, n) ==
            LET fptr == (x.fil.fptr + n) % FSizeRange
            IN  WriteLoop([x EXCEPT !.fil.fptr = fptr, !.fil.objsize = IF fptr > @ THEN fptr ELSE @],
                          SubSeq(data, n + 1, Len(data)))
        Put(x) == After([x EXCEPT !.fil.dirty = TRUE,
                                  !.fil.buf = [i \in 1 .. SS |-> IF i \in ofs + 1 .. ofs + k
                                                                 THEN data[i - ofs] ELSE @[i]]], k)
        Sector(i) == SubSeq(data, i * SS + 1, i * SS + SS)
        Direct(x, sect) ==
            AndThen(AbortOnError(WriteSectors(x, sect, [i \in 1 .. cc |-> Sector(i - 1)])), LAMBDA y :
                After(IF y.fil.sect \in sect .. sect + cc - 1
                      THEN [y EXCEPT !.fil.buf = Sector(y.fil.sect - sect), !.fil.dirty = FALSE]
                      ELSE y, cc * SS))
        Buffered(x, sect) ==
            AndThen(AbortOnError(IF x.fil.sect # sect /\ x.fil.fptr < x.fil.objsize
                                 THEN FillBuffer(x, sect) ELSE [x EXCEPT !.fil.sect = sect]), Put)
        InCluster(c) ==
            LET w == [c EXCEPT !.fil.clust = c.val, !.fil.sclust = IF @ = 0 THEN c.val ELSE @]
                sect == clst2sect(c.val) + csect(v)
            IN  AndThen(AbortOnError(WriteBack(w)), LAMBDA x :
                    CASE clst2sect(c.val) = 0 -> Abort(x, "INT_ERR")
                      [] clst2sect(c.val) # 0 /\ cc > 0 -> Direct(x, sect)
                      [] OTHER -> Buffered(x, sect))
    IN  CASE data = <<>> -> [v EXCEPT !.res = "OK", !.fil.modified = TRUE, !.val = 0]
          [] data # <<>> /\ ofs # 0 -> Put(v)
          [] OTHER ->
             Then(WriteCluster(v), LAMBDA c :
             CASE c.val = 0 -> [c EXCEPT !.res = "OK", !.fil.modified = TRUE, !.val = Len(data)]
               [] c.val \in {1, DiskError} -> Abort(c, ChainResult(c.val))
               [] OTHER -> InCluster(c))

(* A file ends before the last offset that an FSIZE_t can hold.             *)
f_write(v, data) ==
    LET btw == Len(data)
        clipped == IF (v.fil.fptr + btw) % FSizeRange < v.fil.fptr THEN FSizeRange - 1 - v.fil.fptr ELSE btw
    IN  CASE v.fil.err # "OK" -> Return(v, v.fil.err)
          [] v.fil.err = "OK" /\ "WRITE" \notin v.fil.mode -> Return(v, "DENIED")
          [] OTHER -> Then(WriteLoop(v, SubSeq(data, 1, clipped)), LAMBDA w :
                         IF w.res = "OK" THEN [w EXCEPT !.val = @ + (btw - clipped)] ELSE w)

f_sync(v) ==
    IF ~v.fil.modified
    THEN Return(v, "OK")
    ELSE AndThen(WriteBack(v), LAMBDA w :
         AndThen(move_window(w, v.fil.dir_sect), LAMBDA x :
            LET i == x.fil.dir_ptr
                e == [x.win[i] EXCEPT !.attr = IF @ = "none" THEN "arc" ELSE @,
                                      !.clu = x.fil.sclust, !.size = x.fil.objsize]
            IN  [sync_fs(SetWin(x, i, e)) EXCEPT !.fil.modified = FALSE]))

f_close(v) == AndThen(f_sync(v), LAMBDA w : [w EXCEPT !.fil.fs = FALSE])

(* The cluster-following loop of f_lseek, with what is left to seek in ofs. *)
(* v.val is the sector to be cached.                                        *)
RECURSIVE SeekLoop(_, _, _)
SeekLoop(v, clst, ofs) ==
    LET write == "WRITE" \in v.fil.mode
        w == [v EXCEPT !.fil.fptr = @ + ClusterBytes]
        nsect == clst2sect(clst) + ofs \div SS
    IN  IF ofs <= ClusterBytes
        THEN [v EXCEPT !.fil.fptr = @ + ofs, !.val = IF ofs % SS = 0 THEN 0 ELSE nsect,
                       !.res = IF ofs % SS # 0 /\ clst2sect(clst) = 0 THEN "INT_ERR" ELSE "OK"]
        ELSE Then(IF write THEN create_chain(w, clst) ELSE get_fat(w, clst), LAMBDA g :
             CASE g.val = 0 /\ write -> [g EXCEPT !.res = "OK"]
               [] g.val = DiskError -> Return(g, "DISK_ERR")
               [] g.val \in 2 .. NFatEnt - 1 ->
                      SeekLoop([g EXCEPT !.fil.clust = g.val], g.val, ofs - ClusterBytes)
               [] OTHER -> Return(g, "INT_ERR"))

(* Where f_lseek starts to follow the chain: at the current cluster when    *)
(* ofs lies behind it, or at the first one, allocated when there is none.   *)
Forward(f, ofs) == f.fptr > 0 /\ (ofs - 1) \div ClusterBytes >= (f.fptr - 1) \div ClusterBytes
SeekStart(v, ofs) ==
    CASE Forward(v.fil, ofs) ->
           [v EXCEPT !.fil.fptr = ((@ - 1) \div ClusterBytes) * ClusterBytes, !.val = v.fil.clust]
      [] ~Forward(v.fil, ofs) /\ v.fil.sclust # 0 ->
           [v EXCEPT !.fil.fptr = 0, !.val = v.fil.sclust, !.fil.clust = v.fil.sclust]
      [] OTHER -> Then(create_chain([v EXCEPT !.fil.fptr = 0], 0), LAMBDA c :
                      IF c.val \in {1, DiskError} THEN c
                      ELSE [c EXCEPT !.fil.sclust = c.val, !.fil.clust = c.val])

SeekTo(v, ofs) ==
    IF ofs = 0
    THEN [v EXCEPT !.fil.fptr = 0, !.val = 0, !.res = "OK"]
    ELSE Then(SeekStart(v, ofs), LAMBDA s :
            CASE s.val \in {1, DiskError} -> Return(s, ChainResult(s.val))
              [] s.val = 0 -> Return(s, "OK")
              [] OTHER -> SeekLoop(s, s.val, ofs - s.fil.fptr))

(* A seek beyond the end of a file open for writing extends the file.       *)
f_lseek(v, to) ==
    LET ofs == IF to > v.fil.objsize /\ "WRITE" \notin v.fil.mode THEN v.fil.objsize ELSE to
    IN  IF v.fil.err # "OK"
        THEN Return(v, v.fil.err)
        ELSE AbortOnError(AndThen(AndThen(SeekTo(v, ofs), LAMBDA x :
                IF x.fil.fptr > x.fil.objsize
                THEN [x EXCEPT !.fil.objsize = x.fil.fptr, !.fil.modified = TRUE] ELSE x), LAMBDA x :
                IF x.fil.fptr % SS # 0 /\ x.val # x.fil.sect
                THEN AndThen(WriteBack(x), LAMBDA y : FillBuffer(y, x.val)) ELSE x))

(* The chain is freed before the directory entry is updated.                *)
CutChain(v) ==
    IF v.fil.fptr = 0
    THEN [remove_chain(v, v.fil.sclust, 0) EXCEPT !.fil.sclust = 0]
    ELSE Then(get_fat(v, v.fil.clust), LAMBDA g :
            CASE g.val \in {1, DiskError} -> Return(g, ChainResult(g.val))
              [] g.val \notin {1, DiskError} /\ g.val < NFatEnt -> remove_chain(g, g.val, v.fil.clust)
              [] OTHER -> Return(g, "OK"))
f_truncate(v) ==
    LET f == v.fil
    IN  CASE f.err # "OK" -> Return(v, f.err)
          [] f.err = "OK" /\ "WRITE" \notin f.mode -> Return(v, "DENIED")
          [] f.err = "OK" /\ "WRITE" \in f.mode /\ f.fptr >= f.objsize -> Return(v, "OK")
          [] OTHER -> AbortOnError(AndThen([CutChain(v) EXCEPT !.fil.objsize = f.fptr, !.fil.modified = TRUE],
                                           WriteBack))

-----------------------------------------------------------------------------
(* Directories and names.  The DIR object is v.dp.                          *)

(* follow_path to a directory: dp.sclust is its first cluster.              *)
EnterDir(v, path) ==
    Then(follow_path(v, path), LAMBDA w :
        CASE w.res = "NO_FILE" -> Return(w, "NO_PATH")
          [] w.res = "OK" /\ "NONAME" \notin w.dp.ns ->
                 IF w.dp.attr = "dir" THEN [w EXCEPT !.dp.sclust = Entry(w).clu]
                 ELSE Return(w, "NO_PATH")
          [] OTHER -> w)

f_opendir(v, path) == AndThen(EnterDir(v, path), LAMBDA w : dir_sdi(w, 0))

(* One entry of the listing goes to v.out; none at the end of the table.    *)
f_readdir(v) ==
    Then(dir_read([v EXCEPT !.out = <<>>]), LAMBDA w :
        CASE w.res = "NO_FILE" -> Return(w, "OK")
          [] w.res = "OK" ->
                 Then(dir_next([w EXCEPT !.out = <<get_fileinfo(w)>>]), LAMBDA x :
                     Return(x, IF x.res = "NO_FILE" THEN "OK" ELSE x.res))
          [] OTHER -> w)

f_chdir(v, path) == AndThen(EnterDir(v, path), LAMBDA w : [w EXCEPT !.cdir = w.dp.sclust])

(* The entry of directory dp whose first cluster is ccl.                    *)
RECURSIVE FindChild(_, _)
FindChild(v, ccl) ==
    AndThen(dir_read(v), LAMBDA w :
        IF Entry(w).clu = ccl
        THEN w
        ELSE AndThen(dir_next(w), LAMBDA x : FindChild(x, ccl)))

MaxDepth == 5           \* how many names fit into the caller's buffer

ToParent(v) ==
    AndThen(AndThen(dir_sdi(v, 1), MoveToEntry), LAMBDA x :
        dir_sdi([x EXCEPT !.dp.sclust = Entry(x).clu], 0))

(* The names on the way from the current directory to the root, in v.out.   *)
RECURSIVE ClimbFrom(_)
ClimbFrom(v) ==
    LET ccl == v.dp.sclust
    IN  CASE ccl = 0 -> Return(v, "OK")
          [] ccl # 0 /\ Len(v.out) = MaxDepth -> Return(v, "NOT_ENOUGH_CORE")
          [] OTHER ->
             Then(AndThen(ToParent(v), LAMBDA w : FindChild(w, ccl)), LAMBDA child :
                CASE child.res = "OK" -> ClimbFrom([child EXCEPT !.out = <<get_fileinfo(child)>> \o @])
                  [] child.res = "NO_FILE" -> Return(child, "INT_ERR")
                  [] OTHER -> child)

f_getcwd(v) == ClimbFrom([v EXCEPT !.dp = [NoDir EXCEPT !.sclust = v.cdir], !.out = <<>>])

f_stat(v, path) ==
    AndThen(follow_path(v, path), LAMBDA w :
        IF "NONAME" \in w.dp.ns
        THEN Return(w, "INVALID_NAME") ELSE [w EXCEPT !.out = <<get_fileinfo(w)>>])

(* The entry is not that of a directory in use.                             *)
Removable(w) ==
    LET dclst == Entry(w).clu
    IN  CASE w.dp.ns \cap {"DOT", "NONAME"} # {} -> Return(w, "INVALID_NAME")
          [] w.dp.ns \cap {"DOT", "NONAME"} = {} /\ w.dp.attr # "dir" -> w
          [] w.dp.attr = "dir" /\ dclst = w.cdir -> Return(w, "DENIED")
          [] OTHER ->
             Then(AndThen(dir_sdi([w EXCEPT !.dp = [NoDir EXCEPT !.sclust = dclst]], 0), dir_read), LAMBDA sub :
                 Return([sub EXCEPT !.dp = w.dp], CASE sub.res = "OK" -> "DENIED"
                                                    [] sub.res = "NO_FILE" -> "OK"
                                                    [] OTHER -> sub.res))

(* The entry is removed before its clusters are freed.                      *)
f_unlink(v, path) ==
    AndThen(follow_path(v, path), LAMBDA w :
        LET dclst == Entry(w).clu
        IN  AndThen(AndThen(AndThen(Removable(w), dir_remove), LAMBDA y :
                IF dclst # 0 THEN remove_chain(y, dclst, 0) ELSE y), sync_fs))

(* The dot entries of a new table in cluster dcl.                           *)
DotEntries(x, dcl, parent) ==
    LET e == [NoEntry EXCEPT !.c = InUse, !.attr = "dir", !.fn = Dot, !.clu = dcl]
    IN  SetWin(SetWin(x, 0, e), 1, [e EXCEPT !.fn = DotDot, !.clu = parent])

(* A new table in the cluster c.val, and the entry for it.                  *)
MakeTable(c) ==
    AndThen(AndThen(Return(c, ChainResult(c.val)), LAMBDA x : dir_clear(x, c.val)), LAMBDA y :
        dir_register(DotEntries(y, c.val, c.dp.sclust)))

EnterTable(c) ==
    Then(MakeTable(c), LAMBDA m :
        IF m.res = "OK"
        THEN sync_fs(SetEntry(m, [Entry(m) EXCEPT !.clu = c.val, !.attr = "dir"]))
        ELSE Return(remove_chain(m, c.val, 0), m.res))

(* The new table is allocated, cleared and given its dot entries before the *)
(* parent refers to it.                                                     *)
f_mkdir(v, path) ==
    Then(follow_path(v, path), LAMBDA w :
        CASE w.res = "OK" -> Return(w, "EXIST")
          [] w.res = "NO_FILE" -> Then(create_chain(w, 0), EnterTable)
          [] OTHER -> w)

(* The entry that f_rename makes at the new name for the object at djo.     *)
NewEntry(n, djo) ==
    LET same == n.dp.sclust = djo.sclust /\ n.dp.dptr = djo.dptr
    IN  CASE n.res = "OK" /\ ~same -> Return(n, "EXIST")
          [] n.res = "NO_FILE" \/ (n.res = "OK" /\ same) -> dir_register(n)
          [] OTHER -> n

CopyEntry(w, saved) ==
    SetEntry(w, [Entry(w) EXCEPT !.attr = IF saved.attr = "dir" THEN "dir" ELSE "arc",
                                 !.clu = saved.clu, !.size = saved.size])

(* The .. of a directory that moved from the directory of djo.              *)
SetDotDot(w, saved, djo) ==
    CASE saved.attr # "dir" \/ djo.sclust = w.dp.sclust -> w
      [] saved.attr = "dir" /\ djo.sclust # w.dp.sclust /\ clst2sect(saved.clu) = 0 -> Return(w, "INT_ERR")
      [] OTHER -> AndThen(move_window(w, clst2sect(saved.clu)), LAMBDA x :
                      IF x.win[1].fn = DotDot
                      THEN SetWin(x, 1, [x.win[1] EXCEPT !.clu = w.dp.sclust]) ELSE x)

(* The new entry is made, the .. of a moved directory set and then the old  *)
(* entry removed.                                                           *)
f_rename(v, path_old, path_new) ==
    AndThen(follow_path(v, path_old), LAMBDA o :
        IF o.dp.ns \cap {"DOT", "NONAME"} # {}
        THEN Return(o, "INVALID_NAME")
        ELSE AndThen(AndThen(AndThen(NewEntry(follow_path(o, path_new), o.dp), LAMBDA w :
                SetDotDot(CopyEntry(w, Entry(o)), Entry(o), o.dp)), LAMBDA y :
                dir_remove([y EXCEPT !.dp = o.dp])), sync_fs))
=============================================================================
