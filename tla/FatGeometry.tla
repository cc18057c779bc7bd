----------------------------- MODULE FatGeometry -----------------------------
(***************************************************************************)
(* Formatting and mounting: f_mkfs chooses the type of the volume, the     *)
(* size of a cluster and the place of each area from the number of sectors *)
(* alone, and writes the areas one by one, the partition table last;       *)
(* mount_volume derives the same facts again from what it finds on the     *)
(* disk.  The disk fails a write, or the enclave dies between two of them. *)
(***************************************************************************)
EXTENDS Integers, Sequences, FiniteSets

CONSTANTS DriveSizes,       \* the numbers of sectors that drives have
          Faulty            \* does a write fail, or the enclave die?

ASSUME GeometryAssumption ==
    /\ DriveSizes \subseteq Nat /\ Faulty \in BOOLEAN
    /\ \A size \in DriveSizes : size \div 65536 < 65536      \* an LBA_t has 32 bits

VARIABLES
    drive,          \* the number of sectors of the drive
    sector,         \* area -> what was written there
    mkfsResult,     \* what f_mkfs returned
    mounted,        \* what f_mount returned
    fatfs           \* the FATFS object

geometryVars == <<drive, sector, mkfsResult, mounted, fatfs>>

FF_MAX_SS == 512
SZDIRE == 32
MAX_FAT12 == 4085
MAX_FAT16 == 65525
MAX_FAT32 == 268435445
N_SEC_TRACK == 63
NRoot == 512
Areas == {"mbr", "vbr", "backup_vbr", "backup_fsinfo", "fsinfo", "fat", "root"}
Unwritten == [kind |-> "unwritten"]
NoFatFs == [fs_type |-> 0]

CeilDiv(n, d) == (n + d - 1) \div d

-----------------------------------------------------------------------------
(* f_mkfs: where the volume lies, and its shape.                            *)

VolumeStart(size) == IF size > N_SEC_TRACK THEN N_SEC_TRACK ELSE 0
VolumeSize(size) == size - VolumeStart(size)

(* The cluster size doubles with each bound that the volume reaches.        *)
Doubled == <<1, 2, 4, 8, 16, 32, 64>>
ClusterSize(bounds, n) ==
    Doubled[CHOOSE i \in 1 .. 7 : (\A j \in 1 .. i - 1 : bounds[j] <= n) /\ (i = 7 \/ n < bounds[i])]
cst == <<1, 4, 16, 64, 256, 512>>
cst32 == <<1, 2, 4, 8, 16, 32>>

Aborted == [fsty |-> 0]

FatBytes(fsty, n_clst) ==
    IF fsty = 32 THEN n_clst * 4 + 8
    ELSE IF fsty = 16 THEN n_clst * 2 + 4
    ELSE (n_clst * 3 + 1) \div 2 + 3

(* One pass of the loop: the estimate of the clusters sizes the FAT, what   *)
(* is left gives their number.                                              *)
Attempt(sz_vol, fsty, sz_au) ==
    LET pau == IF sz_au # 0 THEN sz_au
               ELSE IF fsty = 32 THEN ClusterSize(cst32, sz_vol \div 131072)
               ELSE ClusterSize(cst, sz_vol \div 4096)
        guess == sz_vol \div pau
        type == IF fsty = 16 /\ guess <= MAX_FAT12 THEN 12 ELSE fsty
        sz_rsv == IF type = 32 THEN 32 ELSE 1
        sz_dir == IF type = 32 THEN 0 ELSE (NRoot * SZDIRE) \div FF_MAX_SS
        sz_fat == CeilDiv(FatBytes(type, guess), FF_MAX_SS)
    IN  [fsty |-> type, pau |-> pau, guess |-> guess, sz_rsv |-> sz_rsv, sz_fat |-> sz_fat,
         sz_dir |-> sz_dir, n_clst |-> (sz_vol - sz_rsv - sz_fat - sz_dir) \div pau]

Unfit(sz_vol, a) ==
    \/ a.fsty = 32 /\ (a.guess <= MAX_FAT16 \/ a.guess > MAX_FAT32)
    \/ sz_vol < a.sz_rsv + a.sz_fat + a.sz_dir + a.pau * 16
    \/ a.fsty = 12 /\ a.n_clst > MAX_FAT12

(* A pass ends with a shape or without one, or it chooses again.           *)
Ends(shape) == [ends |-> TRUE, shape |-> shape]
Again(fsty, sz_au) == [ends |-> FALSE, fsty |-> fsty, sz_au |-> sz_au]
Pass(sz_vol, fsty, sz_au) ==
    LET a == Attempt(sz_vol, fsty, sz_au)
        free == sz_au = 0
    IN  IF Unfit(sz_vol, a) THEN Ends(Aborted)
        ELSE IF a.fsty = 32 /\ a.n_clst <= MAX_FAT16 THEN
                IF free /\ a.pau \div 2 # 0 THEN Again(32, a.pau \div 2) ELSE Ends(Aborted)
        ELSE IF a.fsty = 16 /\ a.n_clst > MAX_FAT16 THEN
                IF free /\ a.pau * 2 <= 64 THEN Again(16, a.pau * 2) ELSE Again(32, sz_au)
        ELSE IF a.fsty = 16 /\ a.n_clst <= MAX_FAT12 THEN
                IF free /\ a.pau * 2 <= 128 THEN Again(16, a.pau * 2) ELSE Ends(Aborted)
        ELSE Ends(a)

(* The passes until the number of clusters is one that the type allows.     *)
(* Three are enough: a new choice sets the size of a cluster or turns to    *)
(* FAT32, and neither is done twice.                                        *)
Shape(sz_vol) ==
    LET Continue(p) == IF p.ends THEN p ELSE Pass(sz_vol, p.fsty, p.sz_au)
    IN  IF sz_vol < 128 THEN Aborted ELSE Continue(Continue(Pass(sz_vol, 16, 0))).shape

(* The boot record and the FSInfo sector.  Fields are cut to their widths.  *)
BootRecord(sz_vol, s) ==
    [kind |-> "vbr", BPB_SecPerClus |-> s.pau % 256, BPB_RsvdSecCnt |-> s.sz_rsv % 65536,
     BPB_RootEntCnt |-> IF s.fsty = 32 THEN 0 ELSE NRoot,
     BPB_TotSec16 |-> IF sz_vol < 65536 THEN sz_vol ELSE 0,
     BPB_TotSec32 |-> IF sz_vol < 65536 THEN 0 ELSE sz_vol,
     BPB_FATSz16 |-> IF s.fsty = 32 THEN 0 ELSE s.sz_fat % 65536,
     BPB_FATSz32 |-> IF s.fsty = 32 THEN s.sz_fat ELSE 0,
     FilSysType |-> IF s.fsty = 32 THEN "FAT32" ELSE "FAT"]
FsInfo(s) == [kind |-> "fsinfo", free |-> s.n_clst - 1, nxt |-> 2]

(* create_partition: one partition, cut at the end of the drive.            *)
create_partition(size, part) ==
    LET room == size - N_SEC_TRACK
    IN  [kind |-> "mbr", PTE_StLba |-> N_SEC_TRACK, PTE_SizLba |-> IF part > room THEN room ELSE part]

(* The writes in their order, and those whose failure is not looked at.     *)
MkfsMbrFirst(s) ==                      \* mutant: the partition table comes first
    IF s.fsty = 32 THEN <<"mbr", "vbr", "backup_vbr", "backup_fsinfo", "fsinfo", "fat", "root">>
    ELSE <<"mbr", "vbr", "fat", "root">>
MkfsWrites(s) ==
    IF s.fsty = 32 THEN <<"vbr", "backup_vbr", "backup_fsinfo", "fsinfo", "fat", "root", "mbr">>
    ELSE <<"vbr", "fat", "root", "mbr">>
Unchecked == {"backup_vbr", "backup_fsinfo", "fsinfo"}

Content(size, s, area) ==
    CASE area = "mbr" -> create_partition(size, VolumeSize(size))
      [] area \in {"vbr", "backup_vbr"} -> BootRecord(VolumeSize(size), s)
      [] area \in {"fsinfo", "backup_fsinfo"} -> FsInfo(s)
      [] area = "fat" -> [kind |-> "fat", first |-> s.sz_rsv, num |-> s.sz_fat, used |-> IF s.fsty = 32 THEN 0 .. 2 ELSE 0 .. 1]
      [] area = "root" -> [kind |-> "root", num |-> IF s.fsty = 32 THEN s.pau ELSE s.sz_dir]

(* The areas written when write number fault fails, or the enclave dies at  *)
(* it; 0 is no fault.                                                       *)
Landed(s, fault, dies) ==
    LET w == MkfsWrites(s)
        stops == fault # 0 /\ (dies \/ w[fault] \notin Unchecked)
    IN  {w[i] : i \in {j \in DOMAIN w : j # fault /\ (stops => j < fault)}}

f_mkfs(size, fault, dies) ==
    LET s == Shape(VolumeSize(size))
        w == MkfsWrites(s)
    IN  /\ fault # 0 => s # Aborted /\ fault \in DOMAIN w
        /\ sector' = IF s = Aborted THEN sector
                     ELSE [a \in Areas |-> IF a \in Landed(s, fault, dies) THEN Content(size, s, a) ELSE sector[a]]
        /\ mkfsResult' = IF s = Aborted THEN "FR_MKFS_ABORTED"
                         ELSE IF dies THEN "crash"
                         ELSE IF fault # 0 /\ w[fault] \notin Unchecked THEN "FR_DISK_ERR"
                         ELSE "FR_OK"

-----------------------------------------------------------------------------
(* mount_volume.                                                            *)

(* check_fs: 0 a FAT boot record, 2 another boot record, 4 a disk error.    *)
check_fs(s) ==
    IF s = Unwritten THEN 4
    ELSE IF s.kind = "vbr" /\ (s.FilSysType = "FAT32" \/
            (/\ s.BPB_SecPerClus # 0 /\ s.BPB_RsvdSecCnt # 0 /\ s.BPB_RootEntCnt # 0
             /\ (s.BPB_TotSec16 >= 128 \/ s.BPB_TotSec32 >= 65536) /\ s.BPB_FATSz16 # 0)) THEN 0
    ELSE 2

find_volume ==
    LET first == check_fs(sector["mbr"])
    IN  IF first # 2 THEN first ELSE check_fs(sector["vbr"])

TypeOf(nclst) ==
    IF nclst <= MAX_FAT12 THEN 12
    ELSE IF nclst <= MAX_FAT16 THEN 16
    ELSE IF nclst <= MAX_FAT32 THEN 32 ELSE 0
NeededFat(fmt, n_fatent) ==
    IF fmt = 32 THEN n_fatent * 4
    ELSE IF fmt = 16 THEN n_fatent * 2
    ELSE (n_fatent * 3) \div 2 + (n_fatent % 2)

LoadVolume(bpb, bsect) ==
    LET fsize == IF bpb.BPB_FATSz16 # 0 THEN bpb.BPB_FATSz16 ELSE bpb.BPB_FATSz32
        tsect == IF bpb.BPB_TotSec16 # 0 THEN bpb.BPB_TotSec16 ELSE bpb.BPB_TotSec32
        sysect == bpb.BPB_RsvdSecCnt + fsize + bpb.BPB_RootEntCnt \div (FF_MAX_SS \div SZDIRE)
        nclst == (tsect - sysect) \div bpb.BPB_SecPerClus
        fmt == TypeOf(nclst)
        info == fmt = 32 /\ sector["fsinfo"] # Unwritten
    IN  IF \/ tsect < sysect \/ nclst = 0 \/ fmt = 0
           \/ (fmt = 32) # (bpb.BPB_RootEntCnt = 0)
           \/ fsize < CeilDiv(NeededFat(fmt, nclst + 2), FF_MAX_SS)
        THEN NoFatFs
        ELSE [fs_type |-> fmt, csize |-> bpb.BPB_SecPerClus, n_fatent |-> nclst + 2, fsize |-> fsize,
              volbase |-> bsect, fatbase |-> bsect + bpb.BPB_RsvdSecCnt, database |-> bsect + sysect,
              free_clst |-> IF info THEN sector["fsinfo"].free ELSE -1,
              last_clst |-> IF info THEN sector["fsinfo"].nxt ELSE -1]

mount ==
    LET fmt == find_volume
        fs == LoadVolume(sector["vbr"], sector["mbr"].PTE_StLba)
    IN  /\ fatfs' = IF fmt = 0 THEN fs ELSE NoFatFs
        /\ mounted' = IF fmt = 4 THEN "FR_DISK_ERR"
                      ELSE IF fmt = 2 \/ fs = NoFatFs THEN "FR_NO_FILESYSTEM"
                      ELSE "FR_OK"

-----------------------------------------------------------------------------
(* disk_start with FORMAT, on a new drive; with OPEN, when the enclave is   *)
(* started again after what happened.                                       *)

Format(fault, dies) ==
    /\ mkfsResult = "none"
    /\ fault # 0 => Faulty
    /\ f_mkfs(drive, fault, dies)
    /\ UNCHANGED <<drive, mounted, fatfs>>

MountNew ==
    /\ mkfsResult = "FR_OK" /\ mounted = "none"
    /\ mount
    /\ UNCHANGED <<drive, sector, mkfsResult>>

Restarted ==
    /\ mkfsResult \in {"FR_DISK_ERR", "crash"} /\ mounted = "none"
    /\ mount
    /\ UNCHANGED <<drive, sector, mkfsResult>>

GeometryInit ==
    /\ drive \in DriveSizes
    /\ sector = [a \in Areas |-> Unwritten]
    /\ mkfsResult = "none" /\ mounted = "none" /\ fatfs = NoFatFs

GeometryNext ==
    \/ Format(0, FALSE)
    \/ \E fault \in 1 .. 7, dies \in BOOLEAN : Format(fault, dies)
    \/ MountNew
    \/ Restarted

GeometrySpec == GeometryInit /\ [][GeometryNext]_geometryVars

-----------------------------------------------------------------------------
(* mount_volume: the areas of a mounted volume follow one another on the    *)
(* drive, the last cluster is on it, the FAT has an entry for each cluster  *)
(* and lies where f_mkfs cleared it, and the free count is right.           *)
AreasFit ==
    LET shape == Shape(VolumeSize(drive))
        entries == IF fatfs.fs_type = 32 THEN fatfs.fsize * 128
                   ELSE IF fatfs.fs_type = 16 THEN fatfs.fsize * 256
                   ELSE (fatfs.fsize * 1024) \div 3
    IN  /\ fatfs.volbase < fatfs.fatbase
        /\ fatfs.fatbase = fatfs.volbase + sector["fat"].first /\ fatfs.fsize = sector["fat"].num
        /\ fatfs.database = fatfs.fatbase + fatfs.fsize + shape.sz_dir
        /\ fatfs.database + (fatfs.n_fatent - 2) * fatfs.csize <= drive
        /\ fatfs.n_fatent <= entries
        /\ fatfs.free_clst \in {-1, fatfs.n_fatent - 3}

(* f_mkfs and mount_volume: a drive of at least 191 sectors, the 97792      *)
(* bytes that handleInitException of api.cpp asks for, can be formatted;    *)
(* what was formatted can be mounted, whatever its size, with the type it   *)
(* was given and areas that fit; and since the partition table is written   *)
(* last, a volume whose formatting was cut short by an error or a crash is  *)
(* never mounted.                                                           *)
FormatMounts ==
    /\ mkfsResult = "FR_MKFS_ABORTED" <=> mkfsResult # "none" /\ drive < 191
    /\ mkfsResult = "FR_OK" /\ mounted # "none" => mounted = "FR_OK"
    /\ mounted = "FR_OK" =>
           /\ Unwritten \notin {sector["fat"], sector["root"]}
           /\ fatfs.fs_type = Shape(VolumeSize(drive)).fsty
           /\ AreasFit
=============================================================================
