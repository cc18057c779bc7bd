------------------------------- MODULE FatDisk -------------------------------
(***************************************************************************)
(* The two disks below the FAT driver: PersistentDisk, which encrypts each *)
(* sector, moves it to a place derived from the key and hands it to the    *)
(* host, and InMemoryDisk.  diskio.cpp routes the driver's calls by drive. *)
(* A ciphertext is the pair of the sector number used as IV and the data.  *)
(***************************************************************************)
EXTENDS Integers, Sequences, FiniteSets

CONSTANTS NumSectors,       \* num_sectors_ of both disks
          TableUnit,        \* SECTOR_SIZE in the formula of the table sizes
          Shuffle1(_),      \* what std::shuffle makes of a table of a given
          Shuffle2(_),      \*   size, a permutation that depends on the key
          PastTable(_),     \* the words in memory after the first table
          RamSpan,          \* 2^32 / SECTOR_SIZE: the sectors that a 32-bit offset reaches
          CallSectors,      \* the sectors that calls start at
          DiskValues,       \* contents of a sector
          DiskCalls,        \* how many calls are made
          MaxReboots,       \* how often the enclave is restarted
          HostFaults        \* a subset of {"error", "thrown"}

VARIABLES
    disks,          \* the registry: drive -> the kind of its disk
    hostFile,       \* physical sector -> ciphertext, as the host stores it
    buffer_writes_, buffer_index_,
    ram_buffer_,    \* the sectors of the disk in memory
    possible,       \* drive -> sector -> what a read may return
    diskReply,      \* the sectors that the last read returned
    diskCalls, reboots

diskVars == <<disks, hostFile, buffer_writes_, buffer_index_, ram_buffer_,
              possible, diskReply, diskCalls, reboots>>

FF_VOLUMES == 2
Drives == 0 .. FF_VOLUMES - 1
NeverWritten == -1                  \* unreadable: there is nothing to decrypt
SectorIds == 0 .. NumSectors - 1

-----------------------------------------------------------------------------
(* The sector tables.                                                       *)

Sqrt(n) == CHOOSE r \in 0 .. n : r * r >= n /\ \A q \in 0 .. r - 1 : q * q < n
TableSize1(n) == Sqrt(n) - (Sqrt(n) % TableUnit) + TableUnit
TableSize2(n) == IF n \div TableSize1(n) > 1 THEN n \div TableSize1(n) ELSE 1
prepareSectorTables ==
    [one |-> Shuffle1(TableSize1(NumSectors)), two |-> Shuffle2(TableSize2(NumSectors))]

size_table_1 == TableSize1(NumSectors)
size_table_2 == TableSize2(NumSectors)

(* sectors_table_1_[b]: an index past the end reads what lies there.        *)
Bucket(b) == IF b < size_table_1 THEN prepareSectorTables.one[b] ELSE PastTable(b)

MapUnscaled(id) ==                      \* mutant: buckets overlap
    Bucket(id \div size_table_2) + prepareSectorTables.two[id % size_table_2]

mapSectorId(id) == Bucket(id \div size_table_2) * size_table_2 + prepareSectorTables.two[id % size_table_2]

(* The tables reach as far as the product of their sizes, which is less     *)
(* than the number of sectors unless that is a multiple of the first.       *)
Reached == 0 .. size_table_1 * size_table_2 - 1
PhysicalIds == Reached \cup {mapSectorId(id) : id \in SectorIds}

(* A shuffle keeps every number and loses none.                             *)
Permutes(f, n) == f \in [0 .. n - 1 -> 0 .. n - 1] /\ \A i, j \in 0 .. n - 1 : f[i] = f[j] => i = j

ASSUME DiskAssumption ==
    /\ {NumSectors, TableUnit, RamSpan} \subseteq Nat \ {0} /\ MaxReboots \in Nat
    /\ CallSectors \subseteq 0 .. NumSectors - 1
    /\ HostFaults \subseteq {"error", "thrown"}
    /\ Permutes(prepareSectorTables.one, size_table_1) /\ Permutes(prepareSectorTables.two, size_table_2)
    /\ \A b \in 0 .. NumSectors - 1 : PastTable(b) \in Nat

encrypt(id, val) == [iv |-> id, val |-> val]
Undecryptable == [iv |-> -1, val |-> 0]     \* zeros, or what the file never held
decrypts(id, cell) == cell.iv = id

-----------------------------------------------------------------------------
(* PersistentDisk.  flush writes the buffer whether or not it changed; a    *)
(* host call that throws reports 0, which is not an error.                  *)

flush(d, fault) ==
    [d EXCEPT !.file = IF fault = "none" THEN [d.file EXCEPT ![d.index] = d.buf] ELSE @,
              !.ok = fault # "error"]

PutSector(d, id, val, fault) ==
    flush([d EXCEPT !.buf = encrypt(mapSectorId(id), val), !.index = mapSectorId(id)], fault)

(* diskWrite of the sectors id, id + 1, ..: each goes through the buffer to *)
(* the host before the next, so what its loop leaves is every sector but    *)
(* the last in its place; the last one tried may fail.                      *)
diskWrite(d, id, vals, fault) ==
    LET last == Len(vals)
        Earlier(p) == {i \in 1 .. last - 1 : p = mapSectorId(id + i - 1)}
        before == [p \in PhysicalIds |->
                      IF Earlier(p) # {} THEN encrypt(p, vals[CHOOSE i \in Earlier(p) : TRUE]) ELSE d.file[p]]
    IN  PutSector([d EXCEPT !.file = before], id + last - 1, vals[last], fault)

ReadUnflushed(d, id, num, fault) ==     \* mutant: the buffer is not written first
    LET cells == [i \in 1 .. num |-> d.file[mapSectorId(id + i - 1)]]
        ok == \A i \in 1 .. num : decrypts(mapSectorId(id + i - 1), cells[i])
    IN  [d EXCEPT !.ok = ok, !.out = IF ok THEN [i \in 1 .. num |-> cells[i].val] ELSE <<>>]

diskRead(d, id, num, fault) ==
    LET f == flush(d, fault)
        cells == [i \in 1 .. num |-> f.file[mapSectorId(id + i - 1)]]
        ok == f.ok /\ \A i \in 1 .. num : decrypts(mapSectorId(id + i - 1), cells[i])
    IN  [f EXCEPT !.ok = ok, !.out = IF ok THEN [i \in 1 .. num |-> cells[i].val] ELSE <<>>]

diskIoCtl(d, fault) == flush(d, fault)      \* CTRL_SYNC

(* InMemoryDisk: the bound is strict, the last sector is out of reach.      *)
InRam(id, num) == id + num < NumSectors

-----------------------------------------------------------------------------
(* The driver's calls.                                                      *)

Disk == [file |-> hostFile, buf |-> buffer_writes_, index |-> buffer_index_, ok |-> TRUE, out |-> <<>>]
SetDisk(d) == hostFile' = d.file /\ buffer_writes_' = d.buf /\ buffer_index_' = d.index

DiskCall == diskCalls < DiskCalls /\ diskCalls' = diskCalls + 1 /\ UNCHANGED <<disks, reboots>>
Faults == {"none"} \cup HostFaults
Within(id, num) == id + num <= NumSectors

(* The values each sector may hold after a write that may have failed.      *)
Written(drive, id, vals, ok) ==
    LET last == id + Len(vals) - 1
    IN  [possible EXCEPT ![drive] = [s \in SectorIds |->
            IF s \notin id .. last THEN @[s]
            ELSE {vals[s - id + 1]} \cup (IF ok \/ s < last THEN {} ELSE @[s])]]

PersistentWrite(drive, id, vals, fault) ==
    LET d == diskWrite(Disk, id, vals, fault)
    IN  /\ DiskCall /\ disks[drive] = "persistent" /\ Within(id, Len(vals))
        /\ SetDisk(d)
        /\ possible' = Written(drive, id, vals, d.ok)
        /\ diskReply' = {}
        /\ UNCHANGED ram_buffer_

(* A read settles what the sectors hold.                                    *)
Settle(drive, id, out) ==
    /\ diskReply' = {[drive |-> drive, val |-> out[i], may |-> possible[drive][id + i - 1]] :
                        i \in DOMAIN out}
    /\ possible' = [possible EXCEPT ![drive] = [s \in SectorIds |->
                       IF s - id + 1 \in DOMAIN out THEN {out[s - id + 1]} ELSE @[s]]]

(* A read fails if a sector was never written, which settles that too if it *)
(* is the only one.                                                         *)
MayFail(drive, id, num) == \E s \in id .. id + num - 1 : NeverWritten \in possible[drive][s]
SettleFailed(drive, id, num) ==
    \/ num = 1 /\ Settle(drive, id, <<NeverWritten>>)
    \/ /\ num > 1
       /\ diskReply' = IF MayFail(drive, id, num) THEN {} ELSE {[drive |-> drive, val |-> NeverWritten, may |-> {}]}
       /\ UNCHANGED possible

PersistentRead(drive, id, num, fault) ==
    LET d == diskRead(Disk, id, num, fault)
    IN  /\ DiskCall /\ disks[drive] = "persistent" /\ Within(id, num)
        /\ SetDisk(d)
        /\ IF d.ok \/ fault # "none"
           THEN Settle(drive, id, d.out)
           ELSE SettleFailed(drive, id, num)
        /\ UNCHANGED ram_buffer_

PersistentSync(drive, fault) ==
    /\ DiskCall /\ disks[drive] = "persistent"
    /\ SetDisk(diskIoCtl(Disk, fault))
    /\ diskReply' = {}
    /\ UNCHANGED <<possible, ram_buffer_>>

(* Memory next to the buffer is sector NumSectors here.                     *)
MemoryWrite(drive, id, vals) ==
    LET ok == InRam(id, Len(vals))
    IN  /\ DiskCall /\ disks[drive] = "memory"
        /\ ram_buffer_' = [s \in 0 .. NumSectors |->
               IF ok /\ s - id + 1 \in DOMAIN vals THEN vals[s - id + 1] ELSE ram_buffer_[s]]
        /\ possible' = IF ok THEN Written(drive, id, vals, TRUE) ELSE possible
        /\ diskReply' = {}
        /\ UNCHANGED <<hostFile, buffer_writes_, buffer_index_>>

(* diskRead multiplies the number of the sector in 32 bits, diskWrite in 64.*)
MemoryRead(drive, id, num) ==
    LET from == id % RamSpan
    IN  /\ DiskCall /\ disks[drive] = "memory" /\ Within(id, num)
        /\ Settle(drive, id, IF InRam(from, num) THEN [i \in 1 .. num |-> ram_buffer_[from + i - 1]] ELSE <<>>)
        /\ UNCHANGED <<hostFile, buffer_writes_, buffer_index_, ram_buffer_>>

(* A new enclave: the disk objects are made anew, the host keeps its file.  *)
(* disk_register enters them; the first call is the read that mounts.       *)
Reboot ==
    /\ reboots < MaxReboots
    /\ reboots' = reboots + 1
    /\ buffer_writes_' = Undecryptable /\ buffer_index_' = 0
    /\ ram_buffer_' = [s \in 0 .. NumSectors |-> 0]
    /\ possible' = [dr \in Drives |-> IF disks[dr] = "memory" THEN [s \in SectorIds |-> {0}] ELSE possible[dr]]
    /\ diskReply' = {}
    /\ UNCHANGED <<disks, hostFile, diskCalls>>

DiskInit ==
    /\ disks = [d \in Drives |-> IF d = 0 THEN "persistent" ELSE "memory"]
    /\ hostFile = [s \in PhysicalIds |-> Undecryptable]
    /\ buffer_writes_ = Undecryptable /\ buffer_index_ = 0
    /\ ram_buffer_ = [s \in 0 .. NumSectors |-> 0]
    /\ possible = [d \in Drives |-> [s \in SectorIds |->
                     IF d = 0 THEN {NeverWritten} ELSE {0}]]
    /\ diskReply = {} /\ diskCalls = 0 /\ reboots = 0

DiskNext ==
    \/ \E dr \in Drives, id \in CallSectors :
         \/ \E a \in DiskValues, fault \in Faults : PersistentWrite(dr, id, <<a>>, fault)
         \/ \E a, b \in DiskValues, fault \in Faults : PersistentWrite(dr, id, <<a, b>>, fault)
         \/ \E num \in {1, 2}, fault \in Faults : PersistentRead(dr, id, num, fault)
         \/ \E a, b \in DiskValues : MemoryWrite(dr, id, <<a>>) \/ MemoryWrite(dr, id, <<a, b>>)
         \/ \E num \in {1, 2} : MemoryRead(dr, id, num)
    \/ \E dr \in Drives, fault \in Faults : PersistentSync(dr, fault)

DiskSpec == DiskInit /\ [][DiskNext]_diskVars

DiskNextRestart == DiskNext \/ Reboot

-----------------------------------------------------------------------------
(* diskRead and diskWrite: a read returns the last value written, and what  *)
(* it returned once it returns again.  A write that failed took place or    *)
(* did not, but never comes back later.  A sector that was written can be   *)
(* read.                                                                    *)
DiskReadsWritten == \A r \in diskReply : r.val \in r.may

(* The calls for which reads are true: their sectors lie within the tables  *)
(* and within the first 4 GiB of the disk in memory.                        *)
CallsReach == \A id \in CallSectors : id < RamSpan /\ {id, id + 1} \cap SectorIds \subseteq Reached

(* mapSectorId: two sectors that the tables reach never share a place in    *)
(* the host's file, no ciphertext lies in a place it cannot be decrypted    *)
(* from, but for the one that the buffer was empty for, and InMemoryDisk    *)
(* never writes outside its buffer.                                         *)
SectorsApart ==
    /\ \A i, j \in Reached : mapSectorId(i) = mapSectorId(j) => i = j
    /\ \A s \in PhysicalIds : hostFile[s].iv \in {s, -1}
    /\ ram_buffer_[NumSectors] = 0
=============================================================================
