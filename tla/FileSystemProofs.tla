-------------------------- MODULE FileSystemProofs --------------------------
(***************************************************************************)
(* What the ends of the file system guarantee for any sizes, contents and  *)
(* number of calls.  Below the FAT driver the disks: the place of a sector *)
(* in the host's file is its own, and what the file and the write buffer   *)
(* hold for a sector is always one of the values that a read may still     *)
(* return.  Above it the entry points: every call reaches the layer that   *)
(* owns its handle or its path.  Inside it the long names, which are cut   *)
(* into entries and put together again.                                    *)
(***************************************************************************)
EXTENDS FatDisk, FatNames, FileApi, FiniteSetTheorems, WellFoundedInduction, TLAPS

-----------------------------------------------------------------------------
(* The sector tables.                                                      *)

\* Every set of numbers has a least one.
LEMMA LeastExists ==
    ASSUME NEW T \in SUBSET Nat, T # {}
    PROVE  \E m \in T : \A y \in T : ~(y < m)
  <1>1. PICK m \in T : \A y \in T : ~(<<y, m>> \in OpToRel(<, Nat))
    BY WFMin, NatLessThanWellFounded, Zenon
  <1>2. ASSUME NEW y \in T, y < m PROVE FALSE
    <2>1. <<y, m>> \in Nat \X Nat /\ <<y, m>>[1] < <<y, m>>[2]
      BY <1>2
    <2>2. <<y, m>> \in OpToRel(<, Nat)
      BY <2>1 DEF OpToRel
    <2> QED BY <1>1, <2>2
  <1> QED BY <1>2

\* The square root, rounded up.
LEMMA SqrtType == ASSUME NEW n \in Nat PROVE Sqrt(n) \in Nat
  <1> DEFINE T == {r \in 0 .. n : r * r >= n}
             P(r) == r \in 0 .. n /\ r * r >= n /\ \A q \in 0 .. r - 1 : q * q < n
  <1>1. n \in T
    OBVIOUS
  <1>2. PICK r \in T : \A y \in T : ~(y < r)
    <2>1. T \in SUBSET Nat /\ T # {}
      BY <1>1
    <2> QED BY <2>1, LeastExists
  <1>3. ASSUME NEW q \in 0 .. r - 1 PROVE q * q < n
    <2>1. q \in 0 .. n /\ q < r /\ q * q \in Nat
      OBVIOUS
    <2>2. ~(q * q >= n)
      BY <1>2, <2>1
    <2> QED BY <2>1, <2>2
  <1>4. P(r)
    BY <1>3
  <1>5. Sqrt(n) = CHOOSE x : P(x)
    BY DEF Sqrt
  <1> HIDE DEF P
  <1>6. P(CHOOSE x : P(x))
    BY <1>4
  <1> QED BY <1>5, <1>6 DEF P

\* The sizes of the two tables.
LEMMA TableSizes ==
    /\ NumSectors \in Nat \ {0}
    /\ size_table_1 \in Nat \ {0} /\ size_table_2 \in Nat \ {0}
  <1>1. NumSectors \in Nat \ {0} /\ TableUnit \in Nat \ {0}
    BY DiskAssumption
  <1> DEFINE r == Sqrt(NumSectors)
  <1>2. r \in Nat
    BY <1>1, SqrtType
  <1> HIDE DEF r
  <1>3. r % TableUnit \in 0 .. TableUnit - 1
    BY <1>1, <1>2
  <1>4. r - (r % TableUnit) + TableUnit \in Nat \ {0}
    BY <1>1, <1>2, <1>3
  <1>5. TableSize1(NumSectors) \in Nat \ {0}
    BY <1>4 DEF TableSize1, r
  <1>6. NumSectors \div TableSize1(NumSectors) \in Int
    BY <1>1, <1>5
  <1>7. TableSize2(NumSectors) \in Nat \ {0}
    BY <1>6 DEF TableSize2
  <1> QED BY <1>1, <1>5, <1>7 DEF size_table_1, size_table_2

\* A number is told by its quotient and its remainder.
LEMMA QuotientsTell ==
    ASSUME NEW t \in Nat \ {0}, NEW a \in Nat, NEW b \in 0 .. t - 1, NEW c \in Nat, NEW d \in 0 .. t - 1,
           a * t + b = c * t + d
    PROVE  a = c /\ b = d
  <1>1. ASSUME NEW x \in Nat, NEW y \in Nat, NEW u \in 0 .. t - 1, NEW v \in 0 .. t - 1, x < y
        PROVE  x * t + u < y * t + v
    <2>1. (x + 1) * t <= y * t /\ (x + 1) * t = x * t + t /\ x * t \in Nat /\ y * t \in Nat
      <3>1. PICK k \in Nat : y = (x + 1) + k
        <4>1. y - (x + 1) \in Nat
          BY <1>1
        <4>2. y = (x + 1) + (y - (x + 1))
          OBVIOUS
        <4> QED BY <4>1, <4>2
      <3>2. ((x + 1) + k) * t = (x + 1) * t + k * t /\ k * t \in Nat
        OBVIOUS
      <3>3. (x + 1) * t = x * t + t /\ (x + 1) * t \in Nat /\ x * t \in Nat /\ y * t \in Nat
        OBVIOUS
      <3> QED BY <3>1, <3>2, <3>3
    <2> QED BY <2>1
  <1>2. a * t \in Nat /\ c * t \in Nat
    OBVIOUS
  <1>3. ~(a < c)
    BY <1>1, <1>2
  <1>4. ~(c < a)
    BY <1>1, <1>2
  <1>5. a = c
    BY <1>3, <1>4
  <1> QED BY <1>2, <1>5

\* mapSectorId gives every sector that the tables reach a place of its own in the host's file.
LEMMA PlacesApart ==
    /\ \A i \in SectorIds : mapSectorId(i) \in PhysicalIds /\ mapSectorId(i) \in Nat
    /\ \A i, j \in Reached : mapSectorId(i) = mapSectorId(j) => i = j
  <1> DEFINE t1 == size_table_1
             t2 == size_table_2
             one == prepareSectorTables.one
             two == prepareSectorTables.two
  <1>1. NumSectors \in Nat \ {0} /\ t1 \in Nat \ {0} /\ t2 \in Nat \ {0}
    BY TableSizes
  <1>2. /\ one \in [0 .. t1 - 1 -> 0 .. t1 - 1] /\ \A i, j \in 0 .. t1 - 1 : one[i] = one[j] => i = j
        /\ two \in [0 .. t2 - 1 -> 0 .. t2 - 1] /\ \A i, j \in 0 .. t2 - 1 : two[i] = two[j] => i = j
    BY DiskAssumption DEF Permutes
  <1>3. \A i : mapSectorId(i) = Bucket(i \div t2) * t2 + two[i % t2]
    BY DEF mapSectorId
  <1>a. \A b \in 0 .. t1 - 1 : Bucket(b) = one[b]
    BY <1>1 DEF Bucket
  <1>4. SectorIds = 0 .. NumSectors - 1 /\ Reached = 0 .. t1 * t2 - 1
    BY DEF SectorIds, Reached
  <1> HIDE DEF t1, t2, one, two
  <1>5. ASSUME NEW i \in Reached
        PROVE  i \div t2 \in 0 .. t1 - 1 /\ i % t2 \in 0 .. t2 - 1 /\ i = (i \div t2) * t2 + (i % t2)
    <2>1. i \in Nat /\ i < t1 * t2
      BY <1>1, <1>4
    <2>2. i \div t2 \in Nat /\ i % t2 \in 0 .. t2 - 1 /\ i = (i \div t2) * t2 + (i % t2)
      BY <1>1, <2>1
    <2> DEFINE q == i \div t2
    <2> HIDE DEF q
    <2>3. q * t2 <= i /\ q \in Nat
      BY <1>1, <2>1, <2>2 DEF q
    <2>4. q * t2 < t1 * t2
      BY <1>1, <2>1, <2>3
    <2>5. ASSUME q >= t1 PROVE FALSE
      <3>1. PICK k \in Nat : q = t1 + k
        <4>1. q - t1 \in Nat
          BY <1>1, <2>3, <2>5
        <4>2. q = t1 + (q - t1)
          BY <1>1, <2>3
        <4> QED BY <4>1, <4>2
      <3>2. (t1 + k) * t2 = t1 * t2 + k * t2 /\ k * t2 \in Nat /\ t1 * t2 \in Nat
        BY <1>1
      <3> QED BY <2>4, <3>1, <3>2
    <2>6. q \in 0 .. t1 - 1
      BY <1>1, <2>3, <2>5
    <2> QED BY <2>2, <2>6 DEF q
  <1>6. ASSUME NEW i \in SectorIds PROVE mapSectorId(i) \in PhysicalIds /\ mapSectorId(i) \in Nat
    <2>1. i \in Nat /\ i < NumSectors
      BY <1>1, <1>4
    <2> DEFINE q == i \div t2
    <2>2. q \in Nat /\ q * t2 <= i /\ i % t2 \in 0 .. t2 - 1
      BY <1>1, <2>1
    <2> HIDE DEF q
    <2>3. q <= q * t2
      <3>1. PICK k \in Nat : t2 = 1 + k
        <4>1. t2 - 1 \in Nat /\ t2 = 1 + (t2 - 1)
          BY <1>1
        <4> QED BY <4>1
      <3>2. q * (1 + k) = q + q * k /\ q * k \in Nat
        BY <2>2
      <3> QED BY <2>2, <3>1, <3>2
    <2>4. q \in 0 .. NumSectors - 1
      BY <1>1, <2>1, <2>2, <2>3
    <2>5. Bucket(q) \in Nat
      <3>1. CASE q < t1
        <4>1. q \in 0 .. t1 - 1
          BY <1>1, <2>2, <3>1
        <4>2. one[q] \in 0 .. t1 - 1 /\ Bucket(q) = one[q]
          BY <1>2, <1>a, <4>1
        <4> QED BY <1>1, <4>2
      <3>2. CASE ~(q < t1)
        BY <2>4, <3>2, DiskAssumption DEF Bucket, t1
      <3> QED BY <3>1, <3>2
    <2>6. two[i % t2] \in Nat
      BY <1>1, <1>2, <2>2
    <2>7. mapSectorId(i) = Bucket(q) * t2 + two[i % t2]
      BY <1>3 DEF q
    <2> QED BY <1>1, <2>5, <2>6, <2>7 DEF PhysicalIds
  <1>7. ASSUME NEW i \in Reached, NEW j \in Reached, mapSectorId(i) = mapSectorId(j) PROVE i = j
    <2>1. /\ one[i \div t2] \in Nat /\ one[j \div t2] \in Nat
          /\ two[i % t2] \in 0 .. t2 - 1 /\ two[j % t2] \in 0 .. t2 - 1
      BY <1>2, <1>5
    <2>2. one[i \div t2] = one[j \div t2] /\ two[i % t2] = two[j % t2]
      <3>1. one[i \div t2] * t2 + two[i % t2] = one[j \div t2] * t2 + two[j % t2]
        BY <1>3, <1>5, <1>7, <1>a
      <3> QED BY <1>1, <2>1, <3>1, QuotientsTell, ZenonT(40)
    <2>3. i \div t2 = j \div t2 /\ i % t2 = j % t2
      BY <1>2, <1>5, <2>2
    <2> QED BY <1>5, <2>3
  <1> QED BY <1>6, <1>7

-----------------------------------------------------------------------------
(* The inductive invariant.                                                *)

Values == DiskValues \cup {0}
Cells == [iv : Int, val : Values]

\* What a ciphertext at place p gives to its reader.
Holds(cell, p) == IF decrypts(p, cell) THEN cell.val ELSE NeverWritten

DiskTypes ==
    /\ disks = [d \in Drives |-> IF d = 0 THEN "persistent" ELSE "memory"]
    /\ hostFile \in [PhysicalIds -> Cells] /\ buffer_writes_ \in Cells /\ buffer_index_ \in PhysicalIds
    /\ ram_buffer_ \in [0 .. NumSectors -> Values]
    /\ DOMAIN possible = Drives

\* Ciphertexts lie, or wait in the buffer, where they can be decrypted from, and the memory
\* next to the disk in memory is left alone.
InPlace ==
    /\ \A p \in PhysicalIds : hostFile[p].iv \in {p, -1}
    /\ buffer_writes_.iv \in {buffer_index_, -1}
    /\ ram_buffer_[NumSectors] = 0

\* A sector holds a value that it may hold, and so does the buffer, which the next read writes.
Known == SectorIds \cap Reached
PersistentKept ==
    \A s \in Known :
        /\ Holds(hostFile[mapSectorId(s)], mapSectorId(s)) \in possible[0][s]
        /\ buffer_index_ = mapSectorId(s) => Holds(buffer_writes_, mapSectorId(s)) \in possible[0][s]

MemoryKept == \A s \in SectorIds : ram_buffer_[s] \in possible[1][s]

\* What holds whatever the host does, and what holds unless one of its calls throws.
DiskBase == DiskTypes /\ InPlace
DiskKept == PersistentKept /\ MemoryKept /\ DiskReadsWritten

\* The drives and which disk is which.
LEMMA DriveKinds ==
    ASSUME DiskTypes, NEW drive \in Drives
    PROVE  /\ Drives = {0, 1} /\ 0 \in Drives /\ 1 \in Drives
           /\ disks[drive] = "persistent" => drive = 0
           /\ disks[drive] = "memory" => drive = 1
  <1>1. Drives = 0 .. 1
    BY DEF Drives, FF_VOLUMES
  <1>2. Drives = {0, 1}
    BY <1>1
  <1> QED BY <1>2 DEF DiskTypes

\* Sectors are numbers, and so are their places.
LEMMA SectorTypes ==
    /\ NumSectors \in Nat \ {0} /\ SectorIds = 0 .. NumSectors - 1
    /\ PhysicalIds \subseteq Nat /\ 0 \in PhysicalIds
    /\ \A s \in SectorIds : mapSectorId(s) \in PhysicalIds /\ mapSectorId(s) \in Nat
  <1>1. NumSectors \in Nat \ {0}
    BY TableSizes
  <1>2. SectorIds = 0 .. NumSectors - 1
    BY DEF SectorIds
  <1>3. size_table_1 * size_table_2 \in Nat \ {0}
    BY TableSizes
  <1>4. Reached \subseteq Nat /\ 0 \in Reached
    BY <1>3 DEF Reached
  <1>5. \A p \in PhysicalIds : p \in Reached \/ \E s \in SectorIds : p = mapSectorId(s)
    BY DEF PhysicalIds
  <1>6. 0 \in PhysicalIds
    BY <1>4 DEF PhysicalIds
  <1> QED BY <1>1, <1>2, <1>4, <1>5, <1>6, PlacesApart

\* The sectors of a call lie within the tables if its last one does.
LEMMA CallKnown ==
    ASSUME NEW id \in SectorIds, NEW n \in Nat, id + n <= NumSectors, n > 0 => id + n - 1 \in Reached
    PROVE  /\ \A i \in 1 .. n : id + i - 1 \in Known
           /\ \A s \in Int : s \in id .. id + n - 1 => s \in Known
  <1>1. PICK m \in Nat : Reached = 0 .. m - 1
    BY TableSizes DEF Reached
  <1>2. SectorIds = 0 .. NumSectors - 1 /\ NumSectors \in Nat
    BY SectorTypes
  <1>3. \A i \in 1 .. n : id + i - 1 \in SectorIds /\ id + i - 1 \in Reached
    BY <1>1, <1>2
  <1>4. ASSUME NEW s \in Int, s \in id .. id + n - 1 PROVE s \in SectorIds /\ s \in Reached
    BY <1>1, <1>2, <1>4
  <1> QED BY <1>3, <1>4 DEF Known

\* What a ciphertext made for its place gives.
LEMMA HoldsEncrypted == ASSUME NEW p, NEW v PROVE Holds(encrypt(p, v), p) = v
  BY DEF Holds, encrypt, decrypts

\* The fields of a disk.
Record(file, buf, index, ok, out) == [file |-> file, buf |-> buf, index |-> index, ok |-> ok, out |-> out]

\* Setting the file of a disk.
LEMMA FileSet ==
    ASSUME NEW file, NEW buf, NEW index, NEW ok, NEW out, NEW new
    PROVE  [Record(file, buf, index, ok, out) EXCEPT !.file = new] = Record(new, buf, index, ok, out)
  BY DEF Record

\* flush puts the buffer in its place, or changes nothing.
FlushedFile(file, buf, index, fault) == IF fault = "none" THEN [file EXCEPT ![index] = buf] ELSE file
FlushOk(fault) == fault # "error"

LEMMA FlushIs ==
    ASSUME NEW file, NEW buf, NEW index, NEW ok, NEW out, NEW fault
    PROVE  flush(Record(file, buf, index, ok, out), fault)
             = Record(FlushedFile(file, buf, index, fault), buf, index, FlushOk(fault), out)
  <1> DEFINE r == Record(file, buf, index, ok, out)
             new == FlushedFile(file, buf, index, fault)
  <1>1. r.file = file /\ r.buf = buf /\ r.index = index
    BY DEF Record
  <1> HIDE DEF r
  <1>2. flush(r, fault) = [r EXCEPT !.file = new, !.ok = FlushOk(fault)]
    BY <1>1, Zenon DEF flush, FlushedFile, FlushOk
  <1> HIDE DEF new
  <1>3. [r EXCEPT !.file = new] = Record(new, buf, index, ok, out)
    BY FileSet DEF r
  <1>4. [Record(new, buf, index, ok, out) EXCEPT !.ok = FlushOk(fault)] = Record(new, buf, index, FlushOk(fault), out)
    BY DEF Record
  <1>5. [r EXCEPT !.file = new, !.ok = FlushOk(fault)] = Record(new, buf, index, FlushOk(fault), out)
    BY <1>3, <1>4
  <1> QED BY <1>2, <1>5 DEF r, new

LEMMA FlushResult ==
    ASSUME NEW file, NEW buf, NEW index, NEW ok, NEW out, NEW fault
    PROVE  LET f == flush(Record(file, buf, index, ok, out), fault)
           IN  /\ f.file = FlushedFile(file, buf, index, fault)
               /\ f.buf = buf /\ f.index = index /\ f.out = out
               /\ f.ok <=> fault # "error"
  <1> DEFINE f == flush(Record(file, buf, index, ok, out), fault)
             new == FlushedFile(file, buf, index, fault)
  <1>2. f = Record(new, buf, index, FlushOk(fault), out)
    BY FlushIs
  <1> HIDE DEF f, new
  <1>3. f.file = new /\ f.buf = buf /\ f.index = index /\ f.out = out /\ f.ok = FlushOk(fault)
    BY <1>2 DEF Record
  <1>4. FlushOk(fault) <=> fault # "error"
    BY DEF FlushOk
  <1>5. f.ok <=> fault # "error"
    BY <1>3, <1>4, Zenon
  <1> QED BY <1>3, <1>5 DEF f, new

\* PutSector fills the buffer and flushes it.
LEMMA PutResult ==
    ASSUME NEW file, NEW buf, NEW index, NEW ok, NEW out, NEW id, NEW v, NEW fault
    PROVE  LET f == PutSector(Record(file, buf, index, ok, out), id, v, fault)
               cell == encrypt(mapSectorId(id), v)
           IN  /\ f.file = FlushedFile(file, cell, mapSectorId(id), fault)
               /\ f.buf = cell /\ f.index = mapSectorId(id)
               /\ f.ok <=> fault # "error"
  <1>1. PICK place : place = mapSectorId(id)
    OBVIOUS
  <1>2. PICK cell : cell = encrypt(mapSectorId(id), v)
    OBVIOUS
  <1>3. [Record(file, buf, index, ok, out) EXCEPT !.buf = cell, !.index = place] = Record(file, cell, place, ok, out)
    <2>1. [Record(file, buf, index, ok, out) EXCEPT !.buf = cell] = Record(file, cell, index, ok, out)
      BY DEF Record
    <2>2. [Record(file, cell, index, ok, out) EXCEPT !.index = place] = Record(file, cell, place, ok, out)
      BY DEF Record
    <2> QED BY <2>1, <2>2
  <1>4. PutSector(Record(file, buf, index, ok, out), id, v, fault) = flush(Record(file, cell, place, ok, out), fault)
    BY <1>1, <1>2, <1>3 DEF PutSector
  <1> QED BY <1>1, <1>2, <1>4, FlushResult

\* The host's file, the buffer and the answer after diskWrite.
LEMMA WriteResult ==
    ASSUME DiskTypes, InPlace, NEW id \in SectorIds, NEW vals \in Seq(DiskValues), Len(vals) > 0, id + Len(vals) <= NumSectors,
           NEW fault
    PROVE  LET d == diskWrite(Disk, id, vals, fault)
               last == id + Len(vals) - 1
           IN  /\ d.index = mapSectorId(last) /\ d.buf = encrypt(mapSectorId(last), vals[Len(vals)])
               /\ d.ok <=> fault # "error"
               /\ d.file \in [PhysicalIds -> Cells] /\ \A p \in PhysicalIds : d.file[p].iv \in {p, -1}
               /\ last \in Reached => \A s \in Known :
                    /\ s \in id .. last - 1 => d.file[mapSectorId(s)] = encrypt(mapSectorId(s), vals[s - id + 1])
                    /\ s = last /\ fault = "none" => d.file[mapSectorId(s)] = encrypt(mapSectorId(s), vals[Len(vals)])
                    /\ s = last /\ fault # "none" => d.file[mapSectorId(s)] = hostFile[mapSectorId(s)]
                    /\ s \notin id .. last => d.file[mapSectorId(s)] = hostFile[mapSectorId(s)]
  <1> DEFINE n == Len(vals)
             last == id + n - 1
             Earlier(p) == {i \in 1 .. n - 1 : p = mapSectorId(id + i - 1)}
             before == [p \in PhysicalIds |->
                           IF Earlier(p) # {} THEN encrypt(p, vals[CHOOSE i \in Earlier(p) : TRUE]) ELSE Disk.file[p]]
             d == diskWrite(Disk, id, vals, fault)
             cell == encrypt(mapSectorId(last), vals[n])
  <1>1. n \in Nat \ {0} /\ id \in Nat /\ NumSectors \in Nat /\ id + n <= NumSectors /\ last \in SectorIds
    <2>1. n \in Nat \ {0} /\ id \in Nat /\ NumSectors \in Nat /\ id + n <= NumSectors
      BY SectorTypes
    <2> HIDE DEF n
    <2>2. last \in 0 .. NumSectors - 1
      BY <2>1
    <2> QED BY <2>1, <2>2, SectorTypes
  <1>b. last \in Reached => \A i \in 1 .. n : id + i - 1 \in Known
    <2> HIDE DEF n
    <2> QED BY <1>1, CallKnown
  <1>2. \A i \in 1 .. n : vals[i] \in DiskValues
    OBVIOUS
  <1>3. d.index = mapSectorId(last) /\ d.buf = cell /\ (d.ok <=> fault # "error")
        /\ d.file = IF fault = "none" THEN [before EXCEPT ![mapSectorId(last)] = cell] ELSE before
    <2>1. PICK k : k = TRUE
      OBVIOUS
    <2>2. d = PutSector([Disk EXCEPT !.file = before], last, vals[n], fault)
      BY DEF diskWrite
    <2>3. Disk = Record(hostFile, buffer_writes_, buffer_index_, k, <<>>)
      BY <2>1, Zenon DEF Disk, Record
    <2> HIDE DEF d, before
    <2>4. [Disk EXCEPT !.file = before] = Record(before, buffer_writes_, buffer_index_, k, <<>>)
      BY <2>3, FileSet
    <2>5. d = PutSector(Record(before, buffer_writes_, buffer_index_, k, <<>>), last, vals[n], fault)
      BY <2>2, <2>4
    <2>6. d.index = mapSectorId(last) /\ d.buf = cell /\ (d.ok <=> fault # "error")
          /\ d.file = FlushedFile(before, cell, mapSectorId(last), fault)
      BY <2>5, PutResult
    <2> QED BY <2>6 DEF FlushedFile
  <1>a. Disk.file = hostFile
    BY DEF Disk
  <1> HIDE DEF d
  <1>4. ASSUME last \in Reached, NEW s \in Known, s \in id .. last - 1
        PROVE  before[mapSectorId(s)] = encrypt(mapSectorId(s), vals[s - id + 1])
    <2>1. PICK k \in 1 .. n - 1 : s = id + k - 1 /\ k = s - id + 1
      <3>1. s \in Int /\ s - id + 1 \in 1 .. n - 1 /\ s = id + (s - id + 1) - 1
        BY <1>1, <1>4
      <3> QED BY <3>1
    <2>2. ASSUME NEW i \in 1 .. n - 1, mapSectorId(s) = mapSectorId(id + i - 1) PROVE i = k
      <3>0. i \in 1 .. n
        BY <1>1
      <3>1. id + i - 1 \in Known
        BY <1>4, <1>b, <3>0
      <3>2. id + i - 1 = s
        BY <2>2, <3>1, PlacesApart DEF Known
      <3> QED BY <1>1, <2>1, <3>2
    <2>3. Earlier(mapSectorId(s)) = {k}
      BY <2>1, <2>2
    <2>4. (CHOOSE i \in Earlier(mapSectorId(s)) : TRUE) = k
      BY <2>3
    <2> QED BY <2>1, <2>3, <2>4, SectorTypes DEF Known
  <1>5. ASSUME last \in Reached, NEW s \in Known, s \notin id .. last - 1
        PROVE  before[mapSectorId(s)] = hostFile[mapSectorId(s)]
    <2>1. ASSUME NEW i \in 1 .. n - 1, mapSectorId(s) = mapSectorId(id + i - 1) PROVE FALSE
      <3>0. i \in 1 .. n /\ id + i - 1 \in id .. last - 1
        BY <1>1
      <3>1. id + i - 1 \in Known /\ id + i - 1 \in id .. last - 1
        BY <1>5, <1>b, <3>0
      <3> QED BY <1>5, <2>1, <3>1, PlacesApart DEF Known
    <2>2. Earlier(mapSectorId(s)) = {}
      BY <2>1
    <2> QED BY <1>a, <2>2, SectorTypes DEF Known
  <1>6. ASSUME NEW p \in PhysicalIds PROVE before[p] \in Cells /\ before[p].iv \in {p, -1}
    <2>1. CASE Earlier(p) # {}
      <3>1. PICK i \in 1 .. n - 1 : i = CHOOSE j \in Earlier(p) : TRUE
        BY <2>1
      <3>a. vals[i] \in Values /\ p \in Int
        BY <1>1, <1>2, SectorTypes DEF Values
      <3>b. before[p] = encrypt(p, vals[i])
        BY <2>1, <3>1
      <3>2. before[p] = [iv |-> p, val |-> vals[i]] /\ vals[i] \in Values /\ p \in Int
        BY <3>a, <3>b DEF encrypt
      <3> QED BY <3>2 DEF Cells
    <2>2. CASE Earlier(p) = {}
      BY <1>a, <2>2 DEF DiskTypes, InPlace
    <2> QED BY <2>1, <2>2
  <1>7. mapSectorId(last) \in PhysicalIds /\ cell \in Cells /\ cell.iv = mapSectorId(last)
    <2>1. mapSectorId(last) \in PhysicalIds /\ mapSectorId(last) \in Int
      BY <1>1, SectorTypes
    <2>2. vals[n] \in Values
      BY <1>1, <1>2 DEF Values
    <2> QED BY <2>1, <2>2 DEF Cells, encrypt
  <1>8. before = [p \in PhysicalIds |-> before[p]]
    OBVIOUS
  <1> HIDE DEF before, cell
  <1>9. d.file \in [PhysicalIds -> Cells] /\ \A p \in PhysicalIds : d.file[p].iv \in {p, -1}
    <2>1. before \in [PhysicalIds -> Cells]
      BY <1>6, <1>8
    <2>2. CASE fault = "none"
      BY <1>3, <1>6, <1>7, <2>1, <2>2
    <2>3. CASE fault # "none"
      BY <1>3, <1>6, <2>1, <2>3
    <2> QED BY <2>2, <2>3
  <1>10. ASSUME last \in Reached, NEW s \in Known, s # last PROVE d.file[mapSectorId(s)] = before[mapSectorId(s)]
    <2>1. mapSectorId(s) # mapSectorId(last)
      BY <1>1, <1>10, PlacesApart DEF Known
    <2> QED BY <1>3, <1>8, <2>1, SectorTypes DEF Known
  <1>11. d.file[mapSectorId(last)] = IF fault = "none" THEN cell ELSE before[mapSectorId(last)]
    BY <1>3, <1>7, <1>8
  <1>12. last \notin id .. last - 1
    BY <1>1
  <1>13. \A s \in Known : s \notin id .. last => s \notin id .. last - 1 /\ s # last
    BY <1>1, SectorTypes DEF Known
  <1>14. \A s \in Known : s \in id .. last - 1 => s # last
    BY <1>1
  <1>15. ASSUME last \in Reached, NEW s \in Known
         PROVE  /\ s \in id .. last - 1 => d.file[mapSectorId(s)] = encrypt(mapSectorId(s), vals[s - id + 1])
                /\ s = last /\ fault = "none" => d.file[mapSectorId(s)] = encrypt(mapSectorId(s), vals[n])
                /\ s = last /\ fault # "none" => d.file[mapSectorId(s)] = hostFile[mapSectorId(s)]
                /\ s \notin id .. last => d.file[mapSectorId(s)] = hostFile[mapSectorId(s)]
    <2>1. s \in id .. last - 1 => d.file[mapSectorId(s)] = encrypt(mapSectorId(s), vals[s - id + 1])
      BY <1>4, <1>10, <1>14, <1>15
    <2>2. s = last /\ fault = "none" => d.file[mapSectorId(s)] = encrypt(mapSectorId(s), vals[n])
      BY <1>11 DEF cell
    <2>3. s = last /\ fault # "none" => d.file[mapSectorId(s)] = hostFile[mapSectorId(s)]
      BY <1>1, <1>5, <1>11, <1>12, <1>15
    <2>4. s \notin id .. last => d.file[mapSectorId(s)] = hostFile[mapSectorId(s)]
      BY <1>5, <1>10, <1>13, <1>15
    <2> QED BY <2>1, <2>2, <2>3, <2>4
  <1> QED BY <1>3, <1>9, <1>15 DEF d, cell

\* The host's file, the buffer and the answer after diskRead.
LEMMA ReadResult ==
    ASSUME DiskTypes, InPlace, NEW id \in SectorIds, NEW num \in Nat \ {0}, id + num <= NumSectors,
           NEW fault
    PROVE  LET d == diskRead(Disk, id, num, fault)
           IN  /\ d.index = buffer_index_ /\ d.buf = buffer_writes_
               /\ d.file \in [PhysicalIds -> Cells] /\ \A p \in PhysicalIds : d.file[p].iv \in {p, -1}
               /\ \A s \in Known :
                    /\ PersistentKept => Holds(d.file[mapSectorId(s)], mapSectorId(s)) \in possible[0][s]
                    /\ fault = "none" /\ buffer_index_ = mapSectorId(s) => d.file[mapSectorId(s)] = buffer_writes_
               /\ fault # "none" => d.file = hostFile
               /\ d.ok <=> fault # "error" /\ \A i \in 1 .. num : decrypts(mapSectorId(id + i - 1), d.file[mapSectorId(id + i - 1)])
               /\ ~d.ok => d.out = <<>>
               /\ d.ok => d.out = [i \in 1 .. num |-> Holds(d.file[mapSectorId(id + i - 1)], mapSectorId(id + i - 1))]
  <1> DEFINE f == flush(Disk, fault)
             cells == [i \in 1 .. num |-> f.file[mapSectorId(id + i - 1)]]
             ok == f.ok /\ \A i \in 1 .. num : decrypts(mapSectorId(id + i - 1), cells[i])
             d == diskRead(Disk, id, num, fault)
             out == IF ok THEN [i \in 1 .. num |-> cells[i].val] ELSE <<>>
  <1>1. PICK k : k = TRUE
    OBVIOUS
  <1>2. Disk = Record(hostFile, buffer_writes_, buffer_index_, k, <<>>)
    BY <1>1, Zenon DEF Disk, Record
  <1>3. /\ f.file = (IF fault = "none" THEN [hostFile EXCEPT ![buffer_index_] = buffer_writes_] ELSE hostFile)
        /\ f.buf = buffer_writes_ /\ f.index = buffer_index_ /\ (f.ok <=> fault # "error")
    <2>1. f = flush(Record(hostFile, buffer_writes_, buffer_index_, k, <<>>), fault)
      BY <1>2
    <2> HIDE DEF f
    <2>2. /\ f.file = FlushedFile(hostFile, buffer_writes_, buffer_index_, fault)
          /\ f.buf = buffer_writes_ /\ f.index = buffer_index_ /\ (f.ok <=> fault # "error")
      BY <2>1, FlushResult
    <2> QED BY <2>2 DEF FlushedFile
  <1>4. \E a, b, c, j, o : f = Record(a, b, c, j, o)
    <2>1. f = Record(FlushedFile(hostFile, buffer_writes_, buffer_index_, fault), buffer_writes_, buffer_index_, FlushOk(fault), <<>>)
      BY <1>2, FlushIs
    <2> HIDE DEF f
    <2> QED BY <2>1, Zenon
  <1>5. d = [f EXCEPT !.ok = ok, !.out = out]
    BY DEF diskRead
  <1>6. d.file = f.file /\ d.buf = f.buf /\ d.index = f.index /\ (d.ok <=> ok) /\ d.out = out
    <2>1. PICK a, b, c, j, o : f = Record(a, b, c, j, o)
      BY <1>4
    <2>2. PICK x : x = ok
      OBVIOUS
    <2>3. PICK y : y = out
      OBVIOUS
    <2>4. d = [Record(a, b, c, j, o) EXCEPT !.ok = x, !.out = y]
      BY <1>5, <2>1, <2>2, <2>3
    <2> HIDE DEF ok, out, d, f
    <2>5. d.file = a /\ d.buf = b /\ d.index = c /\ d.ok = x /\ d.out = y /\ f.file = a /\ f.buf = b /\ f.index = c
      BY <2>1, <2>4 DEF Record
    <2>6. d.ok <=> ok
      BY <2>2, <2>5
    <2> QED BY <2>3, <2>5, <2>6
  <1> HIDE DEF d
  <1>7. ASSUME NEW i \in 1 .. num PROVE cells[i] = d.file[mapSectorId(id + i - 1)]
    BY <1>6
  <1>8. ok <=> fault # "error" /\ \A i \in 1 .. num : decrypts(mapSectorId(id + i - 1), d.file[mapSectorId(id + i - 1)])
    BY <1>3, <1>7
  <1>9. ASSUME ok PROVE out = [i \in 1 .. num |-> Holds(d.file[mapSectorId(id + i - 1)], mapSectorId(id + i - 1))]
    <2>1. \A i \in 1 .. num : cells[i].val = Holds(d.file[mapSectorId(id + i - 1)], mapSectorId(id + i - 1))
      BY <1>7, <1>8, <1>9 DEF Holds
    <2> QED BY <1>9, <2>1
  <1> HIDE DEF ok, out, cells, f
  <1>10. ~ok => out = <<>>
    BY DEF out
  <1>11. d.file \in [PhysicalIds -> Cells] /\ \A p \in PhysicalIds : d.file[p].iv \in {p, -1}
    <2>1. /\ hostFile \in [PhysicalIds -> Cells] /\ buffer_index_ \in PhysicalIds /\ buffer_writes_ \in Cells
          /\ \A p \in PhysicalIds : hostFile[p].iv \in {p, -1}
          /\ buffer_writes_.iv \in {buffer_index_, -1}
      BY DEF DiskTypes, InPlace
    <2>2. CASE fault = "none"
      BY <1>3, <1>6, <2>1, <2>2
    <2>3. CASE fault # "none"
      BY <1>3, <1>6, <2>1, <2>3
    <2> QED BY <2>2, <2>3
  <1>12. ASSUME NEW s \in Known
         PROVE  /\ PersistentKept => Holds(d.file[mapSectorId(s)], mapSectorId(s)) \in possible[0][s]
                /\ fault = "none" /\ buffer_index_ = mapSectorId(s) => d.file[mapSectorId(s)] = buffer_writes_
    <2>1. /\ PersistentKept => Holds(hostFile[mapSectorId(s)], mapSectorId(s)) \in possible[0][s]
          /\ PersistentKept /\ buffer_index_ = mapSectorId(s) => Holds(buffer_writes_, mapSectorId(s)) \in possible[0][s]
          /\ mapSectorId(s) \in PhysicalIds /\ hostFile \in [PhysicalIds -> Cells]
      BY SectorTypes DEF PersistentKept, DiskTypes, Known
    <2>2. CASE fault = "none" /\ buffer_index_ = mapSectorId(s)
      <3>1. d.file[mapSectorId(s)] = buffer_writes_
        BY <1>3, <1>6, <2>1, <2>2
      <3> QED BY <2>1, <2>2, <3>1
    <2>3. CASE ~(fault = "none" /\ buffer_index_ = mapSectorId(s))
      <3>1. d.file[mapSectorId(s)] = hostFile[mapSectorId(s)]
        BY <1>3, <1>6, <2>1, <2>3
      <3> QED BY <2>1, <2>3, <3>1
    <2> QED BY <2>2, <2>3
  <1>13. fault # "none" => d.file = hostFile
    BY <1>3, <1>6, <1>8
  <1>14. d.ok <=> fault # "error" /\ \A i \in 1 .. num : decrypts(mapSectorId(id + i - 1), d.file[mapSectorId(id + i - 1)])
    BY <1>6, <1>8
  <1>15. /\ ~d.ok => d.out = <<>>
         /\ d.ok => d.out = [i \in 1 .. num |-> Holds(d.file[mapSectorId(id + i - 1)], mapSectorId(id + i - 1))]
    BY <1>6, <1>9, <1>10
  <1>16. d.index = buffer_index_ /\ d.buf = buffer_writes_
    BY <1>3, <1>6
  <1> QED BY <1>11, <1>12, <1>13, <1>14, <1>15, <1>16 DEF d

\* A read that returns values the sectors may hold leaves each with the one it returned.
Returns(drive, id, out, k) ==
    /\ DOMAIN possible = Drives /\ drive \in Drives
    /\ DOMAIN out = 1 .. k /\ \A i \in 1 .. k : out[i] \in possible[drive][id + i - 1]

SettledAs(drive, id, out, k) ==
    /\ DOMAIN possible' = Drives /\ DiskReadsWritten'
    /\ \A e \in Drives : e # drive => possible'[e] = possible[e]
    /\ \A s \in SectorIds : possible'[drive][s] = IF s - id + 1 \in 1 .. k THEN {out[s - id + 1]} ELSE possible[drive][s]

LEMMA Settled ==
    ASSUME NEW drive, NEW id, NEW k, NEW out, Returns(drive, id, out, k), Settle(drive, id, out)
    PROVE  SettledAs(drive, id, out, k)
  <1>1. diskReply' = {[drive |-> drive, val |-> out[i], may |-> possible[drive][id + i - 1]] : i \in 1 .. k}
    BY DEF Settle, Returns
  <1>2. possible' = [possible EXCEPT ![drive] = [s \in SectorIds |->
                        IF s - id + 1 \in 1 .. k THEN {out[s - id + 1]} ELSE possible[drive][s]]]
    BY DEF Settle, Returns
  <1>3. DiskReadsWritten'
    BY <1>1 DEF Returns, DiskReadsWritten
  <1> QED BY <1>2, <1>3 DEF Returns, SettledAs

\* What sectors may hold after a write.
LEMMA WrittenIs ==
    ASSUME DOMAIN possible = Drives, NEW drive \in Drives, NEW id \in SectorIds, NEW vals, NEW ok
    PROVE  LET w == Written(drive, id, vals, ok)
               last == id + Len(vals) - 1
           IN  /\ DOMAIN w = Drives /\ \A e \in Drives : e # drive => w[e] = possible[e]
               /\ \A s \in SectorIds :
                    /\ s \notin id .. last => w[drive][s] = possible[drive][s]
                    /\ s \in id .. last /\ (ok \/ s < last) => w[drive][s] = {vals[s - id + 1]}
                    /\ s \in id .. last /\ ~(ok \/ s < last) => w[drive][s] = possible[drive][s] \cup {vals[s - id + 1]}
  <1> DEFINE last == id + Len(vals) - 1
             new == [s \in SectorIds |->
                IF s \notin id .. last THEN possible[drive][s]
                ELSE {vals[s - id + 1]} \cup (IF ok \/ s < last THEN {} ELSE possible[drive][s])]
  <1> HIDE DEF last
  <1>1. ASSUME NEW s \in SectorIds
        PROVE  /\ s \notin id .. last => new[s] = possible[drive][s]
               /\ s \in id .. last /\ (ok \/ s < last) => new[s] = {vals[s - id + 1]}
               /\ s \in id .. last /\ ~(ok \/ s < last) => new[s] = possible[drive][s] \cup {vals[s - id + 1]}
    OBVIOUS
  <1> HIDE DEF new
  <1>2. Written(drive, id, vals, ok) = [possible EXCEPT ![drive] = new]
    BY DEF Written, new, last
  <1> QED BY <1>1, <1>2 DEF last

-----------------------------------------------------------------------------
(* Each call keeps the invariant.                                          *)

\* A write to the persistent disk, whether it succeeds or fails on the last sector.
LEMMA PersistentWriteKeeps ==
    ASSUME DiskBase, NEW drive \in Drives, NEW id \in SectorIds, NEW vals \in Seq(DiskValues), Len(vals) > 0,
           NEW fault \in Faults, PersistentWrite(drive, id, vals, fault)
    PROVE  DiskBase' /\ (DiskKept /\ fault # "thrown" /\ id + Len(vals) - 1 \in Reached => DiskKept')
  <1> DEFINE d == diskWrite(Disk, id, vals, fault)
             n == Len(vals)
             last == id + n - 1
             w == Written(drive, id, vals, d.ok)
  <1>1. DiskTypes /\ InPlace
    BY DEF DiskBase
  <1>2. /\ hostFile' = d.file /\ buffer_writes_' = d.buf /\ buffer_index_' = d.index
        /\ possible' = w /\ diskReply' = {} /\ ram_buffer_' = ram_buffer_ /\ disks' = disks
        /\ id + n <= NumSectors /\ disks[drive] = "persistent"
    BY DEF PersistentWrite, SetDisk, DiskCall, Within
  <1>3. drive = 0 /\ Drives = {0, 1}
    BY <1>1, <1>2, DriveKinds
  <1>4. n \in Nat \ {0} /\ id \in Nat /\ NumSectors \in Nat /\ last \in SectorIds /\ last \in Nat
    <2>1. n \in Nat \ {0} /\ id \in Nat /\ NumSectors \in Nat
      BY SectorTypes
    <2> HIDE DEF n
    <2>2. last \in 0 .. NumSectors - 1
      BY <1>2, <2>1
    <2> QED BY <2>1, <2>2, SectorTypes
  <1>5. /\ d.index = mapSectorId(last) /\ d.buf = encrypt(mapSectorId(last), vals[n])
        /\ d.ok <=> fault # "error"
        /\ d.file \in [PhysicalIds -> Cells] /\ \A p \in PhysicalIds : d.file[p].iv \in {p, -1}
        /\ last \in Reached => \A s \in Known :
             /\ s \in id .. last - 1 => d.file[mapSectorId(s)] = encrypt(mapSectorId(s), vals[s - id + 1])
             /\ s = last /\ fault = "none" => d.file[mapSectorId(s)] = encrypt(mapSectorId(s), vals[n])
             /\ s = last /\ fault # "none" => d.file[mapSectorId(s)] = hostFile[mapSectorId(s)]
             /\ s \notin id .. last => d.file[mapSectorId(s)] = hostFile[mapSectorId(s)]
    BY <1>1, <1>2, WriteResult
  <1>6. /\ DOMAIN w = Drives /\ \A e \in Drives : e # drive => w[e] = possible[e]
        /\ \A s \in SectorIds :
             /\ s \notin id .. last => w[drive][s] = possible[drive][s]
             /\ s \in id .. last /\ (d.ok \/ s < last) => w[drive][s] = {vals[s - id + 1]}
             /\ s \in id .. last /\ ~(d.ok \/ s < last) => w[drive][s] = possible[drive][s] \cup {vals[s - id + 1]}
    BY <1>1, WrittenIs DEF DiskTypes
  <1> HIDE DEF d, w
  <1>7. vals[n] \in Values /\ mapSectorId(last) \in PhysicalIds /\ mapSectorId(last) \in Int
    BY <1>4, SectorTypes DEF Values
  <1>8. DiskTypes'
    <2>1. encrypt(mapSectorId(last), vals[n]) \in Cells
      BY <1>7 DEF Cells, encrypt
    <2> QED BY <1>1, <1>2, <1>5, <1>6, <1>7, <2>1 DEF DiskTypes
  <1>9. InPlace'
    <2>1. encrypt(mapSectorId(last), vals[n]).iv = mapSectorId(last)
      BY DEF encrypt
    <2> QED BY <1>1, <1>2, <1>5, <2>1 DEF InPlace
  <1>10. ASSUME NEW s \in Known, PersistentKept, fault # "thrown", last \in Reached
         PROVE  /\ Holds(d.file[mapSectorId(s)], mapSectorId(s)) \in w[0][s]
                /\ d.index = mapSectorId(s) => Holds(d.buf, mapSectorId(s)) \in w[0][s]
    <2>1. s # last => d.index # mapSectorId(s)
      BY <1>4, <1>5, <1>10, PlacesApart DEF Known
    <2>2. Holds(hostFile[mapSectorId(s)], mapSectorId(s)) \in possible[0][s]
      BY <1>10 DEF PersistentKept
    <2>3. CASE s \in id .. last - 1
      <3>1. s \in id .. last /\ s < last /\ s # last
        BY <1>4, <2>3
      <3>2. w[0][s] = {vals[s - id + 1]}
        BY <1>3, <1>6, <3>1 DEF Known
      <3>3. Holds(d.file[mapSectorId(s)], mapSectorId(s)) = vals[s - id + 1]
        BY <1>5, <1>10, <2>3, HoldsEncrypted
      <3> QED BY <2>1, <3>1, <3>2, <3>3
    <2>4. CASE s = last
      <3>1. s \in id .. last /\ ~(s < last) /\ s - id + 1 = n
        BY <1>4, <2>4
      <3>2. Holds(d.buf, mapSectorId(s)) = vals[n]
        BY <1>5, <2>4, HoldsEncrypted
      <3>3. CASE fault = "none"
        <4>1. w[0][s] = {vals[n]}
          BY <1>3, <1>5, <1>6, <3>1, <3>3 DEF Known
        <4>2. Holds(d.file[mapSectorId(s)], mapSectorId(s)) = vals[n]
          BY <1>5, <1>10, <2>4, <3>3, HoldsEncrypted
        <4> QED BY <3>2, <4>1, <4>2
      <3>4. CASE fault # "none"
        <4>1. w[0][s] = possible[0][s] \cup {vals[n]}
          BY <1>3, <1>5, <1>6, <3>1, <3>4, <1>10, DiskAssumption DEF Faults, Known
        <4>2. d.file[mapSectorId(s)] = hostFile[mapSectorId(s)]
          BY <1>5, <1>10, <2>4, <3>4
        <4> QED BY <2>2, <3>2, <4>1, <4>2
      <3> QED BY <3>3, <3>4
    <2>5. CASE s \notin id .. last
      <3>1. s # last
        BY <1>4, <2>5
      <3> QED BY <1>3, <1>5, <1>6, <1>10, <2>1, <2>2, <2>5, <3>1 DEF Known
    <2> QED BY <1>4, <2>3, <2>4, <2>5, SectorTypes DEF Known
  <1>11. DiskKept /\ fault # "thrown" /\ last \in Reached => PersistentKept'
    BY <1>2, <1>10 DEF DiskKept, PersistentKept
  <1>12. MemoryKept => MemoryKept'
    BY <1>2, <1>3, <1>6 DEF MemoryKept
  <1>13. DiskReadsWritten'
    BY <1>2 DEF DiskReadsWritten
  <1> QED BY <1>8, <1>9, <1>11, <1>12, <1>13 DEF DiskBase, DiskKept

\* After a flush that succeeded, a read that returned what the first k sectors hold keeps the invariant.
LEMMA SettledKeeps ==
    ASSUME DiskTypes, InPlace', MemoryKept, NEW id \in SectorIds, NEW k \in Nat, id + k <= NumSectors, k > 0 => id + k - 1 \in Reached,
           NEW out, DOMAIN out = 1 .. k,
           disks' = disks, ram_buffer_' = ram_buffer_, Settle(0, id, out),
           hostFile' \in [PhysicalIds -> Cells], buffer_writes_' = buffer_writes_, buffer_index_' = buffer_index_,
           \A s \in Known : Holds(hostFile'[mapSectorId(s)], mapSectorId(s)) \in possible[0][s],
           \A s \in Known : buffer_index_ = mapSectorId(s) =>
                Holds(buffer_writes_, mapSectorId(s)) \in possible[0][s],
           k > 0 => \A s \in Known : buffer_index_ = mapSectorId(s) => hostFile'[mapSectorId(s)] = buffer_writes_,
           \A i \in 1 .. k : out[i] = Holds(hostFile'[mapSectorId(id + i - 1)], mapSectorId(id + i - 1))
    PROVE  DiskBase' /\ DiskKept'
  <1>1. 0 \in Drives /\ 1 \in Drives /\ Drives = {0, 1}
    BY DEF Drives, FF_VOLUMES
  <1>2. id \in Nat /\ NumSectors \in Nat /\ SectorIds = 0 .. NumSectors - 1
    BY SectorTypes
  <1>3. \A i \in 1 .. k : id + i - 1 \in Known
    BY CallKnown
  <1>4. \A i \in 1 .. k : out[i] \in possible[0][id + i - 1]
    BY <1>3
  <1>5. /\ DOMAIN possible' = Drives /\ DiskReadsWritten'
        /\ \A e \in Drives : e # 0 => possible'[e] = possible[e]
        /\ \A s \in SectorIds : possible'[0][s] = IF s - id + 1 \in 1 .. k THEN {out[s - id + 1]} ELSE possible[0][s]
    <2>1. PICK drive : drive = 0
      OBVIOUS
    <2>2. Returns(drive, id, out, k) /\ Settle(drive, id, out)
      BY <1>1, <1>4, <2>1 DEF DiskTypes, Returns
    <2>3. SettledAs(drive, id, out, k)
      BY <2>2, Settled, Zenon
    <2> QED BY <2>1, <2>3 DEF SettledAs
  <1>6. DiskTypes'
    BY <1>5 DEF DiskTypes
  <1>7. PersistentKept'
    <2> SUFFICES ASSUME NEW s \in Known
                 PROVE  /\ Holds(hostFile'[mapSectorId(s)], mapSectorId(s)) \in possible'[0][s]
                        /\ buffer_index_ = mapSectorId(s) => Holds(buffer_writes_, mapSectorId(s)) \in possible'[0][s]
      BY DEF PersistentKept
    <2>1. CASE s - id + 1 \in 1 .. k
      <3>1. PICK i \in 1 .. k : i = s - id + 1
        BY <2>1
      <3>2. s = id + i - 1 /\ k > 0
        BY <1>2, <3>1 DEF Known
      <3>3. possible'[0][s] = {out[i]}
        BY <1>5, <3>1 DEF Known
      <3>4. out[i] = Holds(hostFile'[mapSectorId(s)], mapSectorId(s))
        BY <3>2
      <3> QED BY <3>2, <3>3, <3>4
    <2>2. CASE s - id + 1 \notin 1 .. k
      BY <1>5, <2>2 DEF Known
    <2> QED BY <2>1, <2>2
  <1>8. MemoryKept'
    BY <1>1, <1>5 DEF MemoryKept
  <1> QED BY <1>5, <1>6, <1>7, <1>8 DEF DiskBase, DiskKept

\* A read of the persistent disk.
LEMMA PersistentReadKeeps ==
    ASSUME DiskBase, NEW drive \in Drives, NEW id \in SectorIds, NEW num \in Nat \ {0},
           NEW fault \in Faults, PersistentRead(drive, id, num, fault)
    PROVE  DiskBase' /\ (DiskKept /\ fault # "thrown" /\ id + num - 1 \in Reached => DiskKept')
  <1> DEFINE d == diskRead(Disk, id, num, fault)
             H(s) == Holds(d.file[mapSectorId(s)], mapSectorId(s))
  <1>1. DiskTypes /\ InPlace
    BY DEF DiskBase
  <1>2. /\ hostFile' = d.file /\ buffer_writes_' = d.buf /\ buffer_index_' = d.index
        /\ ram_buffer_' = ram_buffer_ /\ disks' = disks
        /\ id + num <= NumSectors /\ disks[drive] = "persistent"
    BY DEF PersistentRead, SetDisk, DiskCall, Within
  <1>3. drive = 0 /\ Drives = {0, 1}
    BY <1>1, <1>2, DriveKinds
  <1>4. /\ d.ok \/ fault # "none" => Settle(0, id, d.out)
        /\ ~(d.ok \/ fault # "none") => SettleFailed(0, id, num)
    BY <1>3 DEF PersistentRead
  <1>5. /\ d.index = buffer_index_ /\ d.buf = buffer_writes_
        /\ d.file \in [PhysicalIds -> Cells] /\ \A p \in PhysicalIds : d.file[p].iv \in {p, -1}
        /\ \A s \in Known :
             /\ PersistentKept => H(s) \in possible[0][s]
             /\ fault = "none" /\ buffer_index_ = mapSectorId(s) => d.file[mapSectorId(s)] = buffer_writes_
        /\ fault # "none" => d.file = hostFile
        /\ d.ok <=> fault # "error" /\ \A i \in 1 .. num : decrypts(mapSectorId(id + i - 1), d.file[mapSectorId(id + i - 1)])
        /\ ~d.ok => d.out = <<>>
        /\ d.ok => d.out = [i \in 1 .. num |-> H(id + i - 1)]
    BY <1>1, <1>2, ReadResult
  <1> HIDE DEF d
  <1>6. id \in Nat /\ NumSectors \in Nat /\ SectorIds = 0 .. NumSectors - 1
    BY SectorTypes
  <1>7. id + num - 1 \in Reached => \A i \in 1 .. num : id + i - 1 \in Known
    BY <1>2, CallKnown
  <1>8. InPlace'
    BY <1>1, <1>2, <1>5 DEF InPlace
  <1>9. DiskTypes'
    <2>1. DOMAIN possible = Drives
      BY <1>1 DEF DiskTypes
    <2>2. DOMAIN possible' = Drives
      BY <1>4, <2>1 DEF Settle, SettleFailed
    <2> QED BY <1>1, <1>2, <1>5, <2>2 DEF DiskTypes
  <1>10. ASSUME DiskKept, fault = "none" \/ fault = "error", id + num - 1 \in Reached PROVE DiskKept'
    <2>1. PersistentKept /\ MemoryKept
      BY <1>10 DEF DiskKept
    <2>2. /\ hostFile' \in [PhysicalIds -> Cells] /\ buffer_writes_' = buffer_writes_ /\ buffer_index_' = buffer_index_
          /\ \A s \in Known : Holds(hostFile'[mapSectorId(s)], mapSectorId(s)) \in possible[0][s]
          /\ \A s \in Known : buffer_index_ = mapSectorId(s) => Holds(buffer_writes_, mapSectorId(s)) \in possible[0][s]
          /\ fault = "none" =>
               \A s \in Known : buffer_index_ = mapSectorId(s) => hostFile'[mapSectorId(s)] = buffer_writes_
      BY <1>2, <1>5, <2>1 DEF PersistentKept
    <2>3. CASE d.ok
      <3>1. DOMAIN d.out = 1 .. num /\ \A i \in 1 .. num : d.out[i] = H(id + i - 1)
        BY <1>5, <2>3
      <3>2. \A i \in 1 .. num : d.out[i] = Holds(hostFile'[mapSectorId(id + i - 1)], mapSectorId(id + i - 1))
        BY <1>2, <3>1
      <3>3. fault = "none" /\ Settle(0, id, d.out)
        BY <1>4, <1>5, <1>10, <2>3
      <3> HIDE DEF H
      <3> QED BY <1>1, <1>2, <1>8, <2>1, <2>2, <3>1, <3>2, <3>3, <1>10, SettledKeeps
    <2>4. CASE fault = "error"
      <3>1. d.out = <<>> /\ Settle(0, id, d.out)
        BY <1>4, <1>5, <2>4
      <3>2. DOMAIN d.out = 1 .. 0 /\ 0 \in Nat /\ id + 0 <= NumSectors
        BY <1>6, <3>1
      <3>3. \A i \in 1 .. 0 : d.out[i] = Holds(hostFile'[mapSectorId(id + i - 1)], mapSectorId(id + i - 1))
        OBVIOUS
      <3> HIDE DEF H
      <3> QED BY <1>1, <1>2, <1>8, <2>1, <2>2, <3>1, <3>2, <3>3, <1>10, SettledKeeps
    <2>5. CASE ~d.ok /\ fault = "none"
      <3>1. SettleFailed(0, id, num)
        BY <1>4, <2>5
      <3>2. PICK i \in 1 .. num : ~decrypts(mapSectorId(id + i - 1), d.file[mapSectorId(id + i - 1)])
        BY <1>5, <2>5
      <3>3. H(id + i - 1) = NeverWritten
        BY <3>2 DEF Holds
      <3>4. CASE num = 1
        <4> DEFINE out == <<NeverWritten>>
        <4>1. Settle(0, id, out)
          BY <3>1, <3>4 DEF SettleFailed
        <4>2. DOMAIN out = 1 .. 1 /\ 1 \in Nat /\ id + 1 <= NumSectors
          BY <1>2, <3>4
        <4>3. i = 1
          BY <3>4
        <4>4. \A j \in 1 .. 1 : out[j] = Holds(hostFile'[mapSectorId(id + j - 1)], mapSectorId(id + j - 1))
          BY <1>2, <3>3, <4>3
        <4> HIDE DEF out, H
        <4> QED BY <1>1, <1>2, <1>8, <2>1, <2>2, <2>5, <4>1, <4>2, <4>4, <1>10, <3>4, SettledKeeps
      <3>5. CASE num > 1
        <4>1. H(id + i - 1) \in possible[0][id + i - 1] /\ id + i - 1 \in id .. id + num - 1
          <5>1. \A s \in Known : H(s) \in possible[0][s]
            BY <1>5, <2>1
          <5>2. id + i - 1 \in Known
            BY <1>7, <1>10
          <5>3. id + i - 1 \in id .. id + num - 1
            BY <1>2, <1>6
          <5> HIDE DEF H
          <5> QED BY <5>1, <5>2, <5>3
        <4>2. MayFail(0, id, num)
          BY <3>3, <4>1 DEF MayFail
        <4>3. diskReply' = {} /\ possible' = possible
          BY <3>1, <3>5, <4>2 DEF SettleFailed
        <4>4. PersistentKept'
          BY <2>2, <4>3 DEF PersistentKept
        <4>5. MemoryKept' /\ DiskReadsWritten'
          BY <1>2, <2>1, <4>3 DEF MemoryKept, DiskReadsWritten
        <4> QED BY <4>4, <4>5 DEF DiskKept
      <3> QED BY <3>4, <3>5
    <2> QED BY <1>10, <2>3, <2>4, <2>5
  <1> QED BY <1>8, <1>9, <1>10, DiskAssumption DEF DiskBase, Faults

\* A call to synchronize the persistent disk.
LEMMA PersistentSyncKeeps ==
    ASSUME DiskBase, NEW drive \in Drives, NEW fault, PersistentSync(drive, fault)
    PROVE  DiskBase' /\ (DiskKept /\ fault # "thrown" => DiskKept')
  <1> DEFINE f == flush(Disk, fault)
  <1>1. DiskTypes /\ InPlace
    BY DEF DiskBase
  <1>2. /\ hostFile' = f.file /\ buffer_writes_' = f.buf /\ buffer_index_' = f.index
        /\ ram_buffer_' = ram_buffer_ /\ disks' = disks /\ possible' = possible /\ diskReply' = {}
    BY DEF PersistentSync, SetDisk, DiskCall, diskIoCtl
  <1>3. PICK k : k = TRUE
    OBVIOUS
  <1>4. Disk = Record(hostFile, buffer_writes_, buffer_index_, k, <<>>)
    BY <1>3, Zenon DEF Disk, Record
  <1>5. f.file = FlushedFile(hostFile, buffer_writes_, buffer_index_, fault) /\ f.buf = buffer_writes_ /\ f.index = buffer_index_
    BY <1>4, FlushResult
  <1> HIDE DEF f
  <1>6. /\ hostFile \in [PhysicalIds -> Cells] /\ buffer_index_ \in PhysicalIds /\ buffer_writes_ \in Cells
        /\ \A p \in PhysicalIds : hostFile[p].iv \in {p, -1}
        /\ buffer_writes_.iv \in {buffer_index_, -1} /\ ram_buffer_[NumSectors] = 0
    BY <1>1 DEF DiskTypes, InPlace
  <1>7. \/ hostFile' = hostFile
        \/ hostFile' = [hostFile EXCEPT ![buffer_index_] = buffer_writes_]
    BY <1>2, <1>5 DEF FlushedFile
  <1>8. hostFile' \in [PhysicalIds -> Cells] /\ \A p \in PhysicalIds : hostFile'[p].iv \in {p, -1}
    BY <1>6, <1>7
  <1>9. DiskTypes' /\ InPlace'
    BY <1>1, <1>2, <1>5, <1>6, <1>8 DEF DiskTypes, InPlace
  <1>10. ASSUME PersistentKept, NEW s \in Known PROVE Holds(hostFile'[mapSectorId(s)], mapSectorId(s)) \in possible[0][s]
    <2>1. \/ hostFile'[mapSectorId(s)] = hostFile[mapSectorId(s)]
          \/ hostFile'[mapSectorId(s)] = buffer_writes_ /\ buffer_index_ = mapSectorId(s)
      BY <1>6, <1>7, SectorTypes DEF Known
    <2> QED BY <1>10, <2>1 DEF PersistentKept
  <1>11. PersistentKept => PersistentKept'
    BY <1>2, <1>5, <1>10 DEF PersistentKept
  <1>12. (MemoryKept => MemoryKept') /\ DiskReadsWritten'
    BY <1>2 DEF MemoryKept, DiskReadsWritten
  <1> QED BY <1>9, <1>11, <1>12 DEF DiskBase, DiskKept

\* A write to the disk in memory.
LEMMA MemoryWriteKeeps ==
    ASSUME DiskBase, NEW drive \in Drives, NEW id \in SectorIds, NEW vals \in Seq(DiskValues), Len(vals) > 0,
           MemoryWrite(drive, id, vals)
    PROVE  DiskBase' /\ (DiskKept => DiskKept')
  <1> DEFINE n == Len(vals)
             last == id + n - 1
             ok == InRam(id, n)
             w == Written(drive, id, vals, TRUE)
  <1>1. DiskTypes /\ InPlace
    BY DEF DiskBase
  <1>2. /\ hostFile' = hostFile /\ buffer_writes_' = buffer_writes_ /\ buffer_index_' = buffer_index_
        /\ diskReply' = {} /\ disks' = disks /\ disks[drive] = "memory"
        /\ ram_buffer_' = [s \in 0 .. NumSectors |-> IF ok /\ s - id + 1 \in 1 .. n THEN vals[s - id + 1] ELSE ram_buffer_[s]]
        /\ ok => possible' = w
        /\ ~ok => possible' = possible
    <2>1. DOMAIN vals = 1 .. n
      OBVIOUS
    <2>2. DiskCall /\ ok = InRam(id, Len(vals))
      BY DEF MemoryWrite
    <2> HIDE DEF w, ok, n
    <2> QED BY <2>1, <2>2 DEF MemoryWrite, DiskCall, w, ok, n
  <1>3. drive = 1 /\ Drives = {0, 1}
    BY <1>1, <1>2, DriveKinds
  <1>4. n \in Nat \ {0} /\ id \in Nat /\ NumSectors \in Nat \ {0} /\ SectorIds = 0 .. NumSectors - 1
    BY SectorTypes
  <1>5. \A i \in 1 .. n : vals[i] \in Values
    BY DEF Values
  <1>6. ok => id + n < NumSectors
    BY DEF InRam
  <1>7. /\ DOMAIN w = Drives /\ \A e \in Drives : e # drive => w[e] = possible[e]
        /\ \A s \in SectorIds :
             /\ s \notin id .. last => w[drive][s] = possible[drive][s]
             /\ s \in id .. last => w[drive][s] = {vals[s - id + 1]}
    <2>1. DOMAIN possible = Drives
      BY <1>1 DEF DiskTypes
    <2>2. PICK t : t = TRUE
      OBVIOUS
    <2>3. w = Written(drive, id, vals, t)
      BY <2>2, Zenon
    <2> HIDE DEF w
    <2>4. /\ DOMAIN w = Drives /\ \A e \in Drives : e # drive => w[e] = possible[e]
          /\ \A s \in SectorIds :
               /\ s \notin id .. last => w[drive][s] = possible[drive][s]
               /\ s \in id .. last /\ (t \/ s < last) => w[drive][s] = {vals[s - id + 1]}
      BY <2>1, <2>3, WrittenIs
    <2> QED BY <2>2, <2>4
  <1> HIDE DEF w, n, ok
  <1>8. ram_buffer_ \in [0 .. NumSectors -> Values] /\ ram_buffer_[NumSectors] = 0
    BY <1>1 DEF DiskTypes, InPlace
  <1>9. ram_buffer_' \in [0 .. NumSectors -> Values]
    BY <1>2, <1>5, <1>8
  <1>10. DOMAIN possible' = Drives /\ possible'[0] = possible[0]
    <2>1. DOMAIN possible = Drives
      BY <1>1 DEF DiskTypes
    <2> QED BY <1>2, <1>3, <1>7, <2>1
  <1>11. DiskTypes' /\ (PersistentKept => PersistentKept') /\ DiskReadsWritten'
    BY <1>1, <1>2, <1>9, <1>10 DEF DiskTypes, PersistentKept, DiskReadsWritten
  <1>12. ram_buffer_'[NumSectors] = 0
    <2>1. NumSectors \in 0 .. NumSectors /\ (ok => NumSectors - id + 1 \notin 1 .. n)
      BY <1>4, <1>6
    <2> QED BY <1>2, <1>8, <2>1
  <1>13. ASSUME MemoryKept, NEW s \in SectorIds PROVE ram_buffer_'[s] \in possible'[1][s]
    <2>1. s \in 0 .. NumSectors /\ (s \in id .. last <=> s - id + 1 \in 1 .. n)
      BY <1>4
    <2>2. CASE ok /\ s - id + 1 \in 1 .. n
      BY <1>2, <1>3, <1>7, <2>1, <2>2
    <2>3. CASE ~(ok /\ s - id + 1 \in 1 .. n)
      <3>1. ram_buffer_'[s] = ram_buffer_[s]
        BY <1>2, <2>1, <2>3
      <3>2. possible'[1][s] = possible[1][s]
        BY <1>2, <1>3, <1>7, <2>1, <2>3
      <3> QED BY <1>13, <3>1, <3>2 DEF MemoryKept
    <2> QED BY <2>2, <2>3
  <1>14. InPlace'
    BY <1>1, <1>2, <1>12 DEF InPlace
  <1>15. MemoryKept => MemoryKept'
    BY <1>13 DEF MemoryKept
  <1> QED BY <1>11, <1>14, <1>15 DEF DiskBase, DiskKept

\* A read of the disk in memory.
LEMMA MemoryReadKeeps ==
    ASSUME DiskBase, NEW drive \in Drives, NEW id \in SectorIds, NEW num \in Nat \ {0}, MemoryRead(drive, id, num)
    PROVE  DiskBase' /\ (DiskKept /\ id < RamSpan => DiskKept')
  <1> DEFINE from == id % RamSpan
             out == IF InRam(from, num) THEN [i \in 1 .. num |-> ram_buffer_[from + i - 1]] ELSE <<>>
             k == IF InRam(from, num) THEN num ELSE 0
  <1>1. DiskTypes /\ InPlace
    BY DEF DiskBase
  <1>2. /\ hostFile' = hostFile /\ buffer_writes_' = buffer_writes_ /\ buffer_index_' = buffer_index_
        /\ ram_buffer_' = ram_buffer_ /\ disks' = disks /\ disks[drive] = "memory"
        /\ Settle(drive, id, out)
    BY DEF MemoryRead, DiskCall
  <1>3. drive = 1 /\ Drives = {0, 1}
    BY <1>1, <1>2, DriveKinds
  <1>4. id \in Nat /\ NumSectors \in Nat \ {0} /\ SectorIds = 0 .. NumSectors - 1
    BY SectorTypes
  <1>5. k \in Nat /\ DOMAIN out = 1 .. k /\ (k > 0 => InRam(from, num) /\ k = num)
        /\ \A i \in 1 .. k : out[i] = ram_buffer_[from + i - 1]
    BY <1>4 DEF InRam
  <1>6. ASSUME id < RamSpan PROVE from = id /\ \A i \in 1 .. k : id + i - 1 \in SectorIds
    <2>1. RamSpan \in Nat \ {0}
      BY DiskAssumption
    <2>2. id % RamSpan = id
      BY <1>4, <1>6, <2>1
    <2> HIDE DEF k, out
    <2>3. \A i \in 1 .. k : id + i - 1 \in SectorIds
      BY <1>4, <1>5, <2>2 DEF InRam
    <2> QED BY <2>2, <2>3
  <1> HIDE DEF out, k, from
  <1>7. DiskTypes' /\ InPlace'
    <2>1. DOMAIN possible' = Drives
      BY <1>1, <1>2 DEF DiskTypes, Settle
    <2> QED BY <1>1, <1>2, <2>1 DEF DiskTypes, InPlace
  <1>8. ASSUME DiskKept, id < RamSpan PROVE DiskKept'
    <2>1. PersistentKept /\ \A s \in SectorIds : ram_buffer_[s] \in possible[1][s]
      BY <1>8 DEF DiskKept, MemoryKept
    <2>2. Returns(drive, id, out, k)
      BY <1>1, <1>3, <1>5, <1>6, <1>8, <2>1 DEF DiskTypes, Returns
    <2>3. SettledAs(drive, id, out, k)
      BY <1>2, <2>2, Settled, Zenon
    <2>4. DiskReadsWritten' /\ possible'[0] = possible[0]
      BY <1>3, <2>3 DEF SettledAs
    <2>5. PersistentKept'
      BY <1>2, <2>1, <2>4 DEF PersistentKept
    <2>6. ASSUME NEW s \in SectorIds PROVE ram_buffer_[s] \in possible'[1][s]
      <3>1. possible'[1][s] = IF s - id + 1 \in 1 .. k THEN {out[s - id + 1]} ELSE possible[1][s]
        BY <1>3, <2>3 DEF SettledAs
      <3>2. s = id + (s - id + 1) - 1
        BY <1>4
      <3>3. s - id + 1 \in 1 .. k => out[s - id + 1] = ram_buffer_[s]
        BY <1>5, <1>6, <1>8, <3>2
      <3> QED BY <2>1, <3>1, <3>3
    <2>7. MemoryKept'
      BY <1>2, <2>6 DEF MemoryKept
    <2> QED BY <2>4, <2>5, <2>7 DEF DiskKept
  <1> QED BY <1>7, <1>8 DEF DiskBase

-----------------------------------------------------------------------------
(* The theorems.                                                           *)

LEMMA DiskInitially == ASSUME DiskInit PROVE DiskBase /\ DiskKept
  <1>1. NumSectors \in Nat \ {0} /\ SectorIds = 0 .. NumSectors - 1 /\ PhysicalIds \subseteq Nat /\ 0 \in PhysicalIds
        /\ \A s \in SectorIds : mapSectorId(s) \in PhysicalIds
    BY SectorTypes
  <1>2. Undecryptable \in Cells /\ Undecryptable.iv = -1
    BY DEF Undecryptable, Cells, Values
  <1>3. ASSUME NEW p \in PhysicalIds PROVE Holds(Undecryptable, p) = NeverWritten
    <2>1. p \in Nat
      BY <1>1
    <2> QED BY <1>2, <2>1 DEF Holds, decrypts
  <1>4. Drives = {0, 1}
    BY DEF Drives, FF_VOLUMES
  <1>5. DiskTypes
    BY <1>1, <1>2 DEF DiskInit, DiskTypes, Values
  <1>6. InPlace
    BY <1>1, <1>2 DEF DiskInit, InPlace
  <1>7. possible[0] = [s \in SectorIds |-> {NeverWritten}] /\ possible[1] = [s \in SectorIds |-> {0}]
    BY <1>4 DEF DiskInit
  <1>8. PersistentKept
    <2> SUFFICES ASSUME NEW s \in Known
                 PROVE  /\ Holds(hostFile[mapSectorId(s)], mapSectorId(s)) \in possible[0][s]
                        /\ Holds(buffer_writes_, mapSectorId(s)) \in possible[0][s]
      BY DEF PersistentKept
    <2>0. s \in SectorIds
      BY DEF Known
    <2>1. hostFile[mapSectorId(s)] = Undecryptable /\ buffer_writes_ = Undecryptable
      BY <1>1, <2>0 DEF DiskInit
    <2>2. Holds(Undecryptable, mapSectorId(s)) = NeverWritten
      BY <1>1, <1>3, <2>0
    <2>3. NeverWritten \in possible[0][s]
      BY <1>7, <2>0
    <2> QED BY <2>1, <2>2, <2>3
  <1>9. MemoryKept
    BY <1>1, <1>7 DEF DiskInit, MemoryKept
  <1>10. DiskReadsWritten
    BY DEF DiskInit, DiskReadsWritten
  <1> QED BY <1>5, <1>6, <1>8, <1>9, <1>10 DEF DiskBase, DiskKept

\* Nothing that the invariant speaks of changes in a stuttering step.
LEMMA DiskStutters == ASSUME UNCHANGED diskVars PROVE (DiskBase => DiskBase') /\ (DiskKept => DiskKept')
  BY DEF DiskBase, DiskKept, diskVars, DiskTypes, InPlace, PersistentKept, MemoryKept, DiskReadsWritten

LEMMA DiskSteps ==
    ASSUME DiskBase, [DiskNext]_diskVars
    PROVE  DiskBase' /\ (DiskKept /\ "thrown" \notin HostFaults /\ CallsReach => DiskKept')
  <1> DEFINE Kept == DiskBase' /\ (DiskKept /\ "thrown" \notin HostFaults /\ CallsReach => DiskKept')
  <1>1. \A fault \in Faults : fault = "thrown" => "thrown" \in HostFaults
    BY DEF Faults
  <1>2. \A id \in CallSectors : id \in SectorIds /\ id \in Nat
    BY DiskAssumption DEF SectorIds
  <1>a. ASSUME CallsReach, NEW id \in CallSectors, NEW n \in {1, 2}, Within(id, n)
        PROVE  id < RamSpan /\ id + n - 1 \in Reached
    <2>1. id + n - 1 \in {id, id + 1} /\ id + n - 1 \in SectorIds
      BY <1>2, <1>a, SectorTypes DEF Within
    <2> QED BY <1>a, <2>1 DEF CallsReach
  <1>3. ASSUME NEW a \in DiskValues, NEW b \in DiskValues
        PROVE  /\ <<a>> \in Seq(DiskValues) /\ Len(<<a>>) > 0
               /\ <<a, b>> \in Seq(DiskValues) /\ Len(<<a, b>>) > 0
               /\ Len(<<a>>) = 1 /\ Len(<<a, b>>) = 2
    OBVIOUS
  <1>4. ASSUME UNCHANGED diskVars PROVE Kept
    BY <1>4, DiskStutters
  <1>5. ASSUME NEW dr \in Drives, NEW id \in CallSectors, NEW a \in DiskValues, NEW fault \in Faults,
               PersistentWrite(dr, id, <<a>>, fault)
        PROVE  Kept
    <2>1. DiskBase' /\ (DiskKept /\ fault # "thrown" /\ id + 1 - 1 \in Reached => DiskKept')
      BY <1>2, <1>3, <1>5, PersistentWriteKeeps
    <2>2. Within(id, 1)
      BY <1>3, <1>5 DEF PersistentWrite
    <2> QED BY <1>1, <1>a, <2>1, <2>2
  <1>6. ASSUME NEW dr \in Drives, NEW id \in CallSectors, NEW a \in DiskValues, NEW b \in DiskValues,
               NEW fault \in Faults, PersistentWrite(dr, id, <<a, b>>, fault)
        PROVE  Kept
    <2>1. DiskBase' /\ (DiskKept /\ fault # "thrown" /\ id + 2 - 1 \in Reached => DiskKept')
      BY <1>2, <1>3, <1>6, PersistentWriteKeeps
    <2>2. Within(id, 2)
      BY <1>3, <1>6 DEF PersistentWrite
    <2> QED BY <1>1, <1>a, <2>1, <2>2
  <1>7. ASSUME NEW dr \in Drives, NEW id \in CallSectors, NEW num \in {1, 2}, NEW fault \in Faults,
               PersistentRead(dr, id, num, fault)
        PROVE  Kept
    <2>1. DiskBase' /\ (DiskKept /\ fault # "thrown" /\ id + num - 1 \in Reached => DiskKept')
      BY <1>2, <1>7, PersistentReadKeeps
    <2>2. Within(id, num)
      BY <1>7 DEF PersistentRead
    <2> QED BY <1>1, <1>a, <2>1, <2>2
  <1>8. ASSUME NEW dr \in Drives, NEW id \in CallSectors, NEW a \in DiskValues, NEW b \in DiskValues,
               MemoryWrite(dr, id, <<a>>) \/ MemoryWrite(dr, id, <<a, b>>)
        PROVE  Kept
    BY <1>2, <1>3, <1>8, MemoryWriteKeeps
  <1>9. ASSUME NEW dr \in Drives, NEW id \in CallSectors, NEW num \in {1, 2}, MemoryRead(dr, id, num)
        PROVE  Kept
    <2>1. DiskBase' /\ (DiskKept /\ id < RamSpan => DiskKept')
      BY <1>2, <1>9, MemoryReadKeeps
    <2>2. Within(id, num)
      BY <1>9 DEF MemoryRead
    <2> QED BY <1>a, <2>1, <2>2
  <1>10. ASSUME NEW dr \in Drives, NEW fault \in Faults, PersistentSync(dr, fault)
         PROVE  Kept
    BY <1>1, <1>10, PersistentSyncKeeps
  <1> HIDE DEF Kept
  <1>11. ASSUME NEW dr \in Drives, NEW id \in CallSectors,
                \/ \E a \in DiskValues, fault \in Faults : PersistentWrite(dr, id, <<a>>, fault)
                \/ \E a, b \in DiskValues, fault \in Faults : PersistentWrite(dr, id, <<a, b>>, fault)
                \/ \E num \in {1, 2}, fault \in Faults : PersistentRead(dr, id, num, fault)
                \/ \E a, b \in DiskValues : MemoryWrite(dr, id, <<a>>) \/ MemoryWrite(dr, id, <<a, b>>)
                \/ \E num \in {1, 2} : MemoryRead(dr, id, num)
         PROVE  Kept
    BY <1>5, <1>6, <1>7, <1>8, <1>9, <1>11, ZenonT(40)
  <1>12. Kept
    BY <1>4, <1>10, <1>11 DEF DiskNext
  <1> QED BY <1>12 DEF Kept

\* A new enclave starts with empty buffers and the file as the host has it.
LEMMA RebootKeeps == ASSUME DiskBase, Reboot PROVE DiskBase'
  <1>1. NumSectors \in Nat \ {0} /\ 0 \in PhysicalIds
    BY SectorTypes
  <1>2. Undecryptable \in Cells /\ Undecryptable.iv = -1
    BY DEF Undecryptable, Cells, Values
  <1>3. /\ ram_buffer_' = [s \in 0 .. NumSectors |-> 0] /\ buffer_writes_' = Undecryptable /\ buffer_index_' = 0
        /\ hostFile' = hostFile /\ disks' = disks /\ DOMAIN possible' = Drives
    BY DEF Reboot
  <1>4. DiskTypes'
    BY <1>1, <1>2, <1>3 DEF DiskBase, DiskTypes, Values
  <1>5. ram_buffer_'[NumSectors] = 0
    BY <1>1, <1>3
  <1>6. InPlace'
    BY <1>2, <1>3, <1>5 DEF DiskBase, InPlace
  <1> QED BY <1>4, <1>6 DEF DiskBase

\* diskRead and diskWrite of both disks, while the enclave lives: a read returns the last value
\* written, or one that a failed write left possible, and returns it again, for a disk of any
\* size and any number of calls, if no host call throws (one that does reports success) and the
\* calls stay within the sector tables and the first 4 GiB of the disk in memory.
THEOREM DiskReadsStayTrue ==
    ASSUME "thrown" \notin HostFaults, CallsReach PROVE DiskSpec => []DiskReadsWritten
  <1> DEFINE Inv == DiskBase /\ DiskKept
  <1>1. DiskInit => Inv
    BY DiskInitially
  <1>2. Inv /\ [DiskNext]_diskVars => Inv'
    BY DiskSteps
  <1>3. Inv => DiskReadsWritten
    BY DEF DiskKept
  <1> QED BY <1>1, <1>2, <1>3, PTL DEF DiskSpec

\* mapSectorId: two sectors that the tables reach never share a place in the host's file,
\* whatever the key shuffles, whatever lies behind the tables and for every size of the disk;
\* every ciphertext lies where it can be decrypted from, and InMemoryDisk never writes outside
\* its buffer, whatever the host's calls do and however often the enclave is restarted.
THEOREM SectorsStayApart == DiskInit /\ [][DiskNextRestart]_diskVars => []SectorsApart
  <1>1. DiskInit => DiskBase
    BY DiskInitially
  <1>2. DiskBase /\ [DiskNextRestart]_diskVars => DiskBase'
    BY DiskSteps, RebootKeeps DEF DiskNextRestart
  <1>3. DiskBase => SectorsApart
    BY PlacesApart DEF DiskBase, InPlace, SectorsApart
  <1> QED BY <1>1, <1>2, <1>3, PTL

-----------------------------------------------------------------------------
(***************************************************************************)
(* The entry points.  Handles lie in ranges: the special files lowest,     *)
(* then the file systems in their order, then the pairs of sockets.        *)
(***************************************************************************)
\* A file system with the handles from first on.
Fs(mount, first) == [mount |-> mount, first |-> first, last |-> first + kMaxNumFiles - 1]
RootOnly == <<Fs(Root, FirstFsHandle)>>
RootAndTmp == Append(RootOnly, Fs(MountTmp, FirstFsHandle + kMaxNumFiles))

\* The file systems at each stage of the start, and the handles that they have.
Mounted ==
    /\ apiState \notin {"persistent", "up"} => filesystems = <<>>
    /\ apiState = "persistent" => filesystems = RootOnly
    /\ apiState = "up" => filesystems \in {RootOnly, RootAndTmp}
    /\ currentFirstAvailableHandle = FirstFsHandle + kMaxNumFiles * Len(filesystems)

\* The handles in use: the special files have the lowest, the sockets the highest.
HandlesInUse ==
    /\ apiCalls \in 0 .. ApiCalls
    /\ next_handle_ \in FirstDevHandle .. FirstDevHandle + apiCalls
    /\ DOMAIN devices \subseteq {1, 2} \cup (FirstDevHandle .. next_handle_ - 1)
    /\ currentDummyHandle \in Nat /\ currentDummyHandle >= currentFirstAvailableHandle
    /\ dummyHandles \subseteq currentFirstAvailableHandle .. currentDummyHandle - 1

\* Where a handle that is open lies.
OpenedAt(fd, i) ==
    /\ fd \in Nat /\ fd > 2
    /\ i \in {Device, NoFs} \cup DOMAIN filesystems
    /\ i = Device <=> fd \in DOMAIN devices
    /\ i = Device => fd < next_handle_
    /\ i = NoFs => fd \in dummyHandles
    /\ i > 0 => fd \in filesystems[i].first .. filesystems[i].last /\ fd \in fsHandles

ApiInv ==
    /\ Mounted /\ HandlesInUse
    /\ apiState # "up" => DOMAIN opened = {} /\ dummyHandles = {}
    /\ \A fd \in DOMAIN opened : OpenedAt(fd, opened[fd])

\* The assumptions on the constants.
LEMMA Constants ==
    /\ kMaxNumFiles \in Nat /\ FirstFsHandle \in Nat /\ FirstDevHandle \in Nat /\ ApiCalls \in Nat
    /\ FirstDevHandle > 2 /\ FirstDevHandle + ApiCalls <= FirstFsHandle
  BY ApiAssumption

\* The file systems have ranges of handles of their own, below the first free one.
LEMMA FsRanges ==
    ASSUME Mounted
    PROVE  /\ currentFirstAvailableHandle \in Nat /\ currentFirstAvailableHandle >= FirstFsHandle
           /\ DOMAIN filesystems \subseteq {1, 2}
           /\ \A i \in DOMAIN filesystems :
                /\ filesystems[i].first \in Nat /\ filesystems[i].last \in Int
                /\ filesystems[i].first >= FirstFsHandle /\ filesystems[i].last < currentFirstAvailableHandle
           /\ \A i, j \in DOMAIN filesystems : i < j => filesystems[i].last < filesystems[j].first
  <1>1. kMaxNumFiles \in Nat /\ FirstFsHandle \in Nat
    BY Constants
  <1>2. CASE filesystems = <<>>
    BY <1>1, <1>2 DEF Mounted
  <1>3. CASE filesystems = RootOnly
    <2>1. /\ Len(filesystems) = 1 /\ DOMAIN filesystems = {1}
          /\ filesystems[1].first = FirstFsHandle /\ filesystems[1].last = FirstFsHandle + kMaxNumFiles - 1
      BY <1>3 DEF RootOnly, Fs
    <2>2. currentFirstAvailableHandle = FirstFsHandle + kMaxNumFiles
      BY <1>1, <2>1 DEF Mounted
    <2> QED BY <1>1, <2>1, <2>2
  <1>4. CASE filesystems = RootAndTmp
    <2>1. /\ Len(filesystems) = 2 /\ DOMAIN filesystems = {1, 2}
          /\ filesystems[1].first = FirstFsHandle /\ filesystems[1].last = FirstFsHandle + kMaxNumFiles - 1
          /\ filesystems[2].first = FirstFsHandle + kMaxNumFiles
          /\ filesystems[2].last = FirstFsHandle + kMaxNumFiles + kMaxNumFiles - 1
      <3>1. filesystems = Append(<<Fs(Root, FirstFsHandle)>>, Fs(MountTmp, FirstFsHandle + kMaxNumFiles))
        BY <1>4 DEF RootAndTmp, RootOnly
      <3>2. /\ Len(filesystems) = 2 /\ DOMAIN filesystems = {1, 2}
            /\ filesystems[1] = Fs(Root, FirstFsHandle) /\ filesystems[2] = Fs(MountTmp, FirstFsHandle + kMaxNumFiles)
        BY <3>1
      <3> QED BY <3>2 DEF Fs
    <2>2. currentFirstAvailableHandle = FirstFsHandle + kMaxNumFiles + kMaxNumFiles
      BY <1>1, <2>1 DEF Mounted
    <2> QED BY <1>1, <2>1, <2>2
  <1> QED BY <1>2, <1>3, <1>4 DEF Mounted

\* The functions on a handle find where it was opened.
LEMMA HandleFound ==
    ASSUME ApiInv, NEW fd \in DOMAIN opened
    PROVE  /\ fromHandle(fd) => opened[fd] = Device
           /\ ~fromHandle(fd) => getFatFsInstanceFromHandle(fd) = opened[fd]
           /\ opened[fd] > 0 => ~fromHandle(fd)
           /\ fd \in dummyHandles <=> opened[fd] = NoFs
  <1> DEFINE i == opened[fd]
             found == {k \in DOMAIN filesystems : isHandleOwner(filesystems[k], fd)}
  <1>1. OpenedAt(fd, i) /\ Mounted /\ HandlesInUse
    BY DEF ApiInv
  <1>2. fd \in Nat /\ i \in {-1, 0} \cup DOMAIN filesystems /\ DOMAIN filesystems \subseteq {1, 2}
    BY <1>1, FsRanges DEF OpenedAt, Device, NoFs
  <1>3. fromHandle(fd) <=> i = Device
    BY <1>1 DEF OpenedAt, fromHandle
  <1>4. i = -1 => fd < FirstFsHandle
    BY <1>1, Constants DEF OpenedAt, HandlesInUse, Device
  <1>5. i = 0 => fd >= currentFirstAvailableHandle /\ fd \in dummyHandles
    BY <1>1, <1>2, FsRanges DEF OpenedAt, HandlesInUse, NoFs
  <1>6. i > 0 => i \in DOMAIN filesystems /\ fd \in filesystems[i].first .. filesystems[i].last
    BY <1>1, <1>2 DEF OpenedAt
  <1>7. fd \in dummyHandles <=> i = NoFs
    <2>1. fd \in dummyHandles => fd >= currentFirstAvailableHandle
      BY <1>1, FsRanges DEF HandlesInUse
    <2>2. i > 0 => fd < currentFirstAvailableHandle
      BY <1>1, <1>2, <1>6, FsRanges
    <2> QED BY <1>1, <1>2, <1>4, <1>5, <2>1, <2>2, FsRanges, Constants DEF NoFs
  <1>8. i = 0 => getFatFsInstanceFromHandle(fd) = 0
    <2>1. ASSUME i = 0 PROVE found = {}
      BY <1>1, <1>2, <1>5, <2>1, FsRanges DEF isHandleOwner
    <2> QED BY <2>1 DEF getFatFsInstanceFromHandle, NoFs
  <1>9. i > 0 => getFatFsInstanceFromHandle(fd) = i
    <2> SUFFICES ASSUME i > 0 PROVE getFatFsInstanceFromHandle(fd) = i
      OBVIOUS
    <2>1. \A k \in DOMAIN filesystems : isHandleOwner(filesystems[k], fd) <=> k = i
      BY <1>1, <1>2, <1>6, FsRanges DEF isHandleOwner
    <2>2. found = {i}
      BY <1>6, <2>1
    <2>3. (CHOOSE k \in found : \A j \in found : k <= j) = i
      BY <1>2, <2>2
    <2>4. fd # -1
      BY <1>2
    <2> QED BY <2>2, <2>3, <2>4 DEF getFatFsInstanceFromHandle
  <1> QED BY <1>2, <1>3, <1>7, <1>8, <1>9 DEF Device

\* Every path is under the root.
LEMMA PathsUnderRoot ==
    ASSUME NEW path \in ApiPaths, NEW fs, fs.mount = Root
    PROVE  isPathOwner(fs, path) /\ Len(path) \in Nat
  <1>1. path \in Seq(Range(path))
    BY ApiAssumption
  <1>2. Len(path) \in Nat
    BY <1>1
  <1>3. Len(<<>>) = 0 /\ SubSeq(<<>>, 1, 0) = SubSeq(path, 1, 0)
    BY <1>1
  <1>4. IsPrefix(<<>>, path)
    BY <1>2, <1>3 DEF IsPrefix
  <1> QED BY <1>2, <1>4 DEF isPathOwner, Root

\* The one file system that the functions on a path choose: the deepest that owns it.
Chosen(path, i) ==
    /\ i \in DOMAIN filesystems /\ i > 0
    /\ getFatFsInstanceFromPath(path) = i
    /\ isPathOwner(filesystems[i], path)
    /\ \A j \in DOMAIN filesystems \ {i} :
          isPathOwner(filesystems[j], path) => Len(filesystems[j].mount) < Len(filesystems[i].mount)

LEMMA PathFound ==
    ASSUME ApiInv, apiState = "up", NEW path \in ApiPaths
    PROVE  \E i : Chosen(path, i)
  <1> DEFINE found == {i \in DOMAIN filesystems : isPathOwner(filesystems[i], path)}
             child == {i \in found : filesystems[i].mount # Root}
  <1>1. filesystems = RootOnly \/ filesystems = RootAndTmp
    BY DEF ApiInv, Mounted
  <1>2. filesystems[1].mount = Root /\ 1 \in DOMAIN filesystems
    BY <1>1 DEF RootOnly, RootAndTmp, Fs
  <1>3. isPathOwner(filesystems[1], path)
    BY <1>2, PathsUnderRoot
  <1>4. /\ Cardinality(found) = 1 => getFatFsInstanceFromPath(path) = CHOOSE i \in found : TRUE
        /\ Cardinality(found) = 2 /\ child # {} =>
              getFatFsInstanceFromPath(path) = CHOOSE i \in child : \A j \in child : i <= j
    <2> DEFINE first == CHOOSE i \in found : TRUE
               deepest == CHOOSE i \in child : \A j \in child : i <= j
    <2>1. getFatFsInstanceFromPath(path) = CASE Cardinality(found) = 1 -> first
                                             [] Cardinality(found) = 2 /\ child # {} -> deepest
                                             [] OTHER -> NoFs
      BY DEF getFatFsInstanceFromPath
    <2> HIDE DEF found, child, first, deepest
    <2>2. /\ Cardinality(found) = 1 => getFatFsInstanceFromPath(path) = first
          /\ Cardinality(found) = 2 /\ child # {} => getFatFsInstanceFromPath(path) = deepest
      BY <2>1
    <2> QED BY <2>2 DEF first, deepest
  <1>5. CASE found = {1}
    <2>1. Cardinality(found) = 1
      BY <1>5, FS_Singleton
    <2>2. (CHOOSE i \in found : TRUE) = 1
      BY <1>5
    <2>3. \A j \in DOMAIN filesystems \ {1} : ~isPathOwner(filesystems[j], path)
      BY <1>5
    <2>4. getFatFsInstanceFromPath(path) = 1
      BY <1>4, <2>1, <2>2
    <2> QED BY <1>2, <1>3, <2>3, <2>4 DEF Chosen
  <1>6. CASE found # {1}
    <2>1. filesystems = RootAndTmp
      <3>1. filesystems = RootOnly => DOMAIN filesystems = {1}
        BY DEF RootOnly
      <3> QED BY <1>1, <1>3, <1>6, <3>1
    <2>2. DOMAIN filesystems = {1, 2} /\ filesystems[2].mount = MountTmp
      BY <2>1 DEF RootAndTmp, RootOnly, Fs
    <2>3. MountTmp # Root /\ MountTmp \in Seq(Range(MountTmp))
      BY ApiAssumption DEF Root
    <2>4. found = {1, 2}
      BY <1>3, <1>6, <2>2
    <2>5. Cardinality(found) = 2
      <3>1. IsFiniteSet({1}) /\ Cardinality({1}) = 1
        BY FS_Singleton, Zenon
      <3>a. 2 \notin {1}
        OBVIOUS
      <3>2. Cardinality({1} \cup {2}) = 2
        BY <3>1, <3>a, FS_AddElement
      <3>3. {1} \cup {2} = {1, 2}
        OBVIOUS
      <3> QED BY <2>4, <3>2, <3>3
    <2>6. child = {2}
      BY <1>2, <2>2, <2>3, <2>4
    <2>7. (CHOOSE i \in child : \A j \in child : i <= j) = 2
      BY <2>6
    <2>8. getFatFsInstanceFromPath(path) = 2
      BY <1>4, <2>5, <2>6, <2>7
    <2>9. Len(filesystems[1].mount) < Len(filesystems[2].mount)
      BY <1>2, <2>2, <2>3 DEF Root
    <2>10. isPathOwner(filesystems[2], path)
      BY <2>4
    <2> QED BY <2>2, <2>8, <2>9, <2>10 DEF Chosen
  <1> QED BY <1>5, <1>6

\* The invariant gives the property.
LEMMA RoutedByInv == ASSUME ApiInv PROVE CallsRouted
  <1>1. ASSUME NEW fd \in DOMAIN opened
        PROVE  /\ HandleCalls(fd) = {opened[fd]}
               /\ opened[fd] > 0 => FsHandleCalls(fd) = {opened[fd]} /\ fd \in fsHandles
               /\ (fd \in dummyHandles) = (opened[fd] = NoFs)
    <2>1. /\ fromHandle(fd) => opened[fd] = Device
          /\ ~fromHandle(fd) => getFatFsInstanceFromHandle(fd) = opened[fd]
          /\ opened[fd] > 0 => ~fromHandle(fd)
          /\ fd \in dummyHandles <=> opened[fd] = NoFs
      BY HandleFound
    <2>2. HandleCalls(fd) = {opened[fd]}
      BY <2>1 DEF HandleCalls, read, pread, write, fxstat64, read_impl, pread_impl, write_impls, fstat_impl
    <2>3. opened[fd] > 0 => FsHandleCalls(fd) = {opened[fd]}
      BY <2>1 DEF FsHandleCalls, lseek64_impl, dup2_impl, ftruncate_impl, fchown_impls
    <2>4. opened[fd] > 0 => fd \in fsHandles
      BY DEF ApiInv, OpenedAt
    <2> QED BY <2>1, <2>2, <2>3, <2>4
  <1>2. ASSUME apiState = "up", NEW path \in ApiPaths
        PROVE  \E i \in DOMAIN filesystems :
                  /\ PathCalls(path) = {i}
                  /\ isPathOwner(filesystems[i], path)
                  /\ \A j \in DOMAIN filesystems \ {i} :
                        isPathOwner(filesystems[j], path) => Len(filesystems[j].mount) < Len(filesystems[i].mount)
                  /\ \A new \in ApiPaths : (rename_impl(path, new) = "renamed") = (PathCalls(new) = {i})
    <2>1. PICK i : Chosen(path, i)
      BY <1>2, PathFound
    <2>2. ASSUME NEW p PROVE PathCalls(p) = {getFatFsInstanceFromPath(p)}
      BY DEF PathCalls, open_impl, fopen_impl, mkdir_impl, stat_impls, remove_impls, access_impl, opendir_impl, utimes_impl
    <2>3. ASSUME NEW new \in ApiPaths PROVE (rename_impl(path, new) = "renamed") = (PathCalls(new) = {i})
      <3>1. PICK k : Chosen(new, k)
        BY <1>2, PathFound
      <3>2. getFatFsInstanceFromPath(path) = i /\ getFatFsInstanceFromPath(new) = k /\ i # NoFs /\ k # NoFs
        BY <2>1, <3>1 DEF Chosen, NoFs
      <3>3. rename_impl(path, new) = IF i = k THEN "renamed" ELSE "EXDEV"
        BY <3>2 DEF rename_impl
      <3>4. PathCalls(new) = {k}
        BY <2>2, <3>2
      <3> QED BY <3>3, <3>4
    <2> QED BY <2>1, <2>2, <2>3 DEF Chosen
  <1> QED BY <1>1, <1>2 DEF CallsRouted

\* Starting, formatting, mounting.
LEMMA StartKeeps == ASSUME ApiInv, StartApi PROVE ApiInv'
  <1>1. /\ apiState' = "starting" /\ filesystems' = <<>> /\ opened' = <<>> /\ dummyHandles' = {}
        /\ currentFirstAvailableHandle' = FirstFsHandle /\ currentDummyHandle' = FirstFsHandle
        /\ devices' = StdFiles /\ next_handle_' = FirstDevHandle /\ apiCalls' = apiCalls
    BY DEF StartApi
  <1>2. Mounted'
    BY <1>1, Constants DEF Mounted
  <1>3. HandlesInUse'
    <2>1. DOMAIN StdFiles = {1, 2}
      BY DEF StdFiles
    <2> QED BY <1>1, <2>1, Constants DEF ApiInv, HandlesInUse
  <1> QED BY <1>1, <1>2, <1>3 DEF ApiInv

\* The file systems after a step of the start that leaves the handles alone.
LEMMA MountKeeps ==
    ASSUME ApiInv, apiState # "up", Mounted', currentDummyHandle' \in Nat,
           currentDummyHandle' >= currentFirstAvailableHandle',
           UNCHANGED <<dummyHandles, devices, next_handle_, fsHandles, opened, apiCalls, apiStarts>>
    PROVE  ApiInv'
  <1>1. DOMAIN opened' = {} /\ dummyHandles' = {}
    BY DEF ApiInv
  <1>2. HandlesInUse'
    BY DEF ApiInv, HandlesInUse
  <1> QED BY <1>1, <1>2 DEF ApiInv

\* A file system is added after those that there are.
LEMMA CreatedFs ==
    ASSUME NEW fss, NEW first, NEW mount, SetHandles(createFileSystem(fss, first, mount))
    PROVE  /\ filesystems' = Append(fss, Fs(mount, first))
           /\ currentFirstAvailableHandle' = first + kMaxNumFiles /\ currentDummyHandle' = first + kMaxNumFiles
  BY DEF SetHandles, createFileSystem, Fs

LEMMA RootCreated ==
    ASSUME ApiInv, apiState # "up", apiState' \in {"persistent", "up"},
           SetHandles(createFileSystem(<<>>, FirstFsHandle, Root)),
           UNCHANGED <<dummyHandles, devices, next_handle_, fsHandles, opened, apiCalls, apiStarts>>
    PROVE  ApiInv'
  <1>1. /\ filesystems' = Append(<<>>, Fs(Root, FirstFsHandle))
        /\ currentFirstAvailableHandle' = FirstFsHandle + kMaxNumFiles /\ currentDummyHandle' = FirstFsHandle + kMaxNumFiles
    BY CreatedFs
  <1>2. filesystems' = RootOnly /\ Len(filesystems') = 1
    BY <1>1 DEF RootOnly
  <1>3. Mounted'
    BY <1>1, <1>2, Constants DEF Mounted
  <1> QED BY <1>1, <1>3, MountKeeps, Constants

LEMMA PersistentKeeps ==
    ASSUME ApiInv, NEW size, NEW both \in BOOLEAN, setupPersistent(size, both)
    PROVE  ApiInv'
  <1> DEFINE type == getInitializationType(size)
             opens == type = "OPEN" /\ hostDisk = "formatted"
  <1>1. /\ apiState = "starting"
        /\ UNCHANGED <<dummyHandles, devices, next_handle_, fsHandles, opened, apiCalls, apiStarts>>
        /\ opens => SetHandles(createFileSystem(<<>>, FirstFsHandle, Root))
        /\ ~opens => UNCHANGED <<filesystems, currentFirstAvailableHandle, currentDummyHandle>>
    BY DEF setupPersistent
  <1>2. CASE opens
    <2>1. apiState' \in {"persistent", "up"}
      BY <1>2 DEF setupPersistent
    <2> QED BY <1>1, <1>2, <2>1, RootCreated
  <1>3. CASE ~opens
    <2>1. apiState' \in {"failed", "formatting", "formatting both"}
      <3>1. CASE type = "ERROR"
        BY <3>1 DEF setupPersistent
      <3>2. CASE type = "FORMAT"
        BY <3>2 DEF setupPersistent
      <3>3. CASE type \notin {"ERROR", "FORMAT"}
        BY <1>3, <3>3 DEF setupPersistent
      <3> QED BY <3>1, <3>2, <3>3
    <2>2. Mounted'
      BY <1>1, <1>3, <2>1 DEF ApiInv, Mounted
    <2>3. currentDummyHandle' \in Nat /\ currentDummyHandle' >= currentFirstAvailableHandle'
      BY <1>1, <1>3 DEF ApiInv, HandlesInUse
    <2> QED BY <1>1, <2>2, <2>3, MountKeeps
  <1> QED BY <1>2, <1>3

LEMMA FormatKeeps == ASSUME ApiInv, FormatEnds PROVE ApiInv'
  <1>1. apiState # "up" /\ apiState' \in {"persistent", "up"}
    BY DEF FormatEnds
  <1>2. /\ SetHandles(createFileSystem(<<>>, FirstFsHandle, Root))
        /\ UNCHANGED <<dummyHandles, devices, next_handle_, fsHandles, opened, apiCalls, apiStarts>>
    BY DEF FormatEnds
  <1> QED BY <1>1, <1>2, RootCreated

LEMMA InMemoryKeeps == ASSUME ApiInv, setupInMemory PROVE ApiInv'
  <1>1. /\ apiState \in {"starting", "persistent"} /\ apiState' = "up"
        /\ UNCHANGED <<dummyHandles, devices, next_handle_, fsHandles, opened, apiCalls, apiStarts>>
    BY DEF setupInMemory
  <1>2. CASE apiState = "starting"
    <2>1. filesystems = <<>> /\ currentFirstAvailableHandle = FirstFsHandle
      BY <1>2, Constants DEF ApiInv, Mounted
    <2>2. SetHandles(createFileSystem(<<>>, FirstFsHandle, Root))
      BY <1>2, <2>1 DEF setupInMemory
    <2> QED BY <1>1, <2>2, RootCreated
  <1>3. CASE apiState = "persistent"
    <2>1. filesystems = RootOnly
      BY <1>3 DEF ApiInv, Mounted
    <2>2. currentFirstAvailableHandle = FirstFsHandle + kMaxNumFiles
      <3>1. Len(RootOnly) = 1
        BY DEF RootOnly
      <3> QED BY <2>1, <3>1, Constants DEF ApiInv, Mounted
    <2>3. SetHandles(createFileSystem(RootOnly, FirstFsHandle + kMaxNumFiles, MountTmp))
      BY <1>3, <2>1, <2>2 DEF setupInMemory
    <2>4. /\ filesystems' = Append(RootOnly, Fs(MountTmp, FirstFsHandle + kMaxNumFiles))
          /\ currentFirstAvailableHandle' = FirstFsHandle + kMaxNumFiles + kMaxNumFiles
          /\ currentDummyHandle' = FirstFsHandle + kMaxNumFiles + kMaxNumFiles
      BY <2>3, CreatedFs
    <2>5. filesystems' = RootAndTmp /\ Len(RootAndTmp) = 2
      <3>1. filesystems' = RootAndTmp
        BY <2>4, Zenon DEF RootAndTmp
      <3>2. Len(RootAndTmp) = 2
        <4>1. PICK a, b : a = Fs(Root, FirstFsHandle) /\ b = Fs(MountTmp, FirstFsHandle + kMaxNumFiles)
          OBVIOUS
        <4>2. Len(Append(<<a>>, b)) = 2
          OBVIOUS
        <4> QED BY <4>1, <4>2, Zenon DEF RootAndTmp, RootOnly
      <3> QED BY <3>1, <3>2
    <2>6. Mounted'
      <3>1. kMaxNumFiles * 2 = kMaxNumFiles + kMaxNumFiles
        BY Constants
      <3>2. currentFirstAvailableHandle' = FirstFsHandle + kMaxNumFiles * Len(filesystems')
        <4>1. Len(filesystems') = 2
          BY <2>5
        <4> QED BY <2>4, <3>1, <4>1, Constants
      <3> QED BY <1>1, <2>5, <3>2 DEF Mounted
    <2> QED BY <1>1, <2>4, <2>6, MountKeeps, Constants
  <1> QED BY <1>1, <1>2, <1>3

-----------------------------------------------------------------------------
\* A call leaves the file systems as they are.
LEMMA CallLeaves ==
    ASSUME ApiInv, ApiCall
    PROVE  /\ apiState = "up" /\ apiState' = "up" /\ filesystems' = filesystems
           /\ currentFirstAvailableHandle' = currentFirstAvailableHandle
           /\ Mounted /\ Mounted' /\ HandlesInUse
           /\ apiCalls \in Nat /\ apiCalls' = apiCalls + 1 /\ apiCalls' \in 0 .. ApiCalls
           /\ next_handle_ \in Nat /\ next_handle_ < FirstFsHandle
           /\ currentFirstAvailableHandle \in Nat /\ currentDummyHandle \in Nat
           /\ \A fd \in DOMAIN opened : OpenedAt(fd, opened[fd])
  <1>1. /\ apiState = "up" /\ apiState' = "up" /\ filesystems' = filesystems /\ apiCalls < ApiCalls
        /\ currentFirstAvailableHandle' = currentFirstAvailableHandle /\ apiCalls' = apiCalls + 1
    BY DEF ApiCall
  <1>2. Mounted /\ HandlesInUse /\ \A fd \in DOMAIN opened : OpenedAt(fd, opened[fd])
    BY DEF ApiInv
  <1>3. Mounted'
    BY <1>1, <1>2 DEF Mounted
  <1>4. apiCalls \in Nat /\ apiCalls' \in 0 .. ApiCalls /\ next_handle_ \in Nat /\ next_handle_ < FirstFsHandle
    BY <1>1, <1>2, Constants DEF HandlesInUse
  <1> QED BY <1>1, <1>2, <1>3, <1>4, FsRanges DEF HandlesInUse

LEMMA DeviceKeeps == ASSUME ApiInv, OpenDevice PROVE ApiInv'
  <1>1. /\ ApiCall /\ devices' = Put(devices, next_handle_, "random")
        /\ opened' = Put(opened, next_handle_, Device) /\ next_handle_' = next_handle_ + 1
        /\ UNCHANGED <<currentDummyHandle, dummyHandles, fsHandles>>
    BY DEF OpenDevice
  <1>h. PICK h : h = next_handle_
    OBVIOUS
  <1>2. DOMAIN devices' = DOMAIN devices \cup {h}
    BY <1>1, <1>h DEF Put
  <1>3. HandlesInUse'
    BY <1>1, <1>2, <1>h, CallLeaves, Constants DEF HandlesInUse
  <1>4. DOMAIN opened' = DOMAIN opened \cup {h} /\ opened'[h] = Device
        /\ \A fd \in DOMAIN opened : fd # h => opened'[fd] = opened[fd]
    BY <1>1, <1>h DEF Put
  <1>5. h > 2
    BY <1>1, <1>h, CallLeaves, Constants DEF HandlesInUse
  <1>6. OpenedAt(h, Device)'
    BY <1>1, <1>2, <1>5, <1>h, CallLeaves DEF OpenedAt, Device, NoFs
  <1>7. ASSUME NEW fd \in DOMAIN opened, fd # h PROVE OpenedAt(fd, opened[fd])'
    <2>1. OpenedAt(fd, opened[fd])
      BY <1>1, CallLeaves
    <2>2. opened'[fd] = opened[fd]
      BY <1>4, <1>7
    <2> QED BY <1>1, <1>2, <1>7, <2>1, <2>2, CallLeaves DEF OpenedAt
  <1>8. ASSUME NEW fd \in DOMAIN opened' PROVE OpenedAt(fd, opened[fd])'
    BY <1>4, <1>6, <1>7, <1>8
  <1> QED BY <1>1, <1>3, <1>8, CallLeaves DEF ApiInv

LEMMA OpenKeeps ==
    ASSUME ApiInv, NEW path, NEW isFILE \in BOOLEAN, OpenFile(path, isFILE)
    PROVE  ApiInv'
  <1>1. PICK i : i = open_impl(path)
    OBVIOUS
  <1>2. PICK fd \in filesystems[i].first .. filesystems[i].last \ fsHandles :
            /\ fsHandles' = fsHandles \cup {fd}
            /\ opened' = IF isFILE THEN opened ELSE Put(opened, fd, i)
    BY <1>1 DEF OpenFile
  <1>3. /\ ApiCall /\ i # NoFs
        /\ UNCHANGED <<currentDummyHandle, dummyHandles, devices, next_handle_>>
    BY <1>1 DEF OpenFile
  <1>4. i \in DOMAIN filesystems
    <2> DEFINE found == {k \in DOMAIN filesystems : isPathOwner(filesystems[k], path)}
               child == {k \in found : filesystems[k].mount # Root}
               first == CHOOSE k \in found : TRUE
               deepest == CHOOSE k \in child : \A j \in child : k <= j
    <2>1. i = CASE Cardinality(found) = 1 -> first
                [] Cardinality(found) = 2 /\ child # {} -> deepest
                [] OTHER -> NoFs
      BY <1>1 DEF open_impl, getFatFsInstanceFromPath
    <2>2. Cardinality(found) = 1 => first \in found
      <3>1. Cardinality({}) = 0
        BY FS_EmptySet
      <3> QED BY <3>1
    <2>3. child # {} => deepest \in child
      <3>1. child \subseteq {1, 2}
        BY <1>3, CallLeaves, FsRanges
      <3>2. child # {} => \E k \in child : \A j \in child : k <= j
        BY <3>1
      <3> QED BY <3>2
    <2> HIDE DEF first, deepest
    <2>4. child \subseteq found /\ found \subseteq DOMAIN filesystems
      OBVIOUS
    <2> HIDE DEF found, child
    <2>5. (i = first /\ Cardinality(found) = 1) \/ (i = deepest /\ child # {}) \/ i = NoFs
      <3>1. CASE Cardinality(found) = 1
        BY <2>1, <3>1
      <3>2. CASE Cardinality(found) # 1 /\ Cardinality(found) = 2 /\ child # {}
        BY <2>1, <3>2
      <3>3. CASE Cardinality(found) # 1 /\ ~(Cardinality(found) = 2 /\ child # {})
        BY <2>1, <3>3
      <3> QED BY <3>1, <3>2, <3>3
    <2> QED BY <1>3, <2>2, <2>3, <2>4, <2>5
  <1>5. /\ filesystems[i].first \in Nat /\ filesystems[i].last \in Int
        /\ filesystems[i].first >= FirstFsHandle /\ filesystems[i].last < currentFirstAvailableHandle
        /\ i \in {1, 2}
    BY <1>3, <1>4, CallLeaves, FsRanges
  <1>6. fd \in Nat /\ fd >= FirstFsHandle /\ fd \in filesystems[i].first .. filesystems[i].last
    BY <1>2, <1>5, Constants
  <1>7. HandlesInUse'
    BY <1>3, CallLeaves, Constants DEF HandlesInUse
  <1>8. OpenedAt(fd, i)'
    <2>1. fd \notin DOMAIN devices /\ fd > 2
      BY <1>3, <1>6, CallLeaves, Constants DEF HandlesInUse
    <2>2. i # Device /\ i # NoFs /\ i \in DOMAIN filesystems'
      BY <1>3, <1>4, <1>5, CallLeaves DEF Device, NoFs
    <2> QED BY <1>2, <1>3, <1>6, <2>1, <2>2, CallLeaves DEF OpenedAt
  <1>9. ASSUME NEW g \in DOMAIN opened, opened'[g] = opened[g] PROVE OpenedAt(g, opened[g])'
    <2>1. OpenedAt(g, opened[g])
      BY <1>3, CallLeaves
    <2> QED BY <1>2, <1>3, <1>9, <2>1, CallLeaves DEF OpenedAt
  <1>10. ASSUME NEW g \in DOMAIN opened' PROVE OpenedAt(g, opened[g])'
    <2>1. CASE isFILE
      BY <1>2, <1>9, <1>10, <2>1
    <2>2. CASE ~isFILE
      <3>1. DOMAIN opened' = DOMAIN opened \cup {fd} /\ opened'[fd] = i
            /\ \A x \in DOMAIN opened : x # fd => opened'[x] = opened[x]
        BY <1>2, <2>2 DEF Put
      <3> QED BY <1>8, <1>9, <1>10, <3>1
    <2> QED BY <2>1, <2>2
  <1> QED BY <1>3, <1>7, <1>10, CallLeaves DEF ApiInv

LEMMA SocketsKeep == ASSUME ApiInv, socketpair_impl PROVE ApiInv'
  <1>1. PICK h : h = currentDummyHandle
    OBVIOUS
  <1>2. /\ ApiCall /\ currentDummyHandle' = h + 2 /\ dummyHandles' = dummyHandles \cup {h, h + 1}
        /\ opened' = Put(Put(opened, h, NoFs), h + 1, NoFs)
        /\ UNCHANGED <<devices, next_handle_, fsHandles>>
    BY <1>1 DEF socketpair_impl
  <1>3. h \in Nat /\ h >= currentFirstAvailableHandle /\ h >= FirstFsHandle
    BY <1>1, <1>2, CallLeaves, FsRanges, Constants DEF HandlesInUse
  <1>4. HandlesInUse'
    <2>1. dummyHandles' \subseteq currentFirstAvailableHandle .. h + 2 - 1
      BY <1>1, <1>2, <1>3, CallLeaves DEF HandlesInUse
    <2>2. h + 2 \in Nat /\ h + 2 >= currentFirstAvailableHandle
      BY <1>2, <1>3, CallLeaves
    <2> QED BY <1>2, <2>1, <2>2, CallLeaves, Constants DEF HandlesInUse
  <1>5. DOMAIN opened' = DOMAIN opened \cup {h, h + 1} /\ opened'[h] = NoFs /\ opened'[h + 1] = NoFs
        /\ \A x \in DOMAIN opened : x \notin {h, h + 1} => opened'[x] = opened[x]
    <2>1. h # h + 1
      BY <1>3
    <2> QED BY <1>2, <2>1 DEF Put
  <1>6. ASSUME NEW x \in {h, h + 1} PROVE OpenedAt(x, NoFs)'
    <2>1. x \in Nat /\ x > 2 /\ x \notin DOMAIN devices
      BY <1>2, <1>3, CallLeaves, Constants DEF HandlesInUse
    <2> QED BY <1>2, <2>1 DEF OpenedAt, NoFs, Device
  <1>7. ASSUME NEW g \in DOMAIN opened, opened'[g] = opened[g] PROVE OpenedAt(g, opened[g])'
    <2>1. OpenedAt(g, opened[g])
      BY <1>2, CallLeaves
    <2> QED BY <1>2, <1>7, <2>1, CallLeaves DEF OpenedAt
  <1>8. ASSUME NEW g \in DOMAIN opened' PROVE OpenedAt(g, opened[g])'
    BY <1>5, <1>6, <1>7, <1>8
  <1> QED BY <1>2, <1>4, <1>8, CallLeaves DEF ApiInv

LEMMA CloseKeeps == ASSUME ApiInv, NEW fd \in DOMAIN opened, close(fd) PROVE ApiInv'
  <1>1. /\ ApiCall /\ opened' = Drop(opened, fd) /\ devices' = Drop(devices, fd)
        /\ dummyHandles' \in {dummyHandles, dummyHandles \ {fd}} /\ fsHandles' \in {fsHandles, fsHandles \ {fd}}
        /\ UNCHANGED <<currentDummyHandle, next_handle_>>
    BY DEF close
  <1>2. /\ DOMAIN devices' = DOMAIN devices \ {fd} /\ DOMAIN opened' = DOMAIN opened \ {fd}
        /\ \A g \in DOMAIN opened \ {fd} : opened'[g] = opened[g]
    BY <1>1 DEF Drop
  <1>3. HandlesInUse'
    BY <1>1, <1>2, CallLeaves, Constants DEF HandlesInUse
  <1>4. ASSUME NEW g \in DOMAIN opened' PROVE OpenedAt(g, opened[g])'
    <2>1. g \in DOMAIN opened /\ g # fd /\ opened'[g] = opened[g]
      BY <1>2, <1>4
    <2>2. OpenedAt(g, opened[g])
      BY <1>1, <2>1, CallLeaves
    <2> QED BY <1>1, <1>2, <2>1, <2>2, CallLeaves DEF OpenedAt
  <1> QED BY <1>1, <1>3, <1>4, CallLeaves DEF ApiInv

LEMMA ApiInitially == ASSUME ApiInit PROVE ApiInv
  <1>1. Mounted
    BY Constants DEF ApiInit, Mounted
  <1>2. HandlesInUse
    <2>1. DOMAIN StdFiles = {1, 2}
      BY DEF StdFiles
    <2> QED BY <2>1, Constants DEF ApiInit, HandlesInUse
  <1>3. DOMAIN opened = {} /\ dummyHandles = {}
    BY DEF ApiInit
  <1> QED BY <1>1, <1>2, <1>3 DEF ApiInv

\* getFatFsInstanceFromPath and -FromHandle: every function on a handle or a path reaches the
\* layer that owns it, for any paths, any number of handles and any sequence of calls.
THEOREM CallsStayRouted == ApiSpec => []CallsRouted
  <1>1. ApiInit => ApiInv
    BY ApiInitially
  <1>2. ApiInv /\ [ApiNext]_apiVars => ApiInv'
    <2> SUFFICES ASSUME ApiInv, [ApiNext]_apiVars PROVE ApiInv'
      OBVIOUS
    <2>1. CASE UNCHANGED apiVars
      BY <2>1 DEF apiVars, ApiInv, Mounted, HandlesInUse, OpenedAt
    <2>2. CASE ApiNext
      BY <2>2, StartKeeps, PersistentKeeps, FormatKeeps, InMemoryKeeps, DeviceKeeps, SocketsKeep, OpenKeeps, CloseKeeps DEF ApiNext
    <2> QED BY <2>1, <2>2
  <1>3. ApiInv => CallsRouted
    BY RoutedByInv
  <1> QED BY <1>1, <1>2, <1>3, PTL DEF ApiSpec

\* getInitializationType: the host's file is never formatted twice, whether the host answers
\* with its size or fails to, and however often the enclave starts.
THEOREM NeverFormattedTwice == ApiSpec => FormattedOnce
  <1> DEFINE Kept == hostDisk = "formatted" => hostDisk' = "formatted"
  <1>1. [ApiNext]_apiVars => [Kept]_apiVars
    <2> SUFFICES ASSUME ApiNext, hostDisk = "formatted" PROVE hostDisk' = "formatted"
      OBVIOUS
    <2>1. ASSUME NEW size \in {-1, DiskSize}, NEW both \in BOOLEAN, setupPersistent(size, both)
          PROVE  hostDisk' = "formatted"
      <3>1. size = -1 \/ size = 1
        BY DEF DiskSize
      <3>2. getInitializationType(size) \in {"ERROR", "OPEN"}
        BY <3>1 DEF getInitializationType
      <3> QED BY <2>1, <3>2 DEF setupPersistent
    <2>2. CASE \E path \in ApiPaths, isFILE \in BOOLEAN : OpenFile(path, isFILE)
      BY <2>2 DEF OpenFile, ApiCall
    <2>3. CASE StartApi \/ FormatEnds \/ setupInMemory \/ OpenDevice \/ socketpair_impl
      BY <2>3 DEF StartApi, FormatEnds, setupInMemory, OpenDevice, socketpair_impl, ApiCall
    <2>4. CASE \E fd \in DOMAIN opened : close(fd)
      BY <2>4 DEF close, ApiCall
    <2> QED BY <2>1, <2>2, <2>3, <2>4 DEF ApiNext
  <1> QED BY <1>1, PTL DEF ApiSpec, FormattedOnce

-----------------------------------------------------------------------------
(* Long names.                                                             *)

\* The units of a character of a name.
NameUnits == {u \in Nat : u >= 1 /\ u < 65535}

\* The characters of names, and that their units are units of names.
NameChar(uc) == uc >= 32 /\ uc <= 1114111 /\ uc # 65535

LEMMA UnitsTyped ==
    ASSUME NEW uc \in Nat, NameChar(uc)
    PROVE  Units(uc) \in Seq(NameUnits)
  <1>1. \A x, y \in NameUnits : <<x>> \in Seq(NameUnits) /\ <<x, y>> \in Seq(NameUnits)
    OBVIOUS
  <1>2. CASE uc < 65536
    <2>1. Units(uc) = <<uc>>
      BY <1>2, SMT DEF Units
    <2>2. uc \in NameUnits
      BY <1>2, SMT DEF NameUnits, NameChar
    <2> QED BY <1>1, <2>1, <2>2
  <1>3. CASE ~(uc < 65536)
    <2> DEFINE h == 55296 + ((uc - 65536) \div 1024)
               l == 56320 + (uc % 1024)
    <2>1. Units(uc) = <<h, l>>
      BY <1>3, SMT DEF Units
    <2>2. h \in NameUnits /\ l \in NameUnits
      BY <1>3, SMT DEF NameUnits, NameChar
    <2> HIDE DEF h, l
    <2> QED BY <1>1, <2>1, <2>2
  <1> QED BY <1>2, <1>3

\* A character is read as it was written, as one unit or a pair, or refused.
LEMMA CharRead ==
    ASSUME NEW uc \in Nat, NameChar(uc)
    PROVE  tchar2uni(Utf8(uc)) = <<>> \/ tchar2uni(Utf8(uc)) = Units(uc)
  <1>1. uc <= 1114111
    BY SMT DEF NameChar
  <1>3. Utf8(uc) = IF uc < 128 THEN <<uc>>
                   ELSE IF uc < 2048 THEN <<192 + (uc \div 64), 128 + (uc % 64)>>
                   ELSE IF uc < 65536 THEN <<224 + (uc \div 4096), 128 + ((uc \div 64) % 64), 128 + (uc % 64)>>
                   ELSE <<240 + (uc \div 262144), 128 + ((uc \div 4096) % 64), 128 + ((uc \div 64) % 64), 128 + (uc % 64)>>
    <2>1. CASE uc < 65536
      <3>1. Units(uc) = <<uc>> /\ Len(<<uc>>) = 1 /\ <<uc>>[1] = uc
        BY <2>1, SMT DEF Units
      <3> QED BY <3>1, SMT DEF Utf8, put_utf
    <2>2. CASE ~(uc < 65536)
      <3> DEFINE h == 55296 + ((uc - 65536) \div 1024)
                 l == 56320 + (uc % 1024)
      <3>1. Units(uc) = <<h, l>>
        BY <2>2, SMT DEF Units
      <3>2. (h - 55296) * 1024 + (l - 56320) + 65536 = uc
        BY <2>2, SMT
      <3> HIDE DEF h, l
      <3>3. Len(<<h, l>>) = 2 /\ <<h, l>>[1] = h /\ <<h, l>>[2] = l
        BY SMT
      <3> QED BY <3>1, <3>2, <3>3, SMT DEF Utf8, put_utf
    <2> QED BY <2>1, <2>2, SMT
  <1>4. CASE uc < 128
    <2>1. Utf8(uc) = <<uc>>
      BY <1>3, <1>4, SMT
    <2>2. tchar2uni(<<uc>>) = <<>> \/ tchar2uni(<<uc>>) = Units(uc)
      BY <1>4, SMT DEF tchar2uni
    <2> QED BY <2>1, <2>2, SMT
  <1>5. CASE uc >= 128 /\ uc < 2048
    <2> DEFINE a == 192 + (uc \div 64)
               b == 128 + (uc % 64)
    <2>1. Utf8(uc) = <<a, b>>
      BY <1>3, <1>5, SMT
    <2>2. (a % 32) * 64 + (b % 64) = uc
      BY <1>5, SMT
    <2> HIDE DEF a, b
    <2>3. tchar2uni(<<a, b>>) = <<>> \/ tchar2uni(<<a, b>>) = Units(uc)
      BY <2>2, SMT DEF tchar2uni
    <2> QED BY <2>1, <2>3, SMT
  <1>6. CASE uc >= 2048 /\ uc < 65536
    <2> DEFINE a == 224 + (uc \div 4096)
               b == 128 + ((uc \div 64) % 64)
               c == 128 + (uc % 64)
    <2>1. Utf8(uc) = <<a, b, c>>
      BY <1>3, <1>6, SMT
    <2>2. ((a % 16) * 64 + (b % 64)) * 64 + (c % 64) = uc
      BY <1>6, SMT
    <2> HIDE DEF a, b, c
    <2>3. tchar2uni(<<a, b, c>>) = <<>> \/ tchar2uni(<<a, b, c>>) = Units(uc)
      BY <2>2, SMT DEF tchar2uni
    <2> QED BY <2>1, <2>3, SMT
  <1>7. CASE uc >= 65536
    <2> DEFINE a == 240 + (uc \div 262144)
               b == 128 + ((uc \div 4096) % 64)
               c == 128 + ((uc \div 64) % 64)
               d == 128 + (uc % 64)
    <2>1. Utf8(uc) = <<a, b, c, d>>
      BY <1>3, <1>7, SMT
    <2>2. (((a % 8) * 64 + (b % 64)) * 64 + (c % 64)) * 64 + (d % 64) = uc
      BY <1>1, <1>7, SMT
    <2> HIDE DEF a, b, c, d
    <2>3. tchar2uni(<<a, b, c, d>>) = <<>> \/ tchar2uni(<<a, b, c, d>>) = Units(uc)
      BY <2>2, SMT DEF tchar2uni
    <2> QED BY <2>1, <2>3, SMT
  <1> QED BY <1>4, <1>5, <1>6, <1>7, SMT

\* Joining sequences of units gives a sequence of units.
LEMMA FlattenTyped ==
    ASSUME NEW S, NEW ss \in Seq(Seq(S))
    PROVE  FlattenSeq(ss) \in Seq(S)
  <1> DEFINE n == Len(ss)
             Step(f, i) == IF i = 1 THEN ss[i] ELSE f[i - 1] \o ss[i]
             Joins(f, m) == f = [i \in 1 .. m |-> Step(f, i)]
  <1>1. n \in Nat /\ \A i \in 1 .. n : ss[i] \in Seq(S)
    OBVIOUS
  <1>2. \A m \in 0 .. n : \E f : Joins(f, m)
    <2> DEFINE T == {m \in 0 .. n : ~(\E f : Joins(f, m))}
    <2> SUFFICES ASSUME T # {} PROVE FALSE
      OBVIOUS
    <2>1. PICK m \in T : \A y \in T : ~(y < m)
      <3>1. 0 .. n \subseteq Nat
        BY <1>1
      <3>2. T \in SUBSET Nat
        BY <3>1, Zenon
      <3> QED BY <3>2, LeastExists
    <2>2. m # 0
      <3>1. Joins(<<>>, 0)
        OBVIOUS
      <3> QED BY <2>1, <3>1
    <2>3. m - 1 \in 0 .. n /\ m - 1 < m /\ m \in 1 .. n
      BY <1>1, <2>1, <2>2
    <2>4. PICK f : Joins(f, m - 1)
      <3>1. m - 1 \notin T
        BY <2>1, <2>3
      <3> QED BY <2>3, <3>1
    <2> DEFINE g == [i \in 1 .. m |-> IF i = m THEN Step(f, m) ELSE f[i]]
    <2>5. Joins(g, m)
      <3>1. ASSUME NEW i \in 1 .. m PROVE g[i] = Step(g, i)
        <4>1. CASE i = m
          <5>1. m # 1 => g[m - 1] = f[m - 1]
            BY <2>3
          <5> QED BY <2>3, <4>1, <5>1
        <4>2. CASE i # m
          <5>1. i \in 1 .. m - 1 /\ g[i] = f[i]
            BY <2>3, <4>2
          <5>2. f[i] = Step(f, i)
            BY <2>4, <5>1
          <5>3. i # 1 => g[i - 1] = f[i - 1]
            BY <2>3, <5>1
          <5> QED BY <5>1, <5>2, <5>3
        <4> QED BY <4>1, <4>2
      <3> QED BY <3>1
    <2> QED BY <2>1, <2>5
  <1>3. CASE n = 0
    BY <1>3 DEF FlattenSeq
  <1>4. CASE n # 0
    <2> DEFINE f == CHOOSE f : Joins(f, n)
    <2>1. Joins(f, n)
      <3>1. n \in 0 .. n
        BY <1>1
      <3> HIDE DEF Joins
      <3> QED BY <1>2, <3>1, Zenon
    <2>2. FlattenSeq(ss) = f[n]
      BY <1>4 DEF FlattenSeq
    <2> HIDE DEF f
    <2>3. \A i \in 1 .. n : f[i] \in Seq(S)
      <3> DEFINE T == {i \in 1 .. n : f[i] \notin Seq(S)}
      <3> SUFFICES ASSUME T # {} PROVE FALSE
        OBVIOUS
      <3>1. PICK i \in T : \A y \in T : ~(y < i)
        <4>1. T \in SUBSET Nat
          BY <1>1
        <4> QED BY <4>1, LeastExists
      <3>2. f[i] = Step(f, i) /\ i \in 1 .. n
        BY <2>1, <3>1
      <3>3. i # 1
        BY <1>1, <3>1, <3>2
      <3>4. i - 1 \in 1 .. n /\ i - 1 < i
        BY <1>1, <3>2, <3>3
      <3>5. f[i - 1] \in Seq(S)
        BY <3>1, <3>4
      <3>6. f[i] = f[i - 1] \o ss[i]
        BY <3>2, <3>3
      <3>7. f[i - 1] \o ss[i] \in Seq(S)
        BY <1>1, <3>2, <3>5
      <3> QED BY <3>1, <3>6, <3>7
    <2> QED BY <1>1, <1>4, <2>2, <2>3
  <1> QED BY <1>3, <1>4

\* Snipping the end of a name leaves the start of it.
LEMMA TrimmedTyped ==
    ASSUME NEW S, NEW lfn \in Seq(S)
    PROVE  Trimmed(lfn) \in Seq(S)
  <1> DEFINE keep == {i \in DOMAIN lfn : lfn[i] \notin {Space, Dot}}
             k == IF keep = {} THEN 0 ELSE CHOOSE i \in keep : \A j \in keep : j <= i
  <1>1. Trimmed(lfn) = SubSeq(lfn, 1, k)
    BY DEF Trimmed
  <1>2. keep \subseteq 1 .. Len(lfn) /\ Len(lfn) \in Nat
    OBVIOUS
  <1> HIDE DEF keep
  <1>3. ASSUME keep # {} PROVE \E i \in keep : \A j \in keep : j <= i
    <2> DEFINE T == {Len(lfn) - i : i \in keep}
    <2>1. T \in SUBSET Nat
      BY <1>2
    <2>5. T # {}
      <3>1. PICK i \in keep : TRUE
        BY <1>3
      <3>2. Len(lfn) - i \in T
        BY <3>1
      <3> QED BY <3>2
    <2>2. PICK m \in T : \A y \in T : ~(y < m)
      BY <2>1, <2>5, LeastExists
    <2>3. PICK i \in keep : m = Len(lfn) - i
      BY <2>2
    <2>4. ASSUME NEW j \in keep PROVE j <= i
      <3>1. ~(Len(lfn) - j < Len(lfn) - i)
        BY <2>2, <2>3
      <3> QED BY <1>2, <3>1
    <2> QED BY <2>4
  <1>4. k \in 0 .. Len(lfn)
    <2>1. CASE keep = {}
      BY <1>2, <2>1
    <2>2. CASE keep # {}
      <3>1. k = CHOOSE i \in keep : \A j \in keep : j <= i
        BY <2>2
      <3>2. k \in keep
        BY <1>3, <2>2, <3>1, Zenon
      <3> HIDE DEF k
      <3>3. k \in 1 .. Len(lfn)
        BY <1>2, <3>2, Zenon
      <3> QED BY <1>2, <3>3, SMT
    <2> QED BY <2>1, <2>2
  <1> HIDE DEF k
  <1> QED BY <1>1, <1>2, <1>4, SMT

\* The long name of a name that create_name accepts.
LEMMA CreatedTyped ==
    ASSUME NEW name \in FileNames, Created[name].ok
    PROVE  Created[name].lfn \in Seq(NameUnits) /\ Created[name].lfn # <<>>
  <1> DEFINE units == [i \in DOMAIN name |-> tchar2uni(Utf8(name[i]))]
             lfn == Trimmed(FlattenSeq(units))
  <1>1. name \in Seq(32 .. MaxCodePoint)
    BY NamesAssumption, SMT
  <1>11. \A i \in DOMAIN name : name[i] # 65535
    BY NamesAssumption, SMT DEF Filler
  <1>2. ASSUME NEW i \in DOMAIN name PROVE name[i] \in Nat /\ NameChar(name[i])
    <2>1. MaxCodePoint \in Nat /\ MaxCodePoint <= 1114111
      BY SMT DEF MaxCodePoint
    <2>2. name[i] \in 32 .. MaxCodePoint
      <3>1. ASSUME NEW S, NEW s \in Seq(S), NEW k \in DOMAIN s PROVE s[k] \in S
        BY <3>1, SMT
      <3> QED BY <1>1, <3>1, Zenon
    <2>3. name[i] # 65535
      BY <1>11, SMT
    <2> QED BY <2>1, <2>2, <2>3, SMT DEF NameChar
  <1>3. ASSUME NEW i \in DOMAIN name PROVE units[i] \in Seq(NameUnits)
    <2>1. <<>> \in Seq(NameUnits)
      BY SMT
    <2> QED BY <1>2, <2>1, CharRead, UnitsTyped
  <1>4. units \in Seq(Seq(NameUnits))
    <2>1. DOMAIN name = 1 .. Len(name) /\ Len(name) \in Nat
      BY <1>1, SMT
    <2> HIDE DEF units
    <2>2. DOMAIN units = 1 .. Len(name)
      BY <2>1 DEF units
    <2>3. units = [i \in 1 .. Len(name) |-> units[i]]
      BY <2>2 DEF units
    <2> QED BY <1>3, <2>1, <2>3
  <1>5. lfn \in Seq(NameUnits)
    BY <1>4, FlattenTyped, TrimmedTyped
  <1>6. Created[name] = create_name(name)
    BY DEF Created
  <1>7. InvalidName.ok = FALSE
    BY DEF InvalidName
  <1>8. Created[name] # InvalidName
    BY <1>7
  <1>9. create_name(name) = IF \/ <<>> \in Range(units) \/ Range(name) \cap IllegalLfn # {}
                               \/ Len(FlattenSeq(units)) > FF_MAX_LFN \/ lfn = <<>>
                            THEN InvalidName ELSE [ok |-> TRUE, lfn |-> lfn, sfn |-> ShortName(lfn)]
    BY DEF create_name
  <1> HIDE DEF lfn
  <1>10. lfn # <<>> /\ create_name(name) = [ok |-> TRUE, lfn |-> lfn, sfn |-> ShortName(lfn)]
    BY <1>6, <1>8, <1>9
  <1> QED BY <1>5, <1>6, <1>10

\* The entry and the place in it of a unit.
LEMMA Placed ==
    ASSUME NEW len \in Nat, len > 0, NEW parts, parts = (len + LfnPart - 1) \div LfnPart
    PROVE  /\ LfnPart \in Nat \ {0} /\ parts \in Nat /\ len <= parts * LfnPart /\ parts * LfnPart \in Nat
           /\ \A p \in 1 .. parts * LfnPart :
                 /\ (p - 1) \div LfnPart + 1 \in 1 .. parts /\ ((p - 1) % LfnPart) + 1 \in 1 .. LfnPart
                 /\ (((p - 1) \div LfnPart + 1) - 1) * LfnPart + (((p - 1) % LfnPart) + 1) = p
           /\ \A ord \in 1 .. parts, i \in 1 .. LfnPart : (ord - 1) * LfnPart + i \in 1 .. parts * LfnPart
  <1> DEFINE L == LfnPart
  <1>1. L \in Nat /\ L > 0
    BY NamesAssumption, SMT
  <1> HIDE DEF L
  <1>2. parts \in Nat /\ parts * L <= len + L - 1 /\ len + L - 1 < parts * L + L
    BY <1>1, SMT DEF L
  <1>3. parts * L \in Nat
    BY <1>1, <1>2, SMT
  <1>4. len <= parts * L
    BY <1>1, <1>2, <1>3, SMT
  <1>5. ASSUME NEW p \in 1 .. parts * L
        PROVE  /\ (p - 1) \div L + 1 \in 1 .. parts /\ ((p - 1) % L) + 1 \in 1 .. L
               /\ (((p - 1) \div L + 1) - 1) * L + (((p - 1) % L) + 1) = p
    <2> DEFINE x == p - 1
               q == x \div L
               r == x % L
    <2>1. x \in Nat /\ x < parts * L /\ p = x + 1
      BY <1>3, SMT
    <2> HIDE DEF x
    <2>2. q \in Nat /\ r \in Nat /\ r < L /\ x = q * L + r
      BY <1>1, <2>1, SMT
    <2> HIDE DEF q, r
    <2>3. q < parts
      <3> SUFFICES ASSUME q >= parts PROVE FALSE
        BY <1>2, <2>2, SMT
      <3> DEFINE d == q - parts
      <3>2. d \in Nat /\ q = parts + d
        BY <1>2, <2>2, SMT
      <3> HIDE DEF d
      <3>3. d * L \in Nat
        BY <1>1, <3>2, SMT
      <3>4. q * L = parts * L + d * L
        BY <1>1, <1>2, <3>2, SMT
      <3>1. q * L >= parts * L
        BY <1>3, <3>3, <3>4, SMT
      <3>5. q * L \in Nat
        BY <1>1, <2>2, SMT
      <3>6. ASSUME NEW a \in Nat, NEW b \in Nat, a >= b, x = a + r, x < b PROVE FALSE
        BY <2>1, <2>2, <3>6, SMT
      <3> QED BY <1>3, <2>1, <2>2, <3>1, <3>5, <3>6, Zenon
    <2>4. q * L \in Nat
      BY <1>1, <2>2, SMT
    <2>5. q + 1 \in 1 .. parts /\ r + 1 \in 1 .. L
      BY <1>1, <1>2, <2>2, <2>3, SMT
    <2>6. ((q + 1) - 1) * L + (r + 1) = p
      <3>1. (q + 1) - 1 = q
        BY <2>2, SMT
      <3> QED BY <2>1, <2>2, <2>4, <3>1, SMT
    <2> QED BY <2>5, <2>6 DEF x, q, r
  <1>6. ASSUME NEW ord \in 1 .. parts, NEW i \in 1 .. L PROVE (ord - 1) * L + i \in 1 .. parts * L
    <2>1. ord - 1 \in Nat /\ ord - 1 + 1 <= parts
      BY <1>2, SMT
    <2>2. (ord - 1) * L \in Nat /\ (ord - 1) * L + L <= parts * L
      BY <1>1, <1>2, <2>1, SMT
    <2> QED BY <1>1, <1>3, <2>2, SMT
  <1> QED BY <1>1, <1>2, <1>3, <1>4, <1>5, <1>6 DEF L

\* What the entries of a long name hold, by the place in the name.
UnitAt(lfn, p) == IF p <= Len(lfn) THEN lfn[p] ELSE IF p = Len(lfn) + 1 THEN 0 ELSE Filler
StoredAs(entry, lfn) == entry.parts = [ord \in 1 .. Parts(lfn) |-> put_lfn(lfn, ord)]

LEMMA EntriesHold ==
    ASSUME NEW lfn
    PROVE  \A ord, i : i \in 1 .. LfnPart => put_lfn(lfn, ord)[i] = UnitAt(lfn, (ord - 1) * LfnPart + i)
  BY Zenon DEF put_lfn, UnitAt

\* pick_lfn reads back what put_lfn stored.
LEMMA PickedAsStored ==
    ASSUME NEW lfn \in Seq(NameUnits), lfn # <<>>, NEW entry, StoredAs(entry, lfn)
    PROVE  pick_lfn(entry) = lfn
  <1> DEFINE n == Parts(lfn)
             all == 1 .. n * LfnPart
             Unit(p) == entry.parts[(p - 1) \div LfnPart + 1][((p - 1) % LfnPart) + 1]
             picked == {p \in all : \A j \in 1 .. p : Unit(j) # 0}
  <1>1. Len(lfn) \in Nat /\ Len(lfn) > 0
    BY SMT
  <1>2. n = (Len(lfn) + LfnPart - 1) \div LfnPart
    BY DEF Parts
  <1>3. LfnPart \in Nat \ {0} /\ n \in Nat /\ Len(lfn) <= n * LfnPart /\ n * LfnPart \in Nat
    BY <1>1, <1>2, Placed, SMT
  <1>4. ASSUME NEW p \in all PROVE Unit(p) = UnitAt(lfn, p)
    <2> DEFINE ord == (p - 1) \div LfnPart + 1
               i == ((p - 1) % LfnPart) + 1
    <2>1. ord \in 1 .. n /\ i \in 1 .. LfnPart /\ (ord - 1) * LfnPart + i = p
      BY <1>1, <1>2, Placed, Zenon
    <2> HIDE DEF ord, i, n
    <2>2. entry.parts[ord] = put_lfn(lfn, ord)
      BY <2>1 DEF StoredAs, n
    <2>3. put_lfn(lfn, ord)[i] = UnitAt(lfn, p)
      BY <2>1, EntriesHold, Zenon
    <2> QED BY <2>2, <2>3 DEF ord, i
  <1>5. Len(entry.parts) = n
    BY <1>3, SMT DEF StoredAs
  <1>6. pick_lfn(entry) = [p \in picked |-> Unit(p)]
    BY <1>5, Zenon DEF pick_lfn
  <1> HIDE DEF Unit, n
  <1>7. \A p \in 1 .. Len(lfn) : lfn[p] # 0 /\ UnitAt(lfn, p) = lfn[p]
    BY <1>1, SMT DEF UnitAt, NameUnits
  <1>8. UnitAt(lfn, Len(lfn) + 1) = 0
    BY <1>1, SMT DEF UnitAt
  <1>9. picked = 1 .. Len(lfn)
    <2>1. ASSUME NEW p \in 1 .. Len(lfn) PROVE p \in picked
      <3>1. p \in all /\ \A j \in 1 .. p : j \in all /\ j \in 1 .. Len(lfn)
        BY <1>1, <1>3, SMT
      <3> QED BY <1>4, <1>7, <3>1
    <2>2. ASSUME NEW p \in picked, p \notin 1 .. Len(lfn) PROVE FALSE
      <3>1. p \in all /\ \A j \in 1 .. p : Unit(j) # 0
        OBVIOUS
      <3>2. Len(lfn) + 1 \in 1 .. p /\ Len(lfn) + 1 \in all
        BY <1>1, <1>3, <2>2, <3>1, SMT
      <3> QED BY <1>4, <1>8, <3>1, <3>2
    <2> QED BY <2>1, <2>2
  <1>10. ASSUME NEW p \in 1 .. Len(lfn) PROVE Unit(p) = lfn[p]
    <2>1. p \in all
      BY <1>1, <1>3, SMT
    <2> QED BY <1>4, <1>7, <2>1
  <1>11. lfn = [p \in 1 .. Len(lfn) |-> lfn[p]]
    BY SMT
  <1> HIDE DEF picked
  <1> QED BY <1>6, <1>9, <1>10, <1>11, Zenon

\* The terminator is no letter.
LEMMA UpperOfUnit ==
    ff_wtoupper(0) = 0 /\ \A u \in NameUnits : ff_wtoupper(u) # 0
  <1>1. ff_wtoupper(0) = 0
    BY SMT DEF ff_wtoupper, IsLower
  <1>2. ASSUME NEW u \in NameUnits PROVE ff_wtoupper(u) # 0
    BY SMT DEF ff_wtoupper, IsLower, NameUnits
  <1> QED BY <1>1, <1>2

\* cmp_lfn compares all places of the entries, whatever their number.
LEMMA ComparedByPlace ==
    ASSUME NEW a \in Seq(NameUnits), a # <<>>, NEW q \in Seq(NameUnits), q # <<>>,
           NEW entry, StoredAs(entry, a)
    PROVE  cmp_lfn(q, entry) <=>
              /\ Parts(a) = Parts(q)
              /\ \A p \in 1 .. Parts(a) * LfnPart : ff_wtoupper(UnitAt(a, p)) = ff_wtoupper(UnitAt(q, p))
  <1> DEFINE n == Parts(a)
  <1>1. Len(a) \in Nat /\ Len(a) > 0 /\ n = (Len(a) + LfnPart - 1) \div LfnPart
    BY SMT DEF Parts
  <1>2. n \in Nat
    BY <1>1, Placed, SMT
  <1>3. DOMAIN entry.parts = 1 .. n /\ Len(entry.parts) = n /\ \A ord \in 1 .. n : entry.parts[ord] = put_lfn(a, ord)
    BY <1>2, SMT DEF StoredAs
  <1> HIDE DEF n
  <1>4. cmp_lfn(q, entry) <=>
           /\ n = Parts(q)
           /\ \A ord \in 1 .. n, i \in 1 .. LfnPart :
                 ff_wtoupper(put_lfn(a, ord)[i]) = ff_wtoupper(put_lfn(q, ord)[i])
    BY <1>3, Zenon DEF cmp_lfn
  <1>5. (\A ord \in 1 .. n, i \in 1 .. LfnPart :
            ff_wtoupper(put_lfn(a, ord)[i]) = ff_wtoupper(put_lfn(q, ord)[i]))
        <=> \A p \in 1 .. n * LfnPart : ff_wtoupper(UnitAt(a, p)) = ff_wtoupper(UnitAt(q, p))
    <2>1. ASSUME NEW ord \in 1 .. n, NEW i \in 1 .. LfnPart
          PROVE  /\ (ord - 1) * LfnPart + i \in 1 .. n * LfnPart
                 /\ put_lfn(a, ord)[i] = UnitAt(a, (ord - 1) * LfnPart + i)
                 /\ put_lfn(q, ord)[i] = UnitAt(q, (ord - 1) * LfnPart + i)
      <3>1. (ord - 1) * LfnPart + i \in 1 .. n * LfnPart
        BY <1>1, Placed, Zenon
      <3> QED BY <3>1, EntriesHold, Zenon
    <2>2. ASSUME NEW p \in 1 .. n * LfnPart
          PROVE  \E ord \in 1 .. n, i \in 1 .. LfnPart : (ord - 1) * LfnPart + i = p
      BY <1>1, Placed, Zenon
    <2>3. ASSUME \A ord \in 1 .. n, i \in 1 .. LfnPart :
                    ff_wtoupper(put_lfn(a, ord)[i]) = ff_wtoupper(put_lfn(q, ord)[i]),
                 NEW p \in 1 .. n * LfnPart
          PROVE  ff_wtoupper(UnitAt(a, p)) = ff_wtoupper(UnitAt(q, p))
      <3>1. PICK ord \in 1 .. n, i \in 1 .. LfnPart : (ord - 1) * LfnPart + i = p
        BY <2>2, Zenon
      <3>2. put_lfn(a, ord)[i] = UnitAt(a, p) /\ put_lfn(q, ord)[i] = UnitAt(q, p)
        BY <2>1, <3>1, Zenon
      <3> QED BY <2>3, <3>2, Zenon
    <2>4. ASSUME \A p \in 1 .. n * LfnPart : ff_wtoupper(UnitAt(a, p)) = ff_wtoupper(UnitAt(q, p)),
                 NEW ord \in 1 .. n, NEW i \in 1 .. LfnPart
          PROVE  ff_wtoupper(put_lfn(a, ord)[i]) = ff_wtoupper(put_lfn(q, ord)[i])
      BY <2>1, <2>4, Zenon
    <2> QED BY <2>3, <2>4, Zenon
  <1> QED BY <1>4, <1>5, Zenon DEF n

\* So it matches for the same letters and for no others.
LEMMA FoundByLetters ==
    ASSUME NEW a \in Seq(NameUnits), a # <<>>, NEW q \in Seq(NameUnits), q # <<>>,
           NEW entry, StoredAs(entry, a)
    PROVE  cmp_lfn(q, entry) <=> SameLetters(q, a)
  <1> DEFINE Up(s, p) == ff_wtoupper(UnitAt(s, p))
  <1>1. Len(a) \in Nat /\ Len(a) > 0 /\ Len(q) \in Nat /\ Len(q) > 0
    BY SMT
  <1>2. /\ Len(a) <= Parts(a) * LfnPart /\ Parts(a) * LfnPart \in Nat
        /\ Len(q) <= Parts(q) * LfnPart /\ Parts(q) * LfnPart \in Nat
    BY <1>1, Placed, Zenon DEF Parts
  <1>3. ASSUME NEW s \in Seq(NameUnits)
        PROVE  /\ \A p \in 1 .. Len(s) : UnitAt(s, p) = s[p] /\ Up(s, p) # 0
               /\ Up(s, Len(s) + 1) = 0
    <2>1. Len(s) \in Nat /\ \A p \in 1 .. Len(s) : s[p] \in NameUnits
      BY SMT
    <2>2. \A p \in 1 .. Len(s) : UnitAt(s, p) = s[p]
      BY <2>1, SMT DEF UnitAt
    <2>3. UnitAt(s, Len(s) + 1) = 0
      BY <2>1, SMT DEF UnitAt
    <2> QED BY <2>1, <2>2, <2>3, UpperOfUnit, Zenon
  <1>4. ASSUME SameLetters(q, a) PROVE cmp_lfn(q, entry)
    <2>1. Len(q) = Len(a) /\ \A i \in 1 .. Len(a) : ff_wtoupper(q[i]) = ff_wtoupper(a[i])
      BY <1>1, <1>4, SMT DEF SameLetters
    <2>2. Parts(a) = Parts(q)
      BY <2>1 DEF Parts
    <2>3. ASSUME NEW p \in 1 .. Parts(a) * LfnPart PROVE ff_wtoupper(UnitAt(a, p)) = ff_wtoupper(UnitAt(q, p))
      <3>1. CASE p <= Len(a)
        <4>1. p \in 1 .. Len(a) /\ p \in 1 .. Len(q)
          BY <1>1, <1>2, <2>1, <3>1, SMT
        <4> QED BY <1>3, <2>1, <4>1, Zenon
      <3>2. CASE ~(p <= Len(a))
        BY <2>1, <3>2, Zenon DEF UnitAt
      <3> QED BY <3>1, <3>2
    <2> QED BY <2>2, <2>3, ComparedByPlace, Zenon
  <1>5. ASSUME cmp_lfn(q, entry) PROVE SameLetters(q, a)
    <2>1. Parts(a) = Parts(q) /\ \A p \in 1 .. Parts(a) * LfnPart : Up(a, p) = Up(q, p)
      BY <1>5, ComparedByPlace, Zenon
    <2> HIDE DEF Up
    <2>2. ~(Len(a) < Len(q))
      <3> SUFFICES ASSUME Len(a) < Len(q) PROVE FALSE
        OBVIOUS
      <3>1. Len(a) + 1 \in 1 .. Len(q) /\ Len(a) + 1 \in 1 .. Parts(a) * LfnPart
        BY <1>1, <1>2, <2>1, SMT
      <3> QED BY <1>3, <2>1, <3>1, Zenon
    <2>3. ~(Len(q) < Len(a))
      <3> SUFFICES ASSUME Len(q) < Len(a) PROVE FALSE
        OBVIOUS
      <3>1. Len(q) + 1 \in 1 .. Len(a) /\ Len(q) + 1 \in 1 .. Parts(a) * LfnPart
        BY <1>1, <1>2, <2>1, SMT
      <3> QED BY <1>3, <2>1, <3>1, Zenon
    <2>4. Len(q) = Len(a)
      BY <1>1, <2>2, <2>3, SMT
    <2>5. ASSUME NEW i \in DOMAIN q PROVE ff_wtoupper(q[i]) = ff_wtoupper(a[i])
      <3>1. i \in 1 .. Len(q) /\ i \in 1 .. Len(a) /\ i \in 1 .. Parts(a) * LfnPart
        BY <1>1, <1>2, <2>4, SMT
      <3> QED BY <1>3, <2>1, <3>1, Zenon DEF Up
    <2> QED BY <2>4, <2>5 DEF SameLetters
  <1> QED BY <1>4, <1>5

\* A file that was created under a long name has its entries.
NamesInv ==
    /\ fileName \in FileNames
    /\ dirEntry # NoEntryYet =>
          Created[fileName].ok /\ (Created[fileName].sfn.lfn => StoredAs(dirEntry, Created[fileName].lfn))

(***************************************************************************)
(* put_lfn, pick_lfn, cmp_lfn, for names of any length and entries of any  *)
(* number of units: the units of a long name are read back as they were    *)
(* stored, and a search by the long name matches for the same units in any *)
(* case and for no others.                                                 *)
(***************************************************************************)
THEOREM LongNamesStayStored == NamesSpec => []LongNamesStored
  <1>1. NamesInit => NamesInv
    BY DEF NamesInit, NamesInv
  <1>2. NamesInv /\ [NamesNext]_nameVars => NamesInv'
    <2> SUFFICES ASSUME NamesInv, [NamesNext]_nameVars PROVE NamesInv'
      OBVIOUS
    <2>1. CASE CreateFile
      <3>1. fileName' = fileName /\ Created[fileName].ok /\ dirEntry' = dir_register(Created[fileName])
        BY <2>1 DEF CreateFile
      <3>2. Created[fileName].sfn.lfn => StoredAs(dirEntry', Created[fileName].lfn)
        BY <3>1 DEF dir_register, StoredAs
      <3> QED BY <3>1, <3>2 DEF NamesInv
    <2>2. CASE ListFile
      BY <2>2 DEF ListFile, NamesInv
    <2>3. CASE UNCHANGED nameVars
      BY <2>3 DEF nameVars, NamesInv
    <2> QED BY <2>1, <2>2, <2>3 DEF NamesNext
  <1>3. NamesInv => LongNamesStored
    <2> SUFFICES ASSUME NamesInv, dirEntry # NoEntryYet, Created[fileName].sfn.lfn
                 PROVE  /\ pick_lfn(dirEntry) = Created[fileName].lfn
                        /\ \A q \in FileNames : Created[q].ok =>
                              (cmp_lfn(Created[q].lfn, dirEntry) <=> SameLetters(Created[q].lfn, Created[fileName].lfn))
      BY DEF LongNamesStored
    <2>1. /\ Created[fileName].lfn \in Seq(NameUnits) /\ Created[fileName].lfn # <<>>
          /\ StoredAs(dirEntry, Created[fileName].lfn)
      BY CreatedTyped DEF NamesInv
    <2>2. pick_lfn(dirEntry) = Created[fileName].lfn
      BY <2>1, PickedAsStored
    <2>3. ASSUME NEW q \in FileNames, Created[q].ok
          PROVE  cmp_lfn(Created[q].lfn, dirEntry) <=> SameLetters(Created[q].lfn, Created[fileName].lfn)
      <3>1. Created[q].lfn \in Seq(NameUnits) /\ Created[q].lfn # <<>>
        BY <2>3, CreatedTyped
      <3> QED BY <2>1, <3>1, FoundByLetters
    <2> QED BY <2>2, <2>3
  <1> QED BY <1>1, <1>2, <1>3, PTL DEF NamesSpec
=============================================================================
