-------------------------- MODULE FatGeometryProofs --------------------------
(***************************************************************************)
(* What was formatted can be mounted, on a drive of any size.  The loop of *)
(* f_mkfs is followed for each range of sizes: it ends after one or two    *)
(* passes with a shape that passed its tests, and from those tests alone   *)
(* mount_volume finds the same numbers again and a FAT that is large       *)
(* enough.  That a format cut short is never mounted needs the order of    *)
(* the writes, with the partition table last.                              *)
(***************************************************************************)
EXTENDS FatGeometry, TLAPS

-----------------------------------------------------------------------------
(* The shape of a volume.                                                  *)

\* What one pass finds for type t and clusters of p sectors.
Reserved(t) == IF t = 32 THEN 32 ELSE 1
RootSectors(t) == IF t = 32 THEN 0 ELSE 32
FatSectors(v, t, p) == CeilDiv(FatBytes(t, v \div p), 512)
System(v, t, p) == Reserved(t) + FatSectors(v, t, p) + RootSectors(t)
Clusters(v, t, p) == (v - Reserved(t) - FatSectors(v, t, p) - RootSectors(t)) \div p
Tried(v, t, p) ==
    [fsty |-> t, pau |-> p, guess |-> v \div p, sz_rsv |-> Reserved(t), sz_fat |-> FatSectors(v, t, p),
     sz_dir |-> RootSectors(t), n_clst |-> Clusters(v, t, p)]
Types == {12, 16, 32}
Sizes == {1, 2, 4, 8, 16, 32, 64}

\* The size of a cluster that a volume of v sectors gets first.
FirstSize(v) ==
    IF v < 4096 THEN 1 ELSE IF v < 16384 THEN 2 ELSE IF v < 65536 THEN 4 ELSE IF v < 262144 THEN 8
    ELSE IF v < 1048576 THEN 16 ELSE IF v < 2097152 THEN 32 ELSE 64

LEMMA SizeByTable ==
    ASSUME NEW v \in Nat
    PROVE  ClusterSize(cst, v \div 4096) = FirstSize(v)
  <1> DEFINE n == v \div 4096
             P(i) == (\A j \in 1 .. i - 1 : cst[j] <= n) /\ (i = 7 \/ n < cst[i])
             k == IF n < 1 THEN 1 ELSE IF n < 4 THEN 2 ELSE IF n < 16 THEN 3 ELSE IF n < 64 THEN 4
                  ELSE IF n < 256 THEN 5 ELSE IF n < 512 THEN 6 ELSE 7
  <1>1. n \in Nat
    OBVIOUS
  <1>2. FirstSize(v) = Doubled[k]
    BY DEF FirstSize, Doubled
  <1> HIDE DEF n
  <1>3. k \in 1 .. 7 /\ P(k)
    BY <1>1 DEF cst
  <1>4. ASSUME NEW i \in 1 .. 7, P(i) PROVE i = k
    BY <1>1, <1>4 DEF cst
  <1>5. (CHOOSE i \in 1 .. 7 : P(i)) = k
    BY <1>3, <1>4
  <1>6. ClusterSize(cst, n) = Doubled[CHOOSE i \in 1 .. 7 : P(i)]
    BY DEF ClusterSize
  <1> HIDE DEF P, k
  <1>7. ClusterSize(cst, n) = FirstSize(v)
    BY <1>2, <1>5, <1>6
  <1> QED BY <1>7 DEF n

\* The same for FAT32, which only large volumes get.
FirstSize32(v) == IF v < 4194304 THEN 32 ELSE 64

LEMMA SizeByTable32 ==
    ASSUME NEW n \in Nat, n >= 31
    PROVE  ClusterSize(cst32, n) = IF n < 32 THEN 32 ELSE 64
  <1> DEFINE P(i) == (\A j \in 1 .. i - 1 : cst32[j] <= n) /\ (i = 7 \/ n < cst32[i])
             k == IF n < 32 THEN 6 ELSE 7
  <1>1. Doubled[k] = IF n < 32 THEN 32 ELSE 64
    BY DEF Doubled
  <1>2. k \in 1 .. 7 /\ P(k)
    BY DEF cst32
  <1>3. ASSUME NEW i \in 1 .. 7, P(i) PROVE i = k
    BY <1>3 DEF cst32
  <1>4. (CHOOSE i \in 1 .. 7 : P(i)) = k
    BY <1>2, <1>3
  <1>5. ClusterSize(cst32, n) = Doubled[CHOOSE i \in 1 .. 7 : P(i)]
    BY DEF ClusterSize
  <1> HIDE DEF P, k
  <1> QED BY <1>1, <1>4, <1>5

LEMMA SizeFor32 ==
    ASSUME NEW v \in Nat, v >= 4063232
    PROVE  ClusterSize(cst32, v \div 131072) = FirstSize32(v)
  <1>1. v \div 131072 \in Nat /\ v \div 131072 >= 31 /\ (v \div 131072 < 32 <=> v < 4194304)
    BY SMT
  <1> QED BY SMT, <1>1, SizeByTable32 DEF FirstSize32

\* What a pass tries, given the size of a cluster.
LEMMA AttemptIs ==
    ASSUME NEW v \in Nat, NEW fsty \in {16, 32}, NEW sz_au, NEW p \in Sizes, NEW t,
           p = IF sz_au # 0 THEN sz_au ELSE IF fsty = 32 THEN ClusterSize(cst32, v \div 131072)
                                       ELSE ClusterSize(cst, v \div 4096),
           t = IF fsty = 16 /\ v \div p <= MAX_FAT12 THEN 12 ELSE fsty
    PROVE  Attempt(v, fsty, sz_au) = Tried(v, t, p)
  <1>1. (NRoot * SZDIRE) \div FF_MAX_SS = 32 /\ FF_MAX_SS = 512
    BY DEF NRoot, SZDIRE, FF_MAX_SS
  <1> QED BY <1>1 DEF Attempt, Tried, Clusters, FatSectors, Reserved, RootSectors

\* The numbers of a try, for each type and each size of a cluster.
LEMMA Numbers ==
    ASSUME NEW v \in Nat, NEW t \in Types, NEW p \in Sizes
    PROVE  /\ v \div p \in Nat /\ (v \div p) * p <= v /\ v < (v \div p) * p + p
           /\ FatSectors(v, t, p) \in Nat /\ Clusters(v, t, p) \in Int
           /\ t = 32 => FatSectors(v, t, p) = ((v \div p) * 4 + 519) \div 512
           /\ t = 16 => FatSectors(v, t, p) = ((v \div p) * 2 + 515) \div 512
           /\ t = 12 => FatSectors(v, t, p) = (((v \div p) * 3 + 1) \div 2 + 514) \div 512
  <1>1. CASE p = 1
    BY <1>1, SMTT(30) DEF Types, FatSectors, Clusters, CeilDiv, FatBytes, Reserved, RootSectors
  <1>2. CASE p = 2
    BY <1>2, SMTT(30) DEF Types, FatSectors, Clusters, CeilDiv, FatBytes, Reserved, RootSectors
  <1>3. CASE p = 4
    BY <1>3, SMTT(30) DEF Types, FatSectors, Clusters, CeilDiv, FatBytes, Reserved, RootSectors
  <1>4. CASE p = 8
    BY <1>4, SMTT(30) DEF Types, FatSectors, Clusters, CeilDiv, FatBytes, Reserved, RootSectors
  <1>5. CASE p = 16
    BY <1>5, SMTT(30) DEF Types, FatSectors, Clusters, CeilDiv, FatBytes, Reserved, RootSectors
  <1>6. CASE p = 32
    BY <1>6, SMTT(30) DEF Types, FatSectors, Clusters, CeilDiv, FatBytes, Reserved, RootSectors
  <1>7. CASE p = 64
    BY <1>7, SMTT(30) DEF Types, FatSectors, Clusters, CeilDiv, FatBytes, Reserved, RootSectors
  <1> QED BY <1>1, <1>2, <1>3, <1>4, <1>5, <1>6, <1>7 DEF Sizes

\* The tests that a shape has passed when the loop ends with it.
Fitting(v, t, p) ==
    /\ t = 32 => v \div p > 65525 /\ v \div p <= 268435445 /\ Clusters(v, t, p) > 65525
    /\ t = 16 => Clusters(v, t, p) > 4085 /\ Clusters(v, t, p) <= 65525
    /\ t = 12 => Clusters(v, t, p) <= 4085
    /\ v >= System(v, t, p) + p * 16

\* The numbers of a volume that was given such a shape, as mount_volume needs them.
Mountable(v, t, p) ==
    /\ FatSectors(v, t, p) \in Nat \ {0} /\ (t # 32 => FatSectors(v, t, p) < 65536)
    /\ System(v, t, p) \in Nat /\ v >= System(v, t, p)
    /\ Clusters(v, t, p) \in Nat \ {0}
    /\ Clusters(v, t, p) = (v - System(v, t, p)) \div p
    /\ TypeOf(Clusters(v, t, p)) = t
    /\ FatSectors(v, t, p) >= CeilDiv(NeededFat(t, Clusters(v, t, p) + 2), FF_MAX_SS)
    /\ Clusters(v, t, p) + 2 <= (IF t = 32 THEN FatSectors(v, t, p) * 128
                                 ELSE IF t = 16 THEN FatSectors(v, t, p) * 256
                                 ELSE (FatSectors(v, t, p) * 1024) \div 3)
    /\ System(v, t, p) + Clusters(v, t, p) * p <= v

LEMMA FittingNumbers ==
    ASSUME NEW v \in Nat, NEW t \in Types, NEW p \in Sizes, Fitting(v, t, p)
    PROVE  /\ Clusters(v, t, p) \in Nat /\ Clusters(v, t, p) >= 16
           /\ Clusters(v, t, p) <= v \div p
           /\ Clusters(v, t, p) = (v - System(v, t, p)) \div p
           /\ System(v, t, p) + Clusters(v, t, p) * p <= v
           /\ t # 32 => v \div p < 1000000
  <1> DEFINE g == v \div p
             f == FatSectors(v, t, p)
             n == Clusters(v, t, p)
             s == Reserved(t) + RootSectors(t)
  <1>1. g \in Nat /\ f \in Nat /\ n \in Int /\ g * p <= v /\ v < g * p + p
    BY Numbers
  <1>2. s \in {32, 33} /\ (t = 32 => s = 32) /\ System(v, t, p) = s + f
    BY <1>1, SMT DEF Types, Reserved, RootSectors, System
  <1>3. n = (v - s - f) \div p
    BY <1>1, SMT DEF Clusters, Reserved, RootSectors, Types
  <1>4. v >= s + f + p * 16 /\ (t = 16 => n <= 65525) /\ (t = 12 => n <= 4085)
    <2>1. v >= System(v, t, p) + p * 16 /\ (t = 16 => n <= 65525) /\ (t = 12 => n <= 4085)
      BY SMT DEF Fitting
    <2>2. p \in Nat
      BY SMT DEF Sizes
    <2> HIDE DEF s, f, n
    <2> QED BY <1>1, <1>2, <2>1, <2>2, SMT
  <1>5. (t = 16 => f = (g * 2 + 515) \div 512) /\ (t = 12 => f = ((g * 3 + 1) \div 2 + 514) \div 512)
    BY Numbers
  <1> HIDE DEF g, f, n, s
  <1> USE <1>1, <1>2, <1>3, <1>4, <1>5
  <1>11. CASE p = 1
    <2>1. n >= 16 /\ n <= g /\ s + f + n * p <= v
      BY <1>11, SMT
    <2>2. t # 32 => g < 1000000
      BY <1>11, SMT DEF Types
    <2> QED BY <2>1, <2>2, SMT DEF g, n
  <1>12. CASE p = 2
    <2>1. n >= 16 /\ n <= g /\ s + f + n * p <= v
      BY <1>12, SMT
    <2>2. t # 32 => g < 1000000
      BY <1>12, SMT DEF Types
    <2> QED BY <2>1, <2>2, SMT DEF g, n
  <1>13. CASE p = 4
    <2>1. n >= 16 /\ n <= g /\ s + f + n * p <= v
      BY <1>13, SMT
    <2>2. t # 32 => g < 1000000
      BY <1>13, SMT DEF Types
    <2> QED BY <2>1, <2>2, SMT DEF g, n
  <1>14. CASE p = 8
    <2>1. n >= 16 /\ n <= g /\ s + f + n * p <= v
      BY <1>14, SMT
    <2>2. t # 32 => g < 1000000
      BY <1>14, SMT DEF Types
    <2> QED BY <2>1, <2>2, SMT DEF g, n
  <1>15. CASE p = 16
    <2>1. n >= 16 /\ n <= g /\ s + f + n * p <= v
      BY <1>15, SMT
    <2>2. t # 32 => g < 1000000
      BY <1>15, SMT DEF Types
    <2> QED BY <2>1, <2>2, SMT DEF g, n
  <1>16. CASE p = 32
    <2>1. n >= 16 /\ n <= g /\ s + f + n * p <= v
      BY <1>16, SMT
    <2>2. t # 32 => g < 1000000
      BY <1>16, SMT DEF Types
    <2> QED BY <2>1, <2>2, SMT DEF g, n
  <1>17. CASE p = 64
    <2>1. n >= 16 /\ n <= g /\ s + f + n * p <= v
      BY <1>17, SMT
    <2>2. t # 32 => g < 1000000
      BY <1>17, SMT DEF Types
    <2> QED BY <2>1, <2>2, SMT DEF g, n
  <1> QED BY <1>11, <1>12, <1>13, <1>14, <1>15, <1>16, <1>17, SMT DEF Sizes

\* mount_volume finds the same numbers again, and a FAT that is large enough.
LEMMA FittingMounts ==
    ASSUME NEW v \in Nat, NEW t \in Types, NEW p \in Sizes, Fitting(v, t, p)
    PROVE  Mountable(v, t, p)
  <1> DEFINE g == v \div p
             f == FatSectors(v, t, p)
             n == Clusters(v, t, p)
             s == System(v, t, p)
  <1>1. g \in Nat /\ f \in Nat
    BY Numbers
  <1>2. n \in Nat /\ n >= 16 /\ n <= g /\ n = (v - s) \div p /\ s + n * p <= v /\ (t # 32 => g < 1000000)
    BY FittingNumbers
  <1>3. s = f + (IF t = 32 THEN 32 ELSE 33)
    BY <1>1, SMT DEF System, Reserved, RootSectors
  <1>4. v >= s
    BY <1>1, <1>2, <1>3, SMT DEF Sizes
  <1>5. /\ t = 32 => g <= 268435445 /\ n > 65525
        /\ t = 16 => n > 4085 /\ n <= 65525
        /\ t = 12 => n <= 4085
    BY SMT DEF Fitting
  <1>6. /\ t = 32 => f = (g * 4 + 519) \div 512
        /\ t = 16 => f = (g * 2 + 515) \div 512
        /\ t = 12 => f = ((g * 3 + 1) \div 2 + 514) \div 512
    BY Numbers
  <1> HIDE DEF g, f, n, s
  <1>7. f >= 1 /\ (t # 32 => f < 65536)
    BY <1>1, <1>2, <1>6, SMT DEF Types
  <1>8. TypeOf(n) = t
    BY <1>1, <1>2, <1>5, SMT DEF Types, TypeOf, MAX_FAT12, MAX_FAT16, MAX_FAT32
  <1>9. f >= CeilDiv(NeededFat(t, n + 2), FF_MAX_SS)
    BY <1>1, <1>2, <1>6, SMT DEF Types, CeilDiv, NeededFat, FF_MAX_SS
  <1>10. n + 2 <= (IF t = 32 THEN f * 128 ELSE IF t = 16 THEN f * 256 ELSE (f * 1024) \div 3)
    BY <1>1, <1>2, <1>6, SMT DEF Types
  <1>11. s \in Nat
    BY <1>1, <1>3, SMT
  <1> QED BY <1>1, <1>2, <1>4, <1>7, <1>8, <1>9, <1>10, <1>11, SMT DEF Mountable, f, n, s

\* What a pass does with what it tried.
LEMMA PassIs ==
    ASSUME NEW v \in Nat, NEW fsty \in {16, 32}, NEW sz_au, NEW p \in Sizes, NEW t \in Types,
           Attempt(v, fsty, sz_au) = Tried(v, t, p),
           v >= System(v, t, p) + p * 16
    PROVE  /\ Fitting(v, t, p) => Pass(v, fsty, sz_au) = Ends(Tried(v, t, p))
           /\ t = 16 /\ sz_au = 0 /\ p * 2 <= 64 /\ Clusters(v, t, p) > MAX_FAT16
                 => Pass(v, fsty, sz_au) = Again(16, p * 2)
           /\ t = 16 /\ sz_au = 0 /\ p * 2 > 64 /\ Clusters(v, t, p) > MAX_FAT16
                 => Pass(v, fsty, sz_au) = Again(32, 0)
           /\ t = 16 /\ sz_au = 0 /\ Clusters(v, t, p) <= MAX_FAT12
                 => Pass(v, fsty, sz_au) = Again(16, p * 2)
  <1> DEFINE a == Tried(v, t, p)
             n == Clusters(v, t, p)
  <1>1. /\ a.fsty = t /\ a.pau = p /\ a.guess = v \div p /\ a.sz_rsv = Reserved(t)
        /\ a.sz_fat = FatSectors(v, t, p) /\ a.sz_dir = RootSectors(t) /\ a.n_clst = n
    BY DEF Tried
  <1>2. FatSectors(v, t, p) \in Nat /\ n \in Int
    BY Numbers
  <1>3. p * 2 <= 128 /\ p \in Nat
    BY SMT DEF Sizes
  <1>4. Unfit(v, a) <=> \/ t = 32 /\ (v \div p <= MAX_FAT16 \/ v \div p > MAX_FAT32)
                        \/ t = 12 /\ n > MAX_FAT12
    BY <1>1, <1>2, <1>3, SMT DEF Unfit, System, Reserved, RootSectors
  <1>5. Pass(v, fsty, sz_au) =
           IF Unfit(v, a) THEN Ends(Aborted)
           ELSE IF t = 32 /\ n <= MAX_FAT16 THEN
                   IF sz_au = 0 /\ p \div 2 # 0 THEN Again(32, p \div 2) ELSE Ends(Aborted)
           ELSE IF t = 16 /\ n > MAX_FAT16 THEN
                   IF sz_au = 0 /\ p * 2 <= 64 THEN Again(16, p * 2) ELSE Again(32, sz_au)
           ELSE IF t = 16 /\ n <= MAX_FAT12 THEN
                   IF sz_au = 0 /\ p * 2 <= 128 THEN Again(16, p * 2) ELSE Ends(Aborted)
           ELSE Ends(a)
    BY <1>1 DEF Pass
  <1> HIDE DEF a, n
  <1>6. MAX_FAT12 = 4085 /\ MAX_FAT16 = 65525 /\ MAX_FAT32 = 268435445
    BY DEF MAX_FAT12, MAX_FAT16, MAX_FAT32
  <1>7. Fitting(v, t, p) => Pass(v, fsty, sz_au) = Ends(a)
    <2>1. Fitting(v, t, p) =>
             /\ t = 32 => v \div p > 65525 /\ v \div p <= 268435445 /\ n > 65525
             /\ t = 16 => n > 4085 /\ n <= 65525
             /\ t = 12 => n <= 4085
      BY SMT DEF Fitting, n
    <2>2. v \div p \in Nat
      BY Numbers
    <2>3. ASSUME NEW g \in Nat, g > 65525, g <= 268435445 PROVE ~(g <= MAX_FAT16 \/ g > MAX_FAT32)
      BY <1>6, <2>3, SMT
    <2>4. n > MAX_FAT12 => ~(n <= 4085)
      BY <1>2, <1>6, SMT
    <2>5. Fitting(v, t, p) => ~Unfit(v, a)
      BY <1>4, <2>1, <2>2, <2>3, <2>4
    <2> QED BY <1>2, <1>5, <1>6, <2>1, <2>5, SMT
  <1>8. t = 16 => ~Unfit(v, a)
    BY <1>4
  <1>9. t = 16 /\ n > MAX_FAT16 => Pass(v, fsty, sz_au) =
            IF sz_au = 0 /\ p * 2 <= 64 THEN Again(16, p * 2) ELSE Again(32, sz_au)
    BY <1>5, <1>8
  <1>10. t = 16 /\ n <= MAX_FAT12 => Pass(v, fsty, sz_au) =
            IF sz_au = 0 /\ p * 2 <= 128 THEN Again(16, p * 2) ELSE Ends(Aborted)
    BY <1>2, <1>5, <1>6, <1>8, SMT
  <1> QED BY <1>3, <1>7, <1>9, <1>10, SMT DEF a, n

LEMMA ShapeInPasses ==
    ASSUME NEW v \in Nat, v >= 128
    PROVE  /\ \A shape : Pass(v, 16, 0) = Ends(shape) => Shape(v) = shape
           /\ \A fsty, sz_au, shape :
                 Pass(v, 16, 0) = Again(fsty, sz_au) /\ Pass(v, fsty, sz_au) = Ends(shape) => Shape(v) = shape
  <1> DEFINE Continue(x) == IF x.ends THEN x ELSE Pass(v, x.fsty, x.sz_au)
  <1>1. Shape(v) = Continue(Continue(Pass(v, 16, 0))).shape
    BY DEF Shape
  <1>2. \A shape : Continue(Ends(shape)) = Ends(shape) /\ Ends(shape).shape = shape
    BY DEF Ends
  <1>3. \A fsty, sz_au : Continue(Again(fsty, sz_au)) = Pass(v, fsty, sz_au)
    BY DEF Again
  <1> HIDE DEF Continue
  <1> QED BY <1>1, <1>2, <1>3

\* The areas before the clusters, and the clusters after them.
LEMMA Reckoned ==
    ASSUME NEW v \in Nat, NEW t \in Types, NEW p \in Sizes
    PROVE  /\ System(v, t, p) = FatSectors(v, t, p) + (IF t = 32 THEN 32 ELSE 33)
           /\ Clusters(v, t, p) = (v - FatSectors(v, t, p) - (IF t = 32 THEN 32 ELSE 33)) \div p
  <1>1. FatSectors(v, t, p) \in Nat
    BY Numbers
  <1>2. v - Reserved(t) - FatSectors(v, t, p) - RootSectors(t)
           = v - FatSectors(v, t, p) - (IF t = 32 THEN 32 ELSE 33)
    BY <1>1, SMT DEF Reserved, RootSectors
  <1> QED BY <1>1, <1>2, SMT DEF System, Clusters, Reserved, RootSectors

\* The first pass tries the size from the table, a later one the size it was told.
LEMMA PassTries ==
    ASSUME NEW v \in Nat, NEW p \in Sizes
    PROVE  /\ p = FirstSize(v) => Attempt(v, 16, 0) = Tried(v, IF v \div p <= 4085 THEN 12 ELSE 16, p)
           /\ Attempt(v, 16, p) = Tried(v, IF v \div p <= 4085 THEN 12 ELSE 16, p)
           /\ v >= 4063232 /\ p = FirstSize32(v) => Attempt(v, 32, 0) = Tried(v, 32, p)
  <1>1. MAX_FAT12 = 4085 /\ p # 0
    BY DEF MAX_FAT12, Sizes
  <1>2. p = FirstSize(v) => Attempt(v, 16, 0) = Tried(v, IF v \div p <= 4085 THEN 12 ELSE 16, p)
    BY <1>1, AttemptIs, SizeByTable, SMT
  <1>3. Attempt(v, 16, p) = Tried(v, IF v \div p <= 4085 THEN 12 ELSE 16, p)
    BY <1>1, AttemptIs, SMT
  <1>4. v >= 4063232 /\ p = FirstSize32(v) => Attempt(v, 32, 0) = Tried(v, 32, p)
    <2>1. ASSUME v >= 4063232 PROVE ClusterSize(cst32, v \div 131072) = FirstSize32(v)
      BY <2>1, SizeFor32, SMT
    <2> QED BY <2>1, AttemptIs, SMT
  <1> QED BY <1>2, <1>3, <1>4, SMT

\* The volume gets the shape of type t with clusters of p sectors.
Gets(v, t, p) == Shape(v) = Tried(v, t, p) /\ Fitting(v, t, p)

LEMMA Shape128 ==
    ASSUME NEW v \in Nat, v >= 128, v <= 4085
    PROVE  Gets(v, 12, 1)
  <1>1. FirstSize(v) = 1 /\ (v \div 1 <= 4085 <=> TRUE)
    BY SMT DEF FirstSize
  <1>2. Fitting(v, 12, 1)
    <2> DEFINE f == FatSectors(v, 12, 1)
               n == Clusters(v, 12, 1)
               s == System(v, 12, 1)
    <2>1. f = (((v \div 1) * 3 + 1) \div 2 + 514) \div 512
      BY SMT DEF FatSectors, CeilDiv, FatBytes
    <2>2. s = f + 33 /\ n = (v - f - 33) \div 1
      BY Reckoned, SMT DEF Types, Sizes
    <2> HIDE DEF f, n, s
    <2>3. n <= 4085 /\ v >= s + 1 * 16
      BY <2>1, <2>2, SMTT(30)
    <2> QED BY <2>3, SMT DEF Fitting, f, n, s
  <1>3. Attempt(v, 16, 0) = Tried(v, 12, 1)
    BY <1>1, PassTries, SMT DEF Sizes
  <1>4. Pass(v, 16, 0) = Ends(Tried(v, 12, 1))
    BY <1>2, <1>3, PassIs, SMT DEF Types, Sizes, Fitting
  <1> QED BY <1>2, <1>4, ShapeInPasses, SMT DEF Gets

LEMMA Shape4096 ==
    ASSUME NEW v \in Nat, v >= 4096, v <= 8171
    PROVE  Gets(v, 12, 2)
  <1>1. FirstSize(v) = 2 /\ (v \div 2 <= 4085 <=> TRUE)
    BY SMT DEF FirstSize
  <1>2. Fitting(v, 12, 2)
    <2> DEFINE f == FatSectors(v, 12, 2)
               n == Clusters(v, 12, 2)
               s == System(v, 12, 2)
    <2>1. f = (((v \div 2) * 3 + 1) \div 2 + 514) \div 512
      BY SMT DEF FatSectors, CeilDiv, FatBytes
    <2>2. s = f + 33 /\ n = (v - f - 33) \div 2
      BY Reckoned, SMT DEF Types, Sizes
    <2> HIDE DEF f, n, s
    <2>3. n <= 4085 /\ v >= s + 2 * 16
      BY <2>1, <2>2, SMTT(30)
    <2> QED BY <2>3, SMT DEF Fitting, f, n, s
  <1>3. Attempt(v, 16, 0) = Tried(v, 12, 2)
    BY <1>1, PassTries, SMT DEF Sizes
  <1>4. Pass(v, 16, 0) = Ends(Tried(v, 12, 2))
    BY <1>2, <1>3, PassIs, SMT DEF Types, Sizes, Fitting
  <1> QED BY <1>2, <1>4, ShapeInPasses, SMT DEF Gets

LEMMA Shape8222 ==
    ASSUME NEW v \in Nat, v >= 8222, v <= 16383
    PROVE  Gets(v, 16, 2)
  <1>1. FirstSize(v) = 2 /\ (v \div 2 <= 4085 <=> FALSE)
    BY SMT DEF FirstSize
  <1>2. Fitting(v, 16, 2)
    <2> DEFINE f == FatSectors(v, 16, 2)
               n == Clusters(v, 16, 2)
               s == System(v, 16, 2)
    <2>1. f = ((v \div 2) * 2 + 515) \div 512
      BY SMT DEF FatSectors, CeilDiv, FatBytes
    <2>2. s = f + 33 /\ n = (v - f - 33) \div 2
      BY Reckoned, SMT DEF Types, Sizes
    <2> HIDE DEF f, n, s
    <2>3. n > 4085 /\ n <= 65525 /\ v >= s + 2 * 16
      BY <2>1, <2>2, SMTT(30)
    <2> QED BY <2>3, SMT DEF Fitting, f, n, s
  <1>3. Attempt(v, 16, 0) = Tried(v, 16, 2)
    BY <1>1, PassTries, SMT DEF Sizes
  <1>4. Pass(v, 16, 0) = Ends(Tried(v, 16, 2))
    BY <1>2, <1>3, PassIs, SMT DEF Types, Sizes, Fitting
  <1> QED BY <1>2, <1>4, ShapeInPasses, SMT DEF Gets

LEMMA Shape16394 ==
    ASSUME NEW v \in Nat, v >= 16394, v <= 65535
    PROVE  Gets(v, 16, 4)
  <1>1. FirstSize(v) = 4 /\ (v \div 4 <= 4085 <=> FALSE)
    BY SMT DEF FirstSize
  <1>2. Fitting(v, 16, 4)
    <2> DEFINE f == FatSectors(v, 16, 4)
               n == Clusters(v, 16, 4)
               s == System(v, 16, 4)
    <2>1. f = ((v \div 4) * 2 + 515) \div 512
      BY SMT DEF FatSectors, CeilDiv, FatBytes
    <2>2. s = f + 33 /\ n = (v - f - 33) \div 4
      BY Reckoned, SMT DEF Types, Sizes
    <2> HIDE DEF f, n, s
    <2>3. n > 4085 /\ n <= 65525 /\ v >= s + 4 * 16
      BY <2>1, <2>2, SMTT(30)
    <2> QED BY <2>3, SMT DEF Fitting, f, n, s
  <1>3. Attempt(v, 16, 0) = Tried(v, 16, 4)
    BY <1>1, PassTries, SMT DEF Sizes
  <1>4. Pass(v, 16, 0) = Ends(Tried(v, 16, 4))
    BY <1>2, <1>3, PassIs, SMT DEF Types, Sizes, Fitting
  <1> QED BY <1>2, <1>4, ShapeInPasses, SMT DEF Gets

LEMMA Shape65536 ==
    ASSUME NEW v \in Nat, v >= 65536, v <= 262143
    PROVE  Gets(v, 16, 8)
  <1>1. FirstSize(v) = 8 /\ (v \div 8 <= 4085 <=> FALSE)
    BY SMT DEF FirstSize
  <1>2. Fitting(v, 16, 8)
    <2> DEFINE f == FatSectors(v, 16, 8)
               n == Clusters(v, 16, 8)
               s == System(v, 16, 8)
    <2>1. f = ((v \div 8) * 2 + 515) \div 512
      BY SMT DEF FatSectors, CeilDiv, FatBytes
    <2>2. s = f + 33 /\ n = (v - f - 33) \div 8
      BY Reckoned, SMT DEF Types, Sizes
    <2> HIDE DEF f, n, s
    <2>3. n > 4085 /\ n <= 65525 /\ v >= s + 8 * 16
      BY <2>1, <2>2, SMTT(30)
    <2> QED BY <2>3, SMT DEF Fitting, f, n, s
  <1>3. Attempt(v, 16, 0) = Tried(v, 16, 8)
    BY <1>1, PassTries, SMT DEF Sizes
  <1>4. Pass(v, 16, 0) = Ends(Tried(v, 16, 8))
    BY <1>2, <1>3, PassIs, SMT DEF Types, Sizes, Fitting
  <1> QED BY <1>2, <1>4, ShapeInPasses, SMT DEF Gets

LEMMA Shape262144 ==
    ASSUME NEW v \in Nat, v >= 262144, v <= 1048575
    PROVE  Gets(v, 16, 16)
  <1>1. FirstSize(v) = 16 /\ (v \div 16 <= 4085 <=> FALSE)
    BY SMT DEF FirstSize
  <1>2. Fitting(v, 16, 16)
    <2> DEFINE f == FatSectors(v, 16, 16)
               n == Clusters(v, 16, 16)
               s == System(v, 16, 16)
    <2>1. f = ((v \div 16) * 2 + 515) \div 512
      BY SMT DEF FatSectors, CeilDiv, FatBytes
    <2>2. s = f + 33 /\ n = (v - f - 33) \div 16
      BY Reckoned, SMT DEF Types, Sizes
    <2> HIDE DEF f, n, s
    <2>3. n > 4085 /\ n <= 65525 /\ v >= s + 16 * 16
      BY <2>1, <2>2, SMTT(30)
    <2> QED BY <2>3, SMT DEF Fitting, f, n, s
  <1>3. Attempt(v, 16, 0) = Tried(v, 16, 16)
    BY <1>1, PassTries, SMT DEF Sizes
  <1>4. Pass(v, 16, 0) = Ends(Tried(v, 16, 16))
    BY <1>2, <1>3, PassIs, SMT DEF Types, Sizes, Fitting
  <1> QED BY <1>2, <1>4, ShapeInPasses, SMT DEF Gets

LEMMA Shape1048576 ==
    ASSUME NEW v \in Nat, v >= 1048576, v <= 2097121
    PROVE  Gets(v, 16, 32)
  <1>1. FirstSize(v) = 32 /\ (v \div 32 <= 4085 <=> FALSE)
    BY SMT DEF FirstSize
  <1>2. Fitting(v, 16, 32)
    <2> DEFINE f == FatSectors(v, 16, 32)
               n == Clusters(v, 16, 32)
               s == System(v, 16, 32)
    <2>1. f = ((v \div 32) * 2 + 515) \div 512
      BY SMT DEF FatSectors, CeilDiv, FatBytes
    <2>2. s = f + 33 /\ n = (v - f - 33) \div 32
      BY Reckoned, SMT DEF Types, Sizes
    <2> HIDE DEF f, n, s
    <2>3. n > 4085 /\ n <= 65525 /\ v >= s + 32 * 16
      BY <2>1, <2>2, SMTT(30)
    <2> QED BY <2>3, SMT DEF Fitting, f, n, s
  <1>3. Attempt(v, 16, 0) = Tried(v, 16, 32)
    BY <1>1, PassTries, SMT DEF Sizes
  <1>4. Pass(v, 16, 0) = Ends(Tried(v, 16, 32))
    BY <1>2, <1>3, PassIs, SMT DEF Types, Sizes, Fitting
  <1> QED BY <1>2, <1>4, ShapeInPasses, SMT DEF Gets

LEMMA Shape2097152 ==
    ASSUME NEW v \in Nat, v >= 2097152, v <= 4193952
    PROVE  Gets(v, 16, 64)
  <1>1. FirstSize(v) = 64 /\ (v \div 64 <= 4085 <=> FALSE)
    BY SMT DEF FirstSize
  <1>2. Fitting(v, 16, 64)
    <2> DEFINE f == FatSectors(v, 16, 64)
               n == Clusters(v, 16, 64)
               s == System(v, 16, 64)
    <2>1. f = ((v \div 64) * 2 + 515) \div 512
      BY SMT DEF FatSectors, CeilDiv, FatBytes
    <2>2. s = f + 33 /\ n = (v - f - 33) \div 64
      BY Reckoned, SMT DEF Types, Sizes
    <2> HIDE DEF f, n, s
    <2>3. n > 4085 /\ n <= 65525 /\ v >= s + 64 * 16
      BY <2>1, <2>2, SMTT(30)
    <2> QED BY <2>3, SMT DEF Fitting, f, n, s
  <1>3. Attempt(v, 16, 0) = Tried(v, 16, 64)
    BY <1>1, PassTries, SMT DEF Sizes
  <1>4. Pass(v, 16, 0) = Ends(Tried(v, 16, 64))
    BY <1>2, <1>3, PassIs, SMT DEF Types, Sizes, Fitting
  <1> QED BY <1>2, <1>4, ShapeInPasses, SMT DEF Gets

LEMMA Shape4086 ==
    ASSUME NEW v \in Nat, v >= 4086, v <= 4095
    PROVE  Gets(v, 12, 2)
  <1>1. FirstSize(v) = 1 /\ ~(v \div 1 <= 4085) /\ (v \div 2 <= 4085)
    BY SMT DEF FirstSize
  <1>2. Clusters(v, 16, 1) <= 4085 /\ v >= System(v, 16, 1) + 1 * 16
    <2> DEFINE f == FatSectors(v, 16, 1)
               n == Clusters(v, 16, 1)
               s == System(v, 16, 1)
    <2>1. f = ((v \div 1) * 2 + 515) \div 512
      BY SMT DEF FatSectors, CeilDiv, FatBytes
    <2>2. s = f + 33 /\ n = (v - f - 33) \div 1
      BY Reckoned, SMT DEF Types, Sizes
    <2> HIDE DEF f, n, s
    <2>3. n <= 4085 /\ v >= s + 1 * 16
      BY <2>1, <2>2, SMTT(30)
    <2> QED BY <2>3, SMT DEF Fitting, f, n, s
  <1>3. Attempt(v, 16, 0) = Tried(v, 16, 1)
    BY <1>1, PassTries, SMT DEF Sizes
  <1>4. Pass(v, 16, 0) = Again(16, 2)
    BY <1>2, <1>3, PassIs, SMT DEF Types, Sizes, MAX_FAT12, MAX_FAT16
  <1>5. Fitting(v, 12, 2)
    <2> DEFINE f == FatSectors(v, 12, 2)
               n == Clusters(v, 12, 2)
               s == System(v, 12, 2)
    <2>1. f = (((v \div 2) * 3 + 1) \div 2 + 514) \div 512
      BY SMT DEF FatSectors, CeilDiv, FatBytes
    <2>2. s = f + 33 /\ n = (v - f - 33) \div 2
      BY Reckoned, SMT DEF Types, Sizes
    <2> HIDE DEF f, n, s
    <2>3. n <= 4085 /\ v >= s + 2 * 16
      BY <2>1, <2>2, SMTT(30)
    <2> QED BY <2>3, SMT DEF Fitting, f, n, s
  <1>6. Attempt(v, 16, 2) = Tried(v, 12, 2)
    BY <1>1, PassTries, SMT DEF Sizes
  <1>7. Pass(v, 16, 2) = Ends(Tried(v, 12, 2))
    BY <1>5, <1>6, PassIs, SMT DEF Types, Sizes, Fitting
  <1> QED BY <1>4, <1>5, <1>7, ShapeInPasses, SMT DEF Gets

LEMMA Shape8172 ==
    ASSUME NEW v \in Nat, v >= 8172, v <= 8221
    PROVE  Gets(v, 12, 4)
  <1>1. FirstSize(v) = 2 /\ ~(v \div 2 <= 4085) /\ (v \div 4 <= 4085)
    BY SMT DEF FirstSize
  <1>2. Clusters(v, 16, 2) <= 4085 /\ v >= System(v, 16, 2) + 2 * 16
    <2> DEFINE f == FatSectors(v, 16, 2)
               n == Clusters(v, 16, 2)
               s == System(v, 16, 2)
    <2>1. f = ((v \div 2) * 2 + 515) \div 512
      BY SMT DEF FatSectors, CeilDiv, FatBytes
    <2>2. s = f + 33 /\ n = (v - f - 33) \div 2
      BY Reckoned, SMT DEF Types, Sizes
    <2> HIDE DEF f, n, s
    <2>3. n <= 4085 /\ v >= s + 2 * 16
      BY <2>1, <2>2, SMTT(30)
    <2> QED BY <2>3, SMT DEF Fitting, f, n, s
  <1>3. Attempt(v, 16, 0) = Tried(v, 16, 2)
    BY <1>1, PassTries, SMT DEF Sizes
  <1>4. Pass(v, 16, 0) = Again(16, 4)
    BY <1>2, <1>3, PassIs, SMT DEF Types, Sizes, MAX_FAT12, MAX_FAT16
  <1>5. Fitting(v, 12, 4)
    <2> DEFINE f == FatSectors(v, 12, 4)
               n == Clusters(v, 12, 4)
               s == System(v, 12, 4)
    <2>1. f = (((v \div 4) * 3 + 1) \div 2 + 514) \div 512
      BY SMT DEF FatSectors, CeilDiv, FatBytes
    <2>2. s = f + 33 /\ n = (v - f - 33) \div 4
      BY Reckoned, SMT DEF Types, Sizes
    <2> HIDE DEF f, n, s
    <2>3. n <= 4085 /\ v >= s + 4 * 16
      BY <2>1, <2>2, SMTT(30)
    <2> QED BY <2>3, SMT DEF Fitting, f, n, s
  <1>6. Attempt(v, 16, 4) = Tried(v, 12, 4)
    BY <1>1, PassTries, SMT DEF Sizes
  <1>7. Pass(v, 16, 4) = Ends(Tried(v, 12, 4))
    BY <1>5, <1>6, PassIs, SMT DEF Types, Sizes, Fitting
  <1> QED BY <1>4, <1>5, <1>7, ShapeInPasses, SMT DEF Gets

LEMMA Shape16384 ==
    ASSUME NEW v \in Nat, v >= 16384, v <= 16393
    PROVE  Gets(v, 12, 8)
  <1>1. FirstSize(v) = 4 /\ ~(v \div 4 <= 4085) /\ (v \div 8 <= 4085)
    BY SMT DEF FirstSize
  <1>2. Clusters(v, 16, 4) <= 4085 /\ v >= System(v, 16, 4) + 4 * 16
    <2> DEFINE f == FatSectors(v, 16, 4)
               n == Clusters(v, 16, 4)
               s == System(v, 16, 4)
    <2>1. f = ((v \div 4) * 2 + 515) \div 512
      BY SMT DEF FatSectors, CeilDiv, FatBytes
    <2>2. s = f + 33 /\ n = (v - f - 33) \div 4
      BY Reckoned, SMT DEF Types, Sizes
    <2> HIDE DEF f, n, s
    <2>3. n <= 4085 /\ v >= s + 4 * 16
      BY <2>1, <2>2, SMTT(30)
    <2> QED BY <2>3, SMT DEF Fitting, f, n, s
  <1>3. Attempt(v, 16, 0) = Tried(v, 16, 4)
    BY <1>1, PassTries, SMT DEF Sizes
  <1>4. Pass(v, 16, 0) = Again(16, 8)
    BY <1>2, <1>3, PassIs, SMT DEF Types, Sizes, MAX_FAT12, MAX_FAT16
  <1>5. Fitting(v, 12, 8)
    <2> DEFINE f == FatSectors(v, 12, 8)
               n == Clusters(v, 12, 8)
               s == System(v, 12, 8)
    <2>1. f = (((v \div 8) * 3 + 1) \div 2 + 514) \div 512
      BY SMT DEF FatSectors, CeilDiv, FatBytes
    <2>2. s = f + 33 /\ n = (v - f - 33) \div 8
      BY Reckoned, SMT DEF Types, Sizes
    <2> HIDE DEF f, n, s
    <2>3. n <= 4085 /\ v >= s + 8 * 16
      BY <2>1, <2>2, SMTT(30)
    <2> QED BY <2>3, SMT DEF Fitting, f, n, s
  <1>6. Attempt(v, 16, 8) = Tried(v, 12, 8)
    BY <1>1, PassTries, SMT DEF Sizes
  <1>7. Pass(v, 16, 8) = Ends(Tried(v, 12, 8))
    BY <1>5, <1>6, PassIs, SMT DEF Types, Sizes, Fitting
  <1> QED BY <1>4, <1>5, <1>7, ShapeInPasses, SMT DEF Gets

LEMMA Shape2097122 ==
    ASSUME NEW v \in Nat, v >= 2097122, v <= 2097151
    PROVE  Gets(v, 16, 64)
  <1>1. FirstSize(v) = 32 /\ ~(v \div 32 <= 4085) /\ ~(v \div 64 <= 4085)
    BY SMT DEF FirstSize
  <1>2. Clusters(v, 16, 32) > 65525 /\ v >= System(v, 16, 32) + 32 * 16
    <2> DEFINE f == FatSectors(v, 16, 32)
               n == Clusters(v, 16, 32)
               s == System(v, 16, 32)
    <2>1. f = ((v \div 32) * 2 + 515) \div 512
      BY SMT DEF FatSectors, CeilDiv, FatBytes
    <2>2. s = f + 33 /\ n = (v - f - 33) \div 32
      BY Reckoned, SMT DEF Types, Sizes
    <2> HIDE DEF f, n, s
    <2>3. n > 65525 /\ v >= s + 32 * 16
      BY <2>1, <2>2, SMTT(30)
    <2> QED BY <2>3, SMT DEF Fitting, f, n, s
  <1>3. Attempt(v, 16, 0) = Tried(v, 16, 32)
    BY <1>1, PassTries, SMT DEF Sizes
  <1>4. Pass(v, 16, 0) = Again(16, 64)
    BY <1>2, <1>3, PassIs, SMT DEF Types, Sizes, MAX_FAT12, MAX_FAT16
  <1>5. Fitting(v, 16, 64)
    <2> DEFINE f == FatSectors(v, 16, 64)
               n == Clusters(v, 16, 64)
               s == System(v, 16, 64)
    <2>1. f = ((v \div 64) * 2 + 515) \div 512
      BY SMT DEF FatSectors, CeilDiv, FatBytes
    <2>2. s = f + 33 /\ n = (v - f - 33) \div 64
      BY Reckoned, SMT DEF Types, Sizes
    <2> HIDE DEF f, n, s
    <2>3. n > 4085 /\ n <= 65525 /\ v >= s + 64 * 16
      BY <2>1, <2>2, SMTT(30)
    <2> QED BY <2>3, SMT DEF Fitting, f, n, s
  <1>6. Attempt(v, 16, 64) = Tried(v, 16, 64)
    BY <1>1, PassTries, SMT DEF Sizes
  <1>7. Pass(v, 16, 64) = Ends(Tried(v, 16, 64))
    BY <1>5, <1>6, PassIs, SMT DEF Types, Sizes, Fitting
  <1> QED BY <1>4, <1>5, <1>7, ShapeInPasses, SMT DEF Gets

LEMMA Shape4193953 ==
    ASSUME NEW v \in Nat, v >= 4193953, v <= 4194303
    PROVE  Gets(v, 32, 32)
  <1>1. FirstSize(v) = 64 /\ ~(v \div 64 <= 4085) /\ FirstSize32(v) = 32
    BY SMT DEF FirstSize, FirstSize32
  <1>2. Clusters(v, 16, 64) > 65525 /\ v >= System(v, 16, 64) + 64 * 16
    <2> DEFINE f == FatSectors(v, 16, 64)
               n == Clusters(v, 16, 64)
               s == System(v, 16, 64)
    <2>1. f = ((v \div 64) * 2 + 515) \div 512
      BY SMT DEF FatSectors, CeilDiv, FatBytes
    <2>2. s = f + 33 /\ n = (v - f - 33) \div 64
      BY Reckoned, SMT DEF Types, Sizes
    <2> HIDE DEF f, n, s
    <2>3. n > 65525 /\ v >= s + 64 * 16
      BY <2>1, <2>2, SMTT(30)
    <2> QED BY <2>3, SMT DEF Fitting, f, n, s
  <1>3. Attempt(v, 16, 0) = Tried(v, 16, 64)
    BY <1>1, PassTries, SMT DEF Sizes
  <1>4. Pass(v, 16, 0) = Again(32, 0)
    BY <1>2, <1>3, PassIs, SMT DEF Types, Sizes, MAX_FAT12, MAX_FAT16
  <1>5. Fitting(v, 32, 32)
    <2> DEFINE f == FatSectors(v, 32, 32)
               n == Clusters(v, 32, 32)
               s == System(v, 32, 32)
    <2>1. f = ((v \div 32) * 4 + 519) \div 512
      BY SMT DEF FatSectors, CeilDiv, FatBytes
    <2>2. s = f + 32 /\ n = (v - f - 32) \div 32
      BY Reckoned, SMT DEF Types, Sizes
    <2> HIDE DEF f, n, s
    <2>3. v \div 32 > 65525 /\ v \div 32 <= 268435445 /\ n > 65525 /\ v >= s + 32 * 16
      BY <2>1, <2>2, SMTT(30)
    <2> QED BY <2>3, SMT DEF Fitting, f, n, s
  <1>6. Attempt(v, 32, 0) = Tried(v, 32, 32)
    BY <1>1, PassTries, SMT DEF Sizes
  <1>7. Pass(v, 32, 0) = Ends(Tried(v, 32, 32))
    BY <1>5, <1>6, PassIs, SMT DEF Types, Sizes, Fitting
  <1> QED BY <1>4, <1>5, <1>7, ShapeInPasses, SMT DEF Gets

LEMMA Shape4194304 ==
    ASSUME NEW v \in Nat, v >= 4194304, v \div 65536 < 65536
    PROVE  Gets(v, 32, 64)
  <1>1. FirstSize(v) = 64 /\ ~(v \div 64 <= 4085) /\ FirstSize32(v) = 64
    BY SMT DEF FirstSize, FirstSize32
  <1>2. Clusters(v, 16, 64) > 65525 /\ v >= System(v, 16, 64) + 64 * 16
    <2> DEFINE f == FatSectors(v, 16, 64)
               n == Clusters(v, 16, 64)
               s == System(v, 16, 64)
    <2>1. f = ((v \div 64) * 2 + 515) \div 512
      BY SMT DEF FatSectors, CeilDiv, FatBytes
    <2>2. s = f + 33 /\ n = (v - f - 33) \div 64
      BY Reckoned, SMT DEF Types, Sizes
    <2> HIDE DEF f, n, s
    <2>3. n > 65525 /\ v >= s + 64 * 16
      BY <2>1, <2>2, SMTT(30)
    <2> QED BY <2>3, SMT DEF Fitting, f, n, s
  <1>3. Attempt(v, 16, 0) = Tried(v, 16, 64)
    BY <1>1, PassTries, SMT DEF Sizes
  <1>4. Pass(v, 16, 0) = Again(32, 0)
    BY <1>2, <1>3, PassIs, SMT DEF Types, Sizes, MAX_FAT12, MAX_FAT16
  <1>5. Fitting(v, 32, 64)
    <2> DEFINE f == FatSectors(v, 32, 64)
               n == Clusters(v, 32, 64)
               s == System(v, 32, 64)
    <2>1. f = ((v \div 64) * 4 + 519) \div 512
      BY SMT DEF FatSectors, CeilDiv, FatBytes
    <2>2. s = f + 32 /\ n = (v - f - 32) \div 64
      BY Reckoned, SMT DEF Types, Sizes
    <2> HIDE DEF f, n, s
    <2>3. v \div 64 > 65525 /\ v \div 64 <= 268435445 /\ n > 65525 /\ v >= s + 64 * 16
      BY <2>1, <2>2, SMTT(30)
    <2> QED BY <2>3, SMT DEF Fitting, f, n, s
  <1>6. Attempt(v, 32, 0) = Tried(v, 32, 64)
    BY <1>1, PassTries, SMT DEF Sizes
  <1>7. Pass(v, 32, 0) = Ends(Tried(v, 32, 64))
    BY <1>5, <1>6, PassIs, SMT DEF Types, Sizes, Fitting
  <1> QED BY <1>4, <1>5, <1>7, ShapeInPasses, SMT DEF Gets

\* Every volume of at least 128 sectors gets a shape, and the shape has passed the tests.
LEMMA ShapeFound ==
    ASSUME NEW v \in Nat, v >= 128, v \div 65536 < 65536
    PROVE  \E t \in Types, p \in Sizes : Gets(v, t, p)
  <1>1. CASE v >= 128 /\ v < 4086
    <2>1. Gets(v, 12, 1)
      BY <1>1, Shape128, SMT
    <2> QED BY <2>1, SMT DEF Types, Sizes
  <1>2. CASE v >= 4086 /\ v < 4096
    <2>1. Gets(v, 12, 2)
      BY <1>2, Shape4086, SMT
    <2> QED BY <2>1, SMT DEF Types, Sizes
  <1>3. CASE v >= 4096 /\ v < 8172
    <2>1. Gets(v, 12, 2)
      BY <1>3, Shape4096, SMT
    <2> QED BY <2>1, SMT DEF Types, Sizes
  <1>4. CASE v >= 8172 /\ v < 8222
    <2>1. Gets(v, 12, 4)
      BY <1>4, Shape8172, SMT
    <2> QED BY <2>1, SMT DEF Types, Sizes
  <1>5. CASE v >= 8222 /\ v < 16384
    <2>1. Gets(v, 16, 2)
      BY <1>5, Shape8222, SMT
    <2> QED BY <2>1, SMT DEF Types, Sizes
  <1>6. CASE v >= 16384 /\ v < 16394
    <2>1. Gets(v, 12, 8)
      BY <1>6, Shape16384, SMT
    <2> QED BY <2>1, SMT DEF Types, Sizes
  <1>7. CASE v >= 16394 /\ v < 65536
    <2>1. Gets(v, 16, 4)
      BY <1>7, Shape16394, SMT
    <2> QED BY <2>1, SMT DEF Types, Sizes
  <1>8. CASE v >= 65536 /\ v < 262144
    <2>1. Gets(v, 16, 8)
      BY <1>8, Shape65536, SMT
    <2> QED BY <2>1, SMT DEF Types, Sizes
  <1>9. CASE v >= 262144 /\ v < 1048576
    <2>1. Gets(v, 16, 16)
      BY <1>9, Shape262144, SMT
    <2> QED BY <2>1, SMT DEF Types, Sizes
  <1>10. CASE v >= 1048576 /\ v < 2097122
    <2>1. Gets(v, 16, 32)
      BY <1>10, Shape1048576, SMT
    <2> QED BY <2>1, SMT DEF Types, Sizes
  <1>11. CASE v >= 2097122 /\ v < 2097152
    <2>1. Gets(v, 16, 64)
      BY <1>11, Shape2097122, SMT
    <2> QED BY <2>1, SMT DEF Types, Sizes
  <1>12. CASE v >= 2097152 /\ v < 4193953
    <2>1. Gets(v, 16, 64)
      BY <1>12, Shape2097152, SMT
    <2> QED BY <2>1, SMT DEF Types, Sizes
  <1>13. CASE v >= 4193953 /\ v < 4194304
    <2>1. Gets(v, 32, 32)
      BY <1>13, Shape4193953, SMT
    <2> QED BY <2>1, SMT DEF Types, Sizes
  <1>14. CASE v >= 4194304
    <2>1. Gets(v, 32, 64)
      BY <1>14, Shape4194304, SMT
    <2> QED BY <2>1, SMT DEF Types, Sizes
  <1> QED BY <1>1, <1>2, <1>3, <1>4, <1>5, <1>6, <1>7, <1>8, <1>9, <1>10, <1>11, <1>12, <1>13, <1>14, SMT

\* The shape that a drive gets.
LEMMA DriveShape ==
    ASSUME NEW size \in DriveSizes
    PROVE  /\ size \in Nat /\ VolumeSize(size) \in Nat
           /\ size < 191 => Shape(VolumeSize(size)) = Aborted
           /\ size >= 191 => /\ size = VolumeSize(size) + 63 /\ VolumeSize(size) >= 128
                             /\ \E t \in Types, p \in Sizes : Gets(VolumeSize(size), t, p)
  <1> DEFINE v == VolumeSize(size)
  <1>1. size \in Nat /\ size \div 65536 < 65536
    BY GeometryAssumption
  <1>2. v = IF size > 63 THEN size - 63 ELSE size
    BY <1>1, SMT DEF VolumeSize, VolumeStart, N_SEC_TRACK
  <1> HIDE DEF v
  <1>3. v \in Nat /\ (size < 191 => v < 128) /\ (size >= 191 => size = v + 63 /\ v >= 128)
    BY <1>1, <1>2, SMT
  <1>4. v \div 65536 < 65536
    BY <1>1, <1>2, <1>3, SMT
  <1>5. size < 191 => Shape(v) = Aborted
    BY <1>3 DEF Shape
  <1>6. size >= 191 => \E t \in Types, p \in Sizes : Gets(v, t, p)
    BY <1>3, <1>4, ShapeFound, SMT
  <1> QED BY <1>1, <1>3, <1>5, <1>6, SMT DEF v

\* A shape is told from the lack of one by its type.
LEMMA TriedFields ==
    ASSUME NEW v, NEW t \in Types, NEW p
    PROVE  /\ Tried(v, t, p) # Aborted
           /\ Tried(v, t, p).fsty = t /\ Tried(v, t, p).pau = p
           /\ Tried(v, t, p).sz_rsv = Reserved(t) /\ Tried(v, t, p).sz_fat = FatSectors(v, t, p)
           /\ Tried(v, t, p).sz_dir = RootSectors(t) /\ Tried(v, t, p).n_clst = Clusters(v, t, p)
  <1>1. Tried(v, t, p).fsty = t /\ Aborted.fsty = 0 /\ t # 0
    BY DEF Tried, Aborted, Types
  <1>2. Tried(v, t, p) # Aborted
    BY <1>1
  <1> QED BY <1>1, <1>2 DEF Tried

\* Which areas a format writes: all that it must when it ends well, not the
\* partition table when it is cut short.
LEMMA LandedAreas ==
    ASSUME NEW s, NEW fault \in 0 .. 7, NEW dies \in BOOLEAN,
           fault # 0 => fault \in DOMAIN MkfsWrites(s)
    PROVE  /\ fault # 0 /\ (dies \/ MkfsWrites(s)[fault] \notin Unchecked) => "mbr" \notin Landed(s, fault, dies)
           /\ ~(fault # 0 /\ (dies \/ MkfsWrites(s)[fault] \notin Unchecked))
                => {"mbr", "vbr", "fat", "root"} \subseteq Landed(s, fault, dies)
  <1> DEFINE w == MkfsWrites(s)
             stops == fault # 0 /\ (dies \/ w[fault] \notin Unchecked)
  <1>1. CASE s.fsty = 32
    <2>1. w = <<"vbr", "backup_vbr", "backup_fsinfo", "fsinfo", "fat", "root", "mbr">>
      BY <1>1 DEF MkfsWrites
    <2>3. Landed(s, fault, dies) = {w[i] : i \in {j \in DOMAIN w : j # fault /\ (stops => j < fault)}}
      BY DEF Landed
    <2>7. fault # 0 => fault \in DOMAIN w
      OBVIOUS
    <2> HIDE DEF w
    <2>2. /\ DOMAIN w = 1 .. 7 /\ w[7] = "mbr" /\ w[1] = "vbr" /\ w[5] = "fat" /\ w[6] = "root"
          /\ w[1] # "mbr" /\ w[2] # "mbr" /\ w[3] # "mbr" /\ w[4] # "mbr" /\ w[5] # "mbr" /\ w[6] # "mbr"
      BY <2>1
    <2>6. w[1] \notin Unchecked /\ w[5] \notin Unchecked /\ w[6] \notin Unchecked /\ w[7] \notin Unchecked
      BY <2>2 DEF Unchecked
    <2>4. ASSUME stops PROVE "mbr" \notin Landed(s, fault, dies)
      <3>1. ASSUME NEW i \in DOMAIN w, i < fault PROVE w[i] # "mbr"
        BY <2>2, <2>4, <2>7, <3>1
      <3> HIDE DEF stops
      <3> QED BY <2>3, <2>4, <3>1
    <2>5. ~stops => \A i \in {1, 5, 6, 7} : w[i] \in Landed(s, fault, dies)
      BY <2>2, <2>3, <2>6
    <2> QED BY <2>2, <2>4, <2>5 DEF w
  <1>2. CASE s.fsty # 32
    <2>1. w = <<"vbr", "fat", "root", "mbr">>
      BY <1>2 DEF MkfsWrites
    <2>3. Landed(s, fault, dies) = {w[i] : i \in {j \in DOMAIN w : j # fault /\ (stops => j < fault)}}
      BY DEF Landed
    <2>7. fault # 0 => fault \in DOMAIN w
      OBVIOUS
    <2> HIDE DEF w
    <2>2. DOMAIN w = 1 .. 4 /\ w[4] = "mbr" /\ w[1] = "vbr" /\ w[2] = "fat" /\ w[3] = "root"
      BY <2>1
    <2>6. \A i \in 1 .. 4 : w[i] \notin Unchecked
      BY <2>2 DEF Unchecked
    <2>4. ASSUME stops PROVE "mbr" \notin Landed(s, fault, dies)
      <3>1. ASSUME NEW i \in DOMAIN w, i < fault PROVE w[i] # "mbr"
        BY <2>2, <2>4, <2>7, <3>1
      <3> HIDE DEF stops
      <3> QED BY <2>3, <2>4, <3>1
    <2>5. ~stops => \A i \in 1 .. 4 : w[i] \in Landed(s, fault, dies)
      BY <2>2, <2>3, <2>6
    <2> QED BY <2>2, <2>4, <2>5 DEF w
  <1> QED BY <1>1, <1>2

\* What f_mkfs wrote on a drive that it formatted.
Written(area) == Content(drive, Shape(VolumeSize(drive)), area)
Formatted ==
    /\ \A area \in {"mbr", "vbr", "fat", "root"} : sector[area] = Written(area)
    /\ sector["fsinfo"] \in {Unwritten, Written("fsinfo")}

\* The inductive invariant of formatting and mounting.
GeometryInv ==
    /\ drive \in DriveSizes
    /\ mkfsResult \in {"none", "FR_MKFS_ABORTED", "crash", "FR_DISK_ERR", "FR_OK"}
    /\ mkfsResult = "none" => mounted = "none" /\ sector = [a \in Areas |-> Unwritten]
    /\ mkfsResult = "FR_MKFS_ABORTED" <=> mkfsResult # "none" /\ drive < 191
    /\ mkfsResult = "FR_MKFS_ABORTED" => mounted = "none"
    /\ mkfsResult \in {"crash", "FR_DISK_ERR"} => sector["mbr"] = Unwritten /\ mounted # "FR_OK"
    /\ mkfsResult = "FR_OK" => Formatted

LEMMA AreaContents ==
    ASSUME NEW size, NEW s
    PROVE  /\ Content(size, s, "mbr") = create_partition(size, VolumeSize(size))
           /\ Content(size, s, "vbr") = BootRecord(VolumeSize(size), s)
           /\ Content(size, s, "fsinfo") = FsInfo(s)
           /\ Content(size, s, "fat").kind = "fat" /\ Content(size, s, "fat").first = s.sz_rsv
           /\ Content(size, s, "fat").num = s.sz_fat
           /\ Content(size, s, "root").kind = "root"
  BY DEF Content

\* The boot record of a volume that got its shape, field by field.
LEMMA BootRecordIs ==
    ASSUME NEW v \in Nat, NEW t \in Types, NEW p \in Sizes, Mountable(v, t, p), v >= 128,
           NEW b, b = BootRecord(v, Tried(v, t, p))
    PROVE  /\ b # Unwritten /\ check_fs(b) = 0
           /\ b.BPB_SecPerClus = p /\ b.BPB_RsvdSecCnt = Reserved(t)
           /\ b.BPB_RootEntCnt = IF t = 32 THEN 0 ELSE 512
           /\ (IF b.BPB_TotSec16 # 0 THEN b.BPB_TotSec16 ELSE b.BPB_TotSec32) = v
           /\ (IF b.BPB_FATSz16 # 0 THEN b.BPB_FATSz16 ELSE b.BPB_FATSz32) = FatSectors(v, t, p)
  <1> DEFINE f == FatSectors(v, t, p)
  <1>1. f \in Nat /\ f # 0 /\ (t # 32 => f < 65536)
    BY DEF Mountable
  <1>2. p \in Nat /\ p # 0 /\ p % 256 = p
    BY SMT DEF Sizes
  <1>3. Reserved(t) \in Nat /\ Reserved(t) # 0 /\ Reserved(t) % 65536 = Reserved(t)
    BY SMT DEF Reserved
  <1>4. t # 32 => f % 65536 = f
    BY <1>1, SMT
  <1>5. /\ b.kind = "vbr" /\ b.BPB_SecPerClus = p % 256 /\ b.BPB_RsvdSecCnt = Reserved(t) % 65536
        /\ b.BPB_RootEntCnt = (IF t = 32 THEN 0 ELSE NRoot)
        /\ b.BPB_TotSec16 = (IF v < 65536 THEN v ELSE 0) /\ b.BPB_TotSec32 = (IF v < 65536 THEN 0 ELSE v)
        /\ b.BPB_FATSz16 = (IF t = 32 THEN 0 ELSE f % 65536) /\ b.BPB_FATSz32 = (IF t = 32 THEN f ELSE 0)
        /\ b.FilSysType = (IF t = 32 THEN "FAT32" ELSE "FAT")
    BY TriedFields, SMT DEF BootRecord
  <1>6. NRoot = 512
    BY DEF NRoot
  <1>7. b # Unwritten
    BY <1>5 DEF Unwritten
  <1> HIDE DEF f
  <1>8. check_fs(b) = 0
    <2>1. t # 32 => b.BPB_SecPerClus # 0 /\ b.BPB_RsvdSecCnt # 0 /\ b.BPB_RootEntCnt # 0 /\ b.BPB_FATSz16 # 0
      BY <1>1, <1>2, <1>3, <1>4, <1>5, <1>6, SMT
    <2>2. b.BPB_TotSec16 >= 128 \/ b.BPB_TotSec32 >= 65536
      BY <1>5, SMT
    <2>3. t = 32 => b.FilSysType = "FAT32"
      BY <1>5
    <2> QED BY <1>5, <1>7, <2>1, <2>2, <2>3, SMT DEF check_fs
  <1>9. (IF b.BPB_TotSec16 # 0 THEN b.BPB_TotSec16 ELSE b.BPB_TotSec32) = v
    BY <1>5, SMT
  <1>10. (IF b.BPB_FATSz16 # 0 THEN b.BPB_FATSz16 ELSE b.BPB_FATSz32) = f
    BY <1>1, <1>4, <1>5, SMT
  <1> QED BY <1>2, <1>3, <1>5, <1>6, <1>7, <1>8, <1>9, <1>10, SMT DEF f

\* The FATFS object that mount_volume fills from such a boot record.
LEMMA VolumeLoaded ==
    ASSUME NEW v \in Nat, NEW t \in Types, NEW p \in Sizes, Mountable(v, t, p), v >= 128,
           NEW b, b = BootRecord(v, Tried(v, t, p)), NEW fs, fs = LoadVolume(b, 63)
    PROVE  /\ fs # NoFatFs /\ fs.fs_type = t /\ fs.csize = p
           /\ fs.n_fatent = Clusters(v, t, p) + 2 /\ fs.fsize = FatSectors(v, t, p)
           /\ fs.volbase = 63 /\ fs.fatbase = 63 + Reserved(t) /\ fs.database = 63 + System(v, t, p)
           /\ fs.free_clst = (IF t = 32 /\ sector["fsinfo"] # Unwritten THEN sector["fsinfo"].free ELSE -1)
  <1> DEFINE f == FatSectors(v, t, p)
             n == Clusters(v, t, p)
             s == System(v, t, p)
  <1>1. /\ b.BPB_SecPerClus = p /\ b.BPB_RsvdSecCnt = Reserved(t)
        /\ b.BPB_RootEntCnt = (IF t = 32 THEN 0 ELSE 512)
        /\ (IF b.BPB_TotSec16 # 0 THEN b.BPB_TotSec16 ELSE b.BPB_TotSec32) = v
        /\ (IF b.BPB_FATSz16 # 0 THEN b.BPB_FATSz16 ELSE b.BPB_FATSz32) = f
    BY BootRecordIs, SMT
  <1>2. f \in Nat /\ n \in Nat /\ n # 0 /\ s \in Nat /\ v >= s /\ TypeOf(n) = t /\ n = (v - s) \div p
    BY DEF Mountable
  <1>3. f >= CeilDiv(NeededFat(t, n + 2), FF_MAX_SS)
    BY DEF Mountable
  <1>4. b.BPB_RootEntCnt \div (FF_MAX_SS \div SZDIRE) = RootSectors(t)
    BY <1>1, SMT DEF FF_MAX_SS, SZDIRE, RootSectors
  <1>5. b.BPB_RsvdSecCnt + f + b.BPB_RootEntCnt \div (FF_MAX_SS \div SZDIRE) = s
    BY <1>1, <1>4 DEF System
  <1>6. (t = 32) = (b.BPB_RootEntCnt = 0)
    BY <1>1
  <1>7. t # 0 /\ NoFatFs.fs_type = 0
    BY DEF Types, NoFatFs
  <1> HIDE DEF f, n, s
  <1>8. ~(\/ v < s \/ n = 0 \/ t = 0 \/ (t = 32) # (b.BPB_RootEntCnt = 0)
          \/ f < CeilDiv(NeededFat(t, n + 2), FF_MAX_SS))
    <2>1. ~(v < s)
      BY <1>2, SMT
    <2>2. CeilDiv(NeededFat(t, n + 2), FF_MAX_SS) \in Int
      BY <1>2, SMT DEF CeilDiv, NeededFat, FF_MAX_SS
    <2>3. ~(f < CeilDiv(NeededFat(t, n + 2), FF_MAX_SS))
      BY <1>2, <1>3, <2>2, SMT
    <2> QED BY <1>2, <1>6, <1>7, <2>1, <2>3
  <1>9. fs = [fs_type |-> t, csize |-> p, n_fatent |-> n + 2, fsize |-> f,
              volbase |-> 63, fatbase |-> 63 + Reserved(t), database |-> 63 + s,
              free_clst |-> IF t = 32 /\ sector["fsinfo"] # Unwritten THEN sector["fsinfo"].free ELSE -1,
              last_clst |-> IF t = 32 /\ sector["fsinfo"] # Unwritten THEN sector["fsinfo"].nxt ELSE -1]
    <2> DEFINE fsize == IF b.BPB_FATSz16 # 0 THEN b.BPB_FATSz16 ELSE b.BPB_FATSz32
               tsect == IF b.BPB_TotSec16 # 0 THEN b.BPB_TotSec16 ELSE b.BPB_TotSec32
               sysect == b.BPB_RsvdSecCnt + fsize + b.BPB_RootEntCnt \div (FF_MAX_SS \div SZDIRE)
               nclst == (tsect - sysect) \div b.BPB_SecPerClus
               fmt == TypeOf(nclst)
    <2>1. fsize = f /\ tsect = v
      BY <1>1
    <2>2. sysect = s
      BY <1>5, <2>1
    <2>3. nclst = n
      BY <1>1, <1>2, <2>1, <2>2
    <2>4. fmt = t
      BY <1>2, <2>3
    <2>5. LoadVolume(b, 63) =
            IF \/ tsect < sysect \/ nclst = 0 \/ fmt = 0
               \/ (fmt = 32) # (b.BPB_RootEntCnt = 0)
               \/ fsize < CeilDiv(NeededFat(fmt, nclst + 2), FF_MAX_SS)
            THEN NoFatFs
            ELSE [fs_type |-> fmt, csize |-> b.BPB_SecPerClus, n_fatent |-> nclst + 2, fsize |-> fsize,
                  volbase |-> 63, fatbase |-> 63 + b.BPB_RsvdSecCnt, database |-> 63 + sysect,
                  free_clst |-> IF fmt = 32 /\ sector["fsinfo"] # Unwritten THEN sector["fsinfo"].free ELSE -1,
                  last_clst |-> IF fmt = 32 /\ sector["fsinfo"] # Unwritten THEN sector["fsinfo"].nxt ELSE -1]
      BY DEF LoadVolume
    <2> HIDE DEF fsize, tsect, sysect, nclst, fmt
    <2> QED BY <1>1, <1>8, <2>1, <2>2, <2>3, <2>4, <2>5
  <1>10. fs # NoFatFs
    BY <1>7, <1>9
  <1> QED BY <1>9, <1>10 DEF f, n, s

\* Formatting keeps the invariant.
LEMMA MkfsKeeps ==
    ASSUME GeometryInv, NEW fault \in 0 .. 7, NEW dies \in BOOLEAN, dies => fault # 0, Format(fault, dies)
    PROVE  GeometryInv'
  <1> DEFINE s == Shape(VolumeSize(drive))
             w == MkfsWrites(s)
             stops == fault # 0 /\ (dies \/ w[fault] \notin Unchecked)
  <1>1. /\ drive \in DriveSizes /\ mounted = "none" /\ sector = [a \in Areas |-> Unwritten]
        /\ drive' = drive /\ mounted' = mounted
    BY DEF GeometryInv, Format
  <1>2. /\ fault # 0 => s # Aborted /\ fault \in DOMAIN w
        /\ s # Aborted => sector' = [a \in Areas |-> IF a \in Landed(s, fault, dies) THEN Content(drive, s, a) ELSE sector[a]]
        /\ mkfsResult' = IF s = Aborted THEN "FR_MKFS_ABORTED"
                         ELSE IF dies THEN "crash"
                         ELSE IF fault # 0 /\ w[fault] \notin Unchecked THEN "FR_DISK_ERR"
                         ELSE "FR_OK"
    BY DEF Format, f_mkfs
  <1>3. s = Aborted <=> drive < 191
    <2>1. drive \in Nat
      BY <1>1, DriveShape
    <2>2. drive >= 191 => \E t \in Types, p \in Sizes : s = Tried(VolumeSize(drive), t, p)
      BY <1>1, DriveShape DEF Gets
    <2>3. drive >= 191 => s # Aborted
      BY <2>2, TriedFields
    <2> QED BY <1>1, <2>1, <2>3, DriveShape
  <1>4. mkfsResult' \in {"none", "FR_MKFS_ABORTED", "crash", "FR_DISK_ERR", "FR_OK"} /\ mkfsResult' # "none"
    BY <1>2
  <1>5. mkfsResult' = "FR_MKFS_ABORTED" <=> drive < 191
    BY <1>2, <1>3
  <1>6. mkfsResult' \in {"crash", "FR_DISK_ERR"} => s # Aborted /\ stops
    BY <1>2
  <1>7. mkfsResult' = "FR_OK" => s # Aborted /\ ~stops
    BY <1>2
  <1>8. /\ stops => "mbr" \notin Landed(s, fault, dies)
        /\ ~stops => {"mbr", "vbr", "fat", "root"} \subseteq Landed(s, fault, dies)
    BY <1>2, LandedAreas
  <1>9. \A a \in Areas : sector[a] = Unwritten
    BY <1>1
  <1>10. {"mbr", "vbr", "fat", "root", "fsinfo"} \subseteq Areas
    BY DEF Areas
  <1> HIDE DEF stops, w
  <1>11. mkfsResult' \in {"crash", "FR_DISK_ERR"} => sector'["mbr"] = Unwritten
    BY <1>2, <1>6, <1>8, <1>9, <1>10
  <1>12. mkfsResult' = "FR_OK" => Formatted'
    <2> SUFFICES ASSUME mkfsResult' = "FR_OK" PROVE Formatted'
      OBVIOUS
    <2>1. \A area \in {"mbr", "vbr", "fat", "root"} : sector'[area] = Content(drive, s, area)
      BY <1>2, <1>7, <1>8, <1>10
    <2>2. sector'["fsinfo"] \in {Unwritten, Content(drive, s, "fsinfo")}
      BY <1>2, <1>7, <1>9, <1>10
    <2> QED BY <1>1, <2>1, <2>2 DEF Formatted, Written
  <1> QED BY <1>1, <1>4, <1>5, <1>11, <1>12 DEF GeometryInv

\* What mount finds on a formatted drive.
LEMMA FormattedMounts ==
    ASSUME drive \in DriveSizes, drive >= 191, Formatted
    PROVE  \E t \in Types, p \in Sizes :
              /\ Gets(VolumeSize(drive), t, p) /\ Mountable(VolumeSize(drive), t, p)
              /\ sector["mbr"].PTE_StLba = 63 /\ find_volume = 0
              /\ sector["vbr"] = BootRecord(VolumeSize(drive), Tried(VolumeSize(drive), t, p))
  <1> DEFINE v == VolumeSize(drive)
  <1>1. v \in Nat /\ v >= 128
    BY DriveShape, SMT
  <1>2. PICK t \in Types, p \in Sizes : Gets(v, t, p)
    BY DriveShape
  <1>3. Shape(v) = Tried(v, t, p) /\ Mountable(v, t, p)
    BY <1>1, <1>2, FittingMounts DEF Gets
  <1>4. sector["mbr"] = create_partition(drive, v) /\ sector["vbr"] = BootRecord(v, Tried(v, t, p))
    BY <1>3, AreaContents DEF Formatted, Written
  <1>5. sector["mbr"].PTE_StLba = 63 /\ sector["mbr"].kind = "mbr"
    BY <1>4 DEF create_partition, N_SEC_TRACK
  <1>6. check_fs(sector["mbr"]) = 2
    <2>1. sector["mbr"] # Unwritten
      BY <1>5 DEF Unwritten
    <2> QED BY <1>5, <2>1 DEF check_fs
  <1>7. check_fs(sector["vbr"]) = 0
    BY <1>1, <1>3, <1>4, BootRecordIs
  <1>8. find_volume = 0
    BY <1>6, <1>7 DEF find_volume
  <1> QED BY <1>2, <1>3, <1>4, <1>5, <1>8

\* Mounting what was formatted gives a volume whose areas fit.
LEMMA MountFits ==
    ASSUME drive \in DriveSizes, drive >= 191, Formatted, MountNew
    PROVE  /\ mounted' = "FR_OK"
           /\ Unwritten \notin {sector'["fat"], sector'["root"]}
           /\ fatfs'.fs_type = Shape(VolumeSize(drive')).fsty
           /\ AreasFit'
  <1> DEFINE v == VolumeSize(drive)
  <1>1. PICK t \in Types, p \in Sizes :
              /\ Gets(v, t, p) /\ Mountable(v, t, p)
              /\ sector["mbr"].PTE_StLba = 63 /\ find_volume = 0
              /\ sector["vbr"] = BootRecord(v, Tried(v, t, p))
    BY FormattedMounts
  <1> DEFINE f == FatSectors(v, t, p)
             n == Clusters(v, t, p)
             fs == LoadVolume(sector["vbr"], 63)
  <1>2. v \in Nat /\ v >= 128 /\ drive = v + 63
    BY DriveShape, SMT
  <1>3. /\ fs # NoFatFs /\ fs.fs_type = t /\ fs.csize = p /\ fs.n_fatent = n + 2 /\ fs.fsize = f
        /\ fs.volbase = 63 /\ fs.fatbase = 63 + Reserved(t) /\ fs.database = 63 + System(v, t, p)
        /\ fs.free_clst = (IF t = 32 /\ sector["fsinfo"] # Unwritten THEN sector["fsinfo"].free ELSE -1)
    BY <1>1, <1>2, VolumeLoaded
  <1> HIDE DEF fs
  <1>4. drive' = drive /\ sector' = sector /\ fatfs' = fs /\ mounted' = "FR_OK"
    BY <1>1, <1>3 DEF MountNew, mount, fs
  <1>5. Shape(v) = Tried(v, t, p)
    BY <1>1 DEF Gets
  <1>6. /\ Shape(v).fsty = t /\ Shape(v).sz_dir = RootSectors(t) /\ Shape(v).sz_rsv = Reserved(t)
        /\ Shape(v).sz_fat = f /\ Shape(v).n_clst = n
    BY <1>5, TriedFields
  <1>7. /\ sector["fat"].kind = "fat" /\ sector["fat"].first = Reserved(t) /\ sector["fat"].num = f
        /\ sector["root"].kind = "root"
    BY <1>6, AreaContents DEF Formatted, Written
  <1>8. Unwritten \notin {sector["fat"], sector["root"]}
    BY <1>7 DEF Unwritten
  <1>9. f \in Nat /\ n \in Nat /\ System(v, t, p) \in Nat /\ System(v, t, p) + n * p <= v
    BY <1>1 DEF Mountable
  <1>10. n + 2 <= (IF t = 32 THEN f * 128 ELSE IF t = 16 THEN f * 256 ELSE (f * 1024) \div 3)
    BY <1>1 DEF Mountable
  <1>11. Reserved(t) \in Nat /\ Reserved(t) > 0 /\ RootSectors(t) \in Nat /\ p \in Nat
    BY SMT DEF Reserved, RootSectors, Sizes
  <1>12. sector["fsinfo"] # Unwritten => sector["fsinfo"].free = n - 1
    BY <1>6, AreaContents DEF Formatted, Written, FsInfo
  <1>13. AreasFit'
    <2>1. fs.volbase < fs.fatbase
      BY <1>3, <1>11, SMT
    <2>2. fs.fatbase = fs.volbase + sector["fat"].first /\ fs.fsize = sector["fat"].num
      BY <1>3, <1>7, SMT
    <2>3. fs.database = fs.fatbase + fs.fsize + Shape(v).sz_dir
      BY <1>3, <1>6, <1>9, <1>11, SMT DEF System
    <2>4. fs.database + (fs.n_fatent - 2) * fs.csize <= drive
      <3>1. n + 2 - 2 = n
        BY <1>9, SMT
      <3>2. n * p \in Nat
        BY <1>9, <1>11, SMT
      <3> QED BY <1>2, <1>3, <1>9, <3>1, <3>2, SMT
    <2>5. fs.n_fatent <= (IF fs.fs_type = 32 THEN fs.fsize * 128
                          ELSE IF fs.fs_type = 16 THEN fs.fsize * 256 ELSE (fs.fsize * 1024) \div 3)
      BY <1>3, <1>10
    <2>6. fs.free_clst \in {-1, fs.n_fatent - 3}
      BY <1>3, <1>9, <1>12, SMT
    <2> QED BY <1>4, <2>1, <2>2, <2>3, <2>4, <2>5, <2>6 DEF AreasFit
  <1> QED BY <1>3, <1>4, <1>6, <1>8, <1>13

(***************************************************************************)
(* f_mkfs and mount_volume, for a drive of any number of sectors that an   *)
(* LBA_t can hold: it can be formatted when it has at least 191 of them,   *)
(* what was formatted can be mounted with the type it was given and areas  *)
(* that fit, and a volume whose formatting was cut short never is.         *)
(***************************************************************************)
THEOREM FormattedVolumesMount == GeometrySpec => []FormatMounts
  <1>1. GeometryInit => GeometryInv /\ FormatMounts
    <2> SUFFICES ASSUME GeometryInit PROVE GeometryInv /\ FormatMounts
      OBVIOUS
    <2> QED BY DEF GeometryInit, GeometryInv, FormatMounts
  <1>2. GeometryInv /\ FormatMounts /\ [GeometryNext]_geometryVars => GeometryInv' /\ FormatMounts'
    <2> SUFFICES ASSUME GeometryInv, FormatMounts, [GeometryNext]_geometryVars
                 PROVE  GeometryInv' /\ FormatMounts'
      OBVIOUS
    <2>1. ASSUME NEW fault \in 0 .. 7, NEW dies \in BOOLEAN, dies => fault # 0, Format(fault, dies)
          PROVE  GeometryInv' /\ FormatMounts'
      <3>1. GeometryInv'
        BY <2>1, MkfsKeeps
      <3>2. mounted' = "none"
        BY <2>1 DEF Format, GeometryInv
      <3> QED BY <3>1, <3>2 DEF GeometryInv, FormatMounts
    <2>2. CASE MountNew
      <3>1. /\ mkfsResult = "FR_OK" /\ mkfsResult' = mkfsResult /\ drive' = drive /\ sector' = sector
            /\ drive \in DriveSizes /\ ~(drive < 191) /\ Formatted
        BY <2>2 DEF MountNew, GeometryInv
      <3>2. drive >= 191
        BY <3>1, DriveShape, SMT
      <3>3. /\ mounted' = "FR_OK"
            /\ Unwritten \notin {sector'["fat"], sector'["root"]}
            /\ fatfs'.fs_type = Shape(VolumeSize(drive')).fsty
            /\ AreasFit'
        BY <2>2, <3>1, <3>2, MountFits
      <3>4. Formatted'
        BY <3>1 DEF Formatted, Written
      <3>5. GeometryInv'
        BY <3>1, <3>4 DEF GeometryInv
      <3>6. FormatMounts'
        BY <3>1, <3>3 DEF FormatMounts
      <3> QED BY <3>5, <3>6
    <2>3. CASE Restarted
      <3>1. /\ mkfsResult \in {"FR_DISK_ERR", "crash"} /\ mkfsResult' = mkfsResult /\ drive' = drive
            /\ sector' = sector /\ sector["mbr"] = Unwritten
        BY <2>3 DEF Restarted, GeometryInv
      <3>2. find_volume = 4
        BY <3>1 DEF find_volume, check_fs
      <3>3. mounted' = "FR_DISK_ERR"
        BY <2>3, <3>2 DEF Restarted, mount
      <3>4. GeometryInv'
        BY <3>1, <3>3 DEF GeometryInv
      <3>5. FormatMounts'
        BY <3>1, <3>3, <3>4 DEF FormatMounts, GeometryInv
      <3> QED BY <3>4, <3>5
    <2>4. CASE UNCHANGED geometryVars
      <3>1. /\ drive' = drive /\ sector' = sector /\ mkfsResult' = mkfsResult /\ mounted' = mounted
            /\ fatfs' = fatfs
        BY <2>4 DEF geometryVars
      <3>2. Formatted' = Formatted /\ AreasFit' = AreasFit
        BY <3>1 DEF Formatted, Written, AreasFit
      <3>3. GeometryInv'
        BY <3>1, <3>2 DEF GeometryInv
      <3>4. FormatMounts'
        BY <3>1, <3>2 DEF FormatMounts
      <3> QED BY <3>3, <3>4
    <2>5. CASE GeometryNext
      <3>1. ASSUME Format(0, FALSE) PROVE GeometryInv' /\ FormatMounts'
        <4>1. 0 \in 0 .. 7 /\ FALSE \in BOOLEAN
          OBVIOUS
        <4> QED BY <2>1, <3>1, <4>1, Zenon
      <3>2. ASSUME NEW fault \in 1 .. 7, NEW dies \in BOOLEAN, Format(fault, dies)
            PROVE  GeometryInv' /\ FormatMounts'
        BY <2>1, <3>2
      <3> QED BY <2>2, <2>3, <2>5, <3>1, <3>2 DEF GeometryNext
    <2> QED BY <2>4, <2>5
  <1> QED BY <1>1, <1>2, PTL DEF GeometrySpec
==============================================================================
