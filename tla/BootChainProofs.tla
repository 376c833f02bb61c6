--------------------------- MODULE BootChainProofs ---------------------------
(***************************************************************************)
(* What holds of the geometry for a disk of any size for which write.cpp   *)
(* does not divide by zero, and then of the two loaders for every image,   *)
(* every size of the disk and every number of failed reads.                *)
(***************************************************************************)
EXTENDS BootChain, Numbers, TLAPS

-----------------------------------------------------------------------------
(* The geometry that write.cpp chooses *)

\* The sizes that the first row of cluster_map leaves and the last one holds for.
DiskSize == {secs \in Nat : 66600 < secs /\ secs <= 4294967295}

LEMMA MapRows ==
  /\ DOMAIN cluster_map = 1 .. 6
  /\ cluster_map[1][1] = 66600
  /\ cluster_map[2][1] = 32680
  /\ cluster_map[3][1] = 262144 /\ cluster_map[3][2] = 4
  /\ cluster_map[4][1] = 16777216 /\ cluster_map[4][2] = 8
  /\ cluster_map[5][1] = 33554432 /\ cluster_map[5][2] = 16
  /\ cluster_map[6][1] = 67108864 /\ cluster_map[6][2] = 32
BY DEF cluster_map

\* The row that the loop of write.cpp:396-401 stops at.
LEMMA FirstRow ==
  ASSUME NEW secs \in DiskSize, NEW m \in 3 .. 6, secs <= cluster_map[m][1],
         \A i \in 1 .. (m - 1) : ~ (secs <= cluster_map[i][1])
  PROVE  SecPerClus(secs) = cluster_map[m][2]
<1> DEFINE fits == {i \in DOMAIN cluster_map : secs <= cluster_map[i][1]}
<1>1. m \in fits /\ \A k \in fits : k \in 1 .. 6 /\ m <= k
  BY MapRows
<1>2. \A i \in fits : (\A k \in fits : i <= k) => i = m
  BY <1>1
<1>3. (CHOOSE i \in fits : \A k \in fits : i <= k) = m
  BY <1>1, <1>2
<1> QED BY <1>1, <1>3 DEF SecPerClus

\* The sectors of a cluster are 4 to 64, by the size of the disk (write.cpp:12-18).
LEMMA SecPerClusBySize ==
  ASSUME NEW secs \in DiskSize
  PROVE  \/ secs <= 262144 /\ SecPerClus(secs) = 4
         \/ secs > 262144 /\ secs <= 16777216 /\ SecPerClus(secs) = 8
         \/ secs > 16777216 /\ secs <= 33554432 /\ SecPerClus(secs) = 16
         \/ secs > 33554432 /\ secs <= 67108864 /\ SecPerClus(secs) = 32
         \/ secs > 67108864 /\ SecPerClus(secs) = 64
<1>0. secs \in Int /\ secs > 66600
  BY DEF DiskSize
<1>1. CASE secs <= 262144
  <2>1. \A i \in 1 .. 2 : ~ (secs <= cluster_map[i][1])
    BY <1>0, <1>1, MapRows
  <2>2. secs <= cluster_map[3][1] /\ 3 \in 3 .. 6 /\ 3 - 1 = 2
    BY <1>1, MapRows
  <2>3. SecPerClus(secs) = cluster_map[3][2]
    BY <2>1, <2>2, FirstRow
  <2> QED BY <1>1, <2>3, MapRows
<1>2. CASE secs > 262144 /\ secs <= 16777216
  <2>1. \A i \in 1 .. 3 : ~ (secs <= cluster_map[i][1])
    BY <1>0, <1>2, MapRows
  <2>2. secs <= cluster_map[4][1] /\ 4 \in 3 .. 6 /\ 4 - 1 = 3
    BY <1>2, MapRows
  <2>3. SecPerClus(secs) = cluster_map[4][2]
    BY <2>1, <2>2, FirstRow
  <2> QED BY <1>2, <2>3, MapRows
<1>3. CASE secs > 16777216 /\ secs <= 33554432
  <2>1. \A i \in 1 .. 4 : ~ (secs <= cluster_map[i][1])
    BY <1>0, <1>3, MapRows
  <2>2. secs <= cluster_map[5][1] /\ 5 \in 3 .. 6 /\ 5 - 1 = 4
    BY <1>3, MapRows
  <2>3. SecPerClus(secs) = cluster_map[5][2]
    BY <2>1, <2>2, FirstRow
  <2> QED BY <1>3, <2>3, MapRows
<1>4. CASE secs > 33554432 /\ secs <= 67108864
  <2>1. \A i \in 1 .. 5 : ~ (secs <= cluster_map[i][1])
    BY <1>0, <1>4, MapRows
  <2>2. secs <= cluster_map[6][1] /\ 6 \in 3 .. 6 /\ 6 - 1 = 5
    BY <1>4, MapRows
  <2>3. SecPerClus(secs) = cluster_map[6][2]
    BY <2>1, <2>2, FirstRow
  <2> QED BY <1>4, <2>3, MapRows
<1>5. CASE secs > 67108864
  <2>1. {i \in DOMAIN cluster_map : secs <= cluster_map[i][1]} = {}
    BY <1>0, <1>5, MapRows
  <2>2. secs \div 2 <= LargestHalf
    BY DEF DiskSize, LargestHalf
  <2> QED BY <1>5, <2>1, <2>2 DEF SecPerClus, LargestSecPerClus
<1> QED BY <1>0, <1>1, <1>2, <1>3, <1>4, <1>5

-----------------------------------------------------------------------------
(* The regions *)

\* What the two divisions of write.cpp:500-502 leave, for each size of a cluster.
LEMMA FatSizeBounds ==
  ASSUME NEW secs \in DiskSize
  PROVE  /\ FATSz32(secs) \in Nat
         /\ SecPerClus(secs) = 4 => 64 * FATSz32(secs) <= secs /\ secs < 64 * FATSz32(secs) + 64
         /\ SecPerClus(secs) = 8 => 128 * FATSz32(secs) <= secs /\ secs < 128 * FATSz32(secs) + 128
         /\ SecPerClus(secs) = 16 => 256 * FATSz32(secs) <= secs /\ secs < 256 * FATSz32(secs) + 256
         /\ SecPerClus(secs) = 32 => 512 * FATSz32(secs) <= secs /\ secs < 512 * FATSz32(secs) + 512
         /\ SecPerClus(secs) = 64 => 1024 * FATSz32(secs) <= secs + 1 /\ secs < 1024 * FATSz32(secs) + 1024
<1>1. ASSUME SecPerClus(secs) = 4
      PROVE  /\ FATSz32(secs) \in Nat
             /\ 64 * FATSz32(secs) <= secs /\ secs < 64 * FATSz32(secs) + 64
  <2>1. (secs * 32 + 4 - 1) \div 4 = secs * 8
    BY DEF DiskSize
  <2>2. FATSz32(secs) = (secs * 8) \div 512
    BY <1>1, <2>1 DEF FATSz32, BytesPerSec
  <2> QED BY <2>2 DEF DiskSize
<1>2. ASSUME SecPerClus(secs) = 8
      PROVE  /\ FATSz32(secs) \in Nat
             /\ 128 * FATSz32(secs) <= secs /\ secs < 128 * FATSz32(secs) + 128
  <2>1. (secs * 32 + 8 - 1) \div 8 = secs * 4
    BY DEF DiskSize
  <2>2. FATSz32(secs) = (secs * 4) \div 512
    BY <1>2, <2>1 DEF FATSz32, BytesPerSec
  <2> QED BY <2>2 DEF DiskSize
<1>3. ASSUME SecPerClus(secs) = 16
      PROVE  /\ FATSz32(secs) \in Nat
             /\ 256 * FATSz32(secs) <= secs /\ secs < 256 * FATSz32(secs) + 256
  <2>1. (secs * 32 + 16 - 1) \div 16 = secs * 2
    BY DEF DiskSize
  <2>2. FATSz32(secs) = (secs * 2) \div 512
    BY <1>3, <2>1 DEF FATSz32, BytesPerSec
  <2> QED BY <2>2 DEF DiskSize
<1>4. ASSUME SecPerClus(secs) = 32
      PROVE  /\ FATSz32(secs) \in Nat
             /\ 512 * FATSz32(secs) <= secs /\ secs < 512 * FATSz32(secs) + 512
  <2>1. (secs * 32 + 32 - 1) \div 32 = secs * 1
    BY DEF DiskSize
  <2>2. FATSz32(secs) = (secs * 1) \div 512
    BY <1>4, <2>1 DEF FATSz32, BytesPerSec
  <2> QED BY <2>2 DEF DiskSize
<1>5. ASSUME SecPerClus(secs) = 64
      PROVE  /\ FATSz32(secs) \in Nat
             /\ 1024 * FATSz32(secs) <= secs + 1 /\ secs < 1024 * FATSz32(secs) + 1024
  <2> DEFINE q == (secs * 32 + 64 - 1) \div 64
  <2>1. q \in Nat /\ 2 * q <= secs + 1 /\ secs <= 2 * q
    BY DEF DiskSize
  <2>2. FATSz32(secs) = q \div 512
    BY <1>5 DEF FATSz32, BytesPerSec
  <2> HIDE DEF q
  <2>3. q \div 512 \in Nat /\ 512 * (q \div 512) <= q /\ q < 512 * (q \div 512) + 512
    BY <2>1
  <2> QED BY <2>1, <2>2, <2>3 DEF DiskSize
<1> QED BY <1>1, <1>2, <1>3, <1>4, <1>5, SecPerClusBySize

\* The first row of cluster_map says 0, the row after it, for smaller disks, is
\* never reached, and past 0xFFFFFFFF sectors no row holds: write.cpp divides by
\* zero for the disks of up to 66600 sectors, for those above the last row, and for
\* no other (write.cpp:12-18, 396-401, 419).
THEOREM DividesByZero ==
  ASSUME NEW secs \in Nat
  PROVE  SecPerClus(secs) = 0 <=> secs <= 66600 \/ secs > 4294967295
<1> DEFINE fits == {i \in DOMAIN cluster_map : secs <= cluster_map[i][1]}
<1>1. ASSUME secs <= 66600 PROVE SecPerClus(secs) = 0
  <2>1. 1 \in fits /\ \A k \in fits : k \in 1 .. 6 /\ 1 <= k
    BY <1>1, MapRows
  <2>2. \A i \in fits : (\A k \in fits : i <= k) => i = 1
    BY <2>1
  <2>3. (CHOOSE i \in fits : \A k \in fits : i <= k) = 1
    BY <2>1, <2>2
  <2>4. SecPerClus(secs) = cluster_map[1][2]
    BY <2>1, <2>3 DEF SecPerClus
  <2> QED BY <2>4 DEF cluster_map
<1>2. ASSUME secs > 4294967295 PROVE SecPerClus(secs) = 0
  <2>1. cluster_map[2][1] <= 67108864
    BY MapRows
  <2>2. fits = {}
    BY <1>2, <2>1, MapRows
  <2>3. ~ (secs \div 2 <= LargestHalf)
    BY <1>2 DEF LargestHalf
  <2> QED BY <2>2, <2>3 DEF SecPerClus
<1>3. ASSUME ~ (secs <= 66600), ~ (secs > 4294967295) PROVE SecPerClus(secs) # 0
  <2>1. secs \in DiskSize
    BY <1>3 DEF DiskSize
  <2> QED BY <2>1, SecPerClusBySize
<1> QED BY <1>1, <1>2, <1>3

\* The boot sector's backup, the reserved sectors, the two FATs and the data
\* follow one another on every disk, and there is room for data
\* (write.cpp:484-509, 541-571).
THEOREM RegionsInOrder ==
  ASSUME NEW secs \in DiskSize
  PROVE  /\ BkBootSec + 2 <= FirstFatSector
         /\ FirstFatSector + FATSz32(secs) < FirstDataSector(secs)
         /\ FirstDataSector(secs) < TotSec32(secs) /\ TotSec32(secs) < secs
<1> USE DEF DiskSize, BkBootSec, FirstFatSector, RsvdSecCnt, FirstDataSector, TotSec32, NumFATs
<1>1. FATSz32(secs) \in Nat /\ 64 * FATSz32(secs) <= secs + 1 /\ FATSz32(secs) > 0
  BY FatSizeBounds, SecPerClusBySize
<1> QED BY <1>1

\* The FAT of the image has an entry for every cluster of the data region, whose
\* numbers begin at 2 (write.cpp:500-502, read.cpp:58-61).
THEOREM FatCoversClusters ==
  ASSUME NEW secs \in DiskSize
  PROVE  ReaderClusters(secs) + 2 <= FatEntries(secs)
<1> USE DEF DiskSize, FatEntries, EntriesPerSector
<1> DEFINE d == DataSectors(secs)
<1>1. FATSz32(secs) \in Nat
  BY FatSizeBounds
<1>2. d \in Int /\ d = secs - 8 - 32 - 2 * FATSz32(secs)
  BY <1>1 DEF DataSectors, TotSec32, FirstDataSector, RsvdSecCnt, NumFATs
<1> HIDE DEF d
<1>3. CASE SecPerClus(secs) = 4
  <2>1. 4 * (d \div 4) <= d
    BY <1>2
  <2> QED BY <1>1, <1>2, <1>3, <2>1, FatSizeBounds, SecPerClusBySize DEF ReaderClusters, d
<1>4. CASE SecPerClus(secs) = 8
  <2>1. 8 * (d \div 8) <= d
    BY <1>2
  <2> QED BY <1>1, <1>2, <1>4, <2>1, FatSizeBounds, SecPerClusBySize DEF ReaderClusters, d
<1>5. CASE SecPerClus(secs) = 16
  <2>1. 16 * (d \div 16) <= d
    BY <1>2
  <2> QED BY <1>1, <1>2, <1>5, <2>1, FatSizeBounds, SecPerClusBySize DEF ReaderClusters, d
<1>6. CASE SecPerClus(secs) = 32
  <2>1. 32 * (d \div 32) <= d
    BY <1>2
  <2> QED BY <1>1, <1>2, <1>6, <2>1, FatSizeBounds, SecPerClusBySize DEF ReaderClusters, d
<1>7. CASE SecPerClus(secs) = 64
  <2>1. 64 * (d \div 64) <= d
    BY <1>2
  <2> QED BY <1>1, <1>2, <1>7, <2>1, FatSizeBounds, SecPerClusBySize DEF ReaderClusters, d
<1> QED BY <1>3, <1>4, <1>5, <1>6, <1>7, SecPerClusBySize

\* Clusters 0 and 1, where a ".." leads, are sectors of the second FAT, which
\* write.cpp never writes (write.cpp:545-556, read.cpp:76-78).
THEOREM ClusterZeroInSecondFat ==
  ASSUME NEW secs \in DiskSize
  PROVE  FirstFatSector + FATSz32(secs) <= FirstSectorOf(secs, 0)
BY FatSizeBounds, SecPerClusBySize
   DEF DiskSize, FirstFatSector, FirstSectorOf, FirstDataSector, RsvdSecCnt, NumFATs

\* The word data_loc is the sector it stands for exactly on disks below 2047 MiB,
\* up to the size where sectors per cluster double (write.cpp:530-532).
THEOREM DataLocBelow2GiB ==
  ASSUME NEW secs \in DiskSize, secs <= 16777216
  PROVE  data_loc(secs) = FirstDataSector(secs) <=> secs < 2047 * 2048
<1> DEFINE s == FirstDataSector(secs)
<1>1. s \in Nat /\ (s < 65536 <=> secs < 2047 * 2048)
  BY FatSizeBounds, SecPerClusBySize DEF DiskSize, FirstDataSector, RsvdSecCnt, NumFATs
<1> HIDE DEF s
<1>2. s % 65536 = s <=> s < 65536
  BY <1>1
<1> QED BY <1>1, <1>2 DEF data_loc, WordMod, s

-----------------------------------------------------------------------------
(* Cylinder, head and sector *)

LEMMA GeometryBySize ==
  ASSUME NEW secs \in DiskSize
  PROVE  \/ Heads(secs) \in {8, 16} /\ SecPerTrk(secs) = 32
         \/ Heads(secs) \in {16, 32, 64, 128, 255} /\ SecPerTrk(secs) = 63
BY SMT DEF DiskSize, Heads, SecPerTrk, Cylinders

\* For every disk and every sector number of 16 bits, the cylinder, head and
\* sector that lba_to_chs of boot.s (155-181) computes address that very sector.
THEOREM ChsAddressesSector ==
  ASSUME NEW secs \in DiskSize, NEW lba \in 0 .. (WordMod - 1)
  PROVE  BiosSector(secs, lba_to_chs(secs, lba)) = lba
<1> DEFINE T == SecPerTrk(secs)
           H == Heads(secs)
           track == lba \div T
           cylinder == track \div H
<1>1. T \in {32, 63} /\ H \in {8, 16, 32, 64, 128, 255}
  BY GeometryBySize
<1>2. lba \in Nat /\ lba < 65536
  BY DEF WordMod
<1>3. track \in Nat /\ track < 2048
  BY <1>1, <1>2
<1>4. cylinder \in Nat /\ cylinder < 256
  BY <1>1, <1>3
<1>5. lba = track * T + (lba % T) /\ lba % T \in 0 .. 62
  BY <1>1, <1>2
<1>6. track = cylinder * H + (track % H)
  BY <1>1, <1>3, Euclid
<1> HIDE DEF T, H, track, cylinder
<1>7. lba_to_chs(secs, lba) = [ch |-> cylinder, cl |-> (lba % T) + 1, dh |-> track % H]
  <2>1. cylinder % 256 = cylinder /\ cylinder \div 256 = 0
    BY <1>4
  <2>2. (lba % T) + 1 + 64 * ((cylinder \div 256) % 4) = (lba % T) + 1
    BY <1>5, <2>1
  <2> QED BY <2>1, <2>2 DEF lba_to_chs, T, H, track, cylinder
<1>8. ((lba % T) + 1) \div 64 = 0 /\ ((lba % T) + 1) % 64 = (lba % T) + 1
  BY <1>5
<1>9. BiosSector(secs, lba_to_chs(secs, lba)) = ((cylinder + 256 * 0) * H + (track % H)) * T + ((lba % T) + 1) - 1
  BY <1>7, <1>8 DEF BiosSector, T, H
<1>10. (cylinder + 256 * 0) * H + (track % H) = track
  BY <1>1, <1>3, <1>4, <1>6
<1> QED BY <1>1, <1>3, <1>5, <1>9, <1>10


-----------------------------------------------------------------------------
(* The image *)

\* write.cpp makes no image of a size that its first row or none holds for.
LEMMA ImageSize ==
  ASSUME NEW img \in Images
  PROVE  /\ img.secs \in DiskSize
         /\ SecPerClus(img.secs) \in {4, 8, 16, 32, 64}
<1>1. img.secs \in Nat /\ SecPerClus(img.secs) > 0
  BY DiskAssumption
<1>2. ~ (img.secs <= 66600 \/ img.secs > 4294967295)
  BY <1>1, DividesByZero
<1>3. img.secs \in DiskSize
  BY <1>1, <1>2 DEF DiskSize
<1> QED BY <1>3, SecPerClusBySize

LEMMA ImageRoot ==
  ASSUME NEW img \in Images
  PROVE  /\ Len(img.root) \in Nat /\ DOMAIN img.root = 1 .. Len(img.root)
         /\ \A i \in DOMAIN img.root : img.root[i].count \in Nat
         /\ RootClusters(img) \in Nat /\ RootClusters(img) >= 1
<1> DEFINE Entries == [name : STRING, count : Nat]
<1>1. img.root \in Seq(Entries)
  BY DiskAssumption
<1>2. /\ Len(img.root) \in Nat /\ DOMAIN img.root = 1 .. Len(img.root)
      /\ \A i \in DOMAIN img.root : img.root[i] \in Entries
  <2> HIDE DEF Entries
  <2> QED BY <1>1
<1> DEFINE n == Len(img.root)
<1> HIDE DEF n
<1>3. n \in Nat
  BY <1>2 DEF n
<1>4. \A s \in {4, 8, 16, 32, 64} : n \div (16 * s) \in Nat
  <2>1. /\ n \div (16 * 4) \in Nat /\ n \div (16 * 8) \in Nat /\ n \div (16 * 16) \in Nat
        /\ n \div (16 * 32) \in Nat /\ n \div (16 * 64) \in Nat
    BY <1>3
  <2> QED BY <2>1
<1>5. RootClusters(img) = n \div (16 * SecPerClus(img.secs)) + 1
  BY DEF RootClusters, SlotsPerSector, n
<1> QED BY <1>2, <1>4, <1>5, ImageSize

\* The recursion in FirstOf, for the first n nodes.
Begins(img, n, f) ==
  f = [j \in 0 .. n |-> IF j = 0 THEN RootClus + RootClusters(img)
                        ELSE f[j - 1] + img.root[j].count]

LEMMA BeginsAgree ==
  ASSUME NEW img \in Images, NEW n \in Nat, NEW m \in Nat, m <= n,
         NEW f, NEW g, Begins(img, n, f), Begins(img, m, g)
  PROVE  \A j \in 0 .. m : f[j] = g[j]
<1> DEFINE T == {j \in Nat : j <= m => f[j] = g[j]}
<1>1. f[0] = g[0]
  BY DEF Begins
<1>2. ASSUME NEW j \in T PROVE j + 1 \in T
  <2>1. SUFFICES ASSUME j + 1 <= m PROVE f[j + 1] = g[j + 1]
    OBVIOUS
  <2>2. f[j] = g[j] /\ j + 1 \in 0 .. n /\ j + 1 \in 0 .. m /\ j + 1 # 0 /\ (j + 1) - 1 = j
    BY <2>1
  <2> QED BY <2>2 DEF Begins
<1>3. 0 \in T
  BY <1>1
<1> HIDE DEF T
<1>4. T = Nat
  BY <1>2, <1>3, SetInduction DEF T
<1> QED BY <1>4 DEF T

LEMMA BeginsExist ==
  ASSUME NEW img \in Images
  PROVE  \A n \in 0 .. Len(img.root) : \E f : Begins(img, n, f) /\ f \in [0 .. n -> Nat]
<1> DEFINE L == Len(img.root)
           P(n) == \E f : Begins(img, n, f) /\ f \in [0 .. n -> Nat]
           T == {n \in Nat : n <= L => P(n)}
<1>1. P(0)
  <2> DEFINE g == [j \in 0 .. 0 |-> RootClus + RootClusters(img)]
  <2>1. g \in [0 .. 0 -> Nat]
    BY ImageRoot DEF RootClus
  <2>2. Begins(img, 0, g)
    BY DEF Begins
  <2> QED BY <2>1, <2>2
<1>2. ASSUME NEW n \in Nat, n + 1 <= L, P(n) PROVE P(n + 1)
  <2>1. PICK f : Begins(img, n, f) /\ f \in [0 .. n -> Nat]
    BY <1>2
  <2> DEFINE g == [j \in 0 .. (n + 1) |-> IF j <= n THEN f[j] ELSE f[n] + img.root[n + 1].count]
  <2>2. n + 1 \in DOMAIN img.root /\ img.root[n + 1].count \in Nat
    BY <1>2, ImageRoot
  <2>3. g \in [0 .. (n + 1) -> Nat]
    BY <2>1, <2>2
  <2>4. ASSUME NEW j \in 0 .. (n + 1)
        PROVE  g[j] = IF j = 0 THEN RootClus + RootClusters(img) ELSE g[j - 1] + img.root[j].count
    <3>1. CASE j <= n
      <4>1. f[j] = IF j = 0 THEN RootClus + RootClusters(img) ELSE f[j - 1] + img.root[j].count
        BY <2>1, <3>1 DEF Begins
      <4>2. g[j] = f[j] /\ (j # 0 => j - 1 \in 0 .. (n + 1) /\ j - 1 <= n /\ g[j - 1] = f[j - 1])
        BY <3>1
      <4> HIDE DEF g
      <4> QED BY <4>1, <4>2
    <3>2. CASE j = n + 1
      <4>1. g[j] = f[n] + img.root[n + 1].count /\ j # 0 /\ j - 1 = n /\ g[n] = f[n]
        BY <3>2
      <4> HIDE DEF g
      <4> QED BY <3>2, <4>1
    <3> QED BY <3>1, <3>2
  <2>5. Begins(img, n + 1, g)
    <3>1. g = [j \in 0 .. (n + 1) |-> g[j]]
      OBVIOUS
    <3> HIDE DEF g
    <3> QED BY <2>4, <3>1 DEF Begins
  <2> HIDE DEF g
  <2> QED BY <2>3, <2>5
<1> HIDE DEF P
<1>3. 0 \in T /\ \A n \in T : n + 1 \in T
  <2>1. ASSUME NEW n \in T PROVE n + 1 \in T
    <3>1. n \in Nat /\ (n <= L => P(n)) /\ L \in Nat
      BY ImageRoot
    <3>2. n + 1 <= L => P(n + 1)
      BY <3>1, <1>2
    <3> QED BY <3>1, <3>2
  <2> QED BY <1>1, <2>1
<1>4. T = Nat
  <2> HIDE DEF T
  <2> QED BY <1>3, SetInduction DEF T
<1>5. ASSUME NEW n \in 0 .. L PROVE P(n)
  BY <1>4
<1> QED BY <1>5 DEF P

\* Every node begins where the one before it ends, after the root.
LEMMA FirstOfSteps ==
  ASSUME NEW img \in Images
  PROVE  /\ FirstOf(img, 1) = 2 + RootClusters(img)
         /\ \A i \in 1 .. Len(img.root) + 1 : FirstOf(img, i) \in Nat
         /\ \A i \in 1 .. Len(img.root) :
              FirstOf(img, i + 1) = FirstOf(img, i) + img.root[i].count
<1> DEFINE L == Len(img.root)
           F(n) == CHOOSE f : Begins(img, n, f)
<1>0. L \in Nat
  BY ImageRoot
<1>1. ASSUME NEW n \in 0 .. L
      PROVE  Begins(img, n, F(n)) /\ F(n)[n] \in Nat
  <2>1. PICK f : Begins(img, n, f) /\ f \in [0 .. n -> Nat]
    BY BeginsExist
  <2>2. Begins(img, n, F(n))
    BY <2>1
  <2>3. F(n)[n] = f[n]
    <3> HIDE DEF F
    <3> QED BY <1>0, <2>1, <2>2, BeginsAgree
  <2> QED BY <1>0, <2>1, <2>2, <2>3
<1>2. \A i : FirstOf(img, i) = F(i - 1)[i - 1]
  BY DEF FirstOf, Begins
<1> HIDE DEF F
<1>3. FirstOf(img, 1) = 2 + RootClusters(img)
  <2>1. 0 \in 0 .. L /\ 1 - 1 = 0
    BY <1>0
  <2>2. F(0)[0] = RootClus + RootClusters(img)
    BY <1>1, <2>1 DEF Begins
  <2> QED BY <1>2, <2>1, <2>2 DEF RootClus
<1>4. ASSUME NEW i \in 1 .. L + 1 PROVE FirstOf(img, i) \in Nat
  BY <1>0, <1>1, <1>2
<1>5. ASSUME NEW i \in 1 .. L
      PROVE  FirstOf(img, i + 1) = FirstOf(img, i) + img.root[i].count
  <2>1. i \in 0 .. L /\ i - 1 \in 0 .. L /\ (i + 1) - 1 = i
    BY <1>0
  <2>2. Begins(img, i, F(i)) /\ Begins(img, i - 1, F(i - 1))
    BY <1>1, <2>1
  <2>3. F(i)[i] = F(i)[i - 1] + img.root[i].count
    BY <2>1, <2>2 DEF Begins
  <2>4. F(i)[i - 1] = F(i - 1)[i - 1]
    BY <2>1, <2>2, BeginsAgree
  <2> QED BY <1>2, <2>1, <2>3, <2>4
<1> QED BY <1>3, <1>4, <1>5

\* Nodes lie in the order of the root, behind it.
LEMMA FirstOfOrder ==
  ASSUME NEW img \in Images, NEW i \in 1 .. Len(img.root) + 1, NEW k \in 1 .. Len(img.root) + 1,
         i <= k
  PROVE  FirstOf(img, i) <= FirstOf(img, k)
<1> DEFINE L == Len(img.root)
           T == {d \in Nat : i + d <= L + 1 => FirstOf(img, i) <= FirstOf(img, i + d)}
<1>0. L \in Nat /\ i \in Nat /\ k \in Nat
  BY ImageRoot
<1>1. 0 \in T
  BY <1>0, FirstOfSteps
<1>2. ASSUME NEW d \in T PROVE d + 1 \in T
  <2>1. SUFFICES ASSUME i + (d + 1) <= L + 1
                 PROVE  FirstOf(img, i) <= FirstOf(img, i + (d + 1))
    BY <1>0
  <2>2. d \in Nat /\ i + d \in 1 .. L /\ i + d <= L + 1 /\ i + (d + 1) = (i + d) + 1
    BY <1>0, <2>1
  <2>3. FirstOf(img, i) <= FirstOf(img, i + d)
    BY <2>2
  <2>4. FirstOf(img, (i + d) + 1) = FirstOf(img, i + d) + img.root[i + d].count
        /\ img.root[i + d].count \in Nat /\ FirstOf(img, i + d) \in Nat /\ FirstOf(img, i) \in Nat
    BY <1>0, <2>2, FirstOfSteps, ImageRoot
  <2> QED BY <2>2, <2>3, <2>4
<1>3. T = Nat
  <2>1. T \in SUBSET Nat
    OBVIOUS
  <2> HIDE DEF T
  <2> QED BY <1>1, <1>2, <2>1, SetInduction
<1>4. k - i \in Nat /\ i + (k - i) = k
  BY <1>0
<1>5. k - i \in T
  <2> HIDE DEF T
  <2> QED BY <1>3, <1>4
<1> QED BY <1>4, <1>5

\* Where the i-th node lies.
LEMMA NodeSpan ==
  ASSUME NEW img \in Images, NEW i \in DOMAIN img.root
  PROVE  /\ FirstOf(img, i) \in Nat /\ img.root[i].count \in Nat
         /\ 3 <= FirstOf(img, i) /\ 2 + RootClusters(img) <= FirstOf(img, i)
         /\ FirstOf(img, i) + img.root[i].count <= Total(img) /\ Total(img) \in Nat
<1> DEFINE L == Len(img.root)
<1>1. L \in Nat /\ i \in 1 .. L /\ 1 \in 1 .. (L + 1) /\ L + 1 \in 1 .. (L + 1)
      /\ i + 1 \in 1 .. (L + 1) /\ i \in 1 .. (L + 1) /\ 1 <= i /\ i + 1 <= L + 1
  BY ImageRoot
<1>2. FirstOf(img, 1) <= FirstOf(img, i) /\ FirstOf(img, i + 1) <= FirstOf(img, L + 1)
  BY <1>1, FirstOfOrder
<1>3. Total(img) = FirstOf(img, L + 1)
  BY DEF Total
<1>4. FirstOf(img, i) \in Nat /\ FirstOf(img, L + 1) \in Nat
      /\ FirstOf(img, i + 1) = FirstOf(img, i) + img.root[i].count
      /\ FirstOf(img, 1) = 2 + RootClusters(img)
  BY <1>1, FirstOfSteps
<1> QED BY <1>1, <1>2, <1>3, <1>4, ImageRoot

\* The FAT leads from each cluster of a node to the next, and ends behind the last.
LEMMA ChainEntry ==
  ASSUME NEW img \in Images, NEW i \in DOMAIN img.root, NEW m \in Nat, m < img.root[i].count
  PROVE  FatEntry(img, FirstOf(img, i) + m) =
           IF m = img.root[i].count - 1 THEN EndOfChain ELSE FirstOf(img, i) + m + 1
<1> DEFINE c == FirstOf(img, i) + m
           last == {FirstOf(img, j) + img.root[j].count - 1 : j \in {k \in DOMAIN img.root : img.root[k].count > 0}}
<1>1. c \in Nat /\ c > 1 /\ c < Total(img) /\ c # 1 + RootClusters(img)
  BY NodeSpan, ImageRoot
<1>2. c \in last <=> m = img.root[i].count - 1
  <2>1. ASSUME m = img.root[i].count - 1 PROVE c \in last
    <3>1. i \in {k \in DOMAIN img.root : img.root[k].count > 0}
      BY NodeSpan
    <3>2. c = FirstOf(img, i) + img.root[i].count - 1
      BY <2>1, NodeSpan
    <3> QED BY <3>1, <3>2
  <2>2. ASSUME c \in last PROVE m = img.root[i].count - 1
    <3>1. PICK j \in DOMAIN img.root : img.root[j].count > 0 /\ c = FirstOf(img, j) + img.root[j].count - 1
      BY <2>2
    <3>2. i \in 1 .. Len(img.root) /\ j \in 1 .. Len(img.root) /\ Len(img.root) \in Nat
      BY ImageRoot
    <3>3. FirstOf(img, i + 1) = FirstOf(img, i) + img.root[i].count
          /\ FirstOf(img, j + 1) = FirstOf(img, j) + img.root[j].count
      BY <3>2, FirstOfSteps
    <3>4. j + 1 <= i => FirstOf(img, j + 1) <= FirstOf(img, i)
      BY <3>2, FirstOfOrder
    <3>5. i + 1 <= j => FirstOf(img, i + 1) <= FirstOf(img, j)
      BY <3>2, FirstOfOrder
    <3>6. FirstOf(img, i) \in Nat /\ FirstOf(img, j) \in Nat /\ img.root[i].count \in Nat
          /\ img.root[j].count \in Nat
      BY NodeSpan
    <3>7. ~ (j + 1 <= i)
      BY <3>1, <3>3, <3>4, <3>6
    <3>8. ~ (i + 1 <= j)
      BY <3>1, <3>3, <3>5, <3>6
    <3>9. i = j
      BY <3>2, <3>7, <3>8
    <3> QED BY <3>1, <3>6, <3>9
  <2> QED BY <2>1, <2>2
<1>3. FatEntry(img, c) =
        CASE c = 0                -> FatZero
          [] c = 1                -> FatOne
          [] c \in last \cup {1 + RootClusters(img)} -> EndOfChain
          [] c > 1 /\ c < Total(img) /\ c \notin last \cup {1 + RootClusters(img)} -> c + 1
          [] OTHER                -> 0
  BY Zenon DEF FatEntry
<1> HIDE DEF c, last
<1>4. c # 0 /\ c # 1
  BY <1>1
<1>5. CASE c \in last
  <2>1. FatEntry(img, c) = EndOfChain
    BY <1>3, <1>4, <1>5, Zenon
  <2> QED BY <1>2, <1>5, <2>1 DEF c
<1>6. CASE c \notin last
  <2>1. c \notin last \cup {1 + RootClusters(img)}
    BY <1>1, <1>6
  <2>2. FatEntry(img, c) = c + 1
    BY <1>1, <1>3, <1>4, <2>1, Zenon
  <2> QED BY <1>2, <1>6, <2>2 DEF c
<1> QED BY <1>5, <1>6

\* So it does for the root.
LEMMA RootChainEntry ==
  ASSUME NEW img \in Images, NEW m \in Nat, m < RootClusters(img)
  PROVE  FatEntry(img, 2 + m) =
           IF m = RootClusters(img) - 1 THEN EndOfChain ELSE 2 + m + 1
<1> DEFINE c == 2 + m
           last == {FirstOf(img, j) + img.root[j].count - 1 : j \in {k \in DOMAIN img.root : img.root[k].count > 0}}
           ends == last \cup {1 + RootClusters(img)}
<1>1. c \notin last
  <2> SUFFICES ASSUME NEW j \in DOMAIN img.root, img.root[j].count > 0,
                      c = FirstOf(img, j) + img.root[j].count - 1
               PROVE  FALSE
    OBVIOUS
  <2> QED BY NodeSpan, ImageRoot
<1>2. c \in ends <=> m = RootClusters(img) - 1
  BY <1>1, ImageRoot
<1>3. c < Total(img)
  <2>1. 1 \in 1 .. Len(img.root) + 1 /\ Len(img.root) + 1 \in 1 .. Len(img.root) + 1
        /\ 1 <= Len(img.root) + 1
    BY ImageRoot
  <2>2. FirstOf(img, 1) <= Total(img) /\ FirstOf(img, 1) = 2 + RootClusters(img)
        /\ Total(img) \in Nat
    BY <2>1, FirstOfOrder, FirstOfSteps DEF Total
  <2> QED BY <2>2, ImageRoot
<1>4. FatEntry(img, c) =
        CASE c = 0                -> FatZero
          [] c = 1                -> FatOne
          [] c \in ends           -> EndOfChain
          [] c > 1 /\ c < Total(img) /\ c \notin ends -> c + 1
          [] OTHER                -> 0
  BY Zenon DEF FatEntry
<1>5. c # 0 /\ c # 1 /\ c > 1
  OBVIOUS
<1> HIDE DEF c, ends
<1>6. CASE c \in ends
  <2>1. FatEntry(img, c) = EndOfChain
    BY <1>4, <1>5, <1>6, Zenon
  <2> QED BY <1>2, <1>6, <2>1 DEF c
<1>7. CASE c \notin ends
  <2>1. FatEntry(img, c) = c + 1
    BY <1>3, <1>4, <1>5, <1>7, Zenon
  <2> QED BY <1>2, <1>7, <2>1 DEF c
<1> QED BY <1>6, <1>7

\* Where a node of the root begins, the root itself being the 0th.
NodeFirst(img, n) == IF n = 0 THEN RootClus ELSE FirstOf(img, n)
NodeCount(img, n) == IF n = 0 THEN RootClusters(img) ELSE img.root[n].count

LEMMA NodeSteps ==
  ASSUME NEW img \in Images
  PROVE  /\ Len(img.root) \in Nat
         /\ \A n \in 0 .. Len(img.root) + 1 : NodeFirst(img, n) \in Nat
         /\ \A n \in 0 .. Len(img.root) :
              /\ NodeCount(img, n) \in Nat
              /\ NodeFirst(img, n + 1) = NodeFirst(img, n) + NodeCount(img, n)
<1>1. Len(img.root) \in Nat
  BY ImageRoot
<1>2. ASSUME NEW n \in 0 .. Len(img.root)
      PROVE  /\ NodeCount(img, n) \in Nat
             /\ NodeFirst(img, n + 1) = NodeFirst(img, n) + NodeCount(img, n)
  <2>1. CASE n = 0
    BY <2>1, FirstOfSteps, ImageRoot DEF NodeFirst, NodeCount, RootClus
  <2>2. CASE n # 0
    <3>1. n \in 1 .. Len(img.root) /\ n + 1 # 0
      BY <1>1, <2>2
    <3> QED BY <2>2, <3>1, FirstOfSteps, ImageRoot DEF NodeFirst, NodeCount
  <2> QED BY <2>1, <2>2
<1>3. ASSUME NEW n \in 0 .. Len(img.root) + 1 PROVE NodeFirst(img, n) \in Nat
  BY <1>1, FirstOfSteps DEF NodeFirst, RootClus
<1> QED BY <1>1, <1>2, <1>3

\* FirstOf and FatEntry are no invention of the model of the disk: they are the
\* only layout that has what is proved of write.cpp (198-208, 278-305), consecutive
\* clusters in the order of the nodes and none lost (LaidOutInOrder and
\* NoLostClusters of FatWriter).  `owns` has the clusters of the root and of the
\* nodes in it, `total` is total_clusters.
THEOREM LayoutIsWriters ==
  ASSUME NEW img \in Images, NEW owns, NEW total \in Nat, total >= 2,
         \A n \in 0 .. Len(img.root) :
           owns[n] \in Seq(Nat) /\ Len(owns[n]) = NodeCount(img, n),
         \A n \in 0 .. Len(img.root) : \A i, j \in DOMAIN owns[n] :
           owns[n][j] - owns[n][i] = j - i,
         \A m, n \in 0 .. Len(img.root) : m < n =>
           \A i \in DOMAIN owns[m], j \in DOMAIN owns[n] : owns[m][i] < owns[n][j],
         \A c : (\E n \in 0 .. Len(img.root) : \E i \in DOMAIN owns[n] : owns[n][i] = c)
                  <=> c \in 2 .. (total - 1)
  PROVE  /\ total = Total(img)
         /\ \A n \in 1 .. Len(img.root) : img.root[n].count > 0 => owns[n][1] = FirstOf(img, n)
         /\ \A n \in 0 .. Len(img.root) : \A i \in DOMAIN owns[n] :
              FatEntry(img, owns[n][i]) = IF i = Len(owns[n]) THEN EndOfChain ELSE owns[n][i + 1]
<1> DEFINE L == Len(img.root)
           F(n) == NodeFirst(img, n)
           Has(n, c) == \E i \in DOMAIN owns[n] : owns[n][i] = c
           Placed(n) == \A i \in DOMAIN owns[n] : owns[n][i] = F(n) + i - 1
           Below(n) == \A c : (\E m \in 0 .. (n - 1) : Has(m, c)) <=> c \in 2 .. (F(n) - 1)
           T == {n \in Nat : n <= L + 1 => Below(n)}
<1>1. /\ L \in Nat /\ F(0) = 2
      /\ \A n \in 0 .. L + 1 : F(n) \in Nat
      /\ \A n \in 0 .. L : NodeCount(img, n) \in Nat /\ F(n + 1) = F(n) + NodeCount(img, n)
  BY NodeSteps DEF NodeFirst, RootClus
<1>2. ASSUME NEW n \in 0 .. L
      PROVE  Len(owns[n]) = NodeCount(img, n) /\ DOMAIN owns[n] = 1 .. NodeCount(img, n)
             /\ \A i \in DOMAIN owns[n] : owns[n][i] \in Nat
  <2>1. owns[n] \in Seq(Nat) /\ Len(owns[n]) = NodeCount(img, n)
    OBVIOUS
  <2> QED BY <2>1
<1>3. \A c : (\E n \in 0 .. L : Has(n, c)) <=> c \in 2 .. (total - 1)
  OBVIOUS
<1> HIDE DEF F
<1>4. ASSUME NEW n \in 0 .. L, Below(n) PROVE Placed(n)
  <2>1. SUFFICES ASSUME NodeCount(img, n) # 0 PROVE owns[n][1] = F(n)
    <3> SUFFICES ASSUME NEW i \in DOMAIN owns[n] PROVE owns[n][i] = F(n) + i - 1
      OBVIOUS
    <3>1. /\ i \in 1 .. NodeCount(img, n) /\ NodeCount(img, n) \in Nat /\ NodeCount(img, n) # 0
          /\ 1 \in DOMAIN owns[n] /\ F(n) \in Nat
      <4>1. DOMAIN owns[n] = 1 .. NodeCount(img, n) /\ NodeCount(img, n) \in Nat
        BY <1>1, <1>2
      <4>2. i \in 1 .. NodeCount(img, n)
        BY <4>1
      <4>3. F(n) \in Nat
        BY <1>1
      <4> QED BY <4>1, <4>2, <4>3
    <3>2. owns[n][1] = F(n)
      BY <2>1, <3>1
    <3>3. owns[n][i] - owns[n][1] = i - 1 /\ owns[n][i] \in Nat
      BY <1>2, <3>1
    <3> QED BY <3>1, <3>2, <3>3
  <2> DEFINE a == owns[n][1]
  <2>2. 1 \in DOMAIN owns[n] /\ a \in Nat /\ Has(n, a) /\ F(n) \in Nat /\ n \in Nat
    BY <1>1, <1>2, <2>1
  <2>3. a \in 2 .. (total - 1)
    BY <1>3, <2>2
  <2> HIDE DEF a
  <2>4. ASSUME a < F(n) PROVE FALSE
    <3>1. a \in 2 .. (F(n) - 1)
      BY <2>2, <2>3, <2>4
    <3>2. PICK m \in 0 .. (n - 1) : Has(m, a)
      BY <1>4, <3>1
    <3>3. m \in 0 .. L /\ m < n
      BY <1>1
    <3>4. PICK i \in DOMAIN owns[m] : owns[m][i] = a
      BY <3>2
    <3>5. a < a
      BY <2>2, <3>3, <3>4 DEF a
    <3> QED BY <2>2, <3>5
  <2>5. ASSUME F(n) < a PROVE FALSE
    <3>1. F(n) >= 2
      <4>1. CASE n = 0
        BY <1>1, <4>1
      <4>2. CASE n # 0
        <5>1. n \in 1 .. L /\ FirstOf(img, n) = F(n)
          BY <1>1, <4>2 DEF F, NodeFirst
        <5>2. 3 <= FirstOf(img, n)
          BY <5>1, NodeSpan, ImageRoot
        <5> QED BY <2>2, <5>1, <5>2
      <4> QED BY <4>1, <4>2
    <3>2. F(n) \in 2 .. (total - 1)
      BY <2>2, <2>3, <2>5, <3>1
    <3>3. PICK k \in 0 .. L : Has(k, F(n))
      BY <1>3, <3>2
    <3>4. PICK j \in DOMAIN owns[k] : owns[k][j] = F(n)
      BY <3>3
    <3>5. CASE k < n
      <4>1. k \in 0 .. (n - 1)
        BY <1>1, <3>5
      <4>2. F(n) \in 2 .. (F(n) - 1)
        BY <1>4, <3>3, <4>1
      <4> QED BY <2>2, <4>2
    <3>6. CASE k = n
      <4>1. owns[n][j] - a = j - 1 /\ j \in 1 .. NodeCount(img, n) /\ NodeCount(img, n) \in Nat
        BY <1>1, <1>2, <2>2, <3>4, <3>6 DEF a
      <4> QED BY <2>2, <2>5, <3>4, <3>6, <4>1
    <3>7. CASE n < k
      <4>1. a < F(n)
        BY <2>2, <3>4, <3>7 DEF a
      <4> QED BY <2>2, <2>5, <4>1
    <3> QED BY <1>1, <3>5, <3>6, <3>7
  <2> QED BY <2>2, <2>4, <2>5 DEF a
<1>5. Below(0)
  BY <1>1
<1>6. ASSUME NEW n \in 0 .. L, Below(n) PROVE Below(n + 1)
  <2>1. Placed(n)
    BY <1>4, <1>6
  <2>2. /\ n \in Nat /\ F(n) \in Nat /\ NodeCount(img, n) \in Nat
        /\ F(n + 1) = F(n) + NodeCount(img, n) /\ DOMAIN owns[n] = 1 .. NodeCount(img, n)
    BY <1>1, <1>2
  <2>3. F(n) >= 2
    <3>1. CASE n = 0
      BY <1>1, <3>1
    <3>2. CASE n # 0
      <4>1. n \in 1 .. L /\ FirstOf(img, n) = F(n)
        BY <1>1, <3>2 DEF F, NodeFirst
      <4>2. 3 <= FirstOf(img, n)
        BY <4>1, NodeSpan, ImageRoot
      <4> QED BY <2>2, <4>1, <4>2
    <3> QED BY <3>1, <3>2
  <2>4. ASSUME NEW c
        PROVE  Has(n, c) <=> c \in F(n) .. (F(n + 1) - 1)
    <3>1. ASSUME Has(n, c) PROVE c \in F(n) .. (F(n + 1) - 1)
      <4>1. PICK i \in DOMAIN owns[n] : owns[n][i] = c
        BY <3>1
      <4>2. c = F(n) + i - 1 /\ i \in 1 .. NodeCount(img, n)
        BY <2>1, <2>2, <4>1
      <4> QED BY <2>2, <4>2
    <3>2. ASSUME c \in F(n) .. (F(n + 1) - 1) PROVE Has(n, c)
      <4>1. c - F(n) + 1 \in 1 .. NodeCount(img, n) /\ c = F(n) + (c - F(n) + 1) - 1
        BY <2>2, <3>2
      <4>2. owns[n][c - F(n) + 1] = c
        BY <2>1, <2>2, <4>1
      <4> QED BY <2>2, <4>1, <4>2
    <3> QED BY <3>1, <3>2
  <2> HIDE DEF Has
  <2>5. ASSUME NEW c
        PROVE  (\E m \in 0 .. ((n + 1) - 1) : Has(m, c)) <=> c \in 2 .. (F(n + 1) - 1)
    <3>1. (\E m \in 0 .. ((n + 1) - 1) : Has(m, c)) <=> (\E m \in 0 .. (n - 1) : Has(m, c)) \/ Has(n, c)
      <4>1. \A m : m \in 0 .. ((n + 1) - 1) <=> m \in 0 .. (n - 1) \/ m = n
        BY <2>2
      <4> QED BY <4>1
    <3>2. (\E m \in 0 .. (n - 1) : Has(m, c)) <=> c \in 2 .. (F(n) - 1)
      BY <1>6
    <3>3. c \in 2 .. (F(n) - 1) \/ c \in F(n) .. (F(n + 1) - 1) <=> c \in 2 .. (F(n + 1) - 1)
      BY <2>2, <2>3
    <3> QED BY <2>4, <3>1, <3>2, <3>3
  <2> QED BY <2>5
<1>7. T = Nat
  <2> HIDE DEF Below
  <2>1. 0 \in T
    BY <1>5
  <2>2. \A n \in T : n + 1 \in T
    <3> SUFFICES ASSUME NEW n \in T, n + 1 <= L + 1 PROVE Below(n + 1)
      OBVIOUS
    <3>1. n \in 0 .. L /\ Below(n)
      BY <1>1
    <3> QED BY <1>6, <3>1
  <2>3. T \in SUBSET Nat
    OBVIOUS
  <2> HIDE DEF T
  <2> QED BY <2>1, <2>2, <2>3, SetInduction
<1>8. \A n \in 0 .. L + 1 : Below(n)
  <2> HIDE DEF Below
  <2>1. \A n \in T : n <= L + 1 => Below(n)
    OBVIOUS
  <2> HIDE DEF T
  <2> QED BY <1>1, <1>7, <2>1
<1>9. \A n \in 0 .. L : Placed(n)
  <2> HIDE DEF Below, Placed
  <2> QED BY <1>1, <1>4, <1>8
<1>10. total = Total(img)
  <2>1. Below(L + 1)
    <3> HIDE DEF Below
    <3> QED BY <1>1, <1>8
  <2>2. F(L + 1) = Total(img) /\ F(L + 1) \in Nat /\ (L + 1) - 1 = L
    <3>1. F(L + 1) = FirstOf(img, L + 1)
      BY <1>1 DEF F, NodeFirst
    <3> QED BY <1>1, <3>1 DEF Total
  <2> HIDE DEF Has
  <2>3. \A c : c \in 2 .. (total - 1) <=> c \in 2 .. (F(L + 1) - 1)
    BY <1>3, <2>1, <2>2
  <2>4. F(L + 1) >= 2
    <3>1. 1 \in 1 .. L + 1 /\ L + 1 \in 1 .. L + 1 /\ 1 <= L + 1
      BY <1>1
    <3>2. FirstOf(img, 1) <= Total(img) /\ FirstOf(img, 1) = 2 + RootClusters(img)
      BY <3>1, FirstOfOrder, FirstOfSteps DEF Total
    <3> QED BY <2>2, <3>2, ImageRoot
  <2>5. CASE total < F(L + 1)
    <3>1. total \in 2 .. (F(L + 1) - 1) /\ total \notin 2 .. (total - 1)
      BY <2>2, <2>5
    <3> QED BY <2>3, <3>1
  <2>6. CASE F(L + 1) < total
    <3>1. F(L + 1) \in 2 .. (total - 1) /\ F(L + 1) \notin 2 .. (F(L + 1) - 1)
      BY <2>2, <2>4, <2>6
    <3> QED BY <2>3, <3>1
  <2> QED BY <2>2, <2>5, <2>6
<1>11. ASSUME NEW n \in 1 .. L, img.root[n].count > 0 PROVE owns[n][1] = FirstOf(img, n)
  <2>1. n \in 0 .. L /\ n # 0 /\ NodeCount(img, n) = img.root[n].count /\ img.root[n].count \in Nat
    BY <1>1, ImageRoot DEF NodeCount
  <2>2. 1 \in DOMAIN owns[n] /\ F(n) = FirstOf(img, n) /\ F(n) \in Nat
    BY <1>1, <1>2, <1>11, <2>1 DEF F, NodeFirst
  <2>3. owns[n][1] = F(n) + 1 - 1
    BY <1>9, <2>1, <2>2
  <2> QED BY <2>2, <2>3
<1>12. ASSUME NEW n \in 0 .. L, NEW i \in DOMAIN owns[n]
       PROVE  FatEntry(img, owns[n][i]) = IF i = Len(owns[n]) THEN EndOfChain ELSE owns[n][i + 1]
  <2>1. /\ i \in 1 .. NodeCount(img, n) /\ NodeCount(img, n) \in Nat /\ F(n) \in Nat
        /\ Len(owns[n]) = NodeCount(img, n) /\ DOMAIN owns[n] = 1 .. NodeCount(img, n)
    BY <1>1, <1>2
  <2>2. owns[n][i] = F(n) + (i - 1) /\ i - 1 \in Nat /\ i - 1 < NodeCount(img, n)
    BY <1>9, <2>1
  <2>3. i # NodeCount(img, n) => owns[n][i + 1] = F(n) + (i - 1) + 1
    <3> SUFFICES ASSUME i # NodeCount(img, n) PROVE owns[n][i + 1] = F(n) + (i - 1) + 1
      OBVIOUS
    <3>1. i + 1 \in DOMAIN owns[n]
      BY <2>1
    <3>2. owns[n][i + 1] = F(n) + (i + 1) - 1
      BY <1>9, <3>1
    <3> QED BY <2>1, <3>2
  <2>4. FatEntry(img, F(n) + (i - 1)) =
          IF i - 1 = NodeCount(img, n) - 1 THEN EndOfChain ELSE F(n) + (i - 1) + 1
    <3>1. CASE n = 0
      BY <1>1, <2>2, <3>1, RootChainEntry DEF NodeCount
    <3>2. CASE n # 0
      <4>1. n \in DOMAIN img.root /\ F(n) = FirstOf(img, n) /\ NodeCount(img, n) = img.root[n].count
        BY <1>1, <3>2, ImageRoot DEF F, NodeFirst, NodeCount
      <4> QED BY <2>2, <4>1, ChainEntry
    <3> QED BY <3>1, <3>2
  <2> QED BY <2>1, <2>2, <2>3, <2>4
<1> QED BY <1>10, <1>11, <1>12

\* Any entry of the FAT is a number.
LEMMA EntryIsNumber ==
  ASSUME NEW img \in Images, NEW c \in Nat
  PROVE  FatEntry(img, c) \in Nat
<1> DEFINE last == {FirstOf(img, j) + img.root[j].count - 1 : j \in {k \in DOMAIN img.root : img.root[k].count > 0}}
           ends == last \cup {1 + RootClusters(img)}
<1>1. FatEntry(img, c) =
        CASE c = 0                -> FatZero
          [] c = 1                -> FatOne
          [] c \in ends -> EndOfChain
          [] c > 1 /\ c < Total(img) /\ c \notin ends -> c + 1
          [] OTHER                -> 0
  BY Zenon DEF FatEntry
<1> HIDE DEF last, ends
<1> QED BY <1>1, SMT DEF EndOfChain, FatZero, FatOne

\* A slot of a sector is an entry of the root, or none.
LEMMA SlotKinds ==
  ASSUME NEW img \in Images, NEW lba \in Nat, NEW k \in Nat
  PROVE  LET D == FirstDataSector(img.secs)
             n == (lba - D) * SlotsPerSector + k + 1
         IN  \/ SlotOf(img, lba, k) \in {ZeroSlot, ContentsSlot}
             \/ /\ D <= lba /\ n \in DOMAIN img.root
                /\ SlotOf(img, lba, k) =
                     [name |-> img.root[n].name,
                      first |-> IF img.root[n].count = 0 THEN 0 ELSE FirstOf(img, n)]
<1> DEFINE D == FirstDataSector(img.secs)
           n == (lba - D) * SlotsPerSector + k + 1
           S == SecPerClus(img.secs)
           rootEnd == D + RootClusters(img) * S
           dataEnd == D + (Total(img) - 2) * S
           fatWord == FatEntry(img, (lba - FirstFatSector) * EntriesPerSector + k * FatEntriesPerSlot) % WordMod
           inRoot == lba \in D .. (rootEnd - 1) /\ n \in DOMAIN img.root
           entry == [name |-> img.root[n].name,
                     first |-> IF img.root[n].count = 0 THEN 0 ELSE FirstOf(img, n)]
           inContents == \/ lba \in rootEnd .. (dataEnd - 1)
                         \/ /\ lba \in FirstFatSector .. (FirstFatSector + FATSz32(img.secs) - 1)
                            /\ fatWord # 0
<1>1. SlotOf(img, lba, k) = CASE inRoot -> entry [] inContents -> ContentsSlot [] OTHER -> ZeroSlot
  BY Zenon DEF SlotOf
<1>2. D \in Nat /\ FirstFatSector + FATSz32(img.secs) <= D
  BY ImageSize, FatSizeBounds DEF FirstDataSector, FirstFatSector, RsvdSecCnt, NumFATs
<1>3. rootEnd \in Int /\ dataEnd \in Int
  <2>1. RootClusters(img) \in Int /\ Total(img) \in Int /\ S \in Int
    <3>1. Total(img) = FirstOf(img, Len(img.root) + 1) /\ Len(img.root) + 1 \in 1 .. Len(img.root) + 1
      BY ImageRoot DEF Total
    <3> QED BY <3>1, ImageRoot, ImageSize, FirstOfSteps
  <2> HIDE DEF S, D
  <2> QED BY <1>2, <2>1
<1>4. FATSz32(img.secs) \in Nat /\ FirstFatSector \in Nat
  BY ImageSize, FatSizeBounds DEF FirstFatSector, RsvdSecCnt
<1>5. inRoot => ~ inContents /\ D <= lba
  <2> HIDE DEF D, rootEnd, dataEnd, fatWord, n
  <2> QED BY <1>2, <1>3, <1>4
<1>6. inRoot => n \in DOMAIN img.root
  OBVIOUS
<1> HIDE DEF inRoot, inContents, entry
<1>7. CASE inRoot
  <2>1. SlotOf(img, lba, k) = entry
    BY <1>1, <1>5, <1>7, Zenon
  <2> QED BY <1>5, <1>6, <1>7, <2>1 DEF entry
<1>8. CASE ~ inRoot
  <2>1. SlotOf(img, lba, k) \in {ZeroSlot, ContentsSlot}
    BY <1>1, <1>8, Zenon
  <2> QED BY <2>1
<1> QED BY <1>7, <1>8

LEMMA SlotFirst ==
  ASSUME NEW img \in Images, NEW lba \in Nat, NEW k \in Nat
  PROVE  SlotOf(img, lba, k).first \in Nat
<1> DEFINE n == (lba - FirstDataSector(img.secs)) * SlotsPerSector + k + 1
           e == SlotOf(img, lba, k)
<1>1. CASE e \in {ZeroSlot, ContentsSlot}
  BY <1>1 DEF ZeroSlot, ContentsSlot
<1>2. CASE n \in DOMAIN img.root
           /\ e = [name |-> img.root[n].name,
                   first |-> IF img.root[n].count = 0 THEN 0 ELSE FirstOf(img, n)]
  <2> HIDE DEF n, e
  <2>1. FirstOf(img, n) \in Nat
    BY <1>2, NodeSpan
  <2>2. e.first \in Nat
    BY <1>2, <2>1
  <2> QED BY <2>2 DEF e
<1> QED BY <1>1, <1>2, SlotKinds

\* What 16 bits hold.
LEMMA Words ==
  /\ \A x \in Int : x % WordMod \in 0 .. (WordMod - 1)
  /\ \A x \in 0 .. (WordMod - 1) : x \in Nat /\ x % WordMod = x /\ x < WordMod
  /\ WordMod \in Nat /\ WordMod > 0 /\ 0 \in 0 .. (WordMod - 1)
<1>1. WordMod \in Nat /\ WordMod > 0
  BY DEF WordMod
<1>2. ASSUME NEW x \in Int PROVE x % WordMod \in 0 .. (WordMod - 1)
  BY <1>1
<1>3. ASSUME NEW x \in 0 .. (WordMod - 1) PROVE x \in Nat /\ x % WordMod = x /\ x < WordMod
  BY <1>1
<1> QED BY <1>1, <1>2, <1>3

LEMMA DataWord ==
  ASSUME NEW img \in Images
  PROVE  data_loc(img.secs) \in 0 .. (WordMod - 1)
<1>1. FirstDataSector(img.secs) \in Int
  BY ImageSize, FatSizeBounds DEF FirstDataSector, RsvdSecCnt, NumFATs
<1> QED BY <1>1, Words DEF data_loc

LEMMA SectorWord ==
  ASSUME image \in Images, NEW c \in Nat
  PROVE  /\ FirstSector1(c) \in 0 .. (WordMod - 1)
         /\ FirstSector2(c) \in 0 .. (WordMod - 1)
<1> DEFINE S == SecPerClus(image.secs)
           D == data_loc(image.secs)
<1>1. S \in Int /\ D \in Int
  BY ImageSize, DataWord, Words
<1> HIDE DEF S, D
<1>2. ((c - 2) % 256) * S + D \in Int /\ (c - 2) * S + D \in Int
  BY <1>1
<1> QED BY <1>2, Words DEF FirstSector1, FirstSector2, S, D

\* A number the registers hold is the number of the sector the BIOS reads.
LEMMA AddressedWord ==
  ASSUME image \in Images, NEW lba \in 0 .. (WordMod - 1)
  PROVE  Addressed(lba) = lba
BY ImageSize, ChsAddressesSector DEF Addressed

\* The high byte that is added to the factor is a multiple of the segment.
LEMMA AdvanceIs ==
  ASSUME image \in Images
  PROVE  Advance = SecPerClus(image.secs)
BY ImageSize DEF Advance, RsvdSecCnt, SegmentSectors

LEMMA PointerSteps ==
  ASSUME NEW s \in {4, 8, 16, 32, 64}, NEW p \in 0 .. 127, p % s = 0
  PROVE  p + s <= 128 /\ ((p + s) % 128) % s = 0
<1>1. CASE s = 4  BY <1>1
<1>2. CASE s = 8  BY <1>2
<1>3. CASE s = 16  BY <1>3
<1>4. CASE s = 32  BY <1>4
<1>5. CASE s = 64  BY <1>5
<1> QED BY <1>1, <1>2, <1>3, <1>4, <1>5

-----------------------------------------------------------------------------
(* Types, and what is left of the tries *)

Shape ==
  /\ pc1 = "scan" => bufData1 = data_loc(image.secs)
  /\ tmp \in Nat \cup {Unread} /\ bufData2 \in Nat \cup {Unread} /\ rootLba \in Nat
  /\ pc2 = "scan" => slot2 < SlotsPerSector
  /\ pointer2 % SecPerClus(image.secs) = 0
  /\ pc1 = "fail" <=> tries = 0
  /\ fails1 + tries >= Retries

LEMMA InitShape == Init => TypeOK /\ Shape
<1> SUFFICES ASSUME Init PROVE TypeOK /\ Shape
  OBVIOUS
<1>1. image \in Images /\ SecPerClus(image.secs) \in {4, 8, 16, 32, 64} /\ data_loc(image.secs) \in Nat
  BY ImageSize, DataWord, Words DEF Init
<1>2. 0 % SecPerClus(image.secs) = 0
  BY <1>1
<1> QED BY <1>1, <1>2, Fails1Assumption, Fails2Assumption, Words
        DEF Init, Init1, Init2, TypeOK, Shape, KernelCode, Retries, SegmentSectors, SlotsPerSector

LEMMA Stage1Shape ==
  ASSUME TypeOK, Shape, Next1, UNCHANGED vars2
  PROVE  TypeOK' /\ Shape'
<1> USE DEF vars2
<1>1. image \in Images /\ SecPerClus(image.secs) \in {4, 8, 16, 32, 64} /\ image' = image
  BY ImageSize DEF TypeOK, Next1, ReadFailed, ReadFat, ReadRoot, Scan, ReadCluster, Follow
<1>2. CASE ReadFailed
  BY <1>2, <1>1, Fails1Assumption DEF ReadFailed, TypeOK, Shape, Retries
<1>3. CASE ReadFat
  BY <1>3, <1>1 DEF ReadFat, ReadDone, TypeOK, Shape, Retries
<1>4. CASE ReadRoot
  <2>1. bufData1' = data_loc(image.secs)
    BY <1>1, <1>4, DataWord, AddressedWord DEF ReadRoot
  <2> QED BY <1>1, <1>4, <2>1 DEF ReadRoot, ReadDone, TypeOK, Shape, Retries
<1>5. CASE Scan
  <2>1. slot1' \in 0 .. SlotsPerSector /\ cluster1' \in 0 .. (WordMod - 1)
        /\ pc1' \in {"wild", "end1", "readCluster", "scan"}
    <3>1. SlotOf(image, bufData1, slot1).first \in Nat
      <4>1. bufData1 \in Nat /\ slot1 \in Nat
        BY <1>1, <1>5, DataWord, Words DEF Scan, Shape, TypeOK
      <4> QED BY <1>1, <4>1, SlotFirst
    <3>2. SlotOf(image, bufData1, slot1).first % WordMod \in 0 .. (WordMod - 1)
      BY <3>1, Words
    <3>3. slot1 \in 0 .. SlotsPerSector /\ cluster1 \in 0 .. (WordMod - 1)
      BY DEF TypeOK
    <3> QED BY <1>5, <3>2, <3>3 DEF Scan, SlotsPerSector
  <2>2. UNCHANGED <<image, mem, bufFat1, bufData1, pointer1, tries, fails1>> /\ pc1 = "scan"
    BY <1>5 DEF Scan
  <2> QED BY <2>1, <2>2 DEF TypeOK, Shape
<1>6. CASE ReadCluster
  <2>1. \A a \in DOMAIN mem' : a \in 0 .. (KernelOff + SegmentSectors - 1) /\ mem'[a] \in Nat \cup {Unread}
    <3> DEFINE at == pointer1
               lba == Addressed(FirstSector1(cluster1))
               S == SecPerClus(image.secs)
    <3>1. at \in 0 .. 127 /\ lba \in Nat
      <4>1. cluster1 \in Nat /\ pointer1 \in 0 .. 127
        BY Words DEF TypeOK, SegmentSectors
      <4>2. FirstSector1(cluster1) \in 0 .. (WordMod - 1)
        BY <1>1, <4>1, SectorWord
      <4> QED BY <1>1, <4>1, <4>2, AddressedWord, Words
    <3>2. mem' = [a \in DOMAIN mem \cup (at .. (at + S - 1)) |->
                    IF a \in at .. (at + S - 1) THEN lba + (a - at) ELSE mem[a]]
      BY <1>6 DEF ReadCluster, Stored
    <3>3. \A a \in DOMAIN mem : a \in 0 .. 383 /\ mem[a] \in Nat \cup {Unread}
      BY DEF TypeOK, KernelOff, SegmentSectors
    <3> HIDE DEF at, lba, S
    <3>4. S <= 64 /\ S \in Nat
      BY <1>1 DEF S
    <3>5. \A a \in at .. (at + S - 1) : a \in 0 .. 383 /\ lba + (a - at) \in Nat
      BY <3>1, <3>4
    <3>6. ASSUME NEW a \in DOMAIN mem' PROVE a \in 0 .. 383 /\ mem'[a] \in Nat \cup {Unread}
      <4>1. CASE a \in at .. (at + S - 1)
        <5>1. mem'[a] = lba + (a - at)
          BY <3>2, <4>1
        <5> QED BY <3>5, <4>1, <5>1
      <4>2. CASE a \notin at .. (at + S - 1)
        <5>1. a \in DOMAIN mem /\ mem'[a] = mem[a]
          BY <3>2, <4>2
        <5> QED BY <3>3, <5>1
      <4> QED BY <4>1, <4>2
    <3>7. KernelOff + SegmentSectors - 1 = 383
      BY DEF KernelOff, SegmentSectors
    <3> QED BY <3>6, <3>7
  <2>2. pointer1' \in 0 .. (SegmentSectors - 1)
    BY <1>1, <1>6, AdvanceIs DEF ReadCluster, TypeOK, SegmentSectors
  <2>3. pc1' \in {"wild", "follow"} /\ tries' = Retries
        /\ UNCHANGED <<image, bufFat1, bufData1, slot1, cluster1, fails1>>
    BY <1>6 DEF ReadCluster, ReadDone
  <2>4. UNCHANGED vars2
    OBVIOUS
  <2>5. TypeOK'
    BY <2>1, <2>2, <2>3 DEF TypeOK, Retries
  <2> QED BY <2>3, <2>5 DEF Shape, TypeOK, Retries
<1>7. CASE Follow
  <2>1. cluster1' \in 0 .. (WordMod - 1) /\ pc1' \in {"wild", "run", "readCluster"}
    <3>1. FatEntry(image, cluster1) \in Nat
      BY <1>1, EntryIsNumber DEF TypeOK
    <3>2. FatEntry(image, cluster1) % WordMod \in 0 .. (WordMod - 1)
      BY <3>1, Words
    <3> QED BY <1>7, <3>2 DEF Follow, TypeOK
  <2>2. UNCHANGED <<image, mem, bufFat1, bufData1, slot1, pointer1, tries, fails1>> /\ pc1 = "follow"
    BY <1>7 DEF Follow
  <2> QED BY <2>1, <2>2 DEF TypeOK, Shape
<1> QED BY <1>2, <1>3, <1>4, <1>5, <1>6, <1>7 DEF Next1

LEMMA Entry2Number ==
  ASSUME image \in Images, bufData2 \in Nat \cup {Unread}, slot2 \in Nat
  PROVE  Entry2.first \in Nat
<1>1. CASE bufData2 \in {0, Unread}
  BY <1>1 DEF Entry2, ZeroSlot, ContentsSlot
<1>2. CASE bufData2 \notin {0, Unread}
  <2>1. SlotOf(image, bufData2, slot2).first \in Nat
    BY <1>2, SlotFirst
  <2> QED BY <1>2, <2>1 DEF Entry2
<1> QED BY <1>1, <1>2

\* What a read leaves in tmp_buffer and how it counts.
LEMMA Int13Types ==
  ASSUME TypeOK, Shape, NEW lba \in Nat, Int13(lba)
  PROVE  tmp' \in Nat \cup {Unread} /\ fails2' \in 0 .. MaxFails2
BY Fails2Assumption DEF Int13, TypeOK, Shape

\* What eax holds is a number, and so is either half of it.
LEMMA EaxIsNat ==
  ASSUME high \in Nat, NEW low \in Nat
  PROVE  Eax(low) \in Nat
BY DEF Eax, WordMod

LEMMA HighIsNat == \A x \in Nat : x \div WordMod \in Nat
BY DEF WordMod

LEMMA WordIsNumber ==
  ASSUME NEW img \in Images, NEW lba, NEW c \in Nat
  PROVE  FatWord(img, lba, c) \in Nat
<1>1. CASE InFirstFat(img, lba)
  <2>1. FATSz32(img.secs) \in Nat /\ FirstFatSector \in Nat
    BY ImageSize, FatSizeBounds DEF FirstFatSector, RsvdSecCnt
  <2>2. lba \in Int /\ lba >= FirstFatSector
    BY <1>1, <2>1 DEF InFirstFat
  <2>3. (lba - FirstFatSector) * EntriesPerSector + (c % EntriesPerSector) \in Nat
    BY <2>1, <2>2 DEF EntriesPerSector
  <2> QED BY <1>1, <2>3, EntryIsNumber DEF FatWord
<1>2. CASE ~ InFirstFat(img, lba)
  BY <1>2 DEF FatWord
<1> QED BY <1>1, <1>2

LEMMA Stage2Shape ==
  ASSUME TypeOK, Shape, Next2, UNCHANGED vars1
  PROVE  TypeOK' /\ Shape'
<1> USE DEF vars1
<1>1. image \in Images /\ SecPerClus(image.secs) \in {4, 8, 16, 32, 64} /\ image' = image
  BY ImageSize DEF TypeOK, Next2, Start, ReadBoot, ReadRootSector, ScanEntry, NotFound, Found,
                   ReadSector, GarbageGeometry, ReadFatSector, FollowEntry
<1>2. CASE Start
  BY <1>1, <1>2 DEF Start, TypeOK, Shape
<1>3. CASE ReadBoot
  <2>1. tmp' \in Nat \cup {Unread} /\ fails2' \in 0 .. MaxFails2
    BY <1>3, Int13Types DEF ReadBoot
  <2> QED BY <1>3, <2>1 DEF ReadBoot, TypeOK, Shape
<1>4. CASE ReadRootSector
  <2>1. tmp' \in Nat \cup {Unread} /\ fails2' \in 0 .. MaxFails2
    BY <1>4, Int13Types DEF ReadRootSector, Shape
  <2> QED BY <1>4, <2>1 DEF ReadRootSector, TypeOK, Shape, RootStep, SlotsPerSector
<1>5. CASE ScanEntry
  <2>1. UNCHANGED <<image, mem, bootsect, bufFat2, bufData2, tmp, rootLba, cluster2, high, pointer2,
                    sector, fails2>>
        /\ pc2 = "scan" /\ pc2' \in {"notFound", "found", "readRoot", "scan"}
    BY <1>5, Zenon DEF ScanEntry
  <2>2. slot2' \in {slot2, slot2 + 1} /\ (pc2' = "scan" => slot2' # SlotsPerSector)
    BY <1>5 DEF ScanEntry, Shape
  <2>3. slot2' \in 0 .. SlotsPerSector /\ (pc2' = "scan" => slot2' < SlotsPerSector)
    BY <2>1, <2>2 DEF TypeOK, Shape, SlotsPerSector
  <2> QED BY <2>1, <2>3 DEF TypeOK, Shape
<1>6. CASE NotFound
  BY <1>1, <1>6 DEF NotFound, TypeOK, Shape
<1>7. CASE Found
  <2>1. cluster2' \in 0 .. (WordMod - 1) /\ high' \in Nat /\ pc2' \in {"wild", "readCluster"}
    <3>1. Entry2.first \in Nat
      BY <1>1, Entry2Number DEF TypeOK, Shape, SlotsPerSector
    <3>2. Entry2.first % WordMod \in 0 .. (WordMod - 1) /\ Entry2.first \div WordMod \in Nat
      BY <3>1, Words, HighIsNat
    <3> QED BY <1>7, <3>2 DEF Found, TypeOK
  <2>2. UNCHANGED <<image, mem, bootsect, bufFat2, bufData2, tmp, rootLba, slot2, pointer2, sector, fails2>>
    BY <1>7 DEF Found
  <2> QED BY <2>1, <2>2 DEF TypeOK, Shape
<1>8. CASE ReadSector
  <2> DEFINE S == SecPerClus(image.secs)
             at == KernelOff + pointer2 + sector
  <2>1. tmp' \in Nat \cup {Unread} /\ fails2' \in 0 .. MaxFails2
    <3>1. Eax(FirstSector2(cluster2) + sector) \in Nat
      <4>1. FirstSector2(cluster2) \in Nat /\ sector \in Nat
        BY <1>1, SectorWord, Words DEF TypeOK
      <4> QED BY <4>1, EaxIsNat DEF TypeOK
    <3> QED BY <1>8, <3>1, Int13Types DEF ReadSector
  <2>2. pointer2 \in 0 .. 127 /\ pointer2 + S <= 128 /\ (pointer2 + S) % 128 \in 0 .. 127
        /\ ((pointer2 + S) % 128) % S = 0 /\ pointer2 % S = 0 /\ sector \in 0 .. (S - 1)
    <3>1. pointer2 \in 0 .. 127 /\ pointer2 % S = 0 /\ sector \in 0 .. (S - 1)
      BY DEF TypeOK, Shape, SegmentSectors
    <3>2. pointer2 + S <= 128 /\ ((pointer2 + S) % 128) % S = 0
      BY <1>1, <3>1, PointerSteps
    <3> QED BY <1>1, <3>1, <3>2
  <2>3. \A a \in DOMAIN mem' : a \in 0 .. (KernelOff + SegmentSectors - 1) /\ mem'[a] \in Nat \cup {Unread}
    <3>1. mem' = [a \in DOMAIN mem \cup {at} |-> IF a = at THEN tmp' ELSE mem[a]]
      BY <1>8 DEF ReadSector
    <3>2. at \in 0 .. 383
      BY <1>1, <2>2 DEF KernelOff
    <3>3. \A a \in DOMAIN mem : a \in 0 .. 383 /\ mem[a] \in Nat \cup {Unread}
      BY DEF TypeOK, KernelOff, SegmentSectors
    <3> HIDE DEF at
    <3> QED BY <2>1, <3>1, <3>2, <3>3 DEF KernelOff, SegmentSectors
  <2>4. UNCHANGED <<image, bootsect, bufFat2, bufData2, rootLba, slot2, cluster2>>
        /\ pc2' \in {pc2, "readFat"} /\ pc2 = "readCluster"
    BY <1>8 DEF ReadSector
  <2>5. sector' \in 0 .. (S - 1) /\ pointer2' \in 0 .. 127 /\ pointer2' % S = 0
    <3>1. CASE sector + 1 < S
      <4>1. sector' = sector + 1 /\ pointer2' = pointer2
        BY <1>8, <3>1 DEF ReadSector
      <4> QED BY <1>1, <2>2, <3>1, <4>1
    <3>2. CASE ~ (sector + 1 < S)
      <4>1. sector' = 0 /\ pointer2' = (pointer2 + S) % 128
        BY <1>1, <1>8, <3>2, AdvanceIs DEF ReadSector, SegmentSectors
      <4> QED BY <1>1, <2>2, <4>1
    <3> QED BY <3>1, <3>2
  <2>7. high' \in Nat
    <3>1. FirstSector2(cluster2) + sector + 1 \in Nat
      BY <1>1, SectorWord, Words DEF TypeOK
    <3>2. Eax(FirstSector2(cluster2) + sector + 1) \div WordMod \in Nat
      BY <3>1, EaxIsNat, HighIsNat DEF TypeOK
    <3> QED BY <1>8, <3>2 DEF ReadSector, TypeOK
  <2> HIDE DEF S, at
  <2>6. TypeOK'
    BY <2>1, <2>3, <2>4, <2>5, <2>7 DEF TypeOK, SegmentSectors, S
  <2> QED BY <2>1, <2>4, <2>5, <2>6 DEF Shape, S
<1>9. CASE GarbageGeometry
  BY <1>1, <1>9 DEF GarbageGeometry, TypeOK, Shape
<1>10. CASE ReadFatSector
  <2>1. tmp' \in Nat \cup {Unread} /\ fails2' \in 0 .. MaxFails2
    <3>1. Eax(FatSector(cluster2)) \in Nat
      <4>1. cluster2 \in Nat
        BY Words DEF TypeOK
      <4>2. cluster2 \div EntriesPerSector + fat_loc \in Int
        BY <4>1 DEF EntriesPerSector, fat_loc, RsvdSecCnt
      <4>3. FatSector(cluster2) \in Nat
        BY <4>2, Words DEF FatSector
      <4> QED BY <4>3, EaxIsNat DEF TypeOK
    <3> QED BY <1>10, <3>1, Int13Types DEF ReadFatSector
  <2> QED BY <1>10, <2>1 DEF ReadFatSector, TypeOK, Shape
<1>11. CASE FollowEntry
  <2>1. cluster2' \in 0 .. (WordMod - 1) /\ high' \in Nat
        /\ pc2' \in {"wild", "kernel", "readCluster"}
    <3> DEFINE next == FatWord(image, bufFat2, cluster2)
    <3>1. next \in Nat
      BY <1>1, WordIsNumber, Words DEF TypeOK
    <3>2. next % WordMod \in 0 .. (WordMod - 1)
      BY <3>1, Words
    <3>3. \/ UNCHANGED <<cluster2, high>> /\ pc2' \in {"wild", "kernel"}
          \/ pc2' = "readCluster" /\ cluster2' = next % WordMod /\ high' = 0
      BY <1>11 DEF FollowEntry
    <3> HIDE DEF next
    <3> QED BY <3>2, <3>3 DEF TypeOK
  <2>2. UNCHANGED <<image, mem, bootsect, bufFat2, bufData2, tmp, rootLba, slot2, pointer2, sector, fails2>>
    BY <1>11 DEF FollowEntry
  <2> QED BY <2>1, <2>2 DEF TypeOK, Shape
<1> QED BY <1>2, <1>3, <1>4, <1>5, <1>6, <1>7, <1>8, <1>9, <1>10, <1>11 DEF Next2

LEMMA StepShape == TypeOK /\ Shape /\ [Next]_vars => TypeOK' /\ Shape'
<1> SUFFICES ASSUME TypeOK, Shape, [Next]_vars PROVE TypeOK' /\ Shape'
  OBVIOUS
<1>1. CASE Stage1
  BY <1>1, Stage1Shape DEF Stage1
<1>2. CASE Stage2
  BY <1>2, Stage2Shape DEF Stage2
<1>3. CASE Stopped \/ UNCHANGED vars
  BY <1>3 DEF Stopped, vars, vars1, vars2, TypeOK, Shape
<1> QED BY <1>1, <1>2, <1>3 DEF Next

LEMMA ShapeKept == Spec => [](TypeOK /\ Shape)
BY InitShape, StepShape, PTL DEF Spec

\* The types of both loaders; sectors are loaded into two segments only
\* (boot.s:107-143, bootloader.asm:125-181).
THEOREM BootTypes == Spec => []TypeOK
BY ShapeKept, PTL

\* Stage 1 stops for a read only after three failures (boot.s:203-217).
THEOREM SurvivesTwoFailures == Spec => []TwoFailuresSurvived
<1>1. TypeOK /\ Shape => TwoFailuresSurvived
  BY DEF TypeOK, Shape, TwoFailuresSurvived, Retries
<1> QED BY <1>1, ShapeKept, PTL

-----------------------------------------------------------------------------
(* What stage 1 has loaded *)

ClusterSectors == SecPerClus(image.secs)
DataStart == FirstDataSector(image.secs)
LoaderFirst == FirstOf(image, EntryOf(image, Stage1Name))
LoaderCount == image.root[EntryOf(image, Stage1Name)].count

\* The first n clusters of stage 2, or of where 16 bits put them.
Copied(n) ==
  \A q \in 0 .. (n - 1), r \in 0 .. (ClusterSectors - 1) :
    /\ (KernelCode + q * ClusterSectors + r) \in DOMAIN mem
    /\ mem[KernelCode + q * ClusterSectors + r] =
         (((LoaderFirst + q - 2) * ClusterSectors + DataStart) % WordMod) + r

\* An entry without clusters: stage 1 goes from cluster 0 to one past its FAT sector.
Empty == LoaderCount = 0 /\ pc1 # "run" /\ cluster1 \in {0, FatZero % WordMod}

\* A first cluster that 16 bits do not hold: the wrong sectors are loaded.
High ==
  /\ LoaderCount > 0 /\ LoaderFirst >= WordMod
  /\ pc1 # "readCluster" \/ pointer1 # KernelCode =>
       KernelCode \in DOMAIN mem /\ mem[KernelCode] \in 0 .. (WordMod - 1)

\* A first cluster past the FAT sector: stage 1 gets no further than it.
Beyond ==
  /\ LoaderCount > 0 /\ EntriesPerSector <= LoaderFirst /\ LoaderFirst < WordMod
  /\ pc1 # "run" /\ cluster1 = LoaderFirst

Near(n) ==
  /\ LoaderCount > 0 /\ LoaderFirst < EntriesPerSector
  /\ Copied(n) /\ n <= LoaderCount /\ KernelCode + n * ClusterSectors <= SegmentSectors
  /\ pc1 # "run" => pointer1 = (KernelCode + n * ClusterSectors) % SegmentSectors
  /\ pc1 = "readCluster" => n < LoaderCount /\ cluster1 = LoaderFirst + n
  /\ pc1 = "follow" => n >= 1 /\ cluster1 = LoaderFirst + n - 1
  /\ pc1 = "run" => n = LoaderCount

Loads == pc1 \in {"readCluster", "follow", "run"}
Loading ==
  /\ pc1 \in {"readFat", "readRoot", "scan"} => pointer1 = KernelCode
  /\ Loads =>
       /\ HasEntry(image, Stage1Name) /\ DataStart < WordMod
       /\ Empty \/ High \/ Beyond \/ \E n \in Nat : Near(n)

\* The data of a disk with clusters of 16 sectors or more begin past 65536.
LEMMA ShortClusters ==
  ASSUME NEW img \in Images, FirstDataSector(img.secs) < WordMod
  PROVE  SecPerClus(img.secs) \in {4, 8}
BY ImageSize, SecPerClusBySize, FatSizeBounds DEF FirstDataSector, WordMod, RsvdSecCnt, NumFATs, DiskSize

\* The only entry with its name.
LEMMA OnlyEntry ==
  ASSUME NEW img \in Images, NEW i \in DOMAIN img.root, NEW name, img.root[i].name = name
  PROVE  HasEntry(img, name) /\ EntryOf(img, name) = i
<1>1. \A k \in DOMAIN img.root : img.root[k].name = name => k = i
  BY DiskAssumption
<1> QED BY <1>1 DEF HasEntry, EntryOf

\* The figures of a disk whose data 16 bits can get at.
LEMMA DataFigures ==
  ASSUME image \in Images, DataStart < WordMod
  PROVE  /\ ClusterSectors \in {4, 8}
         /\ DataStart \in Nat /\ DataStart > 0 /\ data_loc(image.secs) = DataStart
<1>1. DataStart \in Nat /\ DataStart > 0
  BY ImageSize, FatSizeBounds DEF DataStart, FirstDataSector, RsvdSecCnt, NumFATs
<1>2. DataStart % WordMod = DataStart
  BY <1>1, Words
<1> QED BY <1>1, <1>2, ShortClusters DEF ClusterSectors, DataStart, data_loc

\* The figures of the node that is loaded.
LEMMA LoaderFigures ==
  ASSUME image \in Images, HasEntry(image, Stage1Name), DataStart < WordMod
  PROVE  /\ ClusterSectors \in {4, 8}
         /\ DataStart \in Nat /\ data_loc(image.secs) = DataStart
         /\ EntryOf(image, Stage1Name) \in DOMAIN image.root
         /\ LoaderFirst \in Nat /\ LoaderFirst >= 3 /\ LoaderCount \in Nat
<1>1. EntryOf(image, Stage1Name) \in DOMAIN image.root
  BY DEF HasEntry, EntryOf
<1>2. LoaderFirst \in Nat /\ LoaderFirst >= 3 /\ LoaderCount \in Nat
  BY <1>1, NodeSpan DEF LoaderFirst, LoaderCount
<1> QED BY <1>1, <1>2, DataFigures

LEMMA ScanLoading ==
  ASSUME TypeOK, Shape, Loading, Scan
  PROVE  Loading'
<1> DEFINE e == SlotOf(image, bufData1, slot1)
           D == FirstDataSector(image.secs)
           n == (bufData1 - D) * SlotsPerSector + slot1 + 1
<1>0. /\ pc1 = "scan" /\ pointer1 = KernelCode /\ image \in Images
      /\ bufData1 = data_loc(image.secs) /\ bufData1 \in 0 .. (WordMod - 1) /\ slot1 \in Nat
      /\ UNCHANGED <<image, mem, pointer1>>
  BY DataWord DEF Scan, Loading, Shape, TypeOK
<1>1. CASE pc1' \notin {"readCluster"}
  <2>1. pc1' \in {"wild", "end1", "scan"}
    BY <1>0, <1>1 DEF Scan
  <2> QED BY <1>0, <2>1 DEF Loading, Loads
<1>2. CASE pc1' = "readCluster"
  <2>1. e.name = Stage1Name /\ cluster1' = e.first % WordMod
    BY <1>0, <1>2 DEF Scan
  <2>2. e \notin {ZeroSlot, ContentsSlot}
    BY <2>1 DEF ZeroSlot, ContentsSlot, Stage1Name
  <2>3. bufData1 \in Nat
    BY <1>0, Words
  <2>4. /\ D <= bufData1 /\ n \in DOMAIN image.root
        /\ e = [name |-> image.root[n].name,
                first |-> IF image.root[n].count = 0 THEN 0 ELSE FirstOf(image, n)]
    BY <1>0, <2>2, <2>3, SlotKinds
  <2> HIDE DEF e, n
  <2>5. EntryOf(image, Stage1Name) = n /\ HasEntry(image, Stage1Name)
    <3>1. image.root[n].name = Stage1Name
      BY <2>1, <2>4
    <3> QED BY <1>0, <2>4, <3>1, OnlyEntry
  <2>6. D < WordMod /\ DataStart = D
    <3>1. D \in Int
      BY <1>0, ImageSize, FatSizeBounds DEF FirstDataSector, RsvdSecCnt, NumFATs
    <3>2. bufData1 < WordMod
      BY <1>0, Words
    <3> HIDE DEF D
    <3>3. D < WordMod
      BY <2>3, <2>4, <3>1, <3>2, Words
    <3> QED BY <3>3 DEF D, DataStart
  <2>7. e.first = IF LoaderCount = 0 THEN 0 ELSE LoaderFirst
    BY <2>4, <2>5 DEF LoaderCount, LoaderFirst
  <2>8. LoaderFirst \in Nat /\ LoaderFirst >= 3 /\ LoaderCount \in Nat /\ ClusterSectors \in {4, 8}
    BY <1>0, <2>5, <2>6, LoaderFigures
  <2>9. /\ UNCHANGED <<LoaderFirst, LoaderCount, ClusterSectors, DataStart>>
        /\ HasEntry(image, Stage1Name)' /\ (DataStart < WordMod)' /\ pointer1' = KernelCode
    BY <1>0, <2>5, <2>6 DEF LoaderFirst, LoaderCount, ClusterSectors, DataStart
  <2>10. Empty' \/ High' \/ Beyond' \/ Near(0)'
    <3>1. CASE LoaderCount = 0
      <4>1. cluster1' = 0
        BY <2>1, <2>7, <3>1, Words
      <4> QED BY <1>2, <2>9, <3>1, <4>1 DEF Empty
    <3>2. CASE LoaderCount > 0 /\ LoaderFirst >= WordMod
      BY <1>2, <2>9, <3>2 DEF High
    <3>3. CASE LoaderCount > 0 /\ LoaderFirst < WordMod
      <4>1. cluster1' = LoaderFirst
        <5>1. LoaderFirst % WordMod = LoaderFirst
          BY <2>8, <3>3, Words
        <5> QED BY <2>1, <2>7, <2>8, <3>3, <5>1
      <4>2. CASE EntriesPerSector <= LoaderFirst
        BY <1>2, <2>9, <3>3, <4>1, <4>2 DEF Beyond
      <4>3. CASE LoaderFirst < EntriesPerSector
        <5>1. 0 * ClusterSectors = 0 /\ (KernelCode + 0 * ClusterSectors) % SegmentSectors = KernelCode
          BY <2>8 DEF KernelCode, SegmentSectors
        <5>2. Copied(0)'
          BY DEF Copied
        <5> QED BY <1>2, <2>8, <2>9, <3>3, <4>1, <4>3, <5>1, <5>2 DEF Near, KernelCode, SegmentSectors
      <4> QED BY <2>8, <4>2, <4>3 DEF EntriesPerSector
    <3> QED BY <2>8, <3>1, <3>2, <3>3, Words
  <2> QED BY <1>2, <2>9, <2>10 DEF Loading, Loads
<1> QED BY <1>1, <1>2

\* The figures do not change, and neither does what stays in memory.
LEMMA CopiedKept ==
  ASSUME ClusterSectors \in {4, 8}, NEW n \in Nat, Copied(n), image' = image,
         KernelCode + n * ClusterSectors <= SegmentSectors,
         \A a \in DOMAIN mem : KernelCode <= a /\ a < KernelCode + n * ClusterSectors =>
                                 a \in DOMAIN mem' /\ mem'[a] = mem[a]
  PROVE  Copied(n)'
<1>1. ASSUME NEW q \in 0 .. (n - 1), NEW r \in 0 .. (ClusterSectors - 1)
      PROVE  LET a == KernelCode + q * ClusterSectors + r
             IN  KernelCode <= a /\ a < KernelCode + n * ClusterSectors /\ a \in DOMAIN mem
  <2>1. KernelCode + q * ClusterSectors + r \in DOMAIN mem
    BY DEF Copied
  <2>2. CASE ClusterSectors = 4
    BY <2>1, <2>2 DEF KernelCode
  <2>3. CASE ClusterSectors = 8
    BY <2>1, <2>3 DEF KernelCode
  <2> QED BY <2>2, <2>3
<1>2. UNCHANGED <<LoaderFirst, ClusterSectors, DataStart>>
  BY DEF LoaderFirst, ClusterSectors, DataStart
<1> HIDE DEF KernelCode, ClusterSectors, LoaderFirst, DataStart
<1>3. ASSUME NEW q \in 0 .. (n - 1), NEW r \in 0 .. (ClusterSectors - 1)
      PROVE  LET a == KernelCode + q * ClusterSectors + r
             IN  a \in DOMAIN mem' /\ mem'[a] = (((LoaderFirst + q - 2) * ClusterSectors + DataStart) % WordMod) + r
  <2> DEFINE a == KernelCode + q * ClusterSectors + r
  <2>1. a \in DOMAIN mem' /\ mem'[a] = mem[a]
    BY <1>1
  <2>2. mem[a] = (((LoaderFirst + q - 2) * ClusterSectors + DataStart) % WordMod) + r
    BY DEF Copied
  <2> QED BY <2>1, <2>2
<1> QED BY <1>2, <1>3 DEF Copied

LEMMA ReadClusterLoading ==
  ASSUME TypeOK, Loading, ReadCluster
  PROVE  Loading'
<1> DEFINE S == ClusterSectors
           lba == Addressed(FirstSector1(cluster1))
<1>0. /\ pc1 = "readCluster" /\ image \in Images /\ image' = image
      /\ HasEntry(image, Stage1Name) /\ DataStart < WordMod
      /\ UNCHANGED cluster1 /\ cluster1 \in Nat /\ pointer1 \in 0 .. 127
      /\ pc1' \in {"wild", "follow"} /\ (pc1' = "follow" <=> pointer1 >= KernelCode)
  BY Words DEF ReadCluster, ReadDone, Loading, Loads, TypeOK, KernelCode, SegmentSectors
<1>1. /\ S \in {4, 8} /\ DataStart \in Nat /\ data_loc(image.secs) = DataStart
      /\ LoaderFirst \in Nat /\ LoaderFirst >= 3 /\ LoaderCount \in Nat
  BY <1>0, LoaderFigures
<1>2. UNCHANGED <<LoaderFirst, LoaderCount, ClusterSectors, DataStart>>
      /\ HasEntry(image, Stage1Name)' /\ (DataStart < WordMod)'
  BY <1>0 DEF LoaderFirst, LoaderCount, ClusterSectors, DataStart
<1>3. lba = FirstSector1(cluster1) /\ lba \in 0 .. (WordMod - 1) /\ lba \in Nat
  BY <1>0, SectorWord, AddressedWord, Words
<1>4. /\ mem' = [a \in DOMAIN mem \cup (pointer1 .. (pointer1 + S - 1)) |->
                   IF a \in pointer1 .. (pointer1 + S - 1) THEN lba + (a - pointer1) ELSE mem[a]]
      /\ pointer1' = (pointer1 + S) % SegmentSectors
  BY <1>0, AdvanceIs DEF ReadCluster, Stored, ClusterSectors
<1>5. CASE pc1' = "wild"
  BY <1>5 DEF Loading, Loads
<1>6. CASE pc1' = "follow"
  <2>1. pointer1 >= 72
    BY <1>0, <1>6 DEF KernelCode
  <2>2. CASE Empty
    BY <1>0, <1>2, <1>6, <2>2 DEF Empty, Loading, Loads
  <2>3. CASE High
    <3>1. 72 \in DOMAIN mem' /\ mem'[72] \in 0 .. (WordMod - 1)
      <4>1. CASE pointer1 = 72
        <5>1. 72 \in pointer1 .. (pointer1 + S - 1) /\ 72 - pointer1 = 0
          BY <1>1, <4>1
        <5>2. 72 \in DOMAIN mem' /\ mem'[72] = lba + 0
          BY <1>4, <5>1
        <5> HIDE DEF lba
        <5> QED BY <1>3, <5>2
      <4>2. CASE pointer1 # 72
        <5>1. 72 \notin pointer1 .. (pointer1 + S - 1) /\ 72 \in DOMAIN mem /\ mem[72] \in 0 .. (WordMod - 1)
          BY <1>0, <2>1, <2>3, <4>2 DEF High, KernelCode
        <5> QED BY <1>4, <5>1
      <4> QED BY <4>1, <4>2
    <3>2. High'
      BY <1>2, <2>3, <3>1 DEF High, KernelCode
    <3> QED BY <1>2, <1>6, <3>2 DEF Loading, Loads
  <2>4. CASE Beyond
    BY <1>0, <1>2, <1>6, <2>4 DEF Beyond, Loading, Loads
  <2>5. ASSUME NEW n \in Nat, Near(n) PROVE Near(n + 1)'
    <3>1. /\ LoaderCount > 0 /\ LoaderFirst < 128 /\ Copied(n) /\ 72 + n * S <= 128
          /\ n < LoaderCount /\ cluster1 = LoaderFirst + n /\ pointer1 = (72 + n * S) % 128
      BY <1>0, <2>5 DEF Near, EntriesPerSector, KernelCode, SegmentSectors
    <3>2. pointer1 = 72 + n * S /\ 72 + (n + 1) * S <= 128 /\ n <= 14 /\ (n + 1) * S = n * S + S
          /\ (pointer1 + S) % 128 = (72 + (n + 1) * S) % 128
      <4>1. CASE S = 4  BY <2>1, <3>1, <4>1
      <4>2. CASE S = 8  BY <2>1, <3>1, <4>2
      <4> QED BY <1>1, <4>1, <4>2
    <3>3. lba = ((LoaderFirst + n - 2) * S + DataStart) % WordMod
      <4>1. (cluster1 - 2) % 256 = LoaderFirst + n - 2
        BY <1>1, <3>1, <3>2
      <4> QED BY <1>1, <1>3, <4>1 DEF FirstSector1, ClusterSectors
    <3>4. ASSUME NEW q \in 0 .. n, NEW r \in 0 .. (S - 1)
          PROVE  LET a == 72 + q * S + r
                 IN  a \in DOMAIN mem' /\ mem'[a] = (((LoaderFirst + q - 2) * S + DataStart) % WordMod) + r
      <4> DEFINE a == 72 + q * S + r
      <4> HIDE DEF S, lba
      <4>1. CASE q = n
        <5>1. a \in pointer1 .. (pointer1 + S - 1) /\ a - pointer1 = r
          <6>1. CASE S = 4  BY <3>2, <4>1, <6>1
          <6>2. CASE S = 8  BY <3>2, <4>1, <6>2
          <6> QED BY <1>1, <6>1, <6>2
        <5> HIDE DEF a
        <5>2. a \in DOMAIN mem' /\ mem'[a] = lba + r
          BY <1>4, <5>1
        <5> QED BY <3>3, <4>1, <5>2 DEF a
      <4>2. CASE q # n
        <5>1. q \in 0 .. (n - 1)
          BY <4>2
        <5>2. a \notin pointer1 .. (pointer1 + S - 1)
          <6>1. CASE S = 4  BY <3>2, <5>1, <6>1
          <6>2. CASE S = 8  BY <3>2, <5>1, <6>2
          <6> QED BY <1>1, <6>1, <6>2
        <5>3. a \in DOMAIN mem /\ mem[a] = (((LoaderFirst + q - 2) * S + DataStart) % WordMod) + r
          BY <3>1, <5>1 DEF Copied, S, KernelCode
        <5> HIDE DEF a
        <5>4. a \in DOMAIN mem' /\ mem'[a] = mem[a]
          BY <1>4, <5>2, <5>3
        <5> QED BY <5>3, <5>4 DEF a
      <4> QED BY <4>1, <4>2
    <3>5. Copied(n + 1)'
      <4>1. (n + 1) - 1 = n
        OBVIOUS
      <4> QED BY <1>2, <3>4, <4>1 DEF Copied, KernelCode
    <3>6. pc1' = "follow" /\ cluster1' = LoaderFirst + (n + 1) - 1 /\ n + 1 >= 1 /\ n + 1 <= LoaderCount
      BY <1>0, <1>1, <1>6, <3>1
    <3>7. pointer1' = (72 + (n + 1) * S) % 128
      BY <1>4, <3>2 DEF SegmentSectors
    <3> QED BY <1>2, <3>1, <3>2, <3>5, <3>6, <3>7 DEF Near, EntriesPerSector, KernelCode, SegmentSectors
  <2>6. Empty \/ High \/ Beyond \/ \E n \in Nat : Near(n)
    BY <1>0 DEF Loading, Loads
  <2>7. CASE \E n \in Nat : Near(n)
    <3>1. PICK n \in Nat : Near(n)
      BY <2>7
    <3>2. n + 1 \in Nat /\ Near(n + 1)'
      BY <2>5, <3>1
    <3> QED BY <1>2, <1>6, <3>2 DEF Loading, Loads
  <2> QED BY <2>2, <2>3, <2>4, <2>6, <2>7
<1> QED BY <1>0, <1>5, <1>6

LEMMA FollowLoading ==
  ASSUME TypeOK, Loading, Follow
  PROVE  Loading'
<1> DEFINE next == FatEntry(image, cluster1)
<1>0. /\ pc1 = "follow" /\ image \in Images /\ HasEntry(image, Stage1Name) /\ DataStart < WordMod
      /\ UNCHANGED <<image, mem, pointer1>> /\ cluster1 \in Nat
      /\ pc1' \in {"wild", "run", "readCluster"}
  BY Words DEF Follow, Loading, Loads, TypeOK
<1>1. /\ ClusterSectors \in {4, 8} /\ LoaderFirst \in Nat /\ LoaderFirst >= 3 /\ LoaderCount \in Nat
      /\ EntryOf(image, Stage1Name) \in DOMAIN image.root
  BY <1>0, LoaderFigures
<1>2. UNCHANGED <<LoaderFirst, LoaderCount, ClusterSectors, DataStart>>
      /\ HasEntry(image, Stage1Name)' /\ (DataStart < WordMod)'
  BY <1>0 DEF LoaderFirst, LoaderCount, ClusterSectors, DataStart
<1>3. CASE pc1' = "wild"
  BY <1>3 DEF Loading, Loads
<1>4. CASE pc1' # "wild"
  <2>1. cluster1 < 128
    BY <1>0, <1>4 DEF Follow, EntriesPerSector
  <2>2. /\ IsLast(next) => pc1' = "run" /\ UNCHANGED cluster1
        /\ ~ IsLast(next) => pc1' = "readCluster" /\ cluster1' = next % WordMod
    BY <1>0, <1>4 DEF Follow
  <2>3. CASE Empty
    <3>1. FatZero % WordMod >= 128
      BY DEF FatZero, WordMod
    <3>2. cluster1 = 0
      BY <2>1, <2>3, <3>1 DEF Empty
    <3>3. next = FatZero
      <4>1. FatEntry(image, 0) = FatZero
        <5> DEFINE ends == {FirstOf(image, j) + image.root[j].count - 1 :
                              j \in {k \in DOMAIN image.root : image.root[k].count > 0}}
                           \cup {1 + RootClusters(image)}
        <5>1. /\ \A j \in DOMAIN image.root : FirstOf(image, j) \in Nat /\ FirstOf(image, j) >= 3
                                              /\ image.root[j].count \in Nat
              /\ RootClusters(image) \in Nat
          BY <1>0, NodeSpan, ImageRoot
        <5>2. 0 \notin ends /\ 0 # 1 /\ ~ (0 > 1)
          BY <5>1
        <5>3. FatEntry(image, 0) =
                CASE 0 = 0 -> FatZero [] 0 = 1 -> FatOne [] 0 \in ends -> EndOfChain
                  [] 0 > 1 /\ 0 < Total(image) /\ 0 \notin ends -> 0 + 1 [] OTHER -> 0
          BY Zenon DEF FatEntry
        <5> HIDE DEF ends
        <5> QED BY <5>2, <5>3, Zenon
      <4> QED BY <3>2, <4>1
    <3>4. ~ IsLast(next)
      BY <3>3 DEF IsLast, FatZero, EndOfChain
    <3>5. Empty'
      BY <1>2, <2>2, <2>3, <3>3, <3>4 DEF Empty
    <3> QED BY <1>2, <2>2, <3>4, <3>5 DEF Loading, Loads
  <2>4. CASE High
    <3>1. High'
      BY <1>0, <1>2, <2>4 DEF High
    <3> QED BY <1>0, <1>2, <1>4, <3>1 DEF Loading, Loads
  <2>5. CASE Beyond
    BY <1>1, <2>1, <2>5 DEF Beyond, EntriesPerSector
  <2>6. ASSUME NEW n \in Nat, Near(n) PROVE Near(n)'
    <3>1. /\ LoaderCount > 0 /\ LoaderFirst < EntriesPerSector /\ Copied(n)
          /\ KernelCode + n * ClusterSectors <= SegmentSectors /\ n <= LoaderCount
          /\ n >= 1 /\ cluster1 = LoaderFirst + n - 1
          /\ pointer1 = (KernelCode + n * ClusterSectors) % SegmentSectors
      BY <1>0, <2>6 DEF Near
    <3>2. Copied(n)'
      BY <1>0, <1>2, <3>1 DEF Copied
    <3>3. next = IF n = LoaderCount THEN EndOfChain ELSE LoaderFirst + n
      <4>1. n - 1 \in Nat /\ n - 1 < image.root[EntryOf(image, Stage1Name)].count
        BY <1>1, <3>1 DEF LoaderCount
      <4>2. FatEntry(image, FirstOf(image, EntryOf(image, Stage1Name)) + (n - 1)) =
              IF n - 1 = image.root[EntryOf(image, Stage1Name)].count - 1 THEN EndOfChain
              ELSE FirstOf(image, EntryOf(image, Stage1Name)) + (n - 1) + 1
        BY <1>0, <1>1, <4>1, ChainEntry
      <4>3. /\ LoaderFirst + (n - 1) = cluster1 /\ LoaderFirst + (n - 1) + 1 = LoaderFirst + n
            /\ n - 1 = LoaderCount - 1 <=> n = LoaderCount
        BY <1>1, <3>1
      <4> QED BY <4>2, <4>3 DEF LoaderFirst, LoaderCount
    <3>4. CASE n = LoaderCount
      <4>1. pc1' = "run"
        BY <2>2, <3>3, <3>4 DEF IsLast, EndOfChain
      <4> QED BY <1>0, <1>2, <3>1, <3>2, <3>4, <4>1 DEF Near
    <3>5. CASE n # LoaderCount
      <4>1. next = LoaderFirst + n /\ next \in Nat /\ next <= 128
        BY <1>1, <2>1, <3>1, <3>3, <3>5
      <4>2. ~ IsLast(next) /\ next % WordMod = next
        BY <4>1 DEF IsLast, EndOfChain, WordMod
      <4>3. pc1' = "readCluster" /\ cluster1' = LoaderFirst + n /\ n < LoaderCount
        BY <1>1, <2>2, <3>1, <3>5, <4>1, <4>2
      <4> QED BY <1>0, <1>2, <3>1, <3>2, <4>3 DEF Near
    <3> QED BY <3>4, <3>5
  <2>7. Empty \/ High \/ Beyond \/ \E n \in Nat : Near(n)
    BY <1>0 DEF Loading, Loads
  <2>8. CASE \E n \in Nat : Near(n)
    <3>1. PICK n \in Nat : Near(n)'
      BY <2>6, <2>8
    <3> QED BY <1>0, <1>2, <1>4, <3>1 DEF Loading, Loads
  <2> QED BY <2>3, <2>4, <2>5, <2>7, <2>8
<1> QED BY <1>3, <1>4

\* Nothing changes for stage 1 but, perhaps, that it gives up.
LEMMA SameLoading ==
  ASSUME Loading, pc1' \in {pc1, "fail"}, UNCHANGED <<image, mem, cluster1, pointer1>>
  PROVE  Loading'
<1>1. UNCHANGED <<LoaderFirst, LoaderCount, ClusterSectors, DataStart>>
  BY DEF LoaderFirst, LoaderCount, ClusterSectors, DataStart
<1>2. CASE pc1' = "fail"
  BY <1>2 DEF Loading, Loads
<1>3. CASE pc1' = pc1
  <2>1. Empty => Empty'
    BY <1>1, <1>3 DEF Empty
  <2>2. High => High'
    BY <1>1, <1>3 DEF High
  <2>3. Beyond => Beyond'
    BY <1>1, <1>3 DEF Beyond
  <2>4. ASSUME NEW n \in Nat PROVE Near(n) => Near(n)'
    <3>1. Copied(n) => Copied(n)'
      BY <1>1 DEF Copied
    <3> QED BY <1>1, <1>3, <3>1 DEF Near
  <2> QED BY <1>1, <1>3, <2>1, <2>2, <2>3, <2>4 DEF Loading, Loads
<1> QED BY <1>2, <1>3

\* Stage 2 writes from 0x20000 on.
LEMMA Stage2Memory ==
  ASSUME TypeOK, Next2
  PROVE  \A a \in DOMAIN mem : a < KernelOff => a \in DOMAIN mem' /\ mem'[a] = mem[a]
<1>1. CASE ReadSector
  <2> DEFINE at == KernelOff + pointer2 + sector
  <2>1. at \in Nat /\ at >= KernelOff
    BY ImageSize DEF TypeOK, KernelOff, SegmentSectors
  <2>2. mem' = [a \in DOMAIN mem \cup {at} |-> IF a = at THEN tmp' ELSE mem[a]]
    BY <1>1 DEF ReadSector
  <2>3. \A a \in DOMAIN mem : a \in Nat
    BY DEF TypeOK
  <2> HIDE DEF at
  <2> QED BY <2>1, <2>2, <2>3 DEF KernelOff
<1>2. CASE ~ ReadSector
  BY <1>2 DEF Next2, Start, ReadBoot, ReadRootSector, ScanEntry, NotFound, Found,
              GarbageGeometry, ReadFatSector, FollowEntry
<1> QED BY <1>1, <1>2

LEMMA Stage2Loading ==
  ASSUME TypeOK, Loading, Next2, UNCHANGED vars1, pc1 = "run"
  PROVE  Loading'
<1>1. UNCHANGED <<image, pc1, cluster1, pointer1>>
  BY DEF vars1, Next2, Start, ReadBoot, ReadRootSector, ScanEntry, NotFound, Found,
         ReadSector, GarbageGeometry, ReadFatSector, FollowEntry
<1>2. /\ image \in Images /\ HasEntry(image, Stage1Name) /\ DataStart < WordMod
      /\ High \/ \E n \in Nat : Near(n)
  BY DEF Loading, Loads, TypeOK, Empty, Beyond
<1>3. UNCHANGED <<LoaderFirst, LoaderCount, ClusterSectors, DataStart>>
      /\ HasEntry(image, Stage1Name)' /\ (DataStart < WordMod)'
  BY <1>1, <1>2 DEF LoaderFirst, LoaderCount, ClusterSectors, DataStart
<1>4. \A a \in DOMAIN mem : a < 256 => a \in DOMAIN mem' /\ mem'[a] = mem[a]
  BY Stage2Memory DEF KernelOff
<1>5. High => High'
  BY <1>1, <1>3, <1>4 DEF High, KernelCode
<1>6. ASSUME NEW n \in Nat, Near(n) PROVE Near(n)'
  <2>1. ClusterSectors \in {4, 8}
    BY <1>2, LoaderFigures
  <2>2. Copied(n) /\ 72 + n * ClusterSectors <= 128
    BY <1>6 DEF Near, KernelCode, SegmentSectors
  <2>3. \A a \in DOMAIN mem : KernelCode <= a /\ a < KernelCode + n * ClusterSectors =>
                                a \in DOMAIN mem' /\ mem'[a] = mem[a]
    <3>1. \A a \in DOMAIN mem : a \in Nat
      BY DEF TypeOK
    <3>2. n * ClusterSectors \in Nat
      BY <2>1
    <3>3. \A a \in DOMAIN mem : a < 72 + n * ClusterSectors => a < 256
      BY <2>2, <3>1, <3>2
    <3> QED BY <1>4, <3>3 DEF KernelCode
  <2>4. Copied(n)'
    BY <1>1, <2>1, <2>2, <2>3, CopiedKept DEF KernelCode, SegmentSectors
  <2> QED BY <1>1, <1>3, <1>6, <2>4 DEF Near
<1> QED BY <1>1, <1>2, <1>3, <1>5, <1>6 DEF Loading, Loads

LEMMA InitLoading == Init => Loading
BY DEF Init, Init1, Loading, Loads

LEMMA StepLoading == TypeOK /\ Shape /\ Loading /\ [Next]_vars => Loading'
<1> SUFFICES ASSUME TypeOK, Shape, Loading, [Next]_vars PROVE Loading'
  OBVIOUS
<1>1. CASE Stage1
  <2>1. CASE ReadFailed
    BY <2>1, SameLoading DEF ReadFailed
  <2>2. CASE ReadFat \/ ReadRoot
    BY <2>2 DEF ReadFat, ReadRoot, ReadDone, Loading, Loads
  <2>3. CASE Scan
    BY <2>3, ScanLoading
  <2>4. CASE ReadCluster
    BY <2>4, ReadClusterLoading
  <2>5. CASE Follow
    BY <2>5, FollowLoading
  <2> QED BY <1>1, <2>1, <2>2, <2>3, <2>4, <2>5 DEF Stage1, Next1
<1>2. CASE Stage2
  BY <1>2, Stage2Loading DEF Stage2, Stage2Runs
<1>3. CASE Stopped \/ UNCHANGED vars
  BY <1>3, SameLoading DEF Stopped, vars, vars1
<1> QED BY <1>1, <1>2, <1>3 DEF Next

LEMMA BootInvariant == Spec => [](TypeOK /\ Shape /\ Loading)
BY InitShape, StepShape, InitLoading, StepLoading, PTL DEF Spec

-----------------------------------------------------------------------------
(* What stage 1 hands over *)

\* Sector j of a file in memory, and on the disk.
LEMMA LoadedMeans ==
  ASSUME image \in Images, DataStart < WordMod, NEW at \in Nat, NEW name, HasEntry(image, name)
  PROVE  LET first == FirstOf(image, EntryOf(image, name))
             count == image.root[EntryOf(image, name)].count
         IN  /\ LoadedAt(at, name) <=>
                  \A j \in 0 .. (count * ClusterSectors - 1) :
                     /\ (at + j) \in DOMAIN mem
                     /\ mem[at + j] = DataStart + (first - 2) * ClusterSectors + j
             /\ SectorsInWord(image, EntryOf(image, name)) <=>
                  DataStart + (first - 2) * ClusterSectors
                    + (count * ClusterSectors - ClusterSectors) < WordMod
<1> DEFINE first == FirstOf(image, EntryOf(image, name))
           count == image.root[EntryOf(image, name)].count
           start == DataStart + (first - 2) * ClusterSectors
<1>1. start \in Int
  <2>1. EntryOf(image, name) \in DOMAIN image.root
    BY DEF HasEntry, EntryOf
  <2>2. ClusterSectors \in Int /\ DataStart \in Int /\ first \in Int
    BY <2>1, DataFigures, NodeSpan
  <2> HIDE DEF first
  <2> QED BY <2>2
<1>2. SectorOf(image, EntryOf(image, name), 0) = start
  BY <1>1 DEF SectorOf, FirstSectorOf, ClusterSectors, DataStart
<1>3. SectorsOf(image, EntryOf(image, name)) = count * ClusterSectors
  BY DEF SectorsOf, ClusterSectors
<1>4. \A j : SectorOf(image, EntryOf(image, name), j) = start + j
  BY DEF SectorOf, FirstSectorOf, ClusterSectors, DataStart
<1> HIDE DEF start, count
<1>5. LoadedAt(at, name) <=>
        \A j \in 0 .. (count * ClusterSectors - 1) :
           (at + j) \in DOMAIN mem /\ mem[at + j] = start + j
  BY <1>2, <1>3 DEF LoadedAt
<1>6. SectorsInWord(image, EntryOf(image, name)) <=>
        start + (count * ClusterSectors - ClusterSectors) < WordMod
  BY <1>3, <1>4 DEF SectorsInWord, ClusterSectors
<1> QED BY <1>5, <1>6 DEF start, count

\* Clusters that were read one after the other, each by its number in 16 bits.
ReadInto(at, first, count, S, D) ==
  \A q \in 0 .. (count - 1), r \in 0 .. (S - 1) :
    /\ (at + q * S + r) \in DOMAIN mem
    /\ mem[at + q * S + r] = (((first + q - 2) * S + D) % WordMod) + r

FileAt(at, first, count, S, D) ==
  \A j \in 0 .. (count * S - 1) :
    (at + j) \in DOMAIN mem /\ mem[at + j] = D + (first - 2) * S + j

\* They are the file exactly when none of these numbers wrapped.
LEMMA CopyIsRight ==
  ASSUME NEW S \in {4, 8}, NEW D \in Nat, NEW at \in Nat,
         NEW first \in Nat, first >= 3, NEW count \in Nat, count > 0,
         ReadInto(at, first, count, S, D)
  PROVE  FileAt(at, first, count, S, D) <=> D + (first - 2) * S + (count * S - S) < WordMod
<1> USE DEF FileAt
<1> DEFINE start == D + (first - 2) * S
           lastOne == start + (count * S - S)
<1>2. ASSUME NEW q \in 0 .. (count - 1), NEW r \in 0 .. (S - 1)
      PROVE  /\ (at + q * S + r) \in DOMAIN mem
             /\ mem[at + q * S + r] = ((start + q * S) % WordMod) + r
             /\ start + q * S \in Nat /\ start + q * S <= lastOne /\ q * S \in Nat
  <2>1. /\ (at + q * S + r) \in DOMAIN mem
        /\ mem[at + q * S + r] = (((first + q - 2) * S + D) % WordMod) + r
    BY DEF ReadInto
  <2>2. /\ (first + q - 2) * S + D = start + q * S
        /\ start + q * S \in Nat /\ start + q * S <= lastOne /\ q * S \in Nat
    <3>1. CASE S = 4  BY <3>1
    <3>2. CASE S = 8  BY <3>2
    <3> QED BY <3>1, <3>2
  <2> QED BY <2>1, <2>2
<1>3. ASSUME lastOne < WordMod, NEW j \in 0 .. (count * S - 1)
      PROVE  (at + j) \in DOMAIN mem /\ mem[at + j] = start + j
  <2> DEFINE q == j \div S
             r == j % S
  <2>1. q \in 0 .. (count - 1) /\ r \in 0 .. (S - 1) /\ q * S + r = j
    <3>1. CASE S = 4  BY <3>1
    <3>2. CASE S = 8  BY <3>2
    <3> QED BY <3>1, <3>2
  <2>2. start \in Nat /\ lastOne \in Int
    <3>1. CASE S = 4  BY <3>1
    <3>2. CASE S = 8  BY <3>2
    <3> QED BY <3>1, <3>2
  <2> HIDE DEF q, r, start, lastOne
  <2>3. start + q * S < WordMod /\ start + q * S \in Nat /\ q * S \in Nat
    BY <1>2, <1>3, <2>1, <2>2, Words
  <2>4. (start + q * S) % WordMod = start + q * S
    BY <2>3, Words
  <2>5. at + q * S + r = at + j
    BY <2>1, <2>3
  <2>6. (start + q * S) + r = start + j
    BY <2>1, <2>2, <2>3
  <2> QED BY <1>2, <2>1, <2>4, <2>5, <2>6
<1>4. ASSUME \A j \in 0 .. (count * S - 1) : mem[at + j] = start + j
      PROVE  lastOne < WordMod
  <2> DEFINE q == count - 1
  <2>1. q \in 0 .. (count - 1) /\ 0 \in 0 .. (S - 1)
    OBVIOUS
  <2>2. q * S + 0 \in 0 .. (count * S - 1) /\ lastOne = start + (q * S + 0)
        /\ q * S \in Nat /\ start \in Nat
    <3>1. CASE S = 4  BY <3>1
    <3>2. CASE S = 8  BY <3>2
    <3> QED BY <3>1, <3>2
  <2> HIDE DEF q, start, lastOne
  <2>3. mem[at + q * S + 0] = ((start + q * S) % WordMod) + 0
    BY <1>2, <2>1
  <2>4. at + q * S + 0 = at + (q * S + 0)
    BY <2>2
  <2>5. lastOne = (start + q * S) % WordMod
    <3>1. mem[at + (q * S + 0)] = start + (q * S + 0)
      BY <1>4, <2>2
    <3>2. ((start + q * S) % WordMod) + 0 = (start + q * S) % WordMod
      BY <2>2, Words
    <3> QED BY <2>2, <2>3, <2>4, <3>1, <3>2
  <2> QED BY <2>2, <2>5, Words
<1> HIDE DEF start, lastOne
<1>5. (\A j \in 0 .. (count * S - 1) : (at + j) \in DOMAIN mem /\ mem[at + j] = start + j)
      <=> lastOne < WordMod
  BY <1>3, <1>4
<1> QED BY <1>5, Zenon DEF start, lastOne

\* With a first cluster past 16 bits neither side of Stage2Complete holds.
LEMMA HighIsWrong ==
  ASSUME image \in Images, HasEntry(image, Stage1Name), DataStart < WordMod,
         High, pc1 = "run"
  PROVE  /\ ~ LoadedAt(KernelCode, Stage1Name)
         /\ ~ SectorsInWord(image, EntryOf(image, Stage1Name))
<1> DEFINE S == ClusterSectors
           start == DataStart + (LoaderFirst - 2) * S
<1>1. S \in {4, 8} /\ DataStart \in Nat /\ LoaderFirst \in Nat /\ LoaderCount \in Nat
  BY LoaderFigures
<1>2. /\ LoaderCount > 0 /\ LoaderFirst >= 65536
      /\ mem[KernelCode] \in Nat /\ mem[KernelCode] < 65536
  <2>1. LoaderCount > 0 /\ LoaderFirst >= WordMod
    BY DEF High
  <2>2. mem[KernelCode] \in Nat /\ mem[KernelCode] < WordMod
    BY Words DEF High
  <2> QED BY <2>1, <2>2 DEF WordMod
<1>3. start \in Nat /\ start >= 65536
  <2>1. CASE S = 4  BY <1>1, <1>2, <2>1
  <2>2. CASE S = 8  BY <1>1, <1>2, <2>2
  <2> QED BY <1>1, <2>1, <2>2
<1>4. 0 \in 0 .. (LoaderCount * S - 1) /\ LoaderCount * S - S >= 0
      /\ LoaderCount * S \in Nat /\ S \in Nat
  <2>1. CASE S = 4  BY <1>1, <1>2, <2>1
  <2>2. CASE S = 8  BY <1>1, <1>2, <2>2
  <2> QED BY <1>1, <2>1, <2>2
<1> HIDE DEF S, start
<1>5. ~ LoadedAt(KernelCode, Stage1Name)
  <2>1. KernelCode + 0 = KernelCode /\ start + 0 = start
    BY <1>3 DEF KernelCode
  <2>2. LoadedAt(KernelCode, Stage1Name) => mem[KernelCode + 0] = start + 0
    BY <1>4, LoadedMeans DEF S, start, LoaderFirst, LoaderCount, KernelCode
  <2> QED BY <1>2, <1>3, <2>1, <2>2
<1>6. ~ (start + (LoaderCount * S - S) < 65536)
  BY <1>3, <1>4
<1> QED BY <1>5, <1>6, LoadedMeans DEF S, start, LoaderFirst, LoaderCount, WordMod

\* All clusters read from the first FAT sector's part of the disk: stage 2 is
\* complete unless the number of a cluster's first sector has wrapped.
LEMMA NearIsRight ==
  ASSUME image \in Images, HasEntry(image, Stage1Name), DataStart < WordMod,
         NEW n \in Nat, Near(n), pc1 = "run"
  PROVE  LoadedAt(KernelCode, Stage1Name) <=> SectorsInWord(image, EntryOf(image, Stage1Name))
<1>1. /\ ClusterSectors \in {4, 8} /\ DataStart \in Nat /\ LoaderFirst \in Nat /\ LoaderFirst >= 3
      /\ LoaderCount \in Nat /\ LoaderCount > 0 /\ n = LoaderCount /\ Copied(n)
      /\ KernelCode \in Nat
  BY LoaderFigures DEF Near, KernelCode
<1>2. FileAt(KernelCode, LoaderFirst, LoaderCount, ClusterSectors, DataStart)
      <=> DataStart + (LoaderFirst - 2) * ClusterSectors
            + (LoaderCount * ClusterSectors - ClusterSectors) < WordMod
  <2> HIDE DEF ClusterSectors, DataStart, LoaderFirst, LoaderCount, KernelCode
  <2>1. ReadInto(KernelCode, LoaderFirst, LoaderCount, ClusterSectors, DataStart)
    BY <1>1 DEF Copied, ReadInto
  <2>2. /\ ClusterSectors \in {4, 8} /\ DataStart \in Nat /\ KernelCode \in Nat
        /\ LoaderFirst \in Nat /\ LoaderFirst >= 3 /\ LoaderCount \in Nat /\ LoaderCount > 0
    BY <1>1
  <2> QED BY <2>1, <2>2, CopyIsRight
<1> QED BY <1>1, <1>2, LoadedMeans DEF LoaderFirst, LoaderCount, FileAt

\* For every image, every size of the disk and whatever reads fail: stage 1 jumps
\* to a complete stage 2, or the number of one of its sectors had more than 16
\* bits (boot.s:107-143, 155-181).
THEOREM LoaderComplete == Spec => []Stage2Complete
<1>1. ASSUME TypeOK, Loading PROVE Stage2Complete
  <2>1. SUFFICES ASSUME pc1 = "run"
                 PROVE  LoadedAt(KernelCode, Stage1Name) <=>
                          SectorsInWord(image, EntryOf(image, Stage1Name))
    BY DEF Stage2Complete
  <2>2. /\ image \in Images /\ HasEntry(image, Stage1Name) /\ DataStart < WordMod
        /\ High \/ \E n \in Nat : Near(n)
    BY <1>1, <2>1 DEF Loading, Loads, TypeOK, Empty, Beyond
  <2> QED BY <2>1, <2>2, HighIsWrong, NearIsRight
<1> QED BY <1>1, BootInvariant, PTL

\* What runs is not written over: stage 2's own loads stay away from it, whatever
\* sector its 16-bit pointer has come to (bootloader.asm:124, 141-148).
THEOREM LoaderNotOverwritten == Spec => LoaderKept
<1> DEFINE Kept == \A j \in 0 .. (SectorsOf(image, EntryOf(image, Stage1Name)) - 1) :
                      mem'[KernelCode + j] = mem[KernelCode + j]
<1>1. ASSUME TypeOK, Loading, [Next]_vars, pc1 = "run" PROVE Kept
  <2>1. CASE mem' = mem
    BY <2>1
  <2>2. CASE Stage2
    <3>1. Next2 /\ LoadedAt(KernelCode, Stage1Name)
      BY <2>2 DEF Stage2, Stage2Runs
    <3>2. /\ image \in Images /\ HasEntry(image, Stage1Name) /\ DataStart < WordMod
          /\ High \/ \E n \in Nat : Near(n)
      BY <1>1 DEF Loading, Loads, TypeOK, Empty, Beyond
    <3>3. PICK n \in Nat : Near(n)
      BY <1>1, <3>1, <3>2, HighIsWrong
    <3>4. ClusterSectors \in {4, 8} /\ n = LoaderCount /\ 72 + n * ClusterSectors <= 128
      BY <1>1, <3>2, <3>3, LoaderFigures DEF Near, KernelCode, SegmentSectors
    <3>5. ASSUME NEW j \in 0 .. (LoaderCount * ClusterSectors - 1)
          PROVE  mem'[KernelCode + j] = mem[KernelCode + j]
      <4>1. (KernelCode + j) \in DOMAIN mem
        BY <3>1, <3>2, LoadedMeans DEF LoaderCount, KernelCode
      <4>2. KernelCode + j < KernelOff
        <5>1. LoaderCount * ClusterSectors \in Nat /\ LoaderCount * ClusterSectors <= 56
          BY <3>3, <3>4
        <5> QED BY <5>1 DEF KernelCode, KernelOff
      <4> QED BY <1>1, <3>1, <4>1, <4>2, Stage2Memory
    <3>6. SectorsOf(image, EntryOf(image, Stage1Name)) = LoaderCount * ClusterSectors
      BY DEF SectorsOf, LoaderCount, ClusterSectors
    <3> QED BY <3>5, <3>6
  <2>3. CASE Stage1
    BY <1>1, <2>3 DEF Stage1, Next1, ReadFailed, ReadFat, ReadRoot, Scan, ReadCluster, Follow
  <2>4. CASE Stopped \/ UNCHANGED vars
    BY <2>1, <2>4 DEF Stopped, vars
  <2> QED BY <1>1, <2>2, <2>3, <2>4 DEF Next
<1>2. TypeOK /\ Loading /\ [Next]_vars => [pc1 = "run" => Kept]_vars
  BY <1>1
<1> QED BY <1>2, BootInvariant, PTL DEF Spec, LoaderKept

-----------------------------------------------------------------------------
(* What stage 2 finds *)

\* The entries of the root are where they are looked for.
LEMMA SlotEntry ==
  ASSUME NEW img \in Images, NEW lba \in Nat, NEW k \in 0 .. (SlotsPerSector - 1),
         FirstDataSector(img.secs) <= lba, SecPerClus(img.secs) \in {4, 8},
         (lba - FirstDataSector(img.secs)) * SlotsPerSector + k + 1 \in DOMAIN img.root
  PROVE  LET n == (lba - FirstDataSector(img.secs)) * SlotsPerSector + k + 1
         IN  SlotOf(img, lba, k) =
               [name |-> img.root[n].name,
                first |-> IF img.root[n].count = 0 THEN 0 ELSE FirstOf(img, n)]
<1> DEFINE D == FirstDataSector(img.secs)
           n == (lba - D) * SlotsPerSector + k + 1
           S == SecPerClus(img.secs)
           rootEnd == D + RootClusters(img) * S
           dataEnd == D + (Total(img) - 2) * S
           fatWord == FatEntry(img, (lba - FirstFatSector) * EntriesPerSector + k * FatEntriesPerSlot) % WordMod
           inRoot == lba \in D .. (rootEnd - 1) /\ n \in DOMAIN img.root
           entry == [name |-> img.root[n].name,
                     first |-> IF img.root[n].count = 0 THEN 0 ELSE FirstOf(img, n)]
           inContents == \/ lba \in rootEnd .. (dataEnd - 1)
                         \/ /\ lba \in FirstFatSector .. (FirstFatSector + FATSz32(img.secs) - 1)
                            /\ fatWord # 0
<1>1. SlotOf(img, lba, k) = CASE inRoot -> entry [] inContents -> ContentsSlot [] OTHER -> ZeroSlot
  BY Zenon DEF SlotOf
<1>2. D \in Nat /\ FirstFatSector + FATSz32(img.secs) <= D
      /\ FATSz32(img.secs) \in Nat /\ FirstFatSector \in Nat
  BY ImageSize, FatSizeBounds DEF FirstDataSector, FirstFatSector, RsvdSecCnt, NumFATs
<1>3. rootEnd \in Nat /\ lba < rootEnd
  <2> DEFINE L == Len(img.root)
             m == lba - D
  <2>1. L \in Nat /\ m \in Nat /\ m * 16 + k + 1 <= L /\ k \in Nat /\ lba = D + m
    <3>1. L \in Nat /\ n \in 1 .. L
      BY ImageRoot
    <3>2. n = m * 16 + k + 1 /\ k \in 0 .. 15
      BY DEF SlotsPerSector
    <3> HIDE DEF n, L
    <3> QED BY <1>2, <3>1, <3>2
  <2>2. RootClusters(img) = L \div (16 * S) + 1
    BY DEF RootClusters, SlotsPerSector
  <2> HIDE DEF L, m, D
  <2>3. CASE S = 4
    <3>1. L \div 64 \in Nat /\ L < (L \div 64 + 1) * 64
      BY <2>1
    <3>2. rootEnd = D + (L \div 64 + 1) * 4
      BY <2>2, <2>3
    <3> QED BY <1>2, <2>1, <3>1, <3>2 DEF D
  <2>4. CASE S = 8
    <3>1. L \div 128 \in Nat /\ L < (L \div 128 + 1) * 128
      BY <2>1
    <3>2. rootEnd = D + (L \div 128 + 1) * 8
      BY <2>2, <2>4
    <3> QED BY <1>2, <2>1, <3>1, <3>2 DEF D
  <2> QED BY <2>3, <2>4
<1>4. inRoot /\ ~ inContents
  <2> HIDE DEF D, rootEnd, dataEnd, fatWord
  <2> QED BY <1>2, <1>3 DEF D
<1> HIDE DEF inRoot, inContents, entry
<1>5. SlotOf(img, lba, k) = entry
  BY <1>1, <1>4, Zenon
<1> QED BY <1>5 DEF entry

KernelEntry == EntryOf(image, Stage2Name)
KernelFirst == FirstOf(image, KernelEntry)
KernelCount == image.root[KernelEntry].count

\* The sectors of the root that are looked at are so many entries apart.
Stride == RootStep * SlotsPerSector
Kernels == {i \in DOMAIN image.root : LookedAt(i) /\ image.root[i].name = Stage2Name}

\* Stage 2 is at slot `slot2` of the k-th sector that it looks at.
Scanning(k) ==
  /\ bufData2 = DataStart + RootStep * k /\ rootLba = DataStart + RootStep * (k + 1)
  /\ slot2 < SlotsPerSector
  /\ \A i \in Kernels : i > Stride * k + slot2

InStep(k) == rootLba = DataStart + RootStep * k /\ \A i \in Kernels : i > Stride * k

\* The slot that stage 2 takes for the kernel's entry.
Sought ==
  IF Kernels # {}
  THEN Entry2 = [name |-> Stage2Name, first |-> IF KernelCount = 0 THEN 0 ELSE KernelFirst]
  ELSE Entry2 \in {ZeroSlot, ContentsSlot}

\* An entry looked at, as a place in its sector.
LEMMA EntryPlace ==
  ASSUME NEW i \in Nat, i >= 1, NEW k \in Nat, NEW s \in 0 .. 16,
         i > 8192 * k + s, (i - 1) % 8192 < 16
  PROVE  /\ i > 8192 * k + 15 => i > 8192 * (k + 1) \/ i = 8192 * k + 16
         /\ s = 16 => i > 8192 * (k + 1)
<1> DEFINE a == (i - 1) \div 8192
           b == (i - 1) % 8192
<1>1. a \in Nat /\ b \in 0 .. 15 /\ i - 1 = 8192 * a + b
  OBVIOUS
<1> HIDE DEF a, b
<1>2. a >= k
  BY <1>1
<1>3. a = k \/ a >= k + 1
  BY <1>1, <1>2
<1> QED BY <1>1, <1>3

\* What is in the slot that si points at.
LEMMA SlotScanned ==
  ASSUME image \in Images, DataStart < WordMod, NEW k \in Nat, Scanning(k), slot2 \in Nat
  PROVE  LET n == Stride * k + slot2 + 1
         IN  /\ n \in DOMAIN image.root =>
                  /\ Entry2 = [name |-> image.root[n].name,
                               first |-> IF image.root[n].count = 0 THEN 0 ELSE FirstOf(image, n)]
                  /\ Entry2 \notin {ZeroSlot, ContentsSlot}
                  /\ LookedAt(n)
             /\ n \notin DOMAIN image.root =>
                  Entry2 \in {ZeroSlot, ContentsSlot} /\ Kernels = {}
<1> DEFINE n == Stride * k + slot2 + 1
           D == DataStart
<1>1. D \in Nat /\ D > 0 /\ ClusterSectors \in {4, 8}
  BY DataFigures
<1>2. /\ bufData2 = D + 512 * k /\ bufData2 \in Nat /\ bufData2 # 0 /\ D <= bufData2
      /\ slot2 \in 0 .. 15
  BY <1>1 DEF Scanning, RootStep, SlotsPerSector
<1>3. Entry2 = SlotOf(image, bufData2, slot2)
  BY <1>2, DiskAssumption DEF Entry2
<1>4. n = (bufData2 - D) * SlotsPerSector + slot2 + 1
  BY <1>1, <1>2 DEF Stride, RootStep, SlotsPerSector
<1>5. n \in Nat /\ n >= 1
  BY <1>2 DEF Stride, RootStep, SlotsPerSector
<1>6. ASSUME n \in DOMAIN image.root
      PROVE  /\ Entry2 = [name |-> image.root[n].name,
                          first |-> IF image.root[n].count = 0 THEN 0 ELSE FirstOf(image, n)]
             /\ Entry2 \notin {ZeroSlot, ContentsSlot}
             /\ LookedAt(n)
  <2> HIDE DEF n
  <2>1. Entry2 = [name |-> image.root[n].name,
                  first |-> IF image.root[n].count = 0 THEN 0 ELSE FirstOf(image, n)]
    BY <1>1, <1>2, <1>3, <1>4, <1>6, SlotEntry DEF DataStart, ClusterSectors, SlotsPerSector
  <2>2. image.root[n].name \notin {"zero", "contents"}
    BY <1>6, DiskAssumption
  <2>3. (n - 1) % 8192 < 16
    <3>1. n - 1 = 8192 * k + slot2
      BY <1>2 DEF n, Stride, RootStep, SlotsPerSector
    <3> QED BY <1>2, <3>1
  <2> QED BY <2>1, <2>2, <2>3 DEF ZeroSlot, ContentsSlot, LookedAt, RootStep, SlotsPerSector
<1>7. ASSUME n \notin DOMAIN image.root
      PROVE  Entry2 \in {ZeroSlot, ContentsSlot} /\ Kernels = {}
  <2>1. Entry2 \in {ZeroSlot, ContentsSlot}
    <3> HIDE DEF n
    <3> QED BY <1>2, <1>3, <1>4, <1>7, SlotKinds DEF DataStart
  <2>2. ASSUME NEW i \in Kernels PROVE FALSE
    <3>1. i \in 1 .. Len(image.root) /\ i > Stride * k + slot2 /\ Len(image.root) \in Nat
      BY <2>2, ImageRoot DEF Kernels, Scanning
    <3>2. n \in 1 .. Len(image.root)
      <4>1. Stride * k \in Nat
        BY DEF Stride, RootStep, SlotsPerSector
      <4> QED BY <1>2, <1>5, <3>1, <4>1
    <3> QED BY <1>7, <3>2, ImageRoot
  <2> QED BY <2>1, <2>2
<1> QED BY <1>6, <1>7

\* Sectors of the kernel in memory: the first n clusters, and s sectors of one more.
Held(n, s) ==
  \A q \in 0 .. n, r \in 0 .. (ClusterSectors - 1) :
    q < n \/ r < s =>
      /\ (KernelOff + q * ClusterSectors + r) \in DOMAIN mem
      /\ mem[KernelOff + q * ClusterSectors + r] =
           (((KernelFirst + q - 2) * ClusterSectors + DataStart) % WordMod) + r

\* There is something to load, and it does not reach around the segment.
Wanted == Kernels # {} /\ KernelCount > 0
Fits == KernelCount * ClusterSectors <= SegmentSectors

\* What the sectors of a cluster leave in the upper half of eax.
Carry(c) == (FirstSector2(c) + ClusterSectors) \div WordMod

Fetched(n) ==
  /\ Wanted /\ n <= KernelCount
  /\ Fits => Held(n, sector) /\ pointer2 = (n * ClusterSectors) % SegmentSectors
  /\ pc2 = "readCluster" => n < KernelCount /\ cluster2 = KernelFirst + n
  /\ pc2 \in {"readFat", "follow"} => n >= 1 /\ sector = 0 /\ cluster2 = KernelFirst + n - 1
  /\ pc2 = "kernel" => n = KernelCount /\ sector = 0 /\ Carry(KernelFirst + n - 1) = 0

\* Cluster 0 and the one that the FAT names for it lead nowhere else, and a carry
\* leads to cluster 0.
Astray == ~ KernelInReach(image) /\ cluster2 \in {0, FatZero % WordMod} /\ pc2 # "kernel"

Searching ==
  /\ pc2 \in {"start", "readBoot"} => rootLba = data_loc(image.secs)
  /\ pc2 \in {"start", "readBoot", "readRoot", "scan", "notFound", "found"} =>
       pointer2 = 0 /\ sector = 0
  /\ pc2 \in {"readRoot", "scan", "notFound", "found", "readCluster", "readFat", "follow", "kernel"} =>
       bootsect = 0
  /\ pc2 = "readRoot" => \E k \in Nat : InStep(k)
  /\ pc2 = "scan" => \E k \in Nat : Scanning(k)
  /\ pc2 = "notFound" => Kernels = {} /\ Entry2 \in {ZeroSlot, ContentsSlot}
  /\ pc2 = "found" => Sought

Fetching ==
  /\ pc2 = "readCluster" => high = 0
  /\ pc2 \in {"readFat", "follow"} => high = Carry(cluster2)
  /\ pc2 = "follow" => bufFat2 = Eax(FatSector(cluster2))
  /\ pc2 \in {"readCluster", "readFat", "follow", "kernel"} => Astray \/ \E n \in Nat : Fetched(n)

\* Stage 2 does not lose its way: there is no cluster 0xff00 to get into, or it does
\* not come to look for it.
Followed == NoClusterFF00(image) \/ KernelInReach(image)

\* Stage 2 while every read is answered.
Second ==
  /\ pc2 # "start" => pc1 = "run"
  /\ fails2 = 0 /\ Followed => Searching /\ Fetching

LEMMA AnsweredRead ==
  ASSUME TypeOK, NEW lba, Int13(lba), fails2' = 0
  PROVE  tmp' = lba /\ fails2 = 0
BY Fails2Assumption DEF Int13, TypeOK

\* What the FAT of a volume without cluster 0xff00 has for cluster 0, and for it.
LEMMA LostEntries ==
  ASSUME NEW img \in Images, NoClusterFF00(img)
  PROVE  FatEntry(img, 0) = FatZero /\ FatEntry(img, FatZero % WordMod) = 0
<1> DEFINE ends == {FirstOf(img, j) + img.root[j].count - 1 :
                      j \in {k \in DOMAIN img.root : img.root[k].count > 0}}
                   \cup {1 + RootClusters(img)}
           z == FatZero % WordMod
<1>1. Total(img) \in Nat /\ RootClusters(img) \in Nat /\ 2 + RootClusters(img) <= Total(img)
  <2>1. Len(img.root) + 1 \in 1 .. Len(img.root) + 1 /\ 1 \in 1 .. Len(img.root) + 1
        /\ 1 <= Len(img.root) + 1 /\ RootClusters(img) \in Nat
    BY ImageRoot
  <2> QED BY <2>1, FirstOfSteps, FirstOfOrder DEF Total
<1>2. /\ \A j \in DOMAIN img.root : FirstOf(img, j) \in Nat /\ FirstOf(img, j) >= 3
                                     /\ img.root[j].count \in Nat
                                     /\ FirstOf(img, j) + img.root[j].count <= Total(img)
  BY NodeSpan
<1>3. z = 65280
  BY DEF FatZero, WordMod
<1>4. Total(img) <= z
  BY DEF NoClusterFF00
<1>5. 0 \notin ends /\ z \notin ends /\ ~ (0 > 1) /\ ~ (z < Total(img)) /\ z # 0 /\ z # 1
  <2> HIDE DEF z
  <2> QED BY <1>1, <1>2, <1>3, <1>4
<1>6. \A c : FatEntry(img, c) =
              CASE c = 0 -> FatZero [] c = 1 -> FatOne [] c \in ends -> EndOfChain
                [] c > 1 /\ c < Total(img) /\ c \notin ends -> c + 1 [] OTHER -> 0
  BY Zenon DEF FatEntry
<1> HIDE DEF ends, z
<1>7. FatEntry(img, 0) = FatZero
  <2>1. FatEntry(img, 0) =
          CASE 0 = 0 -> FatZero [] 0 = 1 -> FatOne [] 0 \in ends -> EndOfChain
            [] 0 > 1 /\ 0 < Total(img) /\ 0 \notin ends -> 0 + 1 [] OTHER -> 0
    BY <1>6, Zenon
  <2>2. 0 # 1
    OBVIOUS
  <2> QED BY <1>5, <2>1, <2>2, Zenon
<1>8. FatEntry(img, z) = 0
  <2> DEFINE inFile == z > 1 /\ z < Total(img) /\ z \notin ends
             atEnd == z \in ends
  <2>1. ~ inFile /\ ~ atEnd
    BY <1>5
  <2>2. FatEntry(img, z) = CASE z = 0 -> FatZero [] z = 1 -> FatOne [] atEnd -> EndOfChain
                             [] inFile -> z + 1 [] OTHER -> 0
    BY <1>6, Zenon
  <2> HIDE DEF inFile, atEnd
  <2> QED BY <1>5, <2>1, <2>2
<1> QED BY <1>7, <1>8 DEF z

\* The figures of the kernel's node.
LEMMA KernelFigures ==
  ASSUME image \in Images, Kernels # {}
  PROVE  /\ KernelEntry \in Kernels /\ HasEntry(image, Stage2Name)
         /\ KernelFirst \in Nat /\ KernelFirst >= 3 /\ KernelCount \in Nat
         /\ KernelFirst + KernelCount <= Total(image)
         /\ \A i \in Kernels : i = KernelEntry
<1>1. \A i \in Kernels : HasEntry(image, Stage2Name) /\ EntryOf(image, Stage2Name) = i
  BY OnlyEntry DEF Kernels
<1>2. KernelEntry \in Kernels /\ HasEntry(image, Stage2Name)
  BY <1>1 DEF KernelEntry
<1>3. KernelEntry \in DOMAIN image.root
  BY <1>2 DEF Kernels
<1> QED BY <1>1, <1>2, <1>3, NodeSpan DEF KernelFirst, KernelCount, KernelEntry

\* The kernel's clusters in the FAT.
LEMMA KernelChain ==
  ASSUME image \in Images, Wanted, NEW n \in 1 .. KernelCount
  PROVE  FatEntry(image, KernelFirst + n - 1) =
           IF n = KernelCount THEN EndOfChain ELSE KernelFirst + n
<1>1. /\ KernelFirst \in Nat /\ KernelCount \in Nat /\ KernelEntry \in DOMAIN image.root
  BY KernelFigures DEF Wanted, Kernels
<1>2. n - 1 \in Nat /\ n - 1 < image.root[KernelEntry].count
  BY <1>1 DEF KernelCount
<1>3. FatEntry(image, FirstOf(image, KernelEntry) + (n - 1)) =
        IF n - 1 = image.root[KernelEntry].count - 1 THEN EndOfChain
        ELSE FirstOf(image, KernelEntry) + (n - 1) + 1
  BY <1>1, <1>2, ChainEntry
<1>4. /\ KernelFirst + (n - 1) = KernelFirst + n - 1 /\ KernelFirst + (n - 1) + 1 = KernelFirst + n
      /\ n - 1 = KernelCount - 1 <=> n = KernelCount
  BY <1>1
<1> QED BY <1>3, <1>4 DEF KernelFirst, KernelCount

\* What is in reach is wanted, and 16 bits hold the numbers of its clusters.
LEMMA ReachedIsWanted ==
  ASSUME image \in Images, KernelInReach(image)
  PROVE  /\ Wanted /\ KernelCount * ClusterSectors \in 1 .. SegmentSectors
         /\ DataStart + (KernelFirst - 2) * ClusterSectors + KernelCount * ClusterSectors < WordMod
<1>1. /\ HasEntry(image, Stage2Name) /\ LookedAt(KernelEntry)
      /\ SectorsOf(image, KernelEntry) \in 1 .. SegmentSectors
      /\ EndInWord(image, KernelEntry)
  BY DEF KernelInReach, KernelEntry
<1>2. KernelEntry \in DOMAIN image.root /\ image.root[KernelEntry].name = Stage2Name
  BY <1>1 DEF HasEntry, EntryOf, KernelEntry
<1>3. KernelEntry \in Kernels
  BY <1>1, <1>2 DEF Kernels
<1>4. KernelCount * ClusterSectors \in 1 .. SegmentSectors
  BY <1>1 DEF SectorsOf, KernelCount, ClusterSectors
<1>5. KernelCount \in Nat
  BY <1>2, ImageRoot DEF KernelCount
<1>6. KernelCount # 0
  <2> SUFFICES ASSUME KernelCount = 0 PROVE FALSE
    OBVIOUS
  <2>1. ClusterSectors \in Nat
    BY DiskAssumption, SecPerClusBySize, ImageSize DEF ClusterSectors
  <2>2. 0 * ClusterSectors = 0
    BY <2>1
  <2> QED BY <1>4, <2>2
<1>7. DataStart + (KernelFirst - 2) * ClusterSectors + KernelCount * ClusterSectors < WordMod
  BY <1>1, Zenon DEF EndInWord, SectorOf, SectorsOf, FirstSectorOf, DataStart, ClusterSectors,
                     KernelFirst, KernelCount
<1> QED BY <1>3, <1>4, <1>5, <1>6, <1>7 DEF Wanted

LEMMA KernelNumbers ==
  ASSUME image \in Images, DataStart < WordMod, Followed, Wanted
  PROVE  KernelFirst + KernelCount <= WordMod
<1>1. /\ KernelFirst \in Nat /\ KernelFirst >= 3 /\ KernelCount \in Nat /\ KernelCount > 0
      /\ KernelFirst + KernelCount <= Total(image) /\ HasEntry(image, Stage2Name)
      /\ KernelEntry \in DOMAIN image.root
  BY KernelFigures DEF Wanted, Kernels
<1>2. CASE NoClusterFF00(image)
  <2>1. FatZero % WordMod = 65280
    BY DEF FatZero, WordMod
  <2>2. Total(image) \in Nat
    BY <1>1, NodeSpan
  <2> QED BY <1>1, <1>2, <2>1, <2>2 DEF NoClusterFF00, WordMod
<1>3. CASE KernelInReach(image)
  <2>1. ClusterSectors \in {4, 8} /\ DataStart \in Nat
    BY DataFigures
  <2>2. DataStart + (KernelFirst - 2) * ClusterSectors + KernelCount * ClusterSectors < WordMod
    BY <1>3, ReachedIsWanted
  <2> HIDE DEF DataStart, ClusterSectors, KernelFirst, KernelCount
  <2>3. CASE ClusterSectors = 4
    BY <1>1, <2>1, <2>2, <2>3 DEF WordMod
  <2>4. CASE ClusterSectors = 8
    BY <1>1, <2>1, <2>2, <2>4 DEF WordMod
  <2> QED BY <2>1, <2>3, <2>4
<1> QED BY <1>2, <1>3 DEF Followed

\* None of the clusters of a kernel in reach ends where a number is carried.
LEMMA ReachedCarriesNothing ==
  ASSUME image \in Images, DataStart < WordMod, KernelInReach(image), NEW n \in 1 .. KernelCount
  PROVE  Carry(KernelFirst + n - 1) = 0
<1> DEFINE S == ClusterSectors
           lba == ((KernelFirst + n - 1) - 2) * S + DataStart
<1>1. S \in {4, 8} /\ DataStart \in Nat /\ data_loc(image.secs) = DataStart
  BY DataFigures
<1>2. /\ KernelFirst \in Nat /\ KernelFirst >= 3 /\ KernelCount \in Nat
      /\ DataStart + (KernelFirst - 2) * S + KernelCount * S < 65536
  BY ReachedIsWanted, KernelFigures DEF Wanted, WordMod
<1>3. lba \in Nat /\ lba + S < 65536
  <2>1. CASE S = 4  BY <1>1, <1>2, <2>1
  <2>2. CASE S = 8  BY <1>1, <1>2, <2>2
  <2> QED BY <1>1, <2>1, <2>2
<1>4. FirstSector2(KernelFirst + n - 1) = lba % WordMod
  BY <1>1, Zenon DEF FirstSector2, ClusterSectors
<1> HIDE DEF lba, S
<1>5. S \in Nat
  BY <1>1
<1>6. lba % 65536 = lba /\ (lba + S) \div 65536 = 0
  BY <1>3, <1>5
<1> QED BY <1>4, <1>6 DEF Carry, S, WordMod

LEMMA OneCarried == \A x \in Nat : x < 2 * WordMod => x \div WordMod \in {0, 1}
BY SMTT(20) DEF WordMod

\* The word that follows a cluster: without a carry it is the cluster's entry, with
\* one it is no entry at all.
LEMMA FollowedWord ==
  ASSUME image \in Images, DataStart < WordMod, cluster2 \in 0 .. (WordMod - 1),
         high = Carry(cluster2), bufFat2 = Eax(FatSector(cluster2))
  PROVE  /\ high = 0 => /\ InFirstFat(image, bufFat2)
                        /\ FatWord(image, bufFat2, cluster2) = FatEntry(image, cluster2)
         /\ high # 0 => FatWord(image, bufFat2, cluster2) = 0
<1>1. ClusterSectors \in {4, 8} /\ DataStart \in Nat
  BY DataFigures
<1>2. cluster2 \in 0 .. 65535
  BY DEF WordMod
<1>3. DataStart = 32 + 2 * FATSz32(image.secs)
  BY DEF DataStart, FirstDataSector, RsvdSecCnt, NumFATs
<1>4. DataStart < 65536
  BY DEF WordMod
<1>5. FATSz32(image.secs) \in Nat /\ FATSz32(image.secs) >= 512
  <2>1. image.secs \in DiskSize /\ image.secs > 66600 /\ image.secs \in Nat
    BY ImageSize DEF DiskSize
  <2>2. SecPerClus(image.secs) \in {4, 8}
    BY <1>1 DEF ClusterSectors
  <2> QED BY <2>1, <2>2, FatSizeBounds
<1>6. high \in {0, 1}
  <2>1. cluster2 \in Nat
    BY <1>2
  <2>2. FirstSector2(cluster2) \in 0 .. (WordMod - 1)
    BY <2>1, SectorWord
  <2>3. FirstSector2(cluster2) \in Nat /\ FirstSector2(cluster2) < WordMod
    BY <2>2, Words
  <2> DEFINE x == FirstSector2(cluster2) + ClusterSectors
  <2>4. high = x \div WordMod
    BY DEF Carry
  <2>5. x \in Nat /\ x < 2 * WordMod
    BY <1>1, <2>3 DEF WordMod
  <2> HIDE DEF x
  <2> QED BY <2>4, <2>5, OneCarried
<1>7. FatSector(cluster2) = cluster2 \div 128 + 32 /\ cluster2 \div 128 \in 0 .. 511
  <2>1. cluster2 \div 128 \in 0 .. 511
    BY <1>2
  <2>2. (cluster2 \div 128 + 32) % 65536 = cluster2 \div 128 + 32
    BY <2>1
  <2> QED BY <2>1, <2>2 DEF FatSector, EntriesPerSector, fat_loc, RsvdSecCnt, WordMod
<1>8. CASE high = 0
  <2>1. bufFat2 = cluster2 \div 128 + 32
    BY <1>7, <1>8 DEF Eax, WordMod
  <2>2. InFirstFat(image, bufFat2)
    BY <1>5, <1>7, <2>1 DEF InFirstFat, FirstFatSector, RsvdSecCnt
  <2>3. (bufFat2 - FirstFatSector) * EntriesPerSector + (cluster2 % EntriesPerSector) = cluster2
    BY <1>2, <1>7, <2>1 DEF FirstFatSector, RsvdSecCnt, EntriesPerSector
  <2> QED BY <1>8, <2>2, <2>3 DEF FatWord
<1>9. CASE high = 1
  <2>1. bufFat2 >= 65536 /\ bufFat2 \in Int
    BY <1>7, <1>9 DEF Eax, WordMod
  <2>2. ~ InFirstFat(image, bufFat2)
    BY <1>3, <1>4, <1>5, <2>1 DEF InFirstFat, FirstFatSector, RsvdSecCnt
  <2> QED BY <1>9, <2>2 DEF FatWord
<1> QED BY <1>6, <1>8, <1>9

LEMMA InitSecond == Init => Second
BY Fails2Assumption DEF Init, Init2, Second, Searching, Fetching

\* The figures are those of the image.
LEMMA KeptFigures ==
  ASSUME image' = image
  PROVE  /\ UNCHANGED <<KernelEntry, KernelFirst, KernelCount, ClusterSectors, DataStart,
                        Kernels, Wanted, Fits, Followed>>
         /\ KernelInReach(image)' = KernelInReach(image) /\ \A c : Carry(c)' = Carry(c)
<1>1. UNCHANGED <<KernelEntry, KernelFirst, KernelCount, ClusterSectors, DataStart, Kernels,
                  Wanted, Fits, Followed>>
  BY DEF KernelEntry, KernelFirst, KernelCount, ClusterSectors, DataStart, Kernels, Wanted, Fits,
         LookedAt, Followed
<1> QED BY <1>1 DEF Carry, FirstSector2

LEMMA ScanSecond ==
  ASSUME TypeOK, Shape, Searching, DataStart < WordMod, ScanEntry
  PROVE  Searching' /\ Fetching'
<1>0. /\ pc2 = "scan" /\ image \in Images /\ slot2 \in Nat
      /\ UNCHANGED <<image, mem, bootsect, bufFat2, bufData2, tmp, rootLba, cluster2, pointer2,
                     sector, fails2>>
      /\ pc2' \in {"notFound", "found", "readRoot", "scan"}
      /\ pointer2 = 0 /\ sector = 0 /\ bootsect = 0
  BY DEF TypeOK, ScanEntry, Searching
<1>1. UNCHANGED <<KernelEntry, KernelFirst, KernelCount, DataStart, Kernels>>
  BY <1>0, KeptFigures
<1>2. PICK k \in Nat : Scanning(k)
  BY <1>0 DEF Searching
<1> DEFINE n == Stride * k + slot2 + 1
<1>3. /\ n \in DOMAIN image.root =>
           /\ Entry2 = [name |-> image.root[n].name,
                        first |-> IF image.root[n].count = 0 THEN 0 ELSE FirstOf(image, n)]
           /\ Entry2 \notin {ZeroSlot, ContentsSlot}
           /\ LookedAt(n)
      /\ n \notin DOMAIN image.root => Entry2 \in {ZeroSlot, ContentsSlot} /\ Kernels = {}
  BY <1>0, <1>2, SlotScanned
<1>4. slot2' = slot2 => Entry2' = Entry2
  BY <1>0 DEF Entry2
<1> HIDE DEF n
<1>5. CASE pc2' = "notFound"
  <2>1. Entry2 \in {ZeroSlot, ContentsSlot} /\ slot2' = slot2
    BY <1>5 DEF ScanEntry
  <2>2. Kernels = {}
    BY <1>3, <2>1
  <2> QED BY <1>0, <1>1, <1>4, <1>5, <2>1, <2>2 DEF Searching, Fetching
<1>6. CASE pc2' = "found"
  <2>1. Entry2.name = Stage2Name /\ slot2' = slot2
    BY <1>6 DEF ScanEntry
  <2>2. Entry2 \notin {ZeroSlot, ContentsSlot}
    BY <2>1 DEF ZeroSlot, ContentsSlot, Stage2Name
  <2>3. n \in DOMAIN image.root /\ image.root[n].name = Stage2Name /\ LookedAt(n)
    BY <1>3, <2>1, <2>2
  <2>4. n \in Kernels
    BY <2>3 DEF Kernels
  <2>5. n = KernelEntry
    BY <1>0, <2>4, KernelFigures
  <2>6. Sought
    BY <1>3, <2>3, <2>4, <2>5 DEF Sought, KernelCount, KernelFirst
  <2>7. Sought'
    BY <1>1, <1>4, <2>1, <2>6 DEF Sought
  <2> QED BY <1>0, <1>6, <2>7 DEF Searching, Fetching
<1>7. CASE pc2' \in {"readRoot", "scan"}
  <2>1. Entry2.name # Stage2Name /\ slot2' = slot2 + 1
        /\ pc2' = IF slot2' = SlotsPerSector THEN "readRoot" ELSE "scan"
    BY <1>7 DEF ScanEntry
  <2>2. n \notin Kernels
    BY <1>3, <2>1 DEF Kernels
  <2>3. \A i \in Kernels : i \in Nat /\ i >= 1 /\ i > 8192 * k + slot2 + 1 /\ (i - 1) % 8192 < 16
    <3> TAKE i \in Kernels
    <3>1. i \in Nat /\ i >= 1 /\ (i - 1) % 8192 < 16
      BY <1>0, ImageRoot DEF Kernels, LookedAt, RootStep, SlotsPerSector
    <3>2. i > 8192 * k + slot2
      BY <1>2 DEF Scanning, Stride, RootStep, SlotsPerSector
    <3>3. i # 8192 * k + slot2 + 1
      BY <2>2 DEF n, Stride, RootStep, SlotsPerSector
    <3> QED BY <1>0, <3>1, <3>2, <3>3
  <2>4. bufData2' = DataStart + RootStep * k /\ rootLba' = DataStart + RootStep * (k + 1)
        /\ slot2 < 16
    BY <1>0, <1>2 DEF Scanning, SlotsPerSector
  <2>5. CASE slot2' = SlotsPerSector
    <3>1. \A i \in Kernels : i > 8192 * (k + 1)
      BY <1>0, <2>1, <2>3, <2>5, EntryPlace DEF SlotsPerSector
    <3>2. InStep(k + 1)'
      BY <1>1, <2>4, <3>1 DEF InStep, Stride, RootStep, SlotsPerSector
    <3> QED BY <1>0, <2>1, <2>5, <3>2 DEF Searching, Fetching
  <2>6. CASE slot2' # SlotsPerSector
    <3>1. Scanning(k)'
      <4>1. slot2' < SlotsPerSector
        BY <1>0, <2>1, <2>4, <2>6 DEF SlotsPerSector
      <4>2. \A i \in Kernels : i > Stride * k + slot2'
        BY <1>0, <2>1, <2>3 DEF Stride, RootStep, SlotsPerSector
      <4> QED BY <1>1, <2>4, <4>1, <4>2 DEF Scanning
    <3> QED BY <1>0, <2>1, <2>6, <3>1 DEF Searching, Fetching
  <2> QED BY <2>5, <2>6
<1> QED BY <1>0, <1>5, <1>6, <1>7

LEMMA FoundSecond ==
  ASSUME TypeOK, Searching, DataStart < WordMod, Followed, Found
  PROVE  Searching' /\ Fetching'
<1>0. /\ pc2 = "found" /\ image \in Images /\ Sought
      /\ UNCHANGED <<image, mem, bootsect, bufFat2, bufData2, tmp, rootLba, slot2, pointer2,
                     sector, fails2>>
      /\ pc2' \in {"wild", "readCluster"} /\ pointer2 = 0 /\ sector = 0 /\ bootsect = 0
  BY DEF TypeOK, Found, Searching
<1>1. UNCHANGED <<KernelFirst, KernelCount, ClusterSectors, DataStart, Wanted, Fits>>
      /\ KernelInReach(image)' = KernelInReach(image)
  BY <1>0, KeptFigures
<1>2. CASE pc2' = "wild"
  BY <1>2 DEF Searching, Fetching
<1>3. CASE pc2' = "readCluster"
  <2>1. Entry2 # ContentsSlot /\ cluster2' = Entry2.first % WordMod
        /\ high' = Entry2.first \div WordMod
    BY <1>3 DEF Found
  <2>2. CASE ~ Wanted
    <3>1. Entry2.first = 0
      BY <1>0, <2>1, <2>2, KernelFigures DEF Sought, Wanted, ZeroSlot
    <3>2. cluster2' = 0 /\ high' = 0
      BY <2>1, <3>1 DEF WordMod
    <3>3. Astray'
      BY <1>0, <1>1, <1>3, <2>2, <3>2, ReachedIsWanted DEF Astray
    <3> QED BY <1>0, <1>3, <3>2, <3>3 DEF Searching, Fetching
  <2>3. CASE Wanted
    <3>1. KernelFirst \in Nat /\ KernelCount \in Nat /\ KernelCount > 0
          /\ KernelFirst + KernelCount <= WordMod
      BY <1>0, <2>3, KernelFigures, KernelNumbers DEF Wanted
    <3>2. Entry2.first = KernelFirst
      BY <1>0, <2>3, <3>1 DEF Sought, Wanted
    <3>3. cluster2' = KernelFirst + 0 /\ high' = 0
      BY <2>1, <3>1, <3>2 DEF WordMod
    <3>4. ClusterSectors \in {4, 8}
      BY <1>0, DataFigures
    <3>5. Held(0, 0)'
      BY <1>0 DEF Held
    <3>6. 0 * ClusterSectors = 0 /\ 0 % SegmentSectors = 0
      BY <3>4 DEF SegmentSectors
    <3>7. Fetched(0)'
      BY <1>0, <1>1, <1>3, <2>3, <3>1, <3>3, <3>5, <3>6 DEF Fetched
    <3> QED BY <1>0, <1>3, <3>3, <3>7 DEF Searching, Fetching
  <2> QED BY <2>2, <2>3
<1> QED BY <1>0, <1>2, <1>3

LEMMA ReadSectorSecond ==
  ASSUME TypeOK, Searching, Fetching, DataStart < WordMod, ReadSector, fails2' = 0
  PROVE  Searching' /\ Fetching'
<1> DEFINE S == ClusterSectors
           at == KernelOff + pointer2 + sector
<1>0. /\ pc2 = "readCluster" /\ image \in Images /\ bootsect = 0
      /\ UNCHANGED <<image, bootsect, bufFat2, bufData2, rootLba, slot2, cluster2>>
      /\ pc2' \in {"readCluster", "readFat"}
      /\ sector \in 0 .. (S - 1) /\ pointer2 \in 0 .. 127 /\ cluster2 \in Nat
  BY Words DEF TypeOK, ReadSector, ClusterSectors, SegmentSectors
<1>1. S \in {4, 8} /\ DataStart \in Nat /\ data_loc(image.secs) = DataStart
  BY <1>0, DataFigures
<1>2. UNCHANGED <<KernelFirst, KernelCount, ClusterSectors, DataStart, Wanted, Fits>>
      /\ KernelInReach(image)' = KernelInReach(image) /\ \A c : Carry(c)' = Carry(c)
  BY <1>0, KeptFigures
<1>3. high = 0 /\ tmp' = FirstSector2(cluster2) + sector
  <2>1. high = 0 /\ tmp' = Eax(FirstSector2(cluster2) + sector)
    BY <1>0, AnsweredRead DEF ReadSector, Fetching
  <2>2. FirstSector2(cluster2) \in Nat
    BY <1>0, SectorWord, Words
  <2> QED BY <1>0, <1>1, <2>1, <2>2 DEF Eax, WordMod
<1>4. mem' = [a \in DOMAIN mem \cup {at} |-> IF a = at THEN tmp' ELSE mem[a]]
  BY DEF ReadSector
<1>5. /\ sector + 1 < S => sector' = sector + 1 /\ UNCHANGED <<pc2, pointer2>>
      /\ ~ (sector + 1 < S) => sector' = 0 /\ pc2' = "readFat"
                                /\ pointer2' = (pointer2 + S) % SegmentSectors
  BY <1>0, AdvanceIs DEF ReadSector, ClusterSectors
<1>6. Searching'
  BY <1>0 DEF Searching
<1>7. Astray => Astray'
  BY <1>0, <1>2 DEF Astray
<1>11. /\ pc2' = "readCluster" => high' = 0
       /\ pc2' = "readFat" => high' = Carry(cluster2)'
  <2>1. CASE sector + 1 < S
    BY <1>0, <1>3, <1>5, <2>1 DEF ReadSector, ClusterSectors
  <2>2. CASE ~ (sector + 1 < S)
    <3>1. sector + 1 = S /\ FirstSector2(cluster2) \in Nat
      BY <1>0, <1>1, <2>2, SectorWord, Words
    <3>2. high' = Eax(FirstSector2(cluster2) + sector + 1) \div WordMod
      BY <2>2 DEF ReadSector, ClusterSectors
    <3>3. Eax(FirstSector2(cluster2) + sector + 1) = FirstSector2(cluster2) + S
      BY <1>0, <1>1, <1>3, <3>1 DEF Eax, WordMod
    <3>4. high' = Carry(cluster2)
      BY <3>2, <3>3 DEF Carry
    <3> QED BY <1>0, <1>2, <1>5, <2>2, <3>4
  <2> QED BY <2>1, <2>2
<1>8. ASSUME NEW n \in Nat, Fetched(n)
      PROVE  IF sector + 1 < S THEN Fetched(n)' ELSE Fetched(n + 1)'
  <2>1. /\ Wanted /\ n < KernelCount /\ cluster2 = KernelFirst + n /\ KernelFirst \in Nat
        /\ KernelCount \in Nat /\ KernelFirst >= 3
    BY <1>0, <1>8, KernelFigures DEF Fetched, Wanted
  <2> PICK s : s = sector + 1
    OBVIOUS
  <2>2. ASSUME Fits
        PROVE  /\ pointer2 = n * S /\ n * S \in Nat
               /\ (pointer2 + S) % SegmentSectors = ((n + 1) * S) % SegmentSectors
               /\ Held(n, s)'
    <3>1. /\ Held(n, sector) /\ pointer2 = (n * S) % 128 /\ KernelCount * S <= 128
      BY <1>8, <2>2 DEF Fetched, Fits, SegmentSectors
    <3>2. pointer2 = n * S /\ n * S \in Nat /\ (n + 1) * S = n * S + S
      <4>1. CASE S = 4  BY <2>1, <3>1, <4>1
      <4>2. CASE S = 8  BY <2>1, <3>1, <4>2
      <4> QED BY <1>1, <4>1, <4>2
    <3>3. tmp' = (((KernelFirst + n - 2) * S + DataStart) % WordMod) + sector
      BY <1>1, <1>3, <2>1 DEF FirstSector2, ClusterSectors
    <3>4. ASSUME NEW q \in 0 .. n, NEW r \in 0 .. (S - 1), q < n \/ r < s
          PROVE  LET a == KernelOff + q * S + r
                 IN  a \in DOMAIN mem' /\ mem'[a] = (((KernelFirst + q - 2) * S + DataStart) % WordMod) + r
      <4> DEFINE a == KernelOff + q * S + r
      <4> HIDE DEF S
      <4>1. CASE q = n /\ r = sector
        <5>1. a = at
          BY <3>2, <4>1
        <5> HIDE DEF a, at
        <5>2. a \in DOMAIN mem' /\ mem'[a] = tmp'
          BY <1>4, <5>1
        <5> QED BY <3>3, <4>1, <5>2 DEF a
      <4>2. CASE ~ (q = n /\ r = sector)
        <5>1. q < n \/ r < sector
          BY <1>0, <3>4, <4>2
        <5>2. a # at
          <6>1. CASE S = 4  BY <1>0, <3>2, <4>2, <6>1 DEF KernelOff
          <6>2. CASE S = 8  BY <1>0, <3>2, <4>2, <6>2 DEF KernelOff
          <6> QED BY <1>1, <6>1, <6>2
        <5>3. a \in DOMAIN mem /\ mem[a] = (((KernelFirst + q - 2) * S + DataStart) % WordMod) + r
          BY <3>1, <5>1 DEF Held, S
        <5> HIDE DEF a, at
        <5>4. a \in DOMAIN mem' /\ mem'[a] = mem[a]
          BY <1>4, <5>2, <5>3
        <5> QED BY <5>3, <5>4 DEF a
      <4> QED BY <4>1, <4>2
    <3>5. Held(n, s)'
      BY <1>2, <3>4 DEF Held
    <3> QED BY <3>2, <3>5 DEF SegmentSectors
  <2>3. CASE sector + 1 < S
    <3>1. sector' = sector + 1 /\ UNCHANGED <<pc2, pointer2>>
      BY <1>5, <2>3
    <3>2. Fits => Held(n, sector)'
      BY <2>2, <3>1 DEF Held
    <3> QED BY <1>0, <1>2, <1>8, <2>3, <3>1, <3>2 DEF Fetched
  <2>4. CASE ~ (sector + 1 < S)
    <3>1. sector' = 0 /\ pc2' = "readFat" /\ pointer2' = (pointer2 + S) % SegmentSectors
          /\ sector + 1 = S
      BY <1>0, <1>1, <1>5, <2>4
    <3>2. ASSUME Fits PROVE Held(n + 1, 0)'
      <4>1. Held(n, s)' /\ s = S
        BY <2>2, <3>1, <3>2
      <4>2. \A q \in 0 .. (n + 1), r \in 0 .. (S - 1) :
              q < n + 1 \/ r < 0 => q \in 0 .. n /\ r < S
        BY <1>1
      <4> HIDE DEF S
      <4> QED BY <1>2, <4>1, <4>2 DEF Held, S
    <3>3. Fits => Held(n + 1, sector)' /\ pointer2' = ((n + 1) * S) % SegmentSectors
      BY <2>2, <3>1, <3>2 DEF Held
    <3>4. n + 1 <= KernelCount /\ n + 1 >= 1 /\ cluster2' = KernelFirst + (n + 1) - 1
      BY <1>0, <2>1
    <3>5. Fetched(n + 1)'
      BY <1>0, <1>2, <2>1, <3>1, <3>3, <3>4 DEF Fetched
    <3> QED BY <2>4, <3>5
  <2> QED BY <2>3, <2>4
<1>9. CASE \E n \in Nat : Fetched(n)
  <2>1. PICK n \in Nat : Fetched(n)
    BY <1>9
  <2>2. n + 1 \in Nat /\ (Fetched(n)' \/ Fetched(n + 1)')
    BY <1>8, <2>1
  <2> QED BY <1>0, <1>6, <1>11, <2>2 DEF Fetching
<1>10. CASE Astray
  BY <1>0, <1>6, <1>7, <1>10, <1>11 DEF Fetching
<1> QED BY <1>0, <1>9, <1>10 DEF Fetching

LEMMA FollowSecond ==
  ASSUME TypeOK, Searching, Fetching, DataStart < WordMod, Followed, FollowEntry
  PROVE  Searching' /\ Fetching'
<1> DEFINE next == FatWord(image, bufFat2, cluster2)
<1>0. /\ pc2 = "follow" /\ image \in Images /\ bootsect = 0
      /\ high = Carry(cluster2) /\ bufFat2 = Eax(FatSector(cluster2))
      /\ UNCHANGED <<image, mem, bootsect, bufFat2, bufData2, tmp, rootLba, slot2, pointer2,
                     sector, fails2>>
      /\ cluster2 \in 0 .. (WordMod - 1) /\ cluster2 \in Nat
  BY Words DEF TypeOK, FollowEntry, Searching, Fetching
<1>1. \/ pc2' = "wild" /\ ~ InFirstFat(image, bufFat2)
      \/ pc2' = "kernel" /\ IsLast(next) /\ UNCHANGED cluster2
      \/ pc2' = "readCluster" /\ ~ IsLast(next) /\ cluster2' = next % WordMod /\ high' = 0
  BY <1>0 DEF FollowEntry
<1>2. UNCHANGED <<KernelFirst, KernelCount, ClusterSectors, DataStart, Wanted, Fits>>
      /\ KernelInReach(image)' = KernelInReach(image) /\ \A c : Carry(c)' = Carry(c)
  BY <1>0, KeptFigures
<1>3. Searching' /\ pc2' \in {"wild", "kernel", "readCluster"}
  BY <1>0, <1>1 DEF Searching
<1>7. /\ high = 0 => InFirstFat(image, bufFat2) /\ next = FatEntry(image, cluster2)
      /\ high # 0 => next = 0
  BY <1>0, FollowedWord
<1>8. CASE pc2' = "wild"
  BY <1>3, <1>8 DEF Fetching
<1> HIDE DEF next
<1>4. CASE Astray /\ pc2' # "wild"
  <2>1. next \in {0, FatZero}
    BY <1>0, <1>4, <1>7, LostEntries DEF Astray, Followed
  <2>2. ~ IsLast(next) /\ next % WordMod \in {0, FatZero % WordMod}
    BY <2>1 DEF IsLast, FatZero, EndOfChain, WordMod
  <2>3. Astray'
    BY <1>1, <1>2, <1>4, <2>2 DEF Astray
  <2> QED BY <1>1, <1>3, <1>4, <2>2, <2>3 DEF Fetching
<1>9. ASSUME NEW n \in Nat, Fetched(n), high # 0, pc2' # "wild" PROVE Fetching'
  <2>1. ~ KernelInReach(image)
    <3>1. n \in 1 .. KernelCount /\ cluster2 = KernelFirst + n - 1
      BY <1>0, <1>9, KernelFigures DEF Fetched, Wanted
    <3> QED BY <1>0, <1>9, <3>1, ReachedCarriesNothing
  <2>2. ~ IsLast(next) /\ next % WordMod = 0
    BY <1>7, <1>9 DEF IsLast, EndOfChain, WordMod
  <2>3. Astray'
    BY <1>1, <1>2, <1>9, <2>1, <2>2 DEF Astray
  <2> QED BY <1>1, <1>9, <2>2, <2>3 DEF Fetching
<1>5. ASSUME NEW n \in Nat, Fetched(n), high = 0 PROVE Fetched(n)'
  <2>1. /\ Wanted /\ n >= 1 /\ n <= KernelCount /\ sector = 0 /\ cluster2 = KernelFirst + n - 1
    BY <1>0, <1>5 DEF Fetched
  <2>2. /\ KernelFirst \in Nat /\ KernelFirst >= 3 /\ KernelCount \in Nat
        /\ KernelEntry \in DOMAIN image.root
    BY <1>0, <2>1, KernelFigures DEF Wanted, Kernels
  <2>3. KernelFirst + KernelCount <= 65536
    <3>1. KernelFirst + KernelCount <= WordMod
      BY <1>0, <2>1, KernelNumbers
    <3> QED BY <3>1 DEF WordMod
  <2>4. next = IF n = KernelCount THEN EndOfChain ELSE KernelFirst + n
    <3>1. n \in 1 .. KernelCount
      BY <2>1, <2>2
    <3> QED BY <1>0, <1>5, <1>7, <2>1, <3>1, KernelChain
  <2>5. Fits => Held(n, sector)'
    BY <1>0, <1>2, <1>5 DEF Fetched, Held
  <2>6. CASE n = KernelCount
    <3>1. pc2' = "kernel"
      BY <1>1, <1>5, <1>7, <2>4, <2>6 DEF IsLast, EndOfChain
    <3>2. Carry(KernelFirst + n - 1) = 0
      BY <1>0, <1>5, <2>1
    <3> QED BY <1>0, <1>2, <1>5, <2>1, <2>5, <2>6, <3>1, <3>2 DEF Fetched
  <2>7. CASE n # KernelCount
    <3>1. next = KernelFirst + n /\ next \in Nat /\ next < 65536 /\ n < KernelCount
      BY <2>1, <2>2, <2>3, <2>4, <2>7
    <3>2. pc2' = "readCluster" /\ cluster2' = KernelFirst + n
      <4>1. ~ IsLast(next) /\ next % WordMod = next
        BY <3>1 DEF IsLast, EndOfChain, WordMod
      <4> QED BY <1>1, <1>5, <1>7, <3>1, <4>1
    <3> QED BY <1>0, <1>2, <1>5, <2>1, <2>5, <3>1, <3>2 DEF Fetched
  <2> QED BY <2>6, <2>7
<1>6. CASE (\E n \in Nat : Fetched(n)) /\ pc2' # "wild"
  <2>1. PICK n \in Nat : Fetched(n)
    BY <1>6
  <2>2. CASE high # 0
    BY <1>3, <1>6, <1>9, <2>1, <2>2
  <2>3. CASE high = 0
    <3>1. Fetched(n)'
      BY <1>5, <2>1, <2>3
    <3>2. pc2' = "readCluster" => high' = 0
      BY <1>1
    <3> QED BY <1>3, <1>6, <3>1, <3>2 DEF Fetching
  <2> QED BY <2>2, <2>3
<1> QED BY <1>0, <1>4, <1>6, <1>8 DEF Fetching

LEMMA Stage2Second ==
  ASSUME TypeOK, Shape, Second, DataStart < WordMod, pc1 = "run", Next2, UNCHANGED vars1
  PROVE  Second'
<1>0. image \in Images /\ image' = image /\ pc1' = "run"
  BY DEF TypeOK, vars1, Next2, Start, ReadBoot, ReadRootSector, ScanEntry, NotFound, Found,
         ReadSector, GarbageGeometry, ReadFatSector, FollowEntry
<1>1. UNCHANGED <<KernelEntry, KernelFirst, KernelCount, ClusterSectors, DataStart, Kernels,
                  Wanted, Fits, Followed>>
      /\ KernelInReach(image)' = KernelInReach(image) /\ \A c : Carry(c)' = Carry(c)
  BY <1>0, KeptFigures
<1>2. fails2' = 0 => fails2 = 0
  BY Fails2Assumption DEF TypeOK, Next2, Start, ReadBoot, ReadRootSector, ScanEntry, NotFound, Found,
         ReadSector, GarbageGeometry, ReadFatSector, FollowEntry, Int13
<1>3. SUFFICES ASSUME fails2' = 0, Followed PROVE Searching' /\ Fetching'
  BY <1>0, <1>1 DEF Second
<1>4. Searching /\ Fetching
  BY <1>2, <1>3 DEF Second
<1>5. CASE Start
  BY <1>0, <1>4, <1>5 DEF Start, Searching, Fetching
<1>6. CASE ReadBoot
  <2>1. pc2 = "readBoot" /\ pc2' = "readRoot" /\ bootsect' = tmp'
        /\ UNCHANGED <<rootLba, pointer2, sector>>
    BY <1>6 DEF ReadBoot
  <2>2. bootsect' = 0
    BY <1>3, <1>6, <2>1, AnsweredRead DEF ReadBoot
  <2>3. InStep(0)'
    <3>1. rootLba' = DataStart + RootStep * 0
      BY <1>0, <1>4, <2>1, DataFigures DEF Searching, RootStep
    <3>2. \A i \in Kernels : i > Stride * 0
      BY <1>0, ImageRoot DEF Kernels, Stride, RootStep, SlotsPerSector
    <3> QED BY <1>1, <3>1, <3>2 DEF InStep
  <2> QED BY <1>4, <2>1, <2>2, <2>3 DEF Searching, Fetching
<1>7. CASE ReadRootSector
  <2>1. /\ pc2 = "readRoot" /\ pc2' = "scan" /\ rootLba' = rootLba + RootStep /\ slot2' = 0
        /\ bufData2' = tmp' /\ UNCHANGED <<bootsect, pointer2, sector>>
    BY <1>7 DEF ReadRootSector
  <2>2. bufData2' = rootLba
    BY <1>3, <1>7, <2>1, AnsweredRead DEF ReadRootSector
  <2>3. PICK k \in Nat : InStep(k)
    BY <1>4, <2>1 DEF Searching
  <2>4. Scanning(k)'
    <3>1. rootLba = DataStart + RootStep * k /\ \A i \in Kernels : i > Stride * k
      BY <2>3 DEF InStep
    <3>2. rootLba' = DataStart + RootStep * (k + 1)
      BY <1>0, <2>1, <3>1, DataFigures DEF RootStep
    <3>3. Stride * k + slot2' = Stride * k
      BY <2>1 DEF Stride, RootStep, SlotsPerSector
    <3> QED BY <1>1, <2>1, <2>2, <3>1, <3>2, <3>3 DEF Scanning, SlotsPerSector
  <2> QED BY <1>4, <2>1, <2>4 DEF Searching, Fetching
<1>8. CASE ScanEntry
  BY <1>4, <1>8, ScanSecond
<1>9. CASE NotFound
  <2>1. pc2 = "notFound" /\ pc2' = "found" /\ Entry2' = Entry2
        /\ UNCHANGED <<bootsect, rootLba, pointer2, sector>>
    BY <1>0, <1>9 DEF NotFound, Entry2
  <2>2. Sought'
    BY <1>1, <1>4, <2>1 DEF Searching, Sought
  <2> QED BY <1>4, <2>1, <2>2 DEF Searching, Fetching
<1>10. CASE Found
  BY <1>3, <1>4, <1>10, FoundSecond
<1>11. CASE ReadSector
  BY <1>3, <1>4, <1>11, ReadSectorSecond
<1>12. CASE GarbageGeometry
  BY <1>4, <1>12 DEF GarbageGeometry, Searching
<1>13. CASE ReadFatSector
  <2>1. /\ pc2 = "readFat" /\ pc2' = "follow" /\ bufFat2' = tmp'
        /\ UNCHANGED <<mem, bootsect, cluster2, high, pointer2, sector>>
    BY <1>13 DEF ReadFatSector
  <2>2. bufFat2' = Eax(FatSector(cluster2))' /\ high' = Carry(cluster2)'
    <3>1. bufFat2' = Eax(FatSector(cluster2)) /\ high = Carry(cluster2)
      BY <1>3, <1>4, <1>13, <2>1, AnsweredRead DEF ReadFatSector, Fetching
    <3> QED BY <1>1, <2>1, <3>1 DEF Eax, FatSector
  <2>3. Astray => Astray'
    BY <1>1, <2>1 DEF Astray
  <2>4. ASSUME NEW n \in Nat, Fetched(n) PROVE Fetched(n)'
    <3>1. Fits => Held(n, sector)'
      BY <1>1, <2>1, <2>4 DEF Fetched, Held
    <3> QED BY <1>1, <2>1, <2>4, <3>1 DEF Fetched
  <2>5. Astray' \/ \E n \in Nat : Fetched(n)'
    BY <1>4, <2>1, <2>3, <2>4 DEF Fetching
  <2> QED BY <1>4, <2>1, <2>2, <2>5 DEF Searching, Fetching
<1>14. CASE FollowEntry
  BY <1>3, <1>4, <1>14, FollowSecond
<1> QED BY <1>5, <1>6, <1>7, <1>8, <1>9, <1>10, <1>11, <1>12, <1>13, <1>14 DEF Next2

\* Nothing changes for stage 2, except for memory before it starts.
LEMMA SameSecond ==
  ASSUME Second, UNCHANGED <<image, vars2>>, pc1 = "run" => UNCHANGED <<pc1, mem>>
  PROVE  Second'
<1>1. UNCHANGED <<KernelEntry, KernelFirst, KernelCount, ClusterSectors, DataStart, Kernels,
                  Wanted, Fits, Followed>>
      /\ KernelInReach(image)' = KernelInReach(image) /\ \A c : Carry(c)' = Carry(c)
  BY KeptFigures
<1>2. UNCHANGED <<pc2, bootsect, bufFat2, bufData2, rootLba, slot2, cluster2, high, pointer2, sector,
                  fails2>>
  BY DEF vars2
<1>3. UNCHANGED Entry2
  BY <1>2 DEF Entry2
<1>4. Searching => Searching'
  <2>1. \A k \in Nat : (Scanning(k) => Scanning(k)') /\ (InStep(k) => InStep(k)')
    BY <1>1, <1>2 DEF Scanning, InStep
  <2>2. Sought => Sought'
    BY <1>1, <1>3 DEF Sought
  <2> QED BY <1>1, <1>2, <1>3, <2>1, <2>2 DEF Searching
<1>5. CASE pc2 = "start"
  BY <1>1, <1>2, <1>4, <1>5 DEF Second, Fetching
<1>6. CASE pc2 # "start"
  <2>1. pc1 = "run" /\ UNCHANGED <<pc1, mem>>
    BY <1>6 DEF Second
  <2>2. Astray => Astray'
    BY <1>1, <1>2 DEF Astray
  <2>3. ASSUME NEW n \in Nat, Fetched(n) PROVE Fetched(n)'
    <3>1. Fits => Held(n, sector)'
      BY <1>1, <1>2, <2>1, <2>3 DEF Fetched, Held
    <3> QED BY <1>1, <1>2, <2>3, <3>1 DEF Fetched
  <2>4. Fetching => Fetching'
    BY <1>1, <1>2, <2>2, <2>3 DEF Fetching, FatSector, Eax
  <2> QED BY <1>1, <1>2, <1>4, <2>1, <2>4 DEF Second
<1> QED BY <1>5, <1>6

\* On the way through a kernel in reach stage 2 has the entry of each cluster.
LEMMA ReachedWord ==
  ASSUME TypeOK, Loading, Second, fails2 = 0, KernelInReach(image), pc2 = "follow"
  PROVE  /\ InFirstFat(image, bufFat2)
         /\ FatWord(image, bufFat2, cluster2) = FatEntry(image, cluster2)
<1>1. /\ image \in Images /\ cluster2 \in 0 .. (WordMod - 1) /\ DataStart < WordMod
      /\ high = Carry(cluster2) /\ bufFat2 = Eax(FatSector(cluster2))
  BY DEF TypeOK, Loading, Loads, Second, Fetching, Followed
<1>2. PICK n \in Nat : Fetched(n)
  BY DEF Second, Fetching, Followed, Astray
<1>3. n \in 1 .. KernelCount /\ cluster2 = KernelFirst + n - 1
  BY <1>1, <1>2, KernelFigures DEF Fetched, Wanted
<1>4. high = 0
  BY <1>1, <1>3, ReachedCarriesNothing
<1> QED BY <1>1, <1>4, FollowedWord

LEMMA StepSecond == TypeOK /\ Shape /\ Loading /\ Second /\ [Next]_vars => Second'
<1> SUFFICES ASSUME TypeOK, Shape, Loading, Second, [Next]_vars PROVE Second'
  OBVIOUS
<1>1. CASE Stage1
  <2>1. UNCHANGED <<image, vars2>> /\ pc1 # "run"
    BY <1>1 DEF Stage1, Next1, ReadFailed, ReadFat, ReadRoot, Scan, ReadCluster, Follow
  <2> QED BY <2>1, SameSecond
<1>2. CASE Stage2
  <2>1. pc1 = "run" /\ Next2 /\ UNCHANGED vars1
    BY <1>2 DEF Stage2, Stage2Runs
  <2>2. DataStart < WordMod
    BY <2>1 DEF Loading, Loads
  <2> QED BY <2>1, <2>2, Stage2Second
<1>3. CASE Stopped \/ UNCHANGED vars
  BY <1>3, SameSecond DEF Stopped, vars, vars1
<1> QED BY <1>1, <1>2, <1>3 DEF Next

LEMMA SecondInvariant == Spec => [](TypeOK /\ Loading /\ Second)
BY InitShape, StepShape, InitLoading, StepLoading, InitSecond, StepSecond, PTL DEF Spec

\* What the search and the loads come to.
LEMMA KernelIsRight ==
  ASSUME TypeOK, Second, DataStart < WordMod, pc2 = "kernel", fails2 = 0, Followed
  PROVE  LoadedAt(KernelOff, Stage2Name) <=> KernelInReach(image)
<1>1. image \in Images /\ ClusterSectors \in {4, 8} /\ DataStart \in Nat
  BY DataFigures DEF TypeOK
<1>2. PICK n \in Nat : Fetched(n)
  BY DEF Second, Fetching, Astray
<1>3. /\ Wanted /\ n = KernelCount /\ sector = 0 /\ KernelCount > 0
      /\ KernelFirst \in Nat /\ KernelFirst >= 3 /\ KernelCount \in Nat
      /\ HasEntry(image, Stage2Name) /\ LookedAt(KernelEntry)
  BY <1>1, <1>2, KernelFigures DEF Fetched, Wanted, Kernels
<1>4. /\ LoadedAt(KernelOff, Stage2Name) <=>
           \A j \in 0 .. (KernelCount * ClusterSectors - 1) :
              /\ (KernelOff + j) \in DOMAIN mem
              /\ mem[KernelOff + j] = DataStart + (KernelFirst - 2) * ClusterSectors + j
      /\ SectorsInWord(image, KernelEntry) <=>
           DataStart + (KernelFirst - 2) * ClusterSectors
             + (KernelCount * ClusterSectors - ClusterSectors) < WordMod
  <2>1. KernelOff \in Nat
    BY DEF KernelOff
  <2>2. image \in Images /\ DataStart < WordMod /\ HasEntry(image, Stage2Name)
    BY <1>1, <1>3
  <2>3. LET first == FirstOf(image, KernelEntry)
            count == image.root[KernelEntry].count
        IN  /\ LoadedAt(KernelOff, Stage2Name) <=>
                 \A j \in 0 .. (count * ClusterSectors - 1) :
                    /\ (KernelOff + j) \in DOMAIN mem
                    /\ mem[KernelOff + j] = DataStart + (first - 2) * ClusterSectors + j
            /\ SectorsInWord(image, KernelEntry) <=>
                 DataStart + (first - 2) * ClusterSectors
                   + (count * ClusterSectors - ClusterSectors) < WordMod
    BY <2>1, <2>2, LoadedMeans, Zenon DEF KernelEntry
  <2> QED BY <2>3, Zenon DEF KernelFirst, KernelCount
<1>5. SectorsOf(image, KernelEntry) = KernelCount * ClusterSectors
      /\ KernelCount * ClusterSectors \in Nat \ {0}
  <2>1. SectorsOf(image, KernelEntry) = KernelCount * ClusterSectors
    BY DEF SectorsOf, KernelCount, ClusterSectors
  <2>2. CASE ClusterSectors = 4  BY <1>3, <2>1, <2>2
  <2>3. CASE ClusterSectors = 8  BY <1>3, <2>1, <2>3
  <2> QED BY <1>1, <2>2, <2>3
<1>9. SectorsInWord(image, KernelEntry) <=> EndInWord(image, KernelEntry)
  <2> DEFINE lba == ((KernelFirst + KernelCount - 1) - 2) * ClusterSectors + DataStart
  <2>1. EndInWord(image, KernelEntry) <=>
          DataStart + (KernelFirst - 2) * ClusterSectors + KernelCount * ClusterSectors < WordMod
    BY Zenon DEF EndInWord, SectorOf, SectorsOf, FirstSectorOf, DataStart, ClusterSectors,
                 KernelFirst, KernelCount
  <2>2. /\ lba \in Nat
        /\ lba = DataStart + (KernelFirst - 2) * ClusterSectors
                    + (KernelCount * ClusterSectors - ClusterSectors)
        /\ lba + ClusterSectors =
             DataStart + (KernelFirst - 2) * ClusterSectors + KernelCount * ClusterSectors
    <3>1. CASE ClusterSectors = 4  BY <1>1, <1>3, <3>1
    <3>2. CASE ClusterSectors = 8  BY <1>1, <1>3, <3>2
    <3> QED BY <1>1, <3>1, <3>2
  <2>3. ((lba % WordMod) + ClusterSectors) \div WordMod = 0
    <3>1. Carry(KernelFirst + KernelCount - 1) = 0
      BY <1>2, <1>3 DEF Fetched
    <3>2. data_loc(image.secs) = DataStart
      BY <1>1, DataFigures
    <3>3. FirstSector2(KernelFirst + KernelCount - 1) = lba % WordMod
      BY <3>2, Zenon DEF FirstSector2, ClusterSectors
    <3> QED BY <3>1, <3>3 DEF Carry
  <2> HIDE DEF lba
  <2>4. lba < WordMod <=> lba + ClusterSectors < WordMod
    BY <1>1, <2>2, <2>3 DEF WordMod
  <2> QED BY <1>4, <2>1, <2>2, <2>4
<1>6. KernelInReach(image) <=> Fits /\ SectorsInWord(image, KernelEntry)
  BY <1>3, <1>5, <1>9 DEF KernelInReach, KernelEntry, Fits, SegmentSectors
<1>7. CASE Fits
  <2>1. Held(KernelCount, 0)
    BY <1>2, <1>3, <1>7 DEF Fetched
  <2>2. ReadInto(KernelOff, KernelFirst, KernelCount, ClusterSectors, DataStart)
    BY <1>3, <2>1 DEF Held, ReadInto
  <2>3. KernelOff \in Nat
    BY DEF KernelOff
  <2> HIDE DEF KernelOff, KernelFirst, KernelCount, ClusterSectors, DataStart
  <2>4. FileAt(KernelOff, KernelFirst, KernelCount, ClusterSectors, DataStart)
        <=> DataStart + (KernelFirst - 2) * ClusterSectors
              + (KernelCount * ClusterSectors - ClusterSectors) < WordMod
    BY <1>1, <1>3, <2>2, <2>3, CopyIsRight, Zenon
  <2> QED BY <1>4, <1>6, <1>7, <2>4 DEF FileAt
<1>8. CASE ~ Fits
  <2>1. 128 \in 0 .. (KernelCount * ClusterSectors - 1)
    BY <1>5, <1>8 DEF Fits, SegmentSectors
  <2>2. (KernelOff + 128) \notin DOMAIN mem
    BY DEF TypeOK, KernelOff, SegmentSectors
  <2> QED BY <1>4, <1>6, <1>8, <2>1, <2>2
<1> QED BY <1>7, <1>8

\* For every image of a volume without cluster 0xff00, whatever its root and
\* its kernel: stage 2 finds, loads and jumps to all of the kernel exactly when
\* the kernel is in its reach (bootloader.asm:73-181).
THEOREM KernelComplete == Spec => []KernelCompleteInReach
<1>1. ASSUME TypeOK, Loading, Second PROVE KernelCompleteInReach
  <2>1. SUFFICES ASSUME pc2 = "kernel", fails2 = 0, NoClusterFF00(image)
                 PROVE  LoadedAt(KernelOff, Stage2Name) <=> KernelInReach(image)
    BY DEF KernelCompleteInReach
  <2>2. DataStart < WordMod
    BY <1>1, <2>1 DEF Second, Loading, Loads
  <2> QED BY <1>1, <2>1, <2>2, KernelIsRight DEF Followed
<1> QED BY <1>1, SecondInvariant, PTL

-----------------------------------------------------------------------------
(* What in reach of both means *)

Looking == {"readFat", "readRoot", "scan"}

\* While stage 1 looks for its entry, the entry is still before it.
Straight ==
  LoaderInReach(image) =>
    /\ pc1 \notin {"end1", "wild"}
    /\ pc1 \in Looking => slot1 < EntryOf(image, Stage1Name)

\* What LoaderInReach says of the figures.
LEMMA LoaderReached ==
  ASSUME image \in Images, LoaderInReach(image)
  PROVE  /\ HasEntry(image, Stage1Name) /\ DataStart < WordMod
         /\ EntryOf(image, Stage1Name) \in DOMAIN image.root
         /\ EntryOf(image, Stage1Name) \in 1 .. 16
         /\ image.root[EntryOf(image, Stage1Name)].name = Stage1Name
         /\ LoaderCount > 0 /\ LoaderFirst + LoaderCount <= 128
         /\ LoaderCount * ClusterSectors <= 56
         /\ SectorsInWord(image, EntryOf(image, Stage1Name))
<1> DEFINE i == EntryOf(image, Stage1Name)
<1>1. /\ HasEntry(image, Stage1Name) /\ i <= 16 /\ LoaderCount > 0
      /\ LoaderFirst + LoaderCount <= 128 /\ SectorsOf(image, i) <= 56
      /\ SectorsInWord(image, i)
  BY DEF LoaderInReach, LoaderFirst, LoaderCount, SlotsPerSector, EntriesPerSector, SegmentSectors,
         KernelCode
<1>2. i \in DOMAIN image.root /\ image.root[i].name = Stage1Name
  BY <1>1 DEF HasEntry, EntryOf
<1>3. LoaderFirst \in Nat /\ LoaderFirst >= 3 /\ LoaderCount \in Nat
  BY <1>2, NodeSpan DEF LoaderFirst, LoaderCount
<1>4. DataStart \in Nat /\ ClusterSectors \in {4, 8, 16, 32, 64}
  BY ImageSize, FatSizeBounds, SecPerClusBySize
  DEF DataStart, ClusterSectors, FirstDataSector, RsvdSecCnt, NumFATs
<1>5. DataStart + (LoaderFirst - 2) * ClusterSectors
        + (LoaderCount * ClusterSectors - ClusterSectors) < WordMod
  BY <1>1 DEF SectorsInWord, SectorOf, SectorsOf, FirstSectorOf, DataStart, ClusterSectors,
              LoaderFirst, LoaderCount
<1>6. DataStart < WordMod
  <2> HIDE DEF DataStart, ClusterSectors, LoaderFirst, LoaderCount
  <2>1. LoaderCount >= 1 /\ LoaderFirst - 2 >= 0
    BY <1>1, <1>3
  <2>2. \A S \in {4, 8, 16, 32, 64} : ClusterSectors = S => DataStart < WordMod
    BY <1>3, <1>4, <1>5, <2>1 DEF WordMod
  <2> QED BY <1>4, <2>2
<1>7. LoaderCount * ClusterSectors <= 56
  BY <1>1 DEF SectorsOf, LoaderCount, ClusterSectors
<1>8. i \in 1 .. 16
  <2> HIDE DEF i
  <2>1. DOMAIN image.root = 1 .. Len(image.root) /\ Len(image.root) \in Nat
    BY ImageRoot
  <2>2. i \in 1 .. Len(image.root) /\ i <= 16
    BY <1>1, <1>2, <2>1, Zenon
  <2> QED BY <2>1, <2>2
<1> QED BY <1>1, <1>2, <1>6, <1>7, <1>8

\* Of the cases of Loading one is left.
LEMMA ReachedIsNear ==
  ASSUME TypeOK, Loading, Loads, LoaderInReach(image)
  PROVE  \E n \in Nat : Near(n)
<1>1. image \in Images
  BY DEF TypeOK
<1>2. /\ LoaderCount > 0 /\ LoaderFirst + LoaderCount <= 128
      /\ LoaderFirst \in Nat /\ LoaderCount \in Nat
  BY <1>1, LoaderReached, LoaderFigures
<1> HIDE DEF LoaderCount, LoaderFirst
<1>3. ~ Empty
  BY <1>2 DEF Empty
<1>4. ~ High
  <2>1. ~ (LoaderFirst >= WordMod)
    BY <1>2 DEF WordMod
  <2> QED BY <2>1, Zenon DEF High
<1>5. ~ Beyond
  <2> SUFFICES ASSUME 128 <= LoaderFirst PROVE FALSE
    BY DEF Beyond, EntriesPerSector
  <2> QED BY <1>2
<1> QED BY <1>3, <1>4, <1>5 DEF Loading

LEMMA ScanStraight ==
  ASSUME TypeOK, Shape, Straight, Scan, LoaderInReach(image)
  PROVE  pc1' \notin {"end1", "wild"} /\ (pc1' \in Looking => slot1' < EntryOf(image, Stage1Name))
<1> DEFINE i == EntryOf(image, Stage1Name)
           e == SlotOf(image, bufData1, slot1)
           D == FirstDataSector(image.secs)
<1>0. /\ pc1 = "scan" /\ image \in Images /\ bufData1 = data_loc(image.secs)
      /\ slot1 \in Nat /\ slot1 < i
  BY DEF Scan, TypeOK, Shape, Straight, Looking
<1>1. /\ DataStart < WordMod /\ i \in DOMAIN image.root /\ i \in 1 .. 16
      /\ image.root[i].name = Stage1Name
  BY <1>0, LoaderReached
<1>2. D \in Nat /\ bufData1 = D /\ SecPerClus(image.secs) \in {4, 8}
  BY <1>0, <1>1, DataFigures DEF DataStart, ClusterSectors
<1> DEFINE n == (bufData1 - D) * SlotsPerSector + slot1 + 1
<1> HIDE DEF i, D
<1>3. n = slot1 + 1 /\ slot1 \in 0 .. (SlotsPerSector - 1) /\ slot1 < SlotsPerSector
  BY <1>0, <1>1, <1>2 DEF SlotsPerSector
<1>4. n \in DOMAIN image.root
  <2>1. i \in 1 .. Len(image.root) /\ Len(image.root) \in Nat
    BY <1>0, <1>1, ImageRoot
  <2> QED BY <1>0, <1>3, <2>1, ImageRoot
<1>5. e = [name |-> image.root[n].name,
           first |-> IF image.root[n].count = 0 THEN 0 ELSE FirstOf(image, n)]
  BY <1>0, <1>2, <1>3, <1>4, SlotEntry DEF D
<1>6. image.root[n].name \notin {"zero", "contents"}
  BY <1>0, <1>4, DiskAssumption
<1>7. e # ZeroSlot /\ e.name = image.root[n].name
  BY <1>5, <1>6 DEF ZeroSlot
<1>8. e.name # Stage1Name => n # i
  BY <1>1, <1>7
<1> HIDE DEF n, e
<1>9. \/ e.name = Stage1Name /\ pc1' = "readCluster"
      \/ e.name # Stage1Name /\ pc1' = pc1 /\ slot1' = slot1 + 1
  BY <1>3, <1>7 DEF Scan, e
<1> QED BY <1>0, <1>1, <1>3, <1>8, <1>9 DEF i, Looking

LEMMA StepStraight ==
  ASSUME TypeOK, Shape, Loading, Straight, [Next]_vars
  PROVE  Straight'
<1>0. image \in Images /\ image' = image
  BY DEF TypeOK, Next, Stage1, Stage2, Stopped, vars, Next1, ReadFailed, ReadFat, ReadRoot, Scan,
         ReadCluster, Follow, Next2, Start, ReadBoot, ReadRootSector, ScanEntry, NotFound, Found,
         ReadSector, GarbageGeometry, ReadFatSector, FollowEntry
<1> SUFFICES ASSUME LoaderInReach(image)
             PROVE  pc1' \notin {"end1", "wild"}
                    /\ (pc1' \in Looking => slot1' < EntryOf(image, Stage1Name))
  BY <1>0 DEF Straight
<1>1. /\ pc1 \notin {"end1", "wild"} /\ (pc1 \in Looking => slot1 < EntryOf(image, Stage1Name))
  BY DEF Straight
<1>2. /\ EntryOf(image, Stage1Name) \in 1 .. 16 /\ HasEntry(image, Stage1Name)
      /\ LoaderCount > 0 /\ LoaderFirst + LoaderCount <= 128 /\ LoaderCount * ClusterSectors <= 56
      /\ DataStart < WordMod
  BY <1>0, LoaderReached
<1>3. CASE UNCHANGED <<pc1, slot1>>
  BY <1>1, <1>3
<1>4. CASE Stage1
  <2>1. CASE ReadFailed
    BY <1>1, <2>1 DEF ReadFailed, Looking
  <2>2. CASE ReadFat \/ ReadRoot
    BY <1>1, <2>2 DEF ReadFat, ReadRoot, ReadDone, Looking
  <2>4. CASE Scan
    BY <2>4, ScanStraight
  <2>5. ASSUME ReadCluster \/ Follow
        PROVE  /\ pc1 \in {"readCluster", "follow"}
               /\ \E n \in Nat : Near(n)
    BY <2>5, ReachedIsNear DEF ReadCluster, Follow, Loads
  <2>6. ClusterSectors \in {4, 8} /\ LoaderFirst \in Nat /\ LoaderCount \in Nat
    BY <1>0, <1>2, LoaderFigures
  <2>7. CASE ReadCluster
    <3>1. PICK n \in Nat : Near(n)
      BY <2>5, <2>7
    <3>2. n < LoaderCount /\ pointer1 = (72 + n * ClusterSectors) % 128
      BY <2>7, <3>1 DEF ReadCluster, Near, KernelCode, SegmentSectors
    <3>3. pointer1 = 72 + n * ClusterSectors /\ pointer1 >= 72
      <4> HIDE DEF ClusterSectors, LoaderCount, LoaderFirst
      <4>1. CASE ClusterSectors = 4
        BY <1>2, <2>6, <3>2, <4>1
      <4>2. CASE ClusterSectors = 8
        BY <1>2, <2>6, <3>2, <4>2
      <4> QED BY <2>6, <4>1, <4>2
    <3>4. pc1' = "follow"
      <4>1. ~ (pointer1 < KernelCode)
        BY <2>6, <3>3 DEF KernelCode
      <4> QED BY <2>7, <4>1 DEF ReadCluster, ReadDone
    <3> QED BY <3>4 DEF Looking
  <2>8. CASE Follow
    <3>1. PICK n \in Nat : Near(n)
      BY <2>5, <2>8
    <3>2. cluster1 = LoaderFirst + n - 1 /\ n <= LoaderCount
      BY <2>8, <3>1 DEF Follow, Near
    <3>3. cluster1 < EntriesPerSector
      BY <1>2, <2>6, <3>2 DEF EntriesPerSector
    <3>4. pc1' \in {"run", "readCluster"}
      BY <2>6, <2>8, <3>2, <3>3 DEF Follow, EntriesPerSector
    <3> QED BY <3>4 DEF Looking
  <2> QED BY <1>4, <2>1, <2>2, <2>4, <2>7, <2>8 DEF Stage1, Next1
<1> QED BY <1>3, <1>4 DEF Next, Stage2, Stopped, vars, vars1

\* With its reads answered stage 2 does not leave the way to a kernel in reach.
Kept2 == fails2 = 0 /\ KernelInReach(image) => pc2 # "wild"

LEMMA StepKept2 ==
  ASSUME TypeOK, Loading, Second, Kept2, [Next]_vars
  PROVE  Kept2'
<1>0. image \in Images /\ image' = image
  BY DEF TypeOK, Next, Stage1, Stage2, Stopped, vars, Next1, ReadFailed, ReadFat, ReadRoot, Scan,
         ReadCluster, Follow, Next2, Start, ReadBoot, ReadRootSector, ScanEntry, NotFound, Found,
         ReadSector, GarbageGeometry, ReadFatSector, FollowEntry
<1>1. SUFFICES ASSUME fails2' = 0, KernelInReach(image) PROVE pc2' # "wild"
  BY <1>0 DEF Kept2
<1>2. fails2 = 0
  BY <1>1, Fails2Assumption
  DEF TypeOK, Next, Stage1, Stage2, Stopped, vars, vars2, Next2, Start, ReadBoot, ReadRootSector,
      ScanEntry, NotFound, Found, ReadSector, GarbageGeometry, ReadFatSector, FollowEntry, Int13
<1>3. pc2 # "wild" /\ Searching /\ Fetching
  BY <1>1, <1>2 DEF Kept2, Second, Followed
<1>4. CASE Found
  <2>1. Sought /\ Kernels # {}
    BY <1>0, <1>1, <1>3, <1>4, ReachedIsWanted DEF Found, Searching, Wanted
  <2>2. Entry2 # ContentsSlot
    BY <2>1 DEF Sought, ContentsSlot, Stage2Name
  <2> QED BY <1>4, <2>2 DEF Found
<1>5. ~ GarbageGeometry
  BY <1>3 DEF GarbageGeometry, Searching
<1>6. CASE FollowEntry
  <2>1. InFirstFat(image, bufFat2)
    BY <1>0, <1>1, <1>3, <1>6, ReachedWord DEF FollowEntry
  <2> QED BY <1>6, <2>1 DEF FollowEntry
<1>7. CASE Start \/ ReadBoot \/ ReadRootSector \/ ScanEntry \/ NotFound \/ ReadSector \/ ReadFatSector
  BY <1>3, <1>7 DEF Start, ReadBoot, ReadRootSector, ScanEntry, NotFound, ReadSector, ReadFatSector
<1>8. CASE Stage1 \/ Stopped \/ UNCHANGED vars
  BY <1>3, <1>8 DEF Stage1, Stopped, vars, vars2
<1> QED BY <1>4, <1>5, <1>6, <1>7, <1>8 DEF Next, Stage2, Next2

\* The safety half of Boots, for every image in the reach of both loaders and a
\* disk of any size, with clusters 0xff00 and above too: what is left of Boots
\* is that the loaders go on (boot.s:107-181, bootloader.asm:73-181).
THEOREM ReachIsEnough == Spec => []NoWrongTurn
<1>1. Init => Straight /\ Kept2
  <2>1. Init => (LoaderInReach(image) => EntryOf(image, Stage1Name) \in 1 .. 16)
    BY LoaderReached DEF Init
  <2> QED BY <2>1 DEF Init, Init1, Init2, Straight, Kept2
<1>2. TypeOK /\ Shape /\ Loading /\ Straight /\ [Next]_vars => Straight'
  BY StepStraight
<1>3. TypeOK /\ Loading /\ Second /\ Kept2 /\ [Next]_vars => Kept2'
  BY StepKept2
<1>4. TypeOK /\ Loading /\ Second /\ Stage2Complete /\ Straight /\ Kept2 => NoWrongTurn
  <2> SUFFICES ASSUME TypeOK, Loading, Second, Stage2Complete, Straight, Kept2,
                      LoaderInReach(image), KernelInReach(image)
               PROVE  /\ pc1 \notin {"end1", "wild"} /\ (pc1 = "run" => Stage2Runs)
                      /\ fails2 = 0 => /\ pc2 # "wild"
                                       /\ pc2 = "kernel" => LoadedAt(KernelOff, Stage2Name)
    BY DEF NoWrongTurn
  <2>1. pc1 = "run" => Stage2Runs
    BY DEF Stage2Complete, Stage2Runs, LoaderInReach
  <2>2. ASSUME fails2 = 0, pc2 = "kernel" PROVE LoadedAt(KernelOff, Stage2Name)
    <3>1. image \in Images /\ DataStart < WordMod
      BY LoaderReached DEF TypeOK
    <3> QED BY <2>2, <3>1, KernelIsRight DEF Followed
  <2> QED BY <2>1, <2>2 DEF Straight, Kept2
<1> QED BY <1>1, <1>2, <1>3, <1>4, BootInvariant, SecondInvariant, LoaderComplete, PTL DEF Spec

-----------------------------------------------------------------------------
(* How long the loaders can take *)

\* The steps that stage 1 has ahead of it: the slots up to its entry, two for each
\* cluster still to load.
Ahead1 ==
  LET clusters == LoaderFirst + LoaderCount - cluster1
      slots == EntryOf(image, Stage1Name) - slot1
  IN  IF pc1 = "readFat" THEN 2 * LoaderCount + slots + 2
      ELSE IF pc1 = "readRoot" THEN 2 * LoaderCount + slots + 1
      ELSE IF pc1 = "scan" THEN 2 * LoaderCount + slots
      ELSE IF pc1 = "readCluster" THEN 2 * clusters
      ELSE IF pc1 = "follow" THEN 2 * clusters - 1
      ELSE 0

\* And stage 2: two for each entry up to the kernel's, or more, and the sectors of
\* each cluster still to load with two more for its FAT entry.
Fetches(n) == n * (ClusterSectors + 2)
Ahead2 ==
  LET clusters == KernelFirst + KernelCount - cluster2
      entries(lba) == KernelEntry - (lba - DataStart) * SlotsPerSector
  IN  IF pc2 = "start" THEN Fetches(KernelCount) + 2 * KernelEntry + 4
      ELSE IF pc2 = "readBoot" THEN Fetches(KernelCount) + 2 * KernelEntry + 3
      ELSE IF pc2 = "readRoot" THEN Fetches(KernelCount) + 2 * entries(rootLba) + 2
      ELSE IF pc2 = "scan" THEN Fetches(KernelCount) + 2 * (entries(bufData2) - slot2) + 1
      ELSE IF pc2 = "found" THEN Fetches(KernelCount) + 1
      ELSE IF pc2 = "readCluster" THEN Fetches(clusters) - sector
      ELSE IF pc2 = "readFat" THEN Fetches(clusters) - ClusterSectors
      ELSE IF pc2 = "follow" THEN Fetches(clusters) - ClusterSectors - 1
      ELSE 0

\* What the two have ahead of them, and the reads that may still fail.
Ahead == Ahead1 + (MaxFails1 - fails1) + Ahead2

\* Every step takes from it, while stage 2 has its reads answered: no cluster is
\* loaded twice and no entry looked at again (boot.s:107-181, bootloader.asm:73-181).
LoadersRunOut ==
  [][LoaderInReach(image) /\ KernelInReach(image) /\ fails2' = 0
       => Ahead' \in Nat /\ Ahead' < Ahead]_vars

\* What holds of an image in the reach of both loaders.
Reachable == LoaderInReach(image) /\ KernelInReach(image)
Known == TypeOK /\ Shape /\ Loading /\ Second /\ Straight /\ Kept2

LEMMA ReachFigures ==
  ASSUME TypeOK, Reachable
  PROVE  /\ image \in Images /\ DataStart \in Nat /\ DataStart < WordMod
         /\ ClusterSectors \in {4, 8} /\ Wanted /\ Followed
         /\ EntryOf(image, Stage1Name) \in 1 .. 16
         /\ EntryOf(image, Stage1Name) \in DOMAIN image.root
         /\ LoaderFirst \in Nat /\ LoaderCount \in Nat /\ LoaderCount > 0
         /\ LoaderFirst + LoaderCount <= 128
         /\ KernelEntry \in Nat /\ KernelEntry \in Kernels /\ KernelEntry \in DOMAIN image.root
         /\ KernelFirst \in Nat /\ KernelCount \in Nat /\ KernelCount > 0
         /\ KernelFirst + KernelCount <= WordMod
<1>1. image \in Images /\ LoaderInReach(image) /\ KernelInReach(image)
  BY DEF TypeOK, Reachable
<1>2. /\ HasEntry(image, Stage1Name) /\ DataStart < WordMod
      /\ EntryOf(image, Stage1Name) \in 1 .. 16
      /\ LoaderCount > 0 /\ LoaderFirst + LoaderCount <= 128
  BY <1>1, LoaderReached
<1>3. Wanted /\ Followed
  BY <1>1, ReachedIsWanted DEF Followed
<1>4. KernelEntry \in Kernels /\ KernelEntry \in Nat /\ KernelEntry \in DOMAIN image.root
  <2>1. KernelEntry \in Kernels
    BY <1>1, <1>3, KernelFigures DEF Wanted
  <2> QED BY <1>1, <2>1, ImageRoot DEF Kernels
<1>5. KernelFirst + KernelCount <= WordMod
  BY <1>1, <1>2, <1>3, KernelNumbers
<1>6. /\ ClusterSectors \in {4, 8} /\ DataStart \in Nat
      /\ EntryOf(image, Stage1Name) \in DOMAIN image.root
      /\ LoaderFirst \in Nat /\ LoaderCount \in Nat
  BY <1>1, <1>2, LoaderFigures
<1>7. KernelFirst \in Nat /\ KernelCount \in Nat /\ KernelCount > 0
  BY <1>1, <1>3, KernelFigures DEF Wanted
<1> QED BY <1>1, <1>2, <1>3, <1>4, <1>5, <1>6, <1>7

\* Stage 1 has steps ahead of it until it stops.
GoesOn1 ==
  Reachable =>
    /\ Ahead1 \in Nat
    /\ pc1 \in {"readFat", "readRoot", "scan", "readCluster", "follow"} => Ahead1 > 0
    /\ pc1 = "scan" => Ahead1 > 2 * LoaderCount
    /\ Loads => \E n \in Nat : Near(n)

LEMMA Stage1Ahead == Known => GoesOn1
<1> SUFFICES ASSUME Known, Reachable
             PROVE  /\ Ahead1 \in Nat
                    /\ pc1 \in {"readFat", "readRoot", "scan", "readCluster", "follow"} => Ahead1 > 0
                    /\ pc1 = "scan" => Ahead1 > 2 * LoaderCount
                    /\ Loads => \E n \in Nat : Near(n)
  BY DEF GoesOn1
<1> DEFINE e == EntryOf(image, Stage1Name)
<1>1. /\ e \in Nat /\ LoaderFirst \in Nat /\ LoaderCount \in Nat /\ LoaderCount > 0
      /\ slot1 \in Nat /\ cluster1 \in Nat
  BY ReachFigures, Words DEF Known, TypeOK
<1>2. pc1 \in Looking => slot1 < e
  BY DEF Known, Straight, Reachable
<1>3. Loads => \E n \in Nat : Near(n)
  BY ReachedIsNear DEF Known, Reachable
<1>4. CASE pc1 \in Looking
  <2>1. Ahead1 = 2 * LoaderCount + (e - slot1) + (IF pc1 = "readFat" THEN 2
                                                  ELSE IF pc1 = "readRoot" THEN 1 ELSE 0)
    <3> HIDE DEF e
    <3> QED BY <1>1, <1>4 DEF Ahead1, Looking, e
  <2> HIDE DEF e
  <2>2. Ahead1 \in Nat /\ Ahead1 > 2 * LoaderCount /\ Ahead1 > 0
    BY <1>1, <1>2, <1>4, <2>1
  <2> QED BY <1>3, <2>2
<1>5. CASE pc1 = "readCluster"
  <2>1. cluster1 < LoaderFirst + LoaderCount
    BY <1>1, <1>3, <1>5 DEF Near, Loads
  <2>2. Ahead1 = 2 * (LoaderFirst + LoaderCount - cluster1)
    BY <1>5 DEF Ahead1
  <2> QED BY <1>1, <1>3, <1>5, <2>1, <2>2
<1>6. CASE pc1 = "follow"
  <2>1. cluster1 < LoaderFirst + LoaderCount
    BY <1>1, <1>3, <1>6 DEF Near, Loads
  <2>2. Ahead1 = 2 * (LoaderFirst + LoaderCount - cluster1) - 1
    BY <1>6 DEF Ahead1
  <2> QED BY <1>1, <1>3, <1>6, <2>1, <2>2
<1>7. CASE pc1 \notin Looking \cup {"readCluster", "follow"}
  BY <1>3, <1>7 DEF Ahead1, Looking
<1> QED BY <1>3, <1>4, <1>5, <1>6, <1>7 DEF Looking

\* A step of stage 1 has one fewer ahead of it, or one failure fewer.
LEMMA Stage1Falls ==
  ASSUME Known, GoesOn1, GoesOn1', Reachable, Next1
  PROVE  Ahead1' + (MaxFails1 - fails1') < Ahead1 + (MaxFails1 - fails1)
<1> DEFINE e == EntryOf(image, Stage1Name)
<1>0. image' = image
  BY DEF Next1, ReadFailed, ReadFat, ReadRoot, Scan, ReadCluster, Follow
<1>1. /\ image \in Images /\ e \in 1 .. 16 /\ e \in DOMAIN image.root
      /\ LoaderFirst \in Nat /\ LoaderCount \in Nat /\ LoaderCount > 0
      /\ LoaderFirst + LoaderCount <= 128
      /\ fails1 \in Nat /\ MaxFails1 \in Nat /\ slot1 \in Nat /\ cluster1 \in Nat
  BY ReachFigures, Words, Fails1Assumption DEF Known, TypeOK
<1>2. e' = e /\ LoaderFirst' = LoaderFirst /\ LoaderCount' = LoaderCount /\ Reachable'
  BY <1>0 DEF LoaderFirst, LoaderCount, Reachable
<1>3. /\ Ahead1 \in Nat /\ Ahead1' \in Nat
      /\ pc1 \in {"readFat", "readRoot", "scan", "readCluster", "follow"} => Ahead1 > 0
      /\ pc1 = "scan" => Ahead1 > 2 * LoaderCount
  BY <1>2 DEF GoesOn1
<1>4. ASSUME pc1' \in {"run", "fail", "end1", "wild"} PROVE Ahead1' = 0
  BY <1>4 DEF Ahead1
<1> HIDE DEF e
<1>5. CASE ReadFailed
  <2>1. fails1' = fails1 + 1 /\ UNCHANGED <<slot1, cluster1>>
        /\ pc1 \in {"readFat", "readRoot", "readCluster"} /\ pc1' \in {pc1, "fail"}
    BY <1>5 DEF ReadFailed
  <2>2. CASE pc1' = pc1
    <3>1. Ahead1' = Ahead1
      BY <1>2, <2>1, <2>2 DEF Ahead1, e
    <3> QED BY <1>1, <1>3, <2>1, <3>1
  <2>3. CASE pc1' = "fail"
    BY <1>1, <1>3, <1>4, <2>1, <2>3
  <2> QED BY <2>1, <2>2, <2>3
<1>6. CASE ReadFat \/ ReadRoot
  <2>1. /\ UNCHANGED <<slot1, cluster1, fails1>>
        /\ \/ pc1 = "readFat" /\ pc1' = "readRoot"
           \/ pc1 = "readRoot" /\ pc1' = "scan"
    BY <1>6 DEF ReadFat, ReadRoot, ReadDone
  <2>2. Ahead1' = Ahead1 - 1
    BY <1>1, <1>2, <2>1 DEF Ahead1, e
  <2> QED BY <1>1, <1>3, <2>1, <2>2
<1>7. CASE Scan
  <2>1. pc1 = "scan" /\ fails1' = fails1
        /\ \/ pc1' = pc1 /\ slot1' = slot1 + 1 /\ cluster1' = cluster1
           \/ pc1' = "readCluster"
           \/ pc1' \in {"wild", "end1"}
    BY <1>7 DEF Scan
  <2>2. CASE pc1' = pc1 /\ slot1' = slot1 + 1
    <3>1. Ahead1 = 2 * LoaderCount + (e - slot1) /\ Ahead1' = 2 * LoaderCount + (e - (slot1 + 1))
      BY <1>2, <2>1, <2>2 DEF Ahead1, e
    <3> QED BY <1>1, <1>3, <2>1, <3>1
  <2>3. CASE pc1' = "readCluster"
    <3>1. PICK n \in Nat : Near(n)'
      BY <1>2, <2>3 DEF Loads, GoesOn1
    <3>2. cluster1' = LoaderFirst + n
      BY <1>2, <2>3, <3>1 DEF Near
    <3>3. Ahead1' = 2 * (LoaderFirst + LoaderCount - cluster1')
      BY <1>2, <2>3 DEF Ahead1
    <3> QED BY <1>1, <1>3, <2>1, <3>2, <3>3
  <2>4. CASE pc1' \in {"wild", "end1"}
    <3>1. Ahead1' = 0
      BY <1>4, <2>4
    <3> QED BY <1>1, <1>3, <2>1, <3>1
  <2> QED BY <2>1, <2>2, <2>3, <2>4
<1>8. CASE ReadCluster
  <2>1. /\ pc1 = "readCluster" /\ pc1' \in {"follow", "wild"} /\ UNCHANGED <<cluster1, fails1>>
    BY <1>8 DEF ReadCluster, ReadDone
  <2>2. CASE pc1' = "follow"
    <3>1. Ahead1 = 2 * (LoaderFirst + LoaderCount - cluster1)
          /\ Ahead1' = 2 * (LoaderFirst + LoaderCount - cluster1) - 1
      BY <1>2, <2>1, <2>2 DEF Ahead1
    <3> QED BY <1>1, <1>3, <2>1, <3>1
  <2>3. CASE pc1' = "wild"
    BY <1>1, <1>3, <1>4, <2>1, <2>3
  <2> QED BY <2>1, <2>2, <2>3
<1>9. CASE Follow
  <2>1. pc1 = "follow" /\ fails1' = fails1 /\ pc1' \in {"wild", "run", "readCluster"}
    BY <1>9 DEF Follow
  <2>2. CASE pc1' # "readCluster"
    <3>1. Ahead1' = 0
      BY <1>4, <2>1, <2>2
    <3> QED BY <1>1, <1>3, <2>1, <3>1
  <2>3. CASE pc1' = "readCluster"
    <3>1. PICK n \in Nat : Near(n)
      BY <2>1 DEF GoesOn1, Loads
    <3>2. n >= 1 /\ n <= LoaderCount /\ cluster1 = LoaderFirst + (n - 1) /\ n - 1 \in Nat
          /\ n - 1 < LoaderCount
      BY <1>1, <2>1, <3>1 DEF Near
    <3>3. FatEntry(image, cluster1) =
            IF n - 1 = LoaderCount - 1 THEN EndOfChain ELSE LoaderFirst + (n - 1) + 1
      BY <1>1, <3>2, ChainEntry DEF LoaderFirst, LoaderCount, e
    <3>4. ~ IsLast(FatEntry(image, cluster1)) /\ cluster1' = FatEntry(image, cluster1) % WordMod
      BY <1>9, <2>3 DEF Follow
    <3>5. FatEntry(image, cluster1) = LoaderFirst + n
      BY <1>1, <3>2, <3>3, <3>4 DEF IsLast, EndOfChain
    <3>6. cluster1' = cluster1 + 1
      <4>1. LoaderFirst + n = cluster1 + 1 /\ LoaderFirst + n \in 0 .. (WordMod - 1)
        BY <1>1, <3>2 DEF WordMod
      <4>2. (LoaderFirst + n) % WordMod = LoaderFirst + n
        BY <4>1, Words
      <4> QED BY <3>4, <3>5, <4>1, <4>2
    <3>7. Ahead1 = 2 * (LoaderFirst + LoaderCount - cluster1) - 1
          /\ Ahead1' = 2 * (LoaderFirst + LoaderCount - cluster1')
      BY <1>2, <2>1, <2>3 DEF Ahead1
    <3> QED BY <1>1, <1>3, <2>1, <3>6, <3>7
  <2> QED BY <2>2, <2>3
<1> QED BY <1>5, <1>6, <1>7, <1>8, <1>9 DEF Next1

\* What a cluster of the kernel takes, for one more of them.
LEMMA FetchSteps ==
  ASSUME ClusterSectors \in {4, 8}
  PROVE  \A n \in Int :
           /\ Fetches(n) \in Int /\ (n >= 0 => Fetches(n) >= 0)
           /\ Fetches(n + 1) = Fetches(n) + ClusterSectors + 2
<1>1. CASE ClusterSectors = 4
  BY <1>1 DEF Fetches
<1>2. CASE ClusterSectors = 8
  BY <1>2 DEF Fetches
<1> QED BY <1>1, <1>2

\* Stage 2 has steps ahead of it until it stops.
GoesOn2 ==
  Reachable /\ fails2 = 0 =>
    /\ Ahead2 \in Nat
    /\ pc2 \in {"start", "readBoot", "readRoot", "scan", "found",
                "readCluster", "readFat", "follow"} => Ahead2 > 0
    /\ pc2 \notin {"notFound", "wild"}
    /\ pc2 = "readRoot" => \E k \in Nat : InStep(k)
    /\ pc2 = "scan" => \E k \in Nat : Scanning(k)
    /\ pc2 = "found" => Sought
    /\ pc2 \in {"readCluster", "readFat", "follow"} => \E n \in Nat : Fetched(n)

\* What is left to look at, by the sector that stage 2 is at.
LEMMA EntriesLeft ==
  ASSUME Known, Reachable
  PROVE  /\ \A k \in Nat : InStep(k) =>
              /\ KernelEntry - (rootLba - DataStart) * SlotsPerSector = KernelEntry - 8192 * k
              /\ KernelEntry - 8192 * k > 0
         /\ \A k \in Nat : Scanning(k) =>
              /\ KernelEntry - (bufData2 - DataStart) * SlotsPerSector = KernelEntry - 8192 * k
              /\ KernelEntry - 8192 * k - slot2 > 0
<1>1. DataStart \in Nat /\ KernelEntry \in Nat /\ KernelEntry \in Kernels /\ slot2 \in Nat
  BY ReachFigures DEF Known, TypeOK, SlotsPerSector
<1>2. ASSUME NEW k \in Nat, InStep(k)
      PROVE  /\ KernelEntry - (rootLba - DataStart) * SlotsPerSector = KernelEntry - 8192 * k
             /\ KernelEntry - 8192 * k > 0
  BY <1>1, <1>2 DEF InStep, Stride, RootStep, SlotsPerSector
<1>3. ASSUME NEW k \in Nat, Scanning(k)
      PROVE  /\ KernelEntry - (bufData2 - DataStart) * SlotsPerSector = KernelEntry - 8192 * k
             /\ KernelEntry - 8192 * k - slot2 > 0
  BY <1>1, <1>3 DEF Scanning, Stride, RootStep, SlotsPerSector
<1> QED BY <1>2, <1>3

LEMMA Stage2Ahead == Known => GoesOn2
<1> SUFFICES ASSUME Known, Reachable, fails2 = 0
             PROVE  /\ Ahead2 \in Nat
                    /\ pc2 \in {"start", "readBoot", "readRoot", "scan", "found",
                                "readCluster", "readFat", "follow"} => Ahead2 > 0
                    /\ pc2 \notin {"notFound", "wild"}
                    /\ pc2 = "readRoot" => \E k \in Nat : InStep(k)
                    /\ pc2 = "scan" => \E k \in Nat : Scanning(k)
                    /\ pc2 = "found" => Sought
                    /\ pc2 \in {"readCluster", "readFat", "follow"} => \E n \in Nat : Fetched(n)
  BY DEF GoesOn2
<1>1. /\ ClusterSectors \in {4, 8} /\ DataStart \in Nat /\ Wanted /\ Followed
      /\ KernelEntry \in Nat /\ KernelEntry \in Kernels
      /\ KernelFirst \in Nat /\ KernelCount \in Nat /\ KernelCount > 0
  BY ReachFigures DEF Known
<1>2. Searching /\ Fetching /\ slot2 \in Nat /\ cluster2 \in Nat
      /\ sector \in 0 .. (ClusterSectors - 1)
  BY <1>1, Words DEF Known, Second, TypeOK, SlotsPerSector, ClusterSectors
<1>3. pc2 \notin {"notFound", "wild"}
  BY <1>1, <1>2 DEF Known, Kept2, Reachable, Searching
<1>4. /\ pc2 = "readRoot" => \E k \in Nat : InStep(k)
      /\ pc2 = "scan" => \E k \in Nat : Scanning(k)
      /\ pc2 = "found" => Sought
  BY <1>2 DEF Searching
<1>5. pc2 \in {"readCluster", "readFat", "follow"} => \E n \in Nat : Fetched(n)
  BY <1>1, <1>2 DEF Fetching, Astray, Reachable
<1>6. \A n \in Int : /\ Fetches(n) \in Int /\ (n >= 0 => Fetches(n) >= 0)
                     /\ Fetches(n + 1) = Fetches(n) + ClusterSectors + 2
  BY <1>1, FetchSteps
<1>7. SUFFICES Ahead2 \in Nat /\ (pc2 \in {"start", "readBoot", "readRoot", "scan", "found",
                                           "readCluster", "readFat", "follow"} => Ahead2 > 0)
  BY <1>3, <1>4, <1>5
<1>8. Fetches(KernelCount) \in Nat
  BY <1>1, <1>6
<1>9. CASE pc2 \in {"start", "readBoot", "found"}
  <2>1. Ahead2 = Fetches(KernelCount) + (IF pc2 = "start" THEN 2 * KernelEntry + 4
                                         ELSE IF pc2 = "readBoot" THEN 2 * KernelEntry + 3 ELSE 1)
    BY <1>1, <1>8, <1>9 DEF Ahead2
  <2> QED BY <1>1, <1>8, <1>9, <2>1
<1>10. CASE pc2 = "readRoot"
  <2>1. PICK k \in Nat : InStep(k)
    BY <1>4, <1>10
  <2>2. Ahead2 = Fetches(KernelCount) + 2 * (KernelEntry - (rootLba - DataStart) * SlotsPerSector) + 2
    BY <1>10 DEF Ahead2
  <2>3. Ahead2 = Fetches(KernelCount) + 2 * (KernelEntry - 8192 * k) + 2 /\ KernelEntry - 8192 * k > 0
    BY <2>1, <2>2, EntriesLeft
  <2> QED BY <1>1, <1>8, <2>3
<1>11. CASE pc2 = "scan"
  <2>1. PICK k \in Nat : Scanning(k)
    BY <1>4, <1>11
  <2>2. Ahead2 = Fetches(KernelCount)
                   + 2 * (KernelEntry - (bufData2 - DataStart) * SlotsPerSector - slot2) + 1
    BY <1>11 DEF Ahead2
  <2>3. Ahead2 = Fetches(KernelCount) + 2 * (KernelEntry - 8192 * k - slot2) + 1
        /\ KernelEntry - 8192 * k - slot2 > 0
    BY <2>1, <2>2, EntriesLeft
  <2> QED BY <1>1, <1>2, <1>8, <2>3
<1>12. CASE pc2 \in {"readCluster", "readFat", "follow"}
  <2> DEFINE left == KernelFirst + KernelCount - cluster2
  <2>1. PICK n \in Nat : Fetched(n)
    BY <1>5, <1>12
  <2>2. left \in Nat /\ left >= 1
    BY <1>1, <1>2, <1>12, <2>1 DEF Fetched
  <2>3. Ahead2 = Fetches(left) - (IF pc2 = "readCluster" THEN sector
                                  ELSE IF pc2 = "readFat" THEN ClusterSectors
                                  ELSE ClusterSectors + 1)
    BY <1>1, <1>12, <2>2, <1>6 DEF Ahead2
  <2> HIDE DEF left
  <2>4. Fetches(left) \in Int /\ Fetches(left) >= ClusterSectors + 2
    <3>1. left - 1 \in Int /\ left - 1 >= 0 /\ (left - 1) + 1 = left
      BY <2>2
    <3> QED BY <1>1, <1>6, <3>1
  <2> QED BY <1>1, <1>2, <1>12, <2>3, <2>4
<1>13. CASE pc2 \in {"kernel", "hang"}
  BY <1>13 DEF Ahead2
<1> QED BY <1>3, <1>9, <1>10, <1>11, <1>12, <1>13 DEF Known, TypeOK

\* While its reads are answered, a step of stage 2 has fewer ahead of it.
LEMMA Stage2Falls ==
  ASSUME Known, Known', GoesOn2, GoesOn2', Reachable, Next2, fails2' = 0
  PROVE  Ahead2' < Ahead2
<1>0. image' = image
  BY DEF Next2, Start, ReadBoot, ReadRootSector, ScanEntry, NotFound, Found,
         ReadSector, GarbageGeometry, ReadFatSector, FollowEntry
<1>1. fails2 = 0
  BY Fails2Assumption DEF Known, TypeOK, Next2, Start, ReadBoot, ReadRootSector, ScanEntry, NotFound,
         Found, ReadSector, GarbageGeometry, ReadFatSector, FollowEntry, Int13
<1>2. UNCHANGED <<KernelEntry, KernelFirst, KernelCount, ClusterSectors, DataStart, Wanted>>
      /\ Reachable'
  BY <1>0, KeptFigures DEF Reachable
<1>3. /\ image \in Images /\ ClusterSectors \in {4, 8} /\ DataStart \in Nat /\ Wanted
      /\ KernelEntry \in Nat /\ KernelFirst \in Nat /\ KernelCount \in Nat /\ KernelCount > 0
      /\ KernelFirst + KernelCount <= WordMod
  BY ReachFigures DEF Known
<1>4. /\ Ahead2 \in Nat /\ Ahead2' \in Nat /\ pc2' \notin {"notFound", "wild"}
      /\ pc2 \in {"start", "readBoot", "readRoot", "scan", "found",
                  "readCluster", "readFat", "follow"} => Ahead2 > 0
  BY <1>1, <1>2 DEF GoesOn2
<1>5. ASSUME pc2' \in {"hang", "kernel"} PROVE Ahead2' = 0
  BY <1>5 DEF Ahead2
<1>6. \A n \in Int : /\ Fetches(n) \in Int /\ (n >= 0 => Fetches(n) >= 0)
                     /\ Fetches(n + 1) = Fetches(n) + ClusterSectors + 2
  BY <1>3, FetchSteps
<1>7. \A n : Fetches(n)' = Fetches(n)
  BY <1>2 DEF Fetches
<1>8. Fetches(KernelCount) \in Nat
  BY <1>3, <1>6
<1>9. slot2 \in Nat /\ slot2' \in Nat /\ cluster2 \in Nat /\ sector \in 0 .. (ClusterSectors - 1)
  BY Words DEF Known, TypeOK, SlotsPerSector, ClusterSectors
<1>10. CASE Start
  <2>1. pc2 = "start" /\ pc2' \in {"readBoot", "hang"}
    BY <1>10 DEF Start
  <2>2. CASE pc2' = "readBoot"
    <3>1. Ahead2 = Fetches(KernelCount) + 2 * KernelEntry + 4
      BY <2>1 DEF Ahead2
    <3>2. Ahead2' = Fetches(KernelCount) + 2 * KernelEntry + 3
      BY <1>2, <1>7, <2>2 DEF Ahead2
    <3> QED BY <1>3, <1>8, <3>1, <3>2
  <2>3. CASE pc2' = "hang"
    BY <1>4, <1>5, <2>1, <2>3
  <2> QED BY <2>1, <2>2, <2>3
<1>11. CASE ReadBoot
  <2>1. pc2 = "readBoot" /\ pc2' = "readRoot" /\ rootLba' = rootLba
    BY <1>11 DEF ReadBoot
  <2>2. rootLba = DataStart
    BY <1>1, <1>3, <2>1, ReachFigures, DataFigures DEF Known, Second, Searching
  <2>3. Ahead2 = Fetches(KernelCount) + 2 * KernelEntry + 3
    BY <2>1 DEF Ahead2
  <2>4. Ahead2' = Fetches(KernelCount) + 2 * (KernelEntry - (rootLba - DataStart) * SlotsPerSector) + 2
    BY <1>2, <1>7, <2>1 DEF Ahead2
  <2>5. (rootLba - DataStart) * SlotsPerSector = 0
    BY <1>3, <2>2 DEF SlotsPerSector
  <2> QED BY <1>3, <1>8, <2>3, <2>4, <2>5
<1>12. CASE ReadRootSector
  <2>1. pc2 = "readRoot" /\ pc2' = "scan" /\ slot2' = 0 /\ bufData2' = rootLba
    BY <1>12, AnsweredRead DEF ReadRootSector, Known
  <2>2. PICK k \in Nat : InStep(k)
    BY <1>1, <2>1 DEF GoesOn2
  <2>3. KernelEntry - (rootLba - DataStart) * SlotsPerSector = KernelEntry - 8192 * k
    BY <2>2, EntriesLeft
  <2>4. Ahead2 = Fetches(KernelCount) + 2 * (KernelEntry - 8192 * k) + 2
    BY <2>1, <2>3 DEF Ahead2
  <2>5. Ahead2' = Fetches(KernelCount) + 2 * ((KernelEntry - 8192 * k) - slot2') + 1
    BY <1>2, <1>7, <2>1, <2>3 DEF Ahead2
  <2> QED BY <1>3, <1>8, <2>1, <2>4, <2>5
<1>13. CASE ScanEntry
  <2>1. /\ pc2 = "scan" /\ UNCHANGED <<bufData2, rootLba>>
        /\ \/ pc2' \in {"notFound", "found"}
           \/ slot2' = slot2 + 1 /\ pc2' = IF slot2' = SlotsPerSector THEN "readRoot" ELSE "scan"
    BY <1>13 DEF ScanEntry
  <2>2. PICK k \in Nat : Scanning(k)
    BY <1>1, <2>1 DEF GoesOn2
  <2>3. KernelEntry - (bufData2 - DataStart) * SlotsPerSector = KernelEntry - 8192 * k
        /\ KernelEntry - 8192 * k - slot2 > 0
    BY <2>2, EntriesLeft
  <2>4. Ahead2 = Fetches(KernelCount) + 2 * ((KernelEntry - 8192 * k) - slot2) + 1
    BY <2>1, <2>3 DEF Ahead2
  <2>5. CASE pc2' = "found"
    <3>1. Ahead2' = Fetches(KernelCount) + 1
      BY <1>2, <1>7, <2>5 DEF Ahead2
    <3> QED BY <1>3, <1>8, <1>9, <2>3, <2>4, <3>1
  <2>6. CASE slot2' = slot2 + 1 /\ pc2' = "scan"
    <3>1. Ahead2' = Fetches(KernelCount) + 2 * ((KernelEntry - 8192 * k) - (slot2 + 1)) + 1
      BY <1>2, <1>7, <2>1, <2>3, <2>6 DEF Ahead2
    <3> QED BY <1>3, <1>8, <1>9, <2>4, <3>1
  <2>7. CASE slot2' = SlotsPerSector /\ slot2' = slot2 + 1 /\ pc2' = "readRoot"
    <3>1. rootLba = DataStart + 512 * (k + 1) /\ slot2 = 15
      BY <1>9, <2>2, <2>7 DEF Scanning, RootStep, SlotsPerSector
    <3>2. Ahead2' = Fetches(KernelCount) + 2 * (KernelEntry - (rootLba - DataStart) * SlotsPerSector) + 2
      BY <1>2, <1>7, <2>1, <2>7 DEF Ahead2
    <3>3. (rootLba - DataStart) * SlotsPerSector = 8192 * k + 8192
      BY <1>3, <3>1 DEF SlotsPerSector
    <3> QED BY <1>3, <1>8, <2>4, <3>1, <3>2, <3>3
  <2> QED BY <1>4, <2>1, <2>5, <2>6, <2>7
<1>14. CASE Found
  <2>1. pc2 = "found" /\ pc2' = "readCluster" /\ cluster2' = Entry2.first % WordMod /\ sector' = sector
    BY <1>4, <1>14 DEF Found
  <2>2. Sought /\ sector = 0
    BY <1>1, <1>3, <2>1, ReachFigures DEF GoesOn2, Known, Second, Searching
  <2>3. Entry2.first = KernelFirst
    BY <1>3, <2>2 DEF Sought, Wanted
  <2>4. cluster2' = KernelFirst
    <3>1. KernelFirst \in 0 .. (WordMod - 1)
      BY <1>3, Words
    <3> QED BY <2>1, <2>3, <3>1, Words
  <2>5. Ahead2 = Fetches(KernelCount) + 1
    BY <2>1 DEF Ahead2
  <2>6. Ahead2' = Fetches(KernelFirst + KernelCount - KernelFirst) - 0
    BY <1>2, <1>7, <2>1, <2>2, <2>4 DEF Ahead2
  <2>7. KernelFirst + KernelCount - KernelFirst = KernelCount
    BY <1>3
  <2> QED BY <1>8, <2>5, <2>6, <2>7
<1>15. CASE ReadSector
  <2> DEFINE left == KernelFirst + KernelCount - cluster2
  <2>1. /\ pc2 = "readCluster" /\ cluster2' = cluster2
        /\ \/ sector + 1 < ClusterSectors /\ sector' = sector + 1 /\ pc2' = pc2
           \/ ~ (sector + 1 < ClusterSectors) /\ pc2' = "readFat"
    BY <1>15 DEF ReadSector, ClusterSectors
  <2>2. Ahead2 = Fetches(left) - sector
    BY <2>1 DEF Ahead2
  <2>3. left \in Int /\ Fetches(left) \in Int
    BY <1>3, <1>6, <1>9
  <2>4. CASE sector' = sector + 1 /\ pc2' = pc2
    <3>1. Ahead2' = Fetches(left) - (sector + 1)
      BY <1>2, <1>7, <2>1, <2>4 DEF Ahead2
    <3> HIDE DEF left
    <3> QED BY <1>9, <2>2, <2>3, <3>1
  <2>5. CASE pc2' = "readFat"
    <3>1. Ahead2' = Fetches(left) - ClusterSectors
      BY <1>2, <1>7, <2>1, <2>5 DEF Ahead2
    <3> HIDE DEF left
    <3> QED BY <1>3, <1>9, <2>2, <2>3, <3>1
  <2> QED BY <2>1, <2>4, <2>5
<1>16. CASE ReadFatSector
  <2> DEFINE left == KernelFirst + KernelCount - cluster2
  <2>1. pc2 = "readFat" /\ pc2' = "follow" /\ cluster2' = cluster2
    BY <1>16 DEF ReadFatSector
  <2>2. Ahead2 = Fetches(left) - ClusterSectors /\ Ahead2' = Fetches(left) - ClusterSectors - 1
    BY <1>2, <1>7, <2>1 DEF Ahead2
  <2>3. left \in Int /\ Fetches(left) \in Int
    BY <1>3, <1>6, <1>9
  <2> HIDE DEF left
  <2> QED BY <1>3, <2>2, <2>3
<1>17. CASE FollowEntry
  <2> DEFINE left == KernelFirst + KernelCount - cluster2
             next == FatEntry(image, cluster2)
  <2>1. /\ pc2 = "follow" /\ sector' = sector
        /\ \/ pc2' = "kernel"
           \/ pc2' = "readCluster" /\ ~ IsLast(next) /\ cluster2' = next % WordMod
    <3>1. next = FatWord(image, bufFat2, cluster2)
      BY <1>1, <1>17, ReachedWord DEF FollowEntry, Known, Reachable
    <3> HIDE DEF next
    <3> QED BY <1>4, <1>17, <3>1 DEF FollowEntry
  <2>2. PICK n \in Nat : Fetched(n)
    BY <1>1, <2>1 DEF GoesOn2
  <2>3. n \in 1 .. KernelCount /\ cluster2 = KernelFirst + n - 1 /\ sector = 0
    BY <1>3, <2>1, <2>2 DEF Fetched
  <2>4. next = IF n = KernelCount THEN EndOfChain ELSE KernelFirst + n
    BY <1>3, <2>3, KernelChain
  <2>5. CASE pc2' = "kernel"
    BY <1>4, <1>5, <2>1, <2>5
  <2>6. CASE pc2' = "readCluster" /\ ~ IsLast(next) /\ cluster2' = next % WordMod
    <3>1. next = KernelFirst + n /\ n < KernelCount
      BY <1>3, <2>3, <2>4, <2>6 DEF IsLast, EndOfChain
    <3>2. cluster2' = KernelFirst + n
      <4>1. KernelFirst + n \in 0 .. (WordMod - 1)
        BY <1>3, <2>3, <3>1, Words
      <4> HIDE DEF next
      <4> QED BY <2>6, <3>1, <4>1, Words
    <3>3. Ahead2 = Fetches(left) - ClusterSectors - 1
      BY <2>1 DEF Ahead2
    <3>4. Ahead2' = Fetches(KernelFirst + KernelCount - cluster2') - 0
      BY <1>2, <1>7, <2>1, <2>3, <2>6 DEF Ahead2
    <3>5. left = KernelCount - n + 1 /\ KernelFirst + KernelCount - cluster2' = KernelCount - n
          /\ KernelCount - n \in Int
      BY <1>3, <2>3, <3>2
    <3>6. Fetches(KernelCount - n + 1) = Fetches(KernelCount - n) + ClusterSectors + 2
          /\ Fetches(KernelCount - n) \in Int
      BY <1>6, <3>5
    <3> HIDE DEF left
    <3>7. Ahead2 = Fetches(KernelCount - n) + 1 /\ Ahead2' = Fetches(KernelCount - n)
      BY <1>3, <3>3, <3>4, <3>5, <3>6
    <3> QED BY <3>6, <3>7
  <2> QED BY <2>1, <2>5, <2>6
<1>18. ~ NotFound /\ ~ GarbageGeometry
  BY <1>1, <1>4 DEF NotFound, GarbageGeometry, GoesOn2
<1> QED
  BY <1>10, <1>11, <1>12, <1>13, <1>14, <1>15, <1>16, <1>17, <1>18 DEF Next2

\* The other half of Boots: while stage 2 has its reads answered, an image in the
\* reach of both loaders lets them take only so many steps, whatever the size of the
\* disk and of the files; a chain that came back to a cluster it has passed, or a
\* search that went past the kernel's entry, would let them go on for ever
\* (boot.s:107-181, bootloader.asm:73-181).
THEOREM LoadersEnd == Spec => LoadersRunOut
<1>1. ASSUME Known, GoesOn1, GoesOn2, GoesOn1', GoesOn2', Known', [Next]_vars
      PROVE  [Reachable /\ fails2' = 0 => Ahead' \in Nat /\ Ahead' < Ahead]_vars
  <2>1. SUFFICES ASSUME Next, ~ UNCHANGED vars, Reachable, fails2' = 0
                 PROVE  Ahead' \in Nat /\ Ahead' < Ahead
    BY <1>1
  <2>2. image' = image /\ fails2 = 0
    BY <1>1, <2>1, Fails2Assumption
    DEF Known, TypeOK, Next, Stage1, Stage2, Stopped, vars, vars2, Next1, ReadFailed, ReadFat, ReadRoot,
        Scan, ReadCluster, Follow, Next2, Start, ReadBoot, ReadRootSector, ScanEntry, NotFound, Found,
        ReadSector, GarbageGeometry, ReadFatSector, FollowEntry, Int13
  <2>3. UNCHANGED <<LoaderFirst, LoaderCount, KernelEntry, KernelFirst, KernelCount, ClusterSectors,
                    DataStart>> /\ Reachable'
    BY <2>1, <2>2, KeptFigures DEF LoaderFirst, LoaderCount, Reachable
  <2>4. /\ Ahead1 \in Nat /\ Ahead1' \in Nat /\ Ahead2 \in Nat /\ Ahead2' \in Nat
    BY <1>1, <2>1, <2>2, <2>3 DEF GoesOn1, GoesOn2
  <2>5. /\ MaxFails1 \in Nat /\ fails1 \in Nat /\ fails1 <= MaxFails1
        /\ fails1' \in Nat /\ fails1' <= MaxFails1
    BY <1>1, Fails1Assumption DEF Known, TypeOK
  <2>6. /\ Ahead = Ahead1 + (MaxFails1 - fails1) + Ahead2
        /\ Ahead' = Ahead1' + (MaxFails1 - fails1') + Ahead2'
    BY DEF Ahead
  <2>7. MaxFails1 - fails1 \in Nat /\ MaxFails1 - fails1' \in Nat
    <3>1. \A x, y \in Nat : y <= x => x - y \in Nat
      OBVIOUS
    <3> QED BY <2>5, <3>1
  <2>8. CASE Stage1
    <3>1. Ahead1' + (MaxFails1 - fails1') < Ahead1 + (MaxFails1 - fails1)
      BY <1>1, <2>1, <2>8, Stage1Falls DEF Stage1
    <3>2. Ahead2' = Ahead2
      <4>1. UNCHANGED <<pc2, rootLba, bufData2, slot2, cluster2, sector>>
        BY <2>8 DEF Stage1, vars2
      <4>2. \A n : Fetches(n)' = Fetches(n)
        BY <2>3 DEF Fetches
      <4> QED BY <2>3, <4>1, <4>2 DEF Ahead2
    <3> QED BY <2>4, <2>6, <2>7, <3>1, <3>2
  <2>9. CASE Stage2
    <3>1. Ahead2' < Ahead2
      BY <1>1, <2>1, <2>9, Stage2Falls DEF Stage2
    <3>2. Ahead1' = Ahead1 /\ fails1' = fails1
      <4>1. UNCHANGED <<pc1, slot1, cluster1, fails1>>
        BY <2>9 DEF Stage2, vars1
      <4> QED BY <2>2, <2>3, <4>1 DEF Ahead1
    <3> QED BY <2>4, <2>6, <2>7, <3>1, <3>2
  <2> QED BY <2>1, <2>8, <2>9 DEF Next, Stopped
<1>2. Init => Straight /\ Kept2
  <2>1. Init => (LoaderInReach(image) => EntryOf(image, Stage1Name) \in 1 .. 16)
    BY LoaderReached DEF Init
  <2> QED BY <2>1 DEF Init, Init1, Init2, Straight, Kept2
<1>3. TypeOK /\ Shape /\ Loading /\ Straight /\ [Next]_vars => Straight'
  BY StepStraight
<1>4. TypeOK /\ Loading /\ Second /\ Kept2 /\ [Next]_vars => Kept2'
  BY StepKept2
<1>5. Spec => []Known
  BY <1>2, <1>3, <1>4, BootInvariant, SecondInvariant, PTL DEF Spec, Known
<1> QED BY <1>1, <1>5, Stage1Ahead, Stage2Ahead, PTL DEF Spec, LoadersRunOut, Reachable
=============================================================================
