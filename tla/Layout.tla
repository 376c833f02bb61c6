------------------------------- MODULE Layout -------------------------------
(***************************************************************************)
(* Where src/write.cpp puts what on a disk of `secs` sectors: the choice   *)
(* of geometry at the start of its main (398-416), the boot sector's       *)
(* fields (484-506), the regions it writes (540-571), the two words of     *)
(* res.img.inc (526-533).  And what the readers make of it: the sums of    *)
(* src/read.cpp (48-78), lba_to_chs of src/boot.s (155-181).               *)
(*                                                                         *)
(* disk_size is set in the source (22); here it is any size.               *)
(***************************************************************************)
EXTENDS Integers, Sequences

BytesPerSec == 512
WordMod == 65536            \* a 16-bit register, a `dw`

\* The rows of cluster_map but the last, whose 0xFFFFFFFF is twice LargestHalf and
\* one, and no number for TLC.
cluster_map == << <<66600, 0>>, <<32680, 2>>, <<262144, 4>>, <<16777216, 8>>,
                  <<33554432, 16>>, <<67108864, 32>> >>
LargestSecPerClus == 64
LargestHalf == 2147483647

\* The loop of main() takes the first row that holds; where none does, SecPerClus
\* stays 0.
SecPerClus(secs) ==
  LET fits == {i \in DOMAIN cluster_map : secs <= cluster_map[i][1]}
  IN  IF fits # {} THEN cluster_map[CHOOSE i \in fits : \A k \in fits : i <= k][2]
      ELSE IF secs \div 2 <= LargestHalf THEN LargestSecPerClus
      ELSE 0

\* Cylinders that the CHS registers can number.
Cylinders == 1024

Heads(secs) ==
  IF secs <= 524288
  THEN CASE secs <= 32768                       -> 2
         [] secs > 32768 /\ secs <= 65536       -> 4
         [] secs > 65536 /\ secs <= 262144      -> 8
         [] secs > 262144                       -> 16
  ELSE CASE secs <= 16 * 63 * Cylinders         -> 16
         [] secs > 16 * 63 * Cylinders /\ secs <= 32 * 63 * Cylinders   -> 32
         [] secs > 32 * 63 * Cylinders /\ secs <= 64 * 63 * Cylinders   -> 64
         [] secs > 64 * 63 * Cylinders /\ secs <= 128 * 63 * Cylinders  -> 128
         [] secs > 128 * 63 * Cylinders         -> 255
SecPerTrk(secs) == IF secs <= 4096 THEN 16 ELSE IF secs <= 524288 THEN 32 ELSE 63

RsvdSecCnt == 32
NumFATs == 2
BkBootSec == 6
RootClus == 2
TotSec32(secs) == secs - 2 - 6

\* ceil(1.0 * disk_size / BytesPerSec / SecPerClus * 32) / BytesPerSec: 32 bytes of
\* FAT for a cluster, where an entry has four.
FATSz32(secs) ==
  LET spc == SecPerClus(secs) IN ((secs * 32 + spc - 1) \div spc) \div BytesPerSec

FirstFatSector == RsvdSecCnt
FirstDataSector(secs) == RsvdSecCnt + NumFATs * FATSz32(secs)
FirstSectorOf(secs, c) == FirstDataSector(secs) + (c - 2) * SecPerClus(secs)

\* res.img.inc has words.
fat_loc == RsvdSecCnt
data_loc(secs) == FirstDataSector(secs) % WordMod

\* read.cpp's data_sectors and total_clusters.
DataSectors(secs) == TotSec32(secs) - FirstDataSector(secs)
ReaderClusters(secs) == DataSectors(secs) \div SecPerClus(secs)

EntriesPerSector == 128
FatEntries(secs) == FATSz32(secs) * EntriesPerSector

-----------------------------------------------------------------------------
(* Cylinder, head and sector *)

\* Mutant: sectors counted from 0.
ChsFromZero(secs, lba) ==
  LET track == lba \div SecPerTrk(secs)
      cylinder == track \div Heads(secs)
  IN  [ch |-> cylinder % 256,
       cl |-> (lba % SecPerTrk(secs)) + 64 * ((cylinder \div 256) % 4),
       dh |-> track % Heads(secs)]

\* lba_to_chs: ch has the low byte of the cylinder, cl the sector and, after
\* `shl ah, 6`, two more bits of the cylinder.
lba_to_chs(secs, lba) ==
  LET track == lba \div SecPerTrk(secs)
      cylinder == track \div Heads(secs)
  IN  [ch |-> cylinder % 256,
       cl |-> (lba % SecPerTrk(secs)) + 1 + 64 * ((cylinder \div 256) % 4),
       dh |-> track % Heads(secs)]

\* The sector that a BIOS with the geometry of the boot sector reads.
BiosSector(secs, r) ==
  ((r.ch + 256 * (r.cl \div 64)) * Heads(secs) + r.dh) * SecPerTrk(secs) + (r.cl % 64) - 1
=============================================================================
