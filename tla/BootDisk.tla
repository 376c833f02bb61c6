------------------------------ MODULE BootDisk ------------------------------
(***************************************************************************)
(* What the two boot loaders see: the image that src/write.cpp laid out,   *)
(* read by sectors (the BIOS, external), and the memory they load into.    *)
(*                                                                         *)
(* An image is a size in sectors, which decides the geometry (Layout), and *)
(* the sequence of the root's entries, in the order of std::map, each a    *)
(* name and the number of clusters of its node.  Clusters are handed out   *)
(* as write.cpp does: the root first, then the nodes in order, every chain *)
(* contiguous.  What a sector holds is given by its number, so a buffer,   *)
(* or a sector of memory, is the number of the disk sector that was read   *)
(* into it.                                                                *)
(***************************************************************************)
EXTENDS Layout, FiniteSets

CONSTANTS
  Images,       \* the images to boot from
  Unread        \* a buffer that nothing was read into

SegmentSectors == 128       \* the sectors a 16-bit offset can address
SlotsPerSector == 16        \* 512 / FileEntrySize
EndOfChain == 268435448     \* 0x0ffffff8
FatZero == 268435200        \* fat[0], 0x0fffff00
FatOne == 268435215         \* fat[1], 0x0fffff0f

\* write.cpp divides by SecPerClus before it writes anything (419), so that there
\* is no image of 66600 sectors or less, or above 0xFFFFFFFF.  Slots that are no
\* entries have names of their own (below).
ASSUME DiskAssumption ==
  /\ \A img \in Images :
       /\ img.secs \in Nat /\ SecPerClus(img.secs) > 0
       /\ img.root \in Seq([name : STRING, count : Nat])
       /\ \A i, k \in DOMAIN img.root : img.root[i].name = img.root[k].name => i = k
       /\ \A i \in DOMAIN img.root : img.root[i].name \notin {"zero", "contents"}
  /\ Unread \notin Nat

VARIABLES
  image,   \* the image in the drive
  mem      \* [sector of memory -> sector of the disk loaded there]

\* directory::alloc_cluster for the root.
RootClusters(img) == Len(img.root) \div (SlotsPerSector * SecPerClus(img.secs)) + 1

\* The first cluster of the i-th node of the root; of the one after the last, it
\* is total_clusters.
FirstOf(img, i) ==
  LET before[j \in 0 .. (i - 1)] == IF j = 0 THEN RootClus + RootClusters(img)
                                    ELSE before[j - 1] + img.root[j].count
  IN  before[i - 1]
Total(img) == FirstOf(img, Len(img.root) + 1)

\* The FAT of the image, masked with 0x0fffffff as the loaders do.
FatEntry(img, c) ==
  LET last == {FirstOf(img, i) + img.root[i].count - 1 : i \in {j \in DOMAIN img.root : img.root[j].count > 0}}
  IN  CASE c = 0                -> FatZero
        [] c = 1                -> FatOne
        [] c \in last \cup {1 + RootClusters(img)} -> EndOfChain
        [] c > 1 /\ c < Total(img) /\ c \notin last \cup {1 + RootClusters(img)} -> c + 1
        [] OTHER                -> 0

\* The word for cluster c in a sector that is taken for one of the FAT: an entry of
\* the first FAT, or a zero of what write.cpp never writes, the second FAT (549) and
\* the space behind the last cluster.  Other sectors may have any words.
InFirstFat(img, lba) == lba \in FirstFatSector .. (FirstFatSector + FATSz32(img.secs) - 1)
NeverWritten(img, lba) ==
  \/ lba \in (FirstFatSector + FATSz32(img.secs)) .. (FirstDataSector(img.secs) - 1)
  \/ lba >= FirstSectorOf(img.secs, Total(img))
FatWord(img, lba, c) ==
  IF InFirstFat(img, lba)
  THEN FatEntry(img, (lba - FirstFatSector) * EntriesPerSector + (c % EntriesPerSector))
  ELSE 0

\* Mutant: `jg` for `jge`.
IsLastAbove(next) == next > EndOfChain

\* Both loaders end a chain at 0x0ffffff8 and above.
IsLast(next) == next >= EndOfChain

\* The directory entry in slot k of a sector: an entry of the root, the zeros
\* after the last one or of a sector that was never written, or what is no entry:
\* file contents and words of the FAT.
ZeroSlot == [name |-> "zero", first |-> 0]
ContentsSlot == [name |-> "contents", first |-> 0]
FatEntriesPerSlot == 8
SlotOf(img, lba, k) ==
  LET first == FirstDataSector(img.secs)
      n == (lba - first) * SlotsPerSector + k + 1
      rootEnd == first + RootClusters(img) * SecPerClus(img.secs)
      dataEnd == first + (Total(img) - 2) * SecPerClus(img.secs)
      fatWord == FatEntry(img, (lba - FirstFatSector) * EntriesPerSector + k * FatEntriesPerSlot) % WordMod
  IN  CASE lba \in first .. (rootEnd - 1) /\ n \in DOMAIN img.root ->
             [name |-> img.root[n].name,
              first |-> IF img.root[n].count = 0 THEN 0 ELSE FirstOf(img, n)]
        [] \/ lba \in rootEnd .. (dataEnd - 1)
           \/ /\ lba \in FirstFatSector .. (FirstFatSector + FATSz32(img.secs) - 1)
              /\ fatWord # 0 -> ContentsSlot
        [] OTHER -> ZeroSlot

\* The j-th sector of the i-th node, the first one being 0.
SectorOf(img, i, j) == FirstSectorOf(img.secs, FirstOf(img, i)) + j

SectorsOf(img, i) == img.root[i].count * SecPerClus(img.secs)
EntryOf(img, name) == CHOOSE i \in DOMAIN img.root : img.root[i].name = name
HasEntry(img, name) == \E i \in DOMAIN img.root : img.root[i].name = name

\* All of the named file is in memory, sector after sector from `at` on.
LoadedAt(at, name) ==
  /\ HasEntry(image, name)
  /\ LET i == EntryOf(image, name)
         start == SectorOf(image, i, 0)
     IN  \A j \in 0 .. (SectorsOf(image, i) - 1) :
           (at + j) \in DOMAIN mem /\ mem[at + j] = start + j

\* Memory after `count` disk sectors from lba on were stored at `at`.
Stored(at, lba, count) ==
  [a \in DOMAIN mem \cup (at .. (at + count - 1)) |->
     IF a \in at .. (at + count - 1) THEN lba + (a - at) ELSE mem[a]]

\* How far both loaders move their 16-bit pointer after a cluster, in sectors: the
\* byte BPB_SecPerClus is read as a word, with the low byte of BPB_RsvdSecCnt above
\* it, and multiplied by BPB_BytsPerSec.
Advance == (SecPerClus(image.secs) + 256 * (RsvdSecCnt % 256)) % SegmentSectors
=============================================================================
