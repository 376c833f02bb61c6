----------------------------- MODULE Bootloader -----------------------------
(***************************************************************************)
(* Stage 2, src/bootloader.asm with src/disk.inc.  It reads the boot       *)
(* sector, looks for "KERNEL     " in the root directory, loads its        *)
(* clusters at 0x20000 and jumps there.  read_int_1sector copies           *)
(* tmp_buffer whatever int 13h answered.                                   *)
(***************************************************************************)
EXTENDS BootDisk

CONSTANT MaxFails2   \* bound on the reads that the BIOS fails

ASSUME Fails2Assumption == MaxFails2 \in Nat

VARIABLES
  pc2,       \* where stage 2 is; "hang" is .hang, "kernel" the jump to kernel_off
  bootsect,  \* the sector in bootsect
  bufFat2, bufData2,
  tmp,       \* the sector in tmp_buffer
  rootLba,   \* the sector number kept on the stack
  slot2,     \* the entry that si points at
  cluster2,  \* kernel_pointer
  high,      \* the upper half of eax, which no 16-bit pusha and popa saves
  pointer2,  \* the low word of kernel_off_pointer, in sectors
  sector,    \* sectors of the cluster that read_int has done
  fails2     \* the reads the BIOS failed

vars2 == <<pc2, bootsect, bufFat2, bufData2, tmp, rootLba, slot2, cluster2, high,
           pointer2, sector, fails2>>

\* "wild" is where code or a FAT word that this model knows nothing of leads.
Stage2Stopped == pc2 \in {"hang", "wild", "kernel"}

KernelOffLowWord == 0
KernelOff == 256            \* 0x20000
Stage2Name == "KERNEL"
RootStep == 512             \* add eax, 512

Init2 ==
  /\ pc2 = "start" /\ bootsect = Unread /\ bufFat2 = Unread /\ bufData2 = Unread
  /\ tmp = Unread /\ rootLba = data_loc(image.secs) /\ slot2 = 0 /\ cluster2 = 0
  /\ high = 0 /\ pointer2 = 0 /\ sector = 0 /\ fails2 = 0

\* int 13h, function 41h: without the extensions the loader stops.
Start ==
  /\ pc2 = "start"
  /\ pc2' \in {"readBoot", "hang"}
  /\ UNCHANGED <<image, mem, bootsect, bufFat2, bufData2, tmp, rootLba, slot2,
                 cluster2, high, pointer2, sector, fails2>>

\* One read of int 13h into tmp_buffer, which keeps its contents on an error
\* that nobody looks at.
Int13(lba) ==
  \/ tmp' = lba /\ UNCHANGED fails2
  \/ fails2 < MaxFails2 /\ fails2' = fails2 + 1 /\ UNCHANGED tmp

\* The geometry comes from what is taken for the boot sector.
ReadBoot ==
  /\ pc2 = "readBoot" /\ Int13(0)
  /\ bootsect' = tmp'
  /\ pc2' = "readRoot"
  /\ UNCHANGED <<image, mem, bufFat2, bufData2, rootLba, slot2, cluster2, high,
                 pointer2, sector>>

\* .loop_reread: the next sector of the root is looked for 512 sectors on.
ReadRootSector ==
  /\ pc2 = "readRoot" /\ Int13(rootLba)
  /\ bufData2' = tmp'
  /\ rootLba' = rootLba + RootStep
  /\ slot2' = 0
  /\ pc2' = "scan"
  /\ UNCHANGED <<image, mem, bootsect, bufFat2, cluster2, high, pointer2, sector>>

\* The entry si points at, a buffer nothing was read into is bss, a boot sector
\* begins with its jump.
Entry2 == IF bufData2 = Unread THEN ZeroSlot
          ELSE IF bufData2 = 0 THEN ContentsSlot
          ELSE SlotOf(image, bufData2, slot2)

\* File contents may begin with a zero byte or not.
ScanEntry ==
  /\ pc2 = "scan"
  /\ \/ /\ Entry2 \in {ZeroSlot, ContentsSlot}
        /\ pc2' = "notFound" /\ UNCHANGED slot2
     \/ /\ Entry2.name = Stage2Name
        /\ pc2' = "found" /\ UNCHANGED slot2
     \/ /\ Entry2 # ZeroSlot /\ Entry2.name # Stage2Name
        /\ slot2' = slot2 + 1
        /\ pc2' = IF slot2' = SlotsPerSector THEN "readRoot" ELSE "scan"
  /\ UNCHANGED <<image, mem, bootsect, bufFat2, bufData2, tmp, rootLba, cluster2,
                 high, pointer2, sector, fails2>>

\* `hlt` with interrupts on: the next timer tick lets it fall into .found.
NotFound ==
  /\ pc2 = "notFound"
  /\ pc2' = "found"
  /\ UNCHANGED <<image, mem, bootsect, bufFat2, bufData2, tmp, rootLba, slot2,
                 cluster2, high, pointer2, sector, fails2>>

\* Both words of the first cluster go through eax, the low one to kernel_pointer.
Found ==
  /\ pc2 = "found"
  /\ IF Entry2 = ContentsSlot THEN pc2' = "wild" /\ UNCHANGED <<cluster2, high>>
     ELSE /\ pc2' = "readCluster" /\ cluster2' = Entry2.first % WordMod
          /\ high' = Entry2.first \div WordMod
  /\ UNCHANGED <<image, mem, bootsect, bufFat2, bufData2, tmp, rootLba, slot2,
                 pointer2, sector, fails2>>

\* The sector number in eax, of which the code computes ax only.
Eax(low) == high * WordMod + low

FirstSector2ByteMul(c) ==
  (((c - 2) % 256) * SecPerClus(image.secs) + data_loc(image.secs)) % WordMod
FirstSector2(c) == ((c - 2) * SecPerClus(image.secs) + data_loc(image.secs)) % WordMod

\* One call of read_int_1sector and the 32-bit `inc eax` behind it (disk.inc:52);
\* after the last of the cluster the low word of kernel_off_pointer moves on, and
\* popa takes back ax but not what was carried into the upper half.  Without the
\* boot sector the count is unknown.
ReadSector ==
  /\ pc2 = "readCluster" /\ bootsect = 0
  /\ Int13(Eax(FirstSector2(cluster2) + sector))
  /\ mem' = [a \in DOMAIN mem \cup {KernelOff + pointer2 + sector} |->
               IF a = KernelOff + pointer2 + sector THEN tmp' ELSE mem[a]]
  /\ IF sector + 1 < SecPerClus(image.secs)
     THEN sector' = sector + 1 /\ UNCHANGED <<pc2, pointer2, high>>
     ELSE /\ sector' = 0 /\ pc2' = "readFat"
          /\ pointer2' = (pointer2 + Advance) % SegmentSectors
          /\ high' = Eax(FirstSector2(cluster2) + sector + 1) \div WordMod
  /\ UNCHANGED <<image, bootsect, bufFat2, bufData2, rootLba, slot2, cluster2>>

GarbageGeometry ==
  /\ pc2 = "readCluster" /\ bootsect # 0
  /\ pc2' = "wild"
  /\ UNCHANGED <<image, mem, bootsect, bufFat2, bufData2, tmp, rootLba, slot2,
                 cluster2, high, pointer2, sector, fails2>>

FatSector(c) == (c \div EntriesPerSector + fat_loc) % WordMod

\* .read_fat computes ax anew and leaves the upper half of eax (150-161); the `inc
\* eax` behind this read carries nothing, there are fewer than 544 such sectors.
ReadFatSector ==
  /\ pc2 = "readFat" /\ Int13(Eax(FatSector(cluster2)))
  /\ bufFat2' = tmp'
  /\ pc2' = "follow"
  /\ UNCHANGED <<image, mem, bootsect, bufData2, rootLba, slot2, cluster2, high,
                 pointer2, sector>>

\* The entry is taken from the sector that is in buffer.fat, be it the right one or,
\* after a failed read or a carry, another.  Printing it with `shr eax, 16` leaves
\* the upper half of eax zero (basic32.inc:55-62).
FollowEntry ==
  /\ pc2 = "follow"
  /\ IF InFirstFat(image, bufFat2) \/ NeverWritten(image, bufFat2)
     THEN LET next == FatWord(image, bufFat2, cluster2)
          IN  IF IsLast(next) THEN pc2' = "kernel" /\ UNCHANGED <<cluster2, high>>
              ELSE pc2' = "readCluster" /\ cluster2' = next % WordMod /\ high' = 0
     ELSE pc2' = "wild" /\ UNCHANGED <<cluster2, high>>
  /\ UNCHANGED <<image, mem, bootsect, bufFat2, bufData2, tmp, rootLba, slot2,
                 pointer2, sector, fails2>>

Next2 ==
  \/ Start \/ ReadBoot \/ ReadRootSector \/ ScanEntry \/ NotFound \/ Found
  \/ ReadSector \/ GarbageGeometry \/ ReadFatSector \/ FollowEntry
=============================================================================
