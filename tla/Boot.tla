-------------------------------- MODULE Boot --------------------------------
(***************************************************************************)
(* Stage 1, the boot sector of src/boot.s.  It reads the first sector of   *)
(* the FAT and of the root directory, looks for "boload     ", loads its   *)
(* clusters at 0x9000 and jumps there.                                     *)
(***************************************************************************)
EXTENDS BootDisk

CONSTANT MaxFails1   \* bound on the reads that the BIOS fails

ASSUME Fails1Assumption == MaxFails1 \in Nat

VARIABLES
  pc1,       \* where stage 1 is: .fail and .end1 stop at hlt, "run" is the jump
             \* to kernel_code, "wild" is past what the source describes
  bufFat1, bufData1,
  slot1,     \* the entry that bx points at
  cluster1,  \* bx
  pointer1,  \* kernel_pointer, in sectors
  tries,     \* di of disk_read
  fails1      \* the reads the BIOS failed

vars1 == <<pc1, bufFat1, bufData1, slot1, cluster1, pointer1, tries, fails1>>

Stage1Stopped == pc1 \in {"fail", "end1", "wild"}

KernelCode == 72            \* 0x9000
RetriesTwo == 2
Retries == 3
Stage1Name == "boload"

Init1 ==
  /\ pc1 = "readFat" /\ bufFat1 = Unread /\ bufData1 = Unread
  /\ slot1 = 0 /\ cluster1 = 0 /\ pointer1 = KernelCode /\ tries = Retries
  /\ fails1 = 0

\* The sector that int 13h gets at for a sector number.
Addressed(lba) == BiosSector(image.secs, lba_to_chs(image.secs, lba))

\* disk_read when the BIOS reads: on to `next`, the registers restored.
ReadDone(next) == pc1' = next /\ tries' = Retries /\ UNCHANGED fails1

\* The countdown tested for its sign.
ReadFailedOnceMore ==
  /\ pc1 \in {"readFat", "readRoot", "readCluster"} /\ fails1 < MaxFails1
  /\ fails1' = fails1 + 1
  /\ tries' = tries - 1
  /\ pc1' = IF tries' < 0 THEN "fail" ELSE pc1
  /\ UNCHANGED <<image, mem, bufFat1, bufData1, slot1, cluster1, pointer1>>

\* disk_read when the BIOS fails: try again, or give up.
ReadFailed ==
  /\ pc1 \in {"readFat", "readRoot", "readCluster"} /\ fails1 < MaxFails1
  /\ fails1' = fails1 + 1
  /\ tries' = tries - 1
  /\ pc1' = IF tries' = 0 THEN "fail" ELSE pc1
  /\ UNCHANGED <<image, mem, bufFat1, bufData1, slot1, cluster1, pointer1>>

ReadFat ==
  /\ pc1 = "readFat" /\ ReadDone("readRoot")
  /\ bufFat1' = Addressed(fat_loc)
  /\ UNCHANGED <<image, mem, bufData1, slot1, cluster1, pointer1>>

ReadRoot ==
  /\ pc1 = "readRoot" /\ ReadDone("scan")
  /\ bufData1' = Addressed(data_loc(image.secs))
  /\ UNCHANGED <<image, mem, bufFat1, slot1, cluster1, pointer1>>

\* Nothing bounds bx: after the last slot of buf_data the loop goes on in
\* memory that was never written ("wild").
Scan ==
  /\ pc1 = "scan"
  /\ LET e == SlotOf(image, bufData1, slot1)
     IN  \/ /\ slot1 = SlotsPerSector
            /\ pc1' = "wild" /\ UNCHANGED <<slot1, cluster1>>
         \/ /\ slot1 < SlotsPerSector /\ e = ZeroSlot
            /\ pc1' = "end1" /\ UNCHANGED <<slot1, cluster1>>
         \/ /\ slot1 < SlotsPerSector /\ e.name = Stage1Name
            /\ pc1' = "readCluster" /\ cluster1' = e.first % WordMod /\ UNCHANGED slot1
         \/ /\ slot1 < SlotsPerSector /\ e # ZeroSlot /\ e.name # Stage1Name
            /\ slot1' = slot1 + 1 /\ UNCHANGED <<pc1, cluster1>>
  /\ UNCHANGED <<image, mem, bufFat1, bufData1, pointer1, tries, fails1>>

\* `mul BYTE` takes al only, the low byte of the cluster minus two.
FirstSector1FromZero(c) ==
  ((c % 256) * SecPerClus(image.secs) + data_loc(image.secs)) % WordMod
FirstSector1(c) ==
  (((c - 2) % 256) * SecPerClus(image.secs) + data_loc(image.secs)) % WordMod

\* kernel_pointer has 16 bits: once it wraps the interrupt vectors are written
\* over, and nothing is known of the BIOS calls that follow.
ReadCluster ==
  /\ pc1 = "readCluster"
  /\ ReadDone(IF pointer1 < KernelCode THEN "wild" ELSE "follow")
  /\ mem' = Stored(pointer1, Addressed(FirstSector1(cluster1)), SecPerClus(image.secs))
  /\ pointer1' = (pointer1 + Advance) % SegmentSectors
  /\ UNCHANGED <<image, bufFat1, bufData1, slot1, cluster1>>

\* buf_fat holds the first FAT sector only; past it lies other memory.
Follow ==
  /\ pc1 = "follow"
  /\ LET next == FatEntry(image, cluster1)
     IN  \/ /\ cluster1 >= EntriesPerSector
            /\ pc1' = "wild" /\ UNCHANGED cluster1
         \/ /\ cluster1 < EntriesPerSector /\ IsLast(next)
            /\ pc1' = "run" /\ UNCHANGED cluster1
         \/ /\ cluster1 < EntriesPerSector /\ ~IsLast(next)
            /\ pc1' = "readCluster" /\ cluster1' = next % WordMod
  /\ UNCHANGED <<image, mem, bufFat1, bufData1, slot1, pointer1, tries, fails1>>

Next1 == ReadFailed \/ ReadFat \/ ReadRoot \/ Scan \/ ReadCluster \/ Follow
=============================================================================
