------------------------------ MODULE BootChain ------------------------------
(***************************************************************************)
(* The two boot loaders one after the other, from the BIOS's jump to the   *)
(* boot sector up to the jump to the kernel.  They share the drive and the *)
(* memory only: stage 2 takes no register or buffer from stage 1 but the   *)
(* drive number.                                                           *)
(***************************************************************************)
EXTENDS Boot, Bootloader

vars == <<image, mem, vars1, vars2>>

Init ==
  /\ image \in Images /\ mem = <<>>
  /\ Init1 /\ Init2

Stage1 == Next1 /\ UNCHANGED vars2

\* A bound on the runs looked at: reads fail in one of the stages only.
OneFaultyStage == fails1 = 0 \/ fails2' = 0

\* What stage 1 jumps to is stage 2 when all of it was loaded.
Stage2Runs == pc1 = "run" /\ LoadedAt(KernelCode, Stage1Name)
Stage2 == Stage2Runs /\ Next2 /\ OneFaultyStage /\ UNCHANGED vars1

\* hlt for ever, code that is not this system's, or the kernel.
Stopped ==
  /\ Stage1Stopped \/ Stage2Stopped \/ (pc1 = "run" /\ ~Stage2Runs)
  /\ UNCHANGED vars

Next == Stage1 \/ Stage2 \/ Stopped

\* A processor that is not halted goes on.
Spec == Init /\ [][Next]_vars /\ WF_vars(Next)

-----------------------------------------------------------------------------
TypeOK ==
  /\ image \in Images
  /\ \A a \in DOMAIN mem : a \in 0 .. (KernelOff + SegmentSectors - 1) /\ mem[a] \in Nat \cup {Unread}
  /\ pc1 \in {"readFat", "readRoot", "scan", "readCluster", "follow", "run", "fail", "end1", "wild"}
  /\ pc2 \in {"start", "readBoot", "readRoot", "scan", "found", "notFound", "readCluster",
              "readFat", "follow", "kernel", "hang", "wild"}
  /\ {slot1, slot2} \subseteq 0 .. SlotsPerSector
  /\ {cluster1, cluster2} \subseteq 0 .. (WordMod - 1) /\ high \in Nat
  /\ {pointer1, pointer2} \subseteq 0 .. (SegmentSectors - 1)
  /\ tries \in 0 .. Retries /\ sector \in 0 .. (SecPerClus(image.secs) - 1)
  /\ fails1 \in 0 .. MaxFails1 /\ fails2 \in 0 .. MaxFails2

\* 16 bits can count the first sector of each of the file's clusters; the rest of a
\* cluster is read from there on.
SectorsInWord(img, i) ==
  SectorOf(img, i, SectorsOf(img, i) - SecPerClus(img.secs)) < WordMod

\* Stage 1 never jumps to a half loaded or wrongly loaded stage 2, whatever the
\* image and whatever reads the BIOS failed: clusters past the FAT sector it
\* holds, long files and directories end somewhere else; a sector number that
\* wraps is the only way to a wrong one, and no disk of 1 GiB has it
\* (boot.s:107-143, 155-181).
Stage2Complete ==
  pc1 = "run" =>
    (LoadedAt(KernelCode, Stage1Name) <=> SectorsInWord(image, EntryOf(image, Stage1Name)))

\* Two failed reads in a row never stop stage 1 (boot.s:203-217).
TwoFailuresSurvived == pc1 = "fail" => fails1 > 2

\* And those after the last of them, the number that eax is left with
\* (disk.inc:52): stage 2 looks for a FAT entry with its upper half.
EndInWord(img, i) == SectorOf(img, i, SectorsOf(img, i)) < WordMod

\* The entries stage 2 looks at: those of one sector of the root in 512.
LookedAt(i) == (i - 1) % (RootStep * SlotsPerSector) < SlotsPerSector

\* What stage 2 can load: an entry it looks at, a file of at most 64 KiB, sectors
\* that end before the last one that 16 bits can count.
KernelInReach(img) ==
  /\ HasEntry(img, Stage2Name)
  /\ LET i == EntryOf(img, Stage2Name)
     IN  /\ LookedAt(i)
         /\ SectorsOf(img, i) \in 1 .. SegmentSectors
         /\ EndInWord(img, i)

\* A search that found nothing goes on with cluster 0, then with the low word of
\* the FAT's first entry: on a volume with that many clusters it gets to one that
\* is somebody's.
NoClusterFF00(img) == Total(img) <= FatZero % WordMod

\* With every read answered and no file's contents taken for FAT entries, stage 2
\* jumps to a kernel that is complete exactly for the images in its reach: a 16-bit
\* pointer, sector or cluster that wraps is the only way to a damaged kernel, with
\* a carry out of 16 bits it finds no end of the kernel's chain, and no kernel in
\* reach is missed, on any volume without a cluster 0xff00 (bootloader.asm:73-181,
\* disk.inc:48-55).
KernelCompleteInReach ==
  pc2 = "kernel" /\ fails2 = 0 /\ NoClusterFF00(image) => (LoadedAt(KernelOff, Stage2Name) <=> KernelInReach(image))

\* What stage 1 can load: an entry among the first sixteen, clusters in the first
\* FAT sector, no more than what is left of the segment, and again 16-bit sectors.
LoaderInReach(img) ==
  /\ HasEntry(img, Stage1Name)
  /\ LET i == EntryOf(img, Stage1Name)
     IN  /\ i <= SlotsPerSector
         /\ img.root[i].count > 0
         /\ FirstOf(img, i) + img.root[i].count <= EntriesPerSector
         /\ SectorsOf(img, i) <= SegmentSectors - KernelCode
         /\ SectorsInWord(img, i)

\* With both files in reach nothing leads aside: stage 1 stops only after failed
\* reads and jumps only to all of stage 2, and stage 2, with its reads answered,
\* never gets beyond what is on the disk and jumps only to all of the kernel, on
\* a volume of any size (boot.s:107-181, bootloader.asm:73-181).
NoWrongTurn ==
  LoaderInReach(image) /\ KernelInReach(image) =>
    /\ pc1 \notin {"end1", "wild"} /\ (pc1 = "run" => Stage2Runs)
    /\ fails2 = 0 => pc2 # "wild" /\ (pc2 = "kernel" => LoadedAt(KernelOff, Stage2Name))

\* An image in the reach of both loaders boots into its kernel, unless the BIOS
\* has no extensions, fails three reads of stage 1 or any read of stage 2.
Boots ==
  LoaderInReach(image) /\ KernelInReach(image)
    ~> pc2 \in {"kernel", "hang"} \/ pc1 = "fail" \/ fails2 > 0

\* Once stage 2 runs, nothing writes over it: the kernel, wherever its pointer
\* wraps to, stays out of the sectors it was loaded to (bootloader.asm:124, 141-148).
LoaderKept ==
  [][pc1 = "run" =>
       \A j \in 0 .. (SectorsOf(image, EntryOf(image, Stage1Name)) - 1) :
         mem'[KernelCode + j] = mem[KernelCode + j]]_vars

\* Stage 2 reads a file's clusters only for an entry that is the kernel's, as its
\* own message "NOT found" and the hlt behind it have it (bootloader.asm:103-106).
ReadsOnlyKernel ==
  pc2 = "readCluster" => Entry2.name = Stage2Name
=============================================================================
