# FAT32 boot: a verification project in TLA+

The repository builds a bootable FAT32 disk image and the code that boots from it:
`writefat` lays the image out, `readfat` walks over it, `boot.s` is its boot sector,
`bootloader.asm` the second stage, and `kernel.cpp` with its assembly a small kernel that
takes interrupts from the keyboard and the mouse. The modules here model those parts, TLC
checks them on small instances, and TLAPS proves some of their properties for every instance.

Line numbers are those of the files at the top of the repository.

## The system

| Component | State | Operations | Interacts with |
|---|---|---|---|
| `writefat` (`write.cpp`, `fat32.hpp`) | the tree of `file_node`s, their `clusters`, `total_clusters`, `fat`, the image | parse a line of `touch.txt`; `alloc_cluster`; `generate_fat`; write the FAT; `generate_fileentry`; `fill_file` | leaves `res.img` to all the others and two constants in `res.img.inc` to `boot.s` and `bootloader.asm` |
| `readfat` (`read.cpp`) | the stack `clsIdtoRead`, the marks `clsHasRead` | pop a cluster, read its entries, follow its chain | reads any image |
| stage 1 (`boot.s`) | two buffers of a sector, `kernel_pointer`, the tries left | read the FAT and the root, look for `boload`, load its chain at 0x9000, jump | the BIOS (int 13h, CHS) |
| stage 2 (`bootloader.asm`, `disk.inc`) | buffers, `tmp_buffer`, the sector on the stack, `kernel_pointer`, `kernel_off_pointer` | unreal mode, boot sector, look for `KERNEL`, load its chain at 0x20000, protected mode, jump | the BIOS (int 13h extensions); takes only the drive number from stage 1 |
| mode switches (`kernel.asm`, `int86.cpp`, `to_call_int.asm`) | CR0.PE, IF, IDTR, the register block `REGS` | `int86`: to real mode, a BIOS call, back | shares IF and IDTR with the interrupts |
| interrupts (`int.cpp`, `ints.asm`, `ints.cpp`) | `idt`, the 8259s' registers, saved frames | `PIC_remap`, masks, `addInt`, entry, `sendeoi`, `iret` | devices raise lines at any moment |
| mouse (`ps2mouse.cpp`, `irq12`) | the ring `bytes`, the count `i`, `mouse_dx`, `mouse_dy` | handshake of `mouse_install`, one byte per interrupt | shares the 8042's output buffer with `getkey` |
| keyboard (`ps2keyboard.cpp`) | the table `scancode1` | `getkey` polls | the 8042's output buffer |
| main loop (`kernel.cpp`) | `x`, `y`, the last position | poll a key, add the movement, draw | reads and clears what `irq12` writes |
| conversions, drawing, ports, debug output | none | pure functions and I/O | |
| VBE, PCI, older loaders, experiments | | not linked or not built | |

Two kinds of hard behaviour run through it. The image and the loaders are *sequential*, and
what is hard is numeric and structural: the sizes of clusters, chains and directories, the
order of nested passes that must agree on one tree, 8- and 16-bit registers that wrap, reads
that fail. The kernel is *concurrent with its devices*: an interrupt may come at any
instruction, and the code must have its table, masks and vectors ready, end every service, and
give back what it interrupted.

What makes each part correct:

* `writefat`: nodes form one tree; no cluster is shared or lost; what is in the FAT is what was
  allocated; no entry or content overwrites another; a reader of the image finds what
  `touch.txt` said.
* `readfat`: it ends on any image, reads each cluster once, misses nothing, invents nothing.
* the loaders: what is jumped to is complete; what is within reach boots; a loader is not
  overwritten by what it loads.
* interrupts: once the table is loaded each interrupt reaches the handler of its line, handlers
  do not nest, services are ended, requests are served.
* mouse and keyboard: each packet is applied once, and a byte lost is recovered from.

## Modules

| Module | Models | Composition |
|---|---|---|
| `Volume` | abstract: contents that grow apart from one another | |
| `FatWriter` | `writefat` | implements Volume (INSTANCE) |
| `FatWriterProofs` | theorems about its tree and clusters | EXTENDS FatWriter, TLAPS |
| `FatImageProofs` | theorems about the image it writes, the refinement of Volume | EXTENDS FatWriterProofs, Numbers |
| `Exploration` | abstract: a walk over nodes, in any order | |
| `FatReader` | `readfat` on any image; it has few constants, so its configurations name it directly | implements Exploration (INSTANCE) |
| `FatReaderProofs` | theorems about it | EXTENDS FatReader, TLAPS |
| `RoundTrip` | `readfat` on what `writefat` finished | EXTENDS FatWriter, INSTANCE FatReader |
| `RoundTripProofs` | theorems about both | EXTENDS RoundTrip, FatImageProofs |
| `MCFatWriter` | a small `touch.txt` | EXTENDS RoundTrip |
| `Layout` | the geometry of a disk of any size, the split into cylinder, head and sector | |
| `Numbers` | lemmas about natural numbers that several proofs rest on | EXTENDS WellFoundedInduction, TLAPS |
| `BootDisk` | the disk as the loaders see it, and the memory | EXTENDS Layout |
| `Boot` | stage 1 | EXTENDS BootDisk |
| `Bootloader` | stage 2 | EXTENDS BootDisk |
| `BootChain` | stage 1, then stage 2, on one disk and one memory; its properties | EXTENDS Boot, Bootloader |
| `BootChainProofs` | theorems about the geometry and about both loaders | EXTENDS BootChain, Numbers, TLAPS |
| `MCBootChain` | 25 images on disks of six sizes | EXTENDS BootChain |
| `Interrupts` | 8259s (external), mode switches, IDT, entry and exit code | |
| `InterruptsProofs` | theorems about it | EXTENDS Interrupts, TLAPS |
| `MCInterrupts` | the lines and masks of an instance | EXTENDS Interrupts |
| `Input` | 8042 and its devices (external), `mouse_install`, `irq12`, `getkey`, `k_main` from there on; its configuration names it directly | |
| `InputProofs` | theorems about it | EXTENDS Input, TLAPS |

`PROJECT.json` maps every definition to the lines it stands for. Definitions marked as mutants
are ways in which the code could plausibly be wrong; each property is violated when one of them
takes the place of the definition it varies. They are no part of the specifications.

### FatWriter

A node of the tree is known by its path, so `tree` is a function from paths to nodes, and the
nested `std::map`s are its domain. A name is `<<id, text>>`, ordered as `operator<` of
`filename` orders it: "." (64) and ".." (65) first, volume labels (128), long names (255), then
ordinary names (256). The passes of the program are recursions in the order of the maps; that
order is the lexicographic order of paths, so a pass is a set of `pending` jobs, of which the
least is done next. One step is one call of `alloc_cluster`, `generate_fat` or `fill_file` on a
node, or one directory entry of `generate_fileentry`.

| Code | Action |
|---|---|
| `vol:`, `dir:`, `real:`, `file:`, `lname:` (426-470) | `VolLine`, `DirLine`, `RealLine`, `FileLine`, `LnameLine` |
| a `dynamic_cast` that gives null on the way | `Segfault` |
| `alloc_cluster` (198-202, 278-292) | `AllocCluster` |
| `generate_fat` (203-208, 293-305), `fat[0]`, `fat[1]`, the write of the FAT | `GenerateFat`, `WriteFat` |
| `generate_fileentry` with `check()` and `get_fe` | `WriteEntry` with `Advanced` and `Entry` |
| `fill_file` | `FillFile` |

The data region is a function from `<<cluster, slot>>` to what was written there, a slot being
32 bytes; the FAT and the image's copy of it are functions on cluster numbers. A `file:` line
replaces what was at its path (`new file`, the old node leaks) and with a directory everything
below it; this is `Put`. Left out: the text of names beyond their order, the checksum of long
names, the fields of the boot sector, the printing. The name of a directory is cut at its last dot before it
is compared with "." and "..", so that "..x" and "...x" are taken for these: their entries lead
where those of "." and ".." do, and what is below them is not written. `DotStems` and
`DotDotStems` are the texts of that kind. The number of a fragment is a BYTE with the mark of the
last one in bit 6 (`Num`): fragment 256 of a name of 3328 characters would have the number 0, with
which a directory ends, and `LengthAssumption` leaves such names out; from 64 fragments on bit 6 says
nothing, and `DirReadsBack` speaks of the number modulo 64. The read of `clusters[0]` of an empty vector
(a directory with no entry: 330, 346) is undefined behaviour. It is modelled as `crash`, the
reading of a null pointer: an empty `std::vector` that was never allocated holds one.

`Volume` says what this is for, without clusters, FAT or cursors: each path has contents of its
own, which only get longer, one path's at a time. The refinement mapping (`ContentsOf`,
in the instance `Stored` of `FatWriter`) takes a node's contents from the data region along its clusters; `GrowsApart` is
`Volume`'s specification for it. `LaidOutInOrder` says that each node's clusters are a run of numbers
and that the runs lie in the order of the passes, a directory before what is in it: nothing in
`writefat` needs this, but the loaders' model of a disk (`BootDisk`) is built on it.

### FatReader

The image is *any* image: the content of a slot or of a FAT entry is chosen when it is first
read and remembered in `seen` and `chain`. So one specification covers every image at once, and
`seen` and `chain` double as the history the properties need. `.at()` out of range ends the
program (`throw`), a bad cluster ends the walk (`bad`), both as in the code.

`Exploration` has sets where `readfat` has a stack and a vector of marks: what is known, what was
read, what leads where. `Explores` is its specification with the mapping of `FatReader`: marks are
what is known, slots that were looked at are what was read.

`StepsRunOut` says that each step of the walk uses up at least one of the steps left to it
(`StepsLeft`: the slots and the chain entry of each cluster not yet read, those left of the current
one, and the end), whatever cycles the image has.

### RoundTrip

`FatWriter` runs to its end, then `FatReader`'s actions run with the entry at each slot and the
FAT entry of each cluster bound to what the writer left in `disk` and `imageFat`. What was never
written reads as zero. So is cluster 0, where a ".." leads: its sectors are the last ones of the
second FAT, which `writefat` declares and does not write. `FindsAll` says that the reader ends with
every cluster of every directory, and cluster 0 if there is a "..", and nothing else, or throws
when a directory lies beyond the FAT entries or the marks that its vectors hold; `ReaderEnds` that
it does end. `VectorsAssumption` is that the vectors hold the first clusters at all.

### Layout

The arithmetic of `main` in `write.cpp` for a disk of any size: sectors in a cluster from
`cluster_map` (0 where no row holds, above 0xFFFFFFFF sectors), heads and sectors per track, the size of a FAT, where each region begins, and the
words `fat_loc` and `data_loc` of `res.img.inc`; then the sums that `read.cpp` makes of the fields,
and `lba_to_chs` of `boot.s` with the BIOS's own reading of the registers (external).

### BootDisk, Boot, Bootloader, BootChain

A sector in a buffer or in memory is the *number* of the disk sector that was read into it, so
"the kernel is complete in memory" is a statement about a function from memory to sector
numbers. An image is a size in sectors, from which `Layout` has the geometry, and the sequence of
the root's entries with their numbers of clusters; `FirstOf` and `FatEntry` lay it out as
`write.cpp` does (`LaidOutInOrder` and `NoLostClusters` of `FatWriter` leave no other layout: theorem
`LayoutIsWriters`). Every read of stage 1 goes through `lba_to_chs` and back (`Addressed`). Registers
keep their width: `ax` for a sector number, the 8-bit `mul` of stage 1, the 16-bit pointers. Stage 2
computes sector numbers in `ax` and reads with all of `eax` (`Eax`); what is in its upper half
(`high`: the high word of the first cluster, or the carry of the 32-bit `inc eax` behind a cluster's
last sector) is not saved by the 16-bit `pusha` and `popa`, so that after a cluster ending at sector
65535 the FAT is looked for 65536 sectors too far. Such a kernel is out of reach: `KernelInReach` asks
that its sectors end before number 65535 (`EndInWord`). Where the code goes on with
something the source does not determine (entries beyond the buffer, words of a file taken for a
FAT), the model goes to `wild` and makes no claim.

Stage 1 tries a read three times (`ReadFailed`); stage 2 does not look at the carry flag, and
after an error copies what `tmp_buffer` held (`Int13`). Without a `KERNEL` it falls through a
`hlt` (`NotFound`), takes cluster 0 for the kernel's first and is led by the FAT's first word to
cluster 0xff00 and back. On a volume with that many clusters it gets into somebody's file that
way, and what it then runs may even be the kernel by chance; `KernelCompleteInReach` speaks of
the volumes without it (`NoClusterFF00`). `NoWrongTurn` speaks of all volumes with both files in
reach: neither loader stops or strays, and what is jumped to is complete. Stage 2 looks at one sector of the root in 512
(`LookedAt`).

### Interrupts

The two 8259s are modelled from what the code programs into them: request, service and mask
registers, the vector base, the cascade at line 2, the initialisation sequence, non-specific
EOI; they are external. A step of the program is one write to a port or one stretch that no
interrupt can enter. The program runs `EnterProtected`, twice `ToReal` / `RealCall` /
`BackToProtected`, `SaveMasks`, `RemapCommand`, `Remap`, `MaskAll`, `LoadIDTR`, `AddInts`,
`Unmask` sixteen times, `Sti`, and then `Compute` for ever. `Deliver` is the processor going
through the table: to a handler when the IDT is loaded and the vector has a gate, else `wild`.
A handler is `Body`, `SendEOISlave`, `SendEOIMaster`, `Iret`. Exceptions are left out; what
`irq12` does with its byte is in `Input`. `NeverHeldBack` is what a request may rely on: in the
running kernel, when no handler runs, no mask, no service and no cleared IF keeps it from the
processor.

### Input

The mouse and the keyboard share one output buffer, and three readers take from it: `irq12`,
`getkey`, and `mouse_read` with the drain of `k_main`. The 8042 is modelled from what the code
asks of it (external), with its command byte (`command`: which devices may send, whether there is an IRQ 12)
and where its next byte for port 0x60 goes (`expects`): a byte goes to the buffer when it is empty
(`KeyByte`, `KeyboardAnswer`, `PacketByte`, `MouseAnswer`), IRQ 12 follows as a step of its own (`Assert`), so that a poll may
come first, and a read of an empty buffer gives the old byte. `irq12` runs in one step (`Irq12`),
since IF is clear in it; the program does nothing while it is asserted.

The program's steps are single accesses to the 8042 or to `mouse_dx` and `mouse_dy`; a byte that is
sent takes two, the load of `al` (`Load`) and the `out` (`Command`, `Data`), with what is sent where
in the table `Outs`. A handler leaves 0x20 in `al` (finding 6; `Overwrite`). So a status that was read may
be lost, which reads "empty"; a byte that was read may be lost before it is stored; and a byte
that was loaded may go out as 0x20. Port 0x64 takes that for "send the command byte", the devices for an
unknown command, which they answer with 0xfe (`Answer`). `_status` may come out as 0x22 or 0x20: the one
disables the mouse, the other leaves IRQ 12 off; and a lost 0x60 or 0xd4 sends the byte behind it to
the keyboard. `mouse_wait` gives up after 100000 polls: its
reads may come at any moment (`ReadStatus`, `MouseRead`). The waits for an empty input buffer
and the drawing are left out, and so is the position itself: the register it is computed in may
be changed by an interrupt, so nothing holds of it.

k_main waits for an acknowledgement of its 0xf0 (`AckPoll`). When 0xae or 0xf0 goes out as 0x20, or the
acknowledgement is overwritten in `al` before it is stored, none comes and it waits for ever;
`AcksPassed` says that only these three keep it from its loop (`WaitDependsOnAl`, `spoiled`),
whatever became of the other bytes.

`recent`, `whole`, `cleared`, `fresh` and `spoiled` are history: they guard nothing. `lost` only counts for the bound `MaxLost`. `InStep`
says that the byte the decoder expects is the byte that the mouse sends next, and that the bytes
counted so far belong to one packet.

## Runs

| Run | Instance | What it shows |
|---|---|---|
| `writer` | up to 7 lines out of 13, clusters of two slots; directories two deep with dot entries and one taken for a dot entry, files of 0, 64 and 130 bytes, long names of 2 and 4 fragments, a missing real file; then `readfat` with seven marks and six FAT entries | the writer's invariants, that the finished image reads back, that nodes lie in order, that contents grow apart, and that `readfat` ends and finds all of it |
| `writer_dotdot` | the same | a ".." two levels down says 0 (finding) |
| `writer_lastflag` | the same | a long name of 26 characters has no last fragment (finding) |
| `reader` | every image of three clusters with two slots each, a FAT of two entries | ends within the steps it has, reads once, misses nothing, invents nothing; implements `Exploration` |
| `reader_fat` | the same | a chain at a cluster that the FAT on disk has and the vector has not (finding) |
| `boot` | 25 images on disks of 64 MiB to 2 GiB; up to four failed reads of stage 1 or one of stage 2 | the handovers, and no wrong turn on the way to them |
| `boot_nokernel` | the same, no failed reads | no `KERNEL`: an entry of zeros is loaded (finding) |
| `interrupts` | timer, floppy (6), mouse (12), second disk (15), each raised up to twice | the table, the handlers, the EOIs, no request held back, all served |
| `input` | a ring of three, movements with bit 3 clear (1) and set (250, which is also 0xfa), one unasked byte and one sent byte lost before the loop, then any number of the former | the decoder's step and its recovery, the ring, the loads and stores, the way to the loop |
| `interrupts_switch` | timer and mouse | an interrupt in protected mode with the real mode vectors (finding) |
| `interrupts_irq8` | timer, clock (line 8), mouse | line 8 stays in service (finding) |
| `interrupts_eax` | timer and mouse | a handler changes `eax` (finding) |

### Bounds, and why they are enough

* *Writer.* `MaxLines` bounds `touch.txt`; the lines themselves are chosen so that every
  branch is met: replacement of a directory by a file, of a file by another, a path through a
  file, an empty directory, a directory whose entries fill two or three clusters, a long name cut
  by the end of a cluster. With two slots in a cluster every `check()` boundary is met within
  three entries, and the code uses the size of a cluster only through the same quotient.
* *Reader.* Three clusters are the least that has a cycle that is not a loop on one cluster, a
  cluster reached both as a directory and as a continuation, one never reached. Cluster numbers
  up to two beyond the marks, one FAT entry missing.
* *Round trip.* Seven marks and six FAT entries: some of the images fit, others have a directory
  just beyond the one or the other.
* *Boot.* The geometry is the real one for each size, so the widths bite where they do on the disk. The
  images lie just inside and just outside of each limit: 7 and 8 clusters for stage 2, 16 and 17
  for the kernel, cluster 127 and 128 and 256 for stage 1, kernels that end just before the last sector 16 bits can count and at it,
  entry 16 and 17 of the root (that a kernel at entry 8193 is found is left to the theorem: a root of
that size takes TLC too long); four sectors in a cluster; 2016 MiB, where stage 2 itself crosses
  sector 65536, between two clusters or within one; 2 GiB, where `data_loc` is no word. Four failures are one more than stage 1 takes. `OneFaultyStage`
  lets reads fail in one stage only, which keeps the runs small: stage 2 starts from the same
  state whatever stage 1 went through.
* *Interrupts.* Two raises of each line let a request wait behind a service of its own line.
  The lines are two of each controller, of higher and lower priority.

* *Input.* A ring of three wraps in all three branches, and skipped bytes bring `i` and
  `bytes_count` into every combination. Packets and keys are unlimited in the main loop. Before
  it `MaxEarly` bounds the bytes that come unasked: with a mouse that never rests the drain need
  not end; and `MaxLost` those that go out as 0x20. One is enough to lose each of the bytes; the
  theorems hold for any number.

### Fairness

The programs are single threads that run until they end: `WF_vars(Next)` is the processor going
on. In `Interrupts` only the processor is fair; a device need not raise anything. In
`Input` the processor, the interrupt, its request by the controller and the keyboard's answer to
a command are fair; nobody need press a key or move the mouse. No run assumes that a failing read succeeds in the end, or that the BIOS has the extensions: `Boots`
names those outcomes.

Deadlock is checked in every run: programs that end stutter in `Exited`, `Stopped` or `Crashed`.

## Findings

Seven statements of the repository are not what the code does; `PROJECT.json` quotes each.

1. ".." below the second level names cluster 0 (`write.cpp:367` passes `parent_cluster` on).
2. A long name of 13, 26, ... characters has no last fragment (`write.cpp:97`).
3. Without a kernel stage 2 does not stop (`bootloader.asm:106`).
4. Protected mode is entered with interrupts enabled (`bootloader.asm:194`).
5. The service of IRQ 8 is never ended at the slave (`ints.asm:5`).
6. Interrupt handlers change `eax` (`ints.asm:37`).
7. `readfat` loads too small a part of the FAT (`read.cpp:79`).

## Proofs

`FatWriterProofs` proves, for every set of lines, every geometry and every number of lines:
`TypeCorrect` (`TypeOK`), `TreeSound` (`TreeHangsTogether`), `DisjointClusters`
(`ClustersDisjoint`) and `AllClustersOwned` (`NoLostClusters`).

The assumptions are those of the module: arguments are paths and numbers, a cluster is a
positive whole number of slots, the end mark is no cluster number. None of the four is inductive
alone. The invariant `IInv` is the conjunction of `TypeInv` (the types, sharper where a later
step needs it), `AllocInv` (a cluster given to a node is below `total`, each node's are a run of
numbers, nodes still pending have none, and what is given out is exactly what is below `total`),
`TreeInv` (the domain is closed under `Front`, and what something hangs below is a directory)
and `EntryInv` (while entries are written, a cursor exists for every directory a pending entry
stands in). `AllocInv` is why the two cluster properties hold: disjointness needs "below
`total`" to make the next run of numbers fresh.

`FatImageProofs` goes on from there to the image itself, under the same assumptions:
`ChainsInImage` (`FatChains`), `CursorsInChains` (`CursorInChain`), `WrittenOnce` (`WriteOnce`),
`DirectoriesComplete` (`DirReadsBack`), `FilesComplete` (`FileReadsBack`), and `WriterGrowsApart`
(`GrowsApart`: each action is a step of `Volume` or a stutter). What a reader finds is a
statement about the end of three passes, so the invariant `ImageInv` says how far each of them
is: `FatInv` (what `generate_fat` is done with is linked, and the image's FAT is a copy),
`PassInv` (of a directory's entries those done come before those pending, so that counting the
done gives the place of the next), `CursorInv` (a cursor stands right behind the last entry of
its directory, inside its clusters: `Behind`) and `DiskInv` (what is written is exactly the
first `Filled(p)` slots of each node, with what belongs there). That the sizes of the first pass
leave room for the entries of the third is `RoomForEntries`; that slots of two nodes differ is
`SlotsApart`, which rests on `ClustersDisjoint`. `Nth`, the walk along a chain, is a recursive
function: `NthAlong` gives a function that meets its equation and shows by induction that any
other agrees with it. `LayoutInOrder` (`LaidOutInOrder`) comes from the first pass alone: `OrderInv` says
that what was given clusters lies before whatever is still pending, in the order of paths.

`FatReaderProofs` proves, for every number of clusters, size of the FAT and slots:
`ReaderTypes` (`TypeOK`), `ReaderComplete` (`NothingMissed`), `ReaderSound` (`OnlyReachable`),
`ReaderReadsOnce` (`ReadOnce`) and `ReaderExplores` (`Explores`, the refinement: each action is a
step of `Exploration` or a stutter). Its invariant adds: every marked cluster is on the stack, or
current, or read (`Accounted`); the stack has no repetition and nothing on it was read
(`WaitsOnce`); slots are read in order (`SlotsInOrder`); whatever a read entry or chain leads to
is marked (`TargetsMarked`). `ReaderRunsOut` (`StepsRunOut`) adds the variant: it begins at
(`Slots` + 2) * `TotalClusters` + 1, and each step of the walk makes it smaller: a cluster that is
popped was not read before (`WaitsOnce`), and the others are as unread as they were (`SameUnread`).
What remains of `Termination` is that the steps are taken.

`RoundTripProofs` proves of the two programs together: `ReaderFindsAll` (`FindsAll`), for every
`touch.txt`, every geometry and every size of the reader's vectors. The reader starts on a finished
image (`WriterInBoth`: the writer makes only its own steps, so `FatImageProofs` says what is in
it), and the invariant of the walk, `WalkInv`, relates what is marked and what was read to the
writer's tree. That every directory is found then follows by induction on the length of its path, and
within a directory along its chain; that nothing else is, from the entries: only those of
directories and ".." lead anywhere.

`BootChainProofs` begins with the geometry, for every disk of more than 66600 and up to 0xFFFFFFFF
sectors; for all others, and only for them, `write.cpp` divides by 0 (`DividesByZero`): the regions follow one another (`RegionsInOrder`); the FAT has an entry for every cluster and
two more (`FatCoversClusters`); clusters 0 and 1 lie in the second FAT (`ClusterZeroInSecondFat`);
up to 8 GiB `data_loc` is right exactly below 2047 MiB (`DataLocBelow2GiB`); and `lba_to_chs`
addresses the sector it was given, for every sector number of 16 bits (`ChsAddressesSector`). All
of it follows from bounds on the two divisions of `FATSz32` for each size of a cluster.

It then proves of the loaders, for every set of images, sizes of disks and failed reads: `BootTypes`
(`TypeOK`), `SurvivesTwoFailures`, `LoaderComplete` (`Stage2Complete`), `KernelComplete`
(`KernelCompleteInReach`), `LoaderNotOverwritten` (`LoaderKept`), `ReachIsEnough` (`NoWrongTurn`,
the safety half of `Boots`) and `LoadersEnd` (their walks are finite). Images are any with distinct
names in the root (other than the two that stand for slots without an entry) and a disk that `write.cpp` does
not divide by 0 for (`DiskAssumption`). The layout comes first: the recursive function in
`FirstOf` exists and is unique (`BeginsExist`, `BeginsAgree`), so nodes lie one behind the other
and the FAT leads through each (`ChainEntry`); by `LayoutIsWriters` any layout with the two
properties proved of the writer is this one. These are inductions over numbers; they are made
with `SetInduction` (of `Numbers`), which takes a *set* of numbers and rests on the well-foundedness of `<`.
`Loading` is then the invariant of stage 1 from the entry on, one of four cases: no clusters
(`Empty`), a first cluster of more than 16 bits (`High`), one past the FAT sector (`Beyond`), or
`Near(n)`, where the first n clusters are in memory, each at the place its number *modulo 65536*
gives. The loader runs in `High` and `Near` only; what it then has is all of stage 2 or, if a
number wrapped, is not. That stage 1 finds `boload` only on clusters of four or eight sectors
(`ShortClusters`) is a fact about disks: with larger ones the data begin past sector 65535 and
`boload` is not found. `Second` is the invariant of stage 2 while every read is answered: in the
search, `Scanning(k)` (no kernel's entry looked at lies before slot `slot2` of the k-th sector
looked at, so that a slot without an entry means that there is none); in the loading,
`Fetched(n)` (n clusters are in memory, as in `Near`) or `Astray` (between clusters 0 and 0xff00,
never to arrive). Both ends rest on `CopyIsRight`: clusters read one after the other, each by its
number modulo 65536, are the file exactly when none of these numbers wrapped. After a cluster that ends at
sector 65535 the carry in `eax` leads to a sector that was never written, whose word of 0 sends the
loader to `Astray`, or to `wild`. `ReachIsEnough`
adds `Straight` (stage 1's entry is not behind the slot it looks at, so that of `Loading` only
`Near(n)` can come) and `Kept2` (stage 2 is not `wild`); that clusters in reach have numbers of
16 bits (`KernelNumbers`) is why it needs no word about cluster 0xff00. `LoadersEnd` counts what the
two have ahead of them (`Ahead`): the entries up to the wanted ones, the sectors of the clusters not
yet loaded, two steps for the FAT entry of each, and the reads of stage 1 that may still fail.
`Near`, `Scanning` and `Fetched` say that this is a natural number, and each step takes from it while
the reads of stage 2 are answered. No run checks it: the run checks `Boots`, which it is there for.
What is left of `Boots` is the fairness, that a loader which has not stopped takes a step.

`InterruptsProofs` proves, for every set of lines, every mask and every number of requests:
`InterruptTypes` (`TypeOK`), `RightHandler` (`HandlerOfItsLine`), `HandlersAlone` (`NoNesting`),
and, for lines without line 8, `ServicesEnded` (`ServiceEnded`; finding 5 is what line 8 does)
and `RequestsGoThrough` (`NeverHeldBack`, the safety half of `EveryRequestServed`).
The invariant has `Phases` (what each part of the program has made ready: the words that
`PIC_remap` has still to write, the vectors, the gates, the mode, IF), `Raised` (a request in a
controller is of a line that a device raised, so no spurious vector) and `Served` (one handler
at most, with IF clear, its line in service up to its EOIs). `ServicesEnded` adds that what is in
service is what the handler has still to end, `RequestsGoThrough` that the loop has taken off the
masks of the lines before its own (`Unmasked`).

`InputProofs` proves, for every ring of three bytes or more, all movements and keys: `InputTypes`
(`TypeOK`), `AppliesOnce` (`AppliedOnce`), `Recovers` (`Recovered`), and the action properties
`DecodesLast` (`DecodesRecent`) and `KeepsStep` (`InStepKept`). All of them are for every `MaxLost`. The invariant has `Room` (an interrupt that waits may
still take the byte in `al`), `Pending` (IRQ 12 stands for a byte of
the mouse, which comes before the next byte of its packet), `Ring` (the ring's last three bytes
are the last three read), `Checked` (a packet counted as a whole began with bit 3 set), `Applied`,
and `Recovering`: after each decoding with bit 3 clear the distance between decoder and mouse gets
smaller.

Only model-checked, because liveness under fairness is out of this prover's reach: `Termination`
of both programs, `ReaderEnds`, `Boots`, `EveryRequestServed` and `AcksPassed`. Of the reader's
`Termination` and of `Boots` the safety half and the variant are proved, of `EveryRequestServed`
the safety half (above).

## What is not modelled

* Conversions of numbers to text and of names to the eleven characters of an entry, checksums: pure
  functions whose results are printed or compared by nobody here.
* The position of the cursor and its limits: each interrupt may change the register they are
  computed in (finding 6), so nothing holds of them. The table of scan codes: only drawn.
* The copying of registers in and out of `REGS` by `int86`, which no caller of this kernel reads
  but for the memory the BIOS fills. Exceptions: no modelled step raises one.
* That an image fits its disk: nothing compares `total_clusters` with it, and the trees of the
  runs are small (`FatCoversClusters` says that the FAT has room for what the disk has).
* Drawing and debug output, which have no state of their own; VBE and PCI code, which is
  not linked; the build rules; superseded sources. `PROJECT.json` gives the reason for each.

## Plan

Done: the writer, the reader and one upon the other; the geometry; both loaders; the interrupts;
the input. Every safety invariant and action property of the passing runs is a theorem as well,
and so are both refinements. Worth stating next: a specification of the mouse as a stream of packets
for `Input` to implement. What a change of the code would make worth adding:

1. The register block of `int86`, once a caller reads what the BIOS left in it.
2. The position of the cursor and its limits, once handlers keep `eax` (finding 6).
3. A comparison of `total_clusters` with the disk, once `write.cpp` makes one.
