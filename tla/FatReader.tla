----------------------------- MODULE FatReader -----------------------------
(***************************************************************************)
(* The worklist of src/read.cpp (79-155): from the root's cluster on, every *)
(* cluster of every directory is read once, its subdirectories and the     *)
(* rest of its chain are pushed on clsIdtoRead.                            *)
(*                                                                         *)
(* The image is any image.  What a slot or a FAT entry holds is decided    *)
(* when it is first read and kept in `seen` and `chain`, which so are also *)
(* the record of what was read.                                            *)
(***************************************************************************)
EXTENDS Integers, FiniteSets, SequencesExt

CONSTANTS
  RootCluster,    \* BPB_RootClus
  TotalClusters,  \* total_clusters, the size of clsHasRead
  FatSize,        \* fat_size, the sectors of a FAT
  Slots           \* the directory entries in a cluster

FatLen == FatSize \div 4    \* vector<DWORD> fat(fat_size / 4)
BadCluster == 268435447     \* 0x0FFFFFF7
EndMark == 268435448        \* 0x0FFFFFF8

ASSUME ReaderAssumption ==
  /\ TotalClusters \in Nat /\ TotalClusters < BadCluster - 1
  /\ RootCluster \in 0 .. (TotalClusters - 1)
  /\ FatSize \in Nat /\ Slots \in Nat \ {0}

\* Data clusters are numbered from 2, so two of them are out of clsHasRead.
Cluster == 0 .. (TotalClusters + 1)
Entry == [kind : {"end", "plain"}, first : {0}] \cup [kind : {"dir"}, first : Cluster]

VARIABLES
  pc,         \* "pop" the while loop, "scan" the for loop, "chain" after it
  clsIdtoRead,
  clsHasRead, \* the clusters marked
  cluster, slot,
  seen,       \* [<<cluster, slot>> -> Entry], the slots read so far
  chain       \* [cluster -> number], the FAT entries used so far

vars == <<pc, clsIdtoRead, clsHasRead, cluster, slot, seen, chain>>

Init ==
  /\ pc = "pop" /\ clsIdtoRead = <<RootCluster>> /\ clsHasRead = {RootCluster}
  /\ cluster = RootCluster /\ slot = 0
  /\ seen = <<>> /\ chain = <<>>

\* Mutants: not marked, not pushed, its neighbour pushed.
VisitUnmarked(c) ==
  IF c \in clsHasRead THEN UNCHANGED <<clsIdtoRead, clsHasRead>>
  ELSE clsIdtoRead' = Append(clsIdtoRead, c) /\ UNCHANGED clsHasRead
VisitMarked(c) ==
  IF c \in clsHasRead THEN UNCHANGED <<clsIdtoRead, clsHasRead>>
  ELSE UNCHANGED clsIdtoRead /\ clsHasRead' = clsHasRead \cup {c}
VisitNext(c) ==
  IF c + 1 \in clsHasRead \/ c + 1 >= TotalClusters THEN UNCHANGED <<clsIdtoRead, clsHasRead>>
  ELSE clsIdtoRead' = Append(clsIdtoRead, c + 1) /\ clsHasRead' = clsHasRead \cup {c + 1}

\* Push a cluster that is not marked, and mark it.
Visit(c) ==
  IF c \in clsHasRead THEN UNCHANGED <<clsIdtoRead, clsHasRead>>
  ELSE clsIdtoRead' = Append(clsIdtoRead, c) /\ clsHasRead' = clsHasRead \cup {c}

\* Mutant: back() without pop_back().
PopKept ==
  /\ pc = "pop" /\ clsIdtoRead # <<>>
  /\ cluster' = Last(clsIdtoRead) /\ UNCHANGED clsIdtoRead
  /\ slot' = 0 /\ pc' = "scan"
  /\ UNCHANGED <<clsHasRead, seen, chain>>

Pop ==
  /\ pc = "pop" /\ clsIdtoRead # <<>>
  /\ cluster' = Last(clsIdtoRead) /\ clsIdtoRead' = Front(clsIdtoRead)
  /\ slot' = 0 /\ pc' = "scan"
  /\ UNCHANGED <<clsHasRead, seen, chain>>

Finish ==
  /\ pc = "pop" /\ clsIdtoRead = <<>>
  /\ pc' = "done"
  /\ UNCHANGED <<clsIdtoRead, clsHasRead, cluster, slot, seen, chain>>

\* The entry in the slot: what was read there before, or anything.
Holds(g, e) == g \in DOMAIN seen => seen[g] = e
Seen(g, e) == seen' = [h \in DOMAIN seen \cup {g} |-> IF h = g THEN e ELSE seen[h]]

\* Mutants: the for loop starts over, goes one too far.
NextSlotAgain ==
  /\ slot' = (slot + 1) % Slots
  /\ pc' = "scan"
NextSlotLate ==
  /\ slot' = slot + 1
  /\ pc' = IF slot = Slots THEN "chain" ELSE "scan"

\* i += FileEntrySize, up to the size of a cluster.
NextSlot ==
  /\ slot' = slot + 1
  /\ pc' = IF slot + 1 = Slots THEN "chain" ELSE "scan"

ReadEntry(e) ==
  /\ pc = "scan" /\ Holds(<<cluster, slot>>, e) /\ Seen(<<cluster, slot>>, e)
  /\ \/ /\ e.kind = "end"
        /\ pc' = "pop" /\ UNCHANGED <<slot, clsIdtoRead, clsHasRead>>
     \/ /\ e.kind = "plain"
        /\ NextSlot /\ UNCHANGED <<clsIdtoRead, clsHasRead>>
     \/ /\ e.kind = "dir" /\ e.first < TotalClusters
        /\ NextSlot /\ Visit(e.first)
     \/ /\ e.kind = "dir" /\ e.first >= TotalClusters       \* .at throws
        /\ pc' = "throw" /\ UNCHANGED <<slot, clsIdtoRead, clsHasRead>>
  /\ UNCHANGED <<cluster, chain>>

Chained(c, v) == chain' = [b \in DOMAIN chain \cup {c} |-> IF b = c THEN v ELSE chain[b]]

FollowChain(v) ==
  /\ pc = "chain" /\ cluster < FatLen
  /\ cluster \in DOMAIN chain => chain[cluster] = v
  /\ Chained(cluster, v)
  /\ \/ /\ v < TotalClusters
        /\ pc' = "pop" /\ Visit(v)
     \/ /\ v >= TotalClusters /\ v < BadCluster
        /\ pc' = "throw" /\ UNCHANGED <<clsIdtoRead, clsHasRead>>
     \/ /\ v = BadCluster                                   \* leaves the while loop
        /\ pc' = "bad" /\ UNCHANGED <<clsIdtoRead, clsHasRead>>
     \/ /\ v > BadCluster
        /\ pc' = "pop" /\ UNCHANGED <<clsIdtoRead, clsHasRead>>
  /\ UNCHANGED <<cluster, slot, seen>>

\* fat.at(cluster) throws.
PastFat ==
  /\ pc = "chain" /\ cluster >= FatLen
  /\ pc' = "throw"
  /\ UNCHANGED <<clsIdtoRead, clsHasRead, cluster, slot, seen, chain>>

Exited == pc \in {"done", "bad", "throw"} /\ UNCHANGED vars

Next ==
  \/ Pop \/ Finish \/ PastFat \/ Exited
  \/ \E e \in Entry : ReadEntry(e)
  \/ \E v \in Cluster \cup {BadCluster, EndMark} : FollowChain(v)

\* One thread that runs until main() returns.
Spec == Init /\ [][Next]_vars /\ WF_vars(Next)

-----------------------------------------------------------------------------
TypeOK ==
  /\ pc \in {"pop", "scan", "chain", "done", "bad", "throw"}
  /\ clsIdtoRead \in Seq(0 .. (TotalClusters - 1))
  /\ clsHasRead \subseteq 0 .. (TotalClusters - 1)
  /\ cluster \in 0 .. (TotalClusters - 1)
  /\ slot \in 0 .. Slots /\ (pc = "scan" => slot < Slots)
  /\ DOMAIN seen \subseteq Cluster \X (0 .. (Slots - 1))
  /\ \A g \in DOMAIN seen : seen[g] \in Entry
  /\ DOMAIN chain \subseteq Cluster
  /\ \A c \in DOMAIN chain : chain[c] \in Cluster \cup {BadCluster, EndMark}

HasBeenRead(c) == <<c, 0>> \in DOMAIN seen

\* No cluster is taken up a second time, whatever cycles the directories and the
\* chains of the image make (read.cpp:88-93, 136-149).
ReadOnce == [][pc' = "scan" /\ pc = "pop" => ~ HasBeenRead(cluster')]_vars

\* What the entries and the chains that were read lead to.
Subdirectory(c) == \E g \in DOMAIN seen : seen[g].kind = "dir" /\ seen[g].first = c
Continuation(c) == \E b \in DOMAIN chain : chain[b] < BadCluster /\ chain[b] = c

\* When the loop runs dry, every directory and every continuation that the read
\* clusters lead to has been read itself (read.cpp:90-155).
NothingMissed ==
  pc = "done" =>
    \A c \in Cluster : c = RootCluster \/ Subdirectory(c) \/ Continuation(c) => HasBeenRead(c)

\* Nothing is read but what the root leads to: every set of clusters that holds
\* the root and all that its own clusters lead to holds every cluster marked.
Closed(S) ==
  /\ RootCluster \in S
  /\ \A g \in DOMAIN seen : g[1] \in S /\ seen[g].kind = "dir" => seen[g].first \in S
  /\ \A b \in DOMAIN chain : b \in S /\ chain[b] < BadCluster => chain[b] \in S
OnlyReachable == \A S \in SUBSET Cluster : Closed(S) => clsHasRead \subseteq S

\* The reader ends on every image.
Termination == <>(pc \in {"done", "bad", "throw"})

\* A chain is read wherever it leads: fat_size counts sectors, as read.cpp:63
\* prints it, so the FAT has an entry for every cluster below 128 times as many.
EntriesPerSector == 128
ChainsInFat == pc = "chain" /\ cluster < FatSize * EntriesPerSector => cluster < FatLen

-----------------------------------------------------------------------------
(* The list and its marks are an exploration *)

Known == 0 .. (TotalClusters - 1)
Waiting == {clsIdtoRead[i] : i \in DOMAIN clsIdtoRead}
LeadsTo(b, c) ==
  \/ \E s \in 0 .. (Slots - 1) :
       <<b, s>> \in DOMAIN seen /\ seen[<<b, s>>].kind = "dir" /\ seen[<<b, s>>].first = c
  \/ b \in DOMAIN chain /\ chain[b] = c
Leads == {l \in Known \X Known : LeadsTo(l[1], l[2])}
Status ==
  IF pc \in {"pop", "scan", "chain"} THEN "walking"
  ELSE IF pc = "done" THEN "done" ELSE "stopped"

Walk == INSTANCE Exploration WITH
  Node <- Known, Start <- RootCluster,
  read <- clsHasRead \ Waiting, known <- clsHasRead, leads <- Leads, status <- Status

\* clsHasRead, marked when a cluster is pushed, and clsIdtoRead together do what
\* a set of known and a set of read clusters would: the walk reads only what it
\* knows of, nothing twice, and says it is done when nothing is left
\* (read.cpp:86-155).
Explores == Walk!Spec

-----------------------------------------------------------------------------
(* How long the walk can take *)

\* The clusters not read yet, and the steps left in the one in hand.
Unread == Known \ (clsHasRead \ Waiting)
InCluster ==
  CASE pc = "pop"   -> 1
    [] pc = "scan"  -> Slots - slot + 2
    [] pc = "chain" -> 2
    [] OTHER        -> 0
StepsLeft == (Slots + 2) * Cardinality(Unread) + InCluster

\* Every step of the walk brings its end nearer, by a measure that starts at
\* (Slots + 2) * TotalClusters + 1: whatever the cycles of an image, and whatever
\* waits on clsIdtoRead, the reader takes no more steps than that (read.cpp:90-155).
StepsRunOut == [][StepsLeft' \in Nat /\ StepsLeft' < StepsLeft]_vars
=============================================================================
