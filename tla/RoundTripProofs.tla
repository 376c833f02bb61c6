-------------------------- MODULE RoundTripProofs --------------------------
(***************************************************************************)
(* That readfat finds what writefat stored, for every touch.txt, every     *)
(* geometry and every size of the reader's vectors.                        *)
(*                                                                         *)
(* The image has been finished before the reader begins, so what its slots *)
(* and its FAT hold are facts (of FatImageProofs) that no step of the      *)
(* reader changes.  The invariant of the reader is then about this image:  *)
(* what it marks are clusters of directories, and each of them that it is  *)
(* done with was read up to its end.                                       *)
(***************************************************************************)
EXTENDS RoundTrip, FatImageProofs

-----------------------------------------------------------------------------
(* What the image shows a reader *)

ZeroCluster == {c \in {0} : \E p \in Directories : HasDotDot(p)}
Targets == (UNION {ClustersOf(p) : p \in Directories}) \cup ZeroCluster

\* A directory that is reached has a cluster, and its entries were written.
LEMMA DirectoryHasCluster ==
  ASSUME IInv, ImageInv, phase = "done", NEW p \in Directories
  PROVE  /\ p \in DOMAIN tree /\ IsDir(p) /\ p \in Path
         /\ clusters[p] \in Seq(Nat) /\ clusters[p] # <<>>
         /\ Len(clusters[p]) \in Nat \ {0} /\ DOMAIN clusters[p] = 1 .. Len(clusters[p])
<1>1. Finished /\ Allocated /\ Todo = {}
  BY DEF Finished, Allocated, Todo
<1>2. p \in DOMAIN tree /\ IsDir(p) /\ (p = Root \/ (Listed(p) /\ ~ IsDotName(Last(p))))
  BY DEF Directories
<1>3. p \in Path /\ clusters[p] \in Seq(Nat)
  BY <1>1, <1>2 DEF IInv, TypeInv, TypeOK, TreeOK
<1>4. clusters[p] # <<>>
  <2>1. CASE p = Root
    BY <1>1, <2>1 DEF ImageInv, PassInv
  <2>2. CASE p # Root
    <3>1. <<p, 1>> \in EntryJobs
      BY <1>2, <2>2 DEF EntryJobs, EntryLen, IsDir
    <3>2. ~ NoFirstCluster(<<p, 1>>[1])
      BY <1>1, <3>1 DEF ImageInv, PassInv
    <3> QED
      BY <1>2, <2>2, <3>2 DEF NoFirstCluster
  <2> QED
    BY <2>1, <2>2
<1>5. Len(clusters[p]) \in Nat \ {0} /\ DOMAIN clusters[p] = 1 .. Len(clusters[p])
  BY <1>3, <1>4, LenProperties, EmptySeq
<1> QED
  BY <1>2, <1>3, <1>4, <1>5

\* The way to the directory of a node is a part of the way to the node.
LEMMA PrefixesOfFront ==
  ASSUME NEW p \in Path, p # Root
  PROVE  Prefixes(Front(p)) \subseteq Prefixes(p)
<1>1. Len(p) \in Nat \ {0} /\ Len(Front(p)) = Len(p) - 1
  BY EmptySeq, FrontType DEF Path, Root
<1> SUFFICES ASSUME NEW l \in 0 .. (Len(p) - 1) PROVE SubSeq(Front(p), 1, l) \in Prefixes(p)
  BY <1>1, Zenon DEF Prefixes
<1>2. CASE l = 0
  <2>1. SubSeq(Front(p), 1, l) = Root
    BY <1>2, SubSeqEmpty DEF Root
  <2> QED
    BY <2>1, PrefixesType
<1>3. CASE l # 0
  <2>1. SubSeq(SubSeq(p, 1, Len(p) - 1), 1, l) = SubSeq(p, 1 + 1 - 1, 1 + l - 1)
    <3>1. 1 \in 1 .. Len(p) /\ Len(p) - 1 \in 1 .. Len(p)
      BY <1>1, <1>3
    <3>2. 1 \in 1 .. (Len(p) - 1 - 1 + 1) /\ l \in 1 .. (Len(p) - 1 - 1 + 1)
      BY <1>1, <1>3
    <3> QED
      BY <3>1, <3>2, SubSeqOfSubSeq DEF Path
  <2>2. 1 + 1 - 1 = 1 /\ 1 + l - 1 = l
    OBVIOUS
  <2>3. SubSeq(SubSeq(p, 1, Len(p) - 1), 1, l) = SubSeq(p, 1, l)
    BY <2>1, <2>2
  <2>4. SubSeq(Front(p), 1, l) = SubSeq(p, 1, l)
    BY <2>3, Zenon DEF Front
  <2>5. l \in 0 .. Len(p)
    BY <1>1
  <2> QED
    BY <2>4, <2>5, Zenon DEF Prefixes
<1> QED
  BY <1>2, <1>3

\* The directory that an entry stands in is reached.
LEMMA FrontReached ==
  ASSUME IInv, NEW job \in EntryJobs
  PROVE  Front(job[1]) \in Directories
<1> DEFINE c == job[1]
           d == Front(c)
<1>1. c \in DOMAIN tree \ {Root} /\ c \in Path /\ Listed(c) /\ d \in DOMAIN tree /\ IsDir(d)
  BY JobInDirectory
<1>2. d = Root \/ (Listed(d) /\ ~ IsDotName(Last(d)))
  <2>1. SUFFICES ASSUME d # Root PROVE Listed(d) /\ ~ IsDotName(Last(d))
    OBVIOUS
  <2>2. d \in Path
    BY <1>1, FrontType
  <2>3. d \in Prefixes(d) \ {Root}
    BY <2>1, <2>2, PrefixesType
  <2>4. Prefixes(Front(d)) \subseteq Prefixes(d)
    BY <2>1, <2>2, PrefixesOfFront
  <2> HIDE DEF d
  <2> QED
    BY <1>1, <2>1, <2>3, <2>4 DEF Listed, d
<1> QED
  BY <1>1, <1>2 DEF Directories

-----------------------------------------------------------------------------
(* Two invariants of the writer more *)

\* The root is the first node that alloc_cluster comes to.
RootFirst ==
  Allocated => IF phase = "alloc" /\ <<Root, 1>> \in pending THEN total = 2
               ELSE clusters[Root] = <<>> \/ clusters[Root][1] = 2

\* What the image has of directories is what generate_fileentry made.
EntriesOnly ==
  \A g \in DOMAIN disk : disk[g].attr = "dir" => \E o \in EntryJobs : disk[g] = Entry(o[1], o[2])

WriterInv == IInv /\ ImageInv /\ RootFirst /\ EntriesOnly

LEMMA RootFirstStep ==
  ASSUME IInv, RootFirst, [Next]_vars
  PROVE  RootFirst'
<1>1. CASE StartAlloc
  <2>1. total = 2 /\ total' = total /\ phase' = "alloc" /\ pending' = Jobs(DOMAIN tree)
    BY <1>1 DEF StartAlloc, IInv, AllocInv
  <2>2. Root \in DOMAIN tree
    BY DEF IInv, TypeInv, TypeOK
  <2> QED
    BY <2>1, <2>2 DEF RootFirst, Jobs
<1>2. ASSUME NEW p \in DOMAIN tree, AllocCluster(p) PROVE RootFirst'
  <2>1. /\ phase = "alloc" /\ phase' = "alloc" /\ Turn(<<p, 1>>) /\ pending' = pending \ {<<p, 1>>}
        /\ clusters' = [clusters EXCEPT ![p] = [i \in 1 .. AllocCount(p) |-> total + i - 1]]
        /\ DOMAIN clusters = DOMAIN tree /\ Root \in DOMAIN tree /\ total \in Nat
    BY <1>2 DEF AllocCluster, IInv, TypeInv, TypeOK, Allocated
  <2>2. CASE <<Root, 1>> \in pending
    <3>1. p = Root
      <4>1. SUFFICES ASSUME p # Root PROVE FALSE
        OBVIOUS
      <4>2. JobBefore(<<p, 1>>, <<Root, 1>>)
        BY <2>1, <2>2, <4>1 DEF Turn
      <4>3. Before(p, Root)
        BY <4>1, <4>2 DEF JobBefore
      <4>4. DOMAIN Root = {} /\ Len(Root) = 0
        BY DEF Root
      <4>5. Len(p) \in Nat
        BY LenProperties DEF IInv, TypeInv, TypeOK, Path
      <4>6. IsPrefix(p, Root) /\ p # Root
        BY <4>3, <4>4 DEF Before, IsStrictPrefix
      <4>7. Len(p) <= 0
        BY <4>4, <4>6 DEF IsPrefix
      <4>8. p \in Seq(Name)
        BY DEF IInv, TypeInv, TypeOK, Path
      <4> QED
        BY <4>5, <4>6, <4>7, <4>8, EmptySeq DEF Root
    <3>2. total = 2
      BY <2>1, <2>2 DEF RootFirst, Allocated
    <3>3. AllocCount(Root) \in Nat
      BY <2>1, AllocCountType DEF IInv, TypeInv
    <3>4. clusters'[Root] = [i \in 1 .. AllocCount(Root) |-> 2 + i - 1] /\ <<Root, 1>> \notin pending'
      BY <2>1, <3>1, <3>2
    <3>5. CASE AllocCount(Root) = 0
      <4>1. clusters'[Root] = <<>>
        BY <3>4, <3>5
      <4> QED
        BY <3>4, <4>1 DEF RootFirst
    <3>6. CASE AllocCount(Root) # 0
      <4>1. clusters'[Root][1] = 2
        BY <3>3, <3>4, <3>6
      <4> QED
        BY <3>4, <4>1 DEF RootFirst
    <3> QED
      BY <3>5, <3>6
  <2>3. CASE <<Root, 1>> \notin pending
    <3>1. p # Root
      BY <2>1, <2>3 DEF Turn
    <3>2. clusters'[Root] = clusters[Root]
      BY <2>1, <3>1
    <3>3. clusters[Root] = <<>> \/ clusters[Root][1] = 2
      BY <2>1, <2>3 DEF RootFirst, Allocated
    <3> QED
      BY <2>1, <2>3, <3>2, <3>3 DEF RootFirst
  <2> QED
    BY <2>2, <2>3
<1>3. CASE StartFat
  BY <1>3 DEF StartFat, RootFirst, Allocated
<1>4. ASSUME \/ WriteFat \/ StartFill \/ Close \/ UNCHANGED vars
             \/ \E p \in DOMAIN tree : GenerateFat(p) \/ FillFile(p)
             \/ \E job \in pending : WriteEntry(job[1], job[2])
      PROVE  RootFirst'
  <2>1. clusters' = clusters /\ total' = total /\ (Allocated' => Allocated) /\
        (phase = "alloc" <=> phase' = "alloc") /\ (phase = "alloc" => pending' = pending)
    BY <1>4 DEF WriteFat, StartFill, Close, GenerateFat, FillFile, WriteEntry, vars, Allocated
  <2> QED
    BY <2>1 DEF RootFirst
<1>5. ASSUME \/ \E x \in Vols : VolLine(x)
             \/ \E p \in DirArgs : DirLine(p)
             \/ \E r \in Reals : RealLine(r)
             \/ \E a \in FileArgs : FileLine(a[1], a[2])
             \/ \E a \in LnameArgs : LnameLine(a[1], a[2], a[3])
      PROVE  RootFirst'
  <2>1. phase' \in {"parse", "crash"}
    BY <1>5 DEF VolLine, DirLine, RealLine, FileLine, LnameLine, Parsed, Segfault, Line
  <2> QED
    BY <2>1 DEF RootFirst, Allocated
<1> QED
  BY <1>1, <1>2, <1>3, <1>4, <1>5 DEF Next, Exited

LEMMA EntriesOnlyStep ==
  ASSUME IInv, ImageInv, EntriesOnly, [Next]_vars
  PROVE  EntriesOnly'
<1>1. ASSUME NEW job \in pending, WriteEntry(job[1], job[2]) PROVE EntriesOnly'
  <2>1. UNCHANGED <<tree, clusters>>
    BY <1>1 DEF WriteEntry
  <2>2. EntryJobs' = EntryJobs /\ \A p, k : Entry(p, k)' = Entry(p, k)
    BY <2>1, SameNodes
  <2>3. CASE NoFirstCluster(job[1])
    BY <1>1, <2>2, <2>3 DEF WriteEntry, EntriesOnly
  <2>4. CASE ~ NoFirstCluster(job[1])
    <3> DEFINE d == Front(job[1])
               h == At(d, Filled(d))
    <3>1. /\ job \in EntryJobs
          /\ DOMAIN disk' = {h} \cup DOMAIN disk /\ disk'[h] = Entry(job[1], job[2])
          /\ \A g \in DOMAIN disk \ {h} : disk'[g] = disk[g]
      BY <1>1, <2>4, EntryWritten
    <3> HIDE DEF h
    <3>2. \A g \in DOMAIN disk' : disk'[g].attr = "dir" => \E o \in EntryJobs : disk'[g] = Entry(o[1], o[2])
      BY <3>1 DEF EntriesOnly
    <3> QED
      BY <2>2, <3>2 DEF EntriesOnly
  <2> QED
    BY <2>3, <2>4
<1>2. ASSUME NEW p \in DOMAIN tree, FillFile(p) PROVE EntriesOnly'
  <2>1. UNCHANGED <<tree, clusters>>
    BY <1>2 DEF FillFile
  <2>2. EntryJobs' = EntryJobs /\ \A q, k : Entry(q, k)' = Entry(q, k)
    BY <2>1, SameNodes
  <2>3. CASE tree[p].real \notin DOMAIN RealSlots
    BY <1>2, <2>2, <2>3 DEF FillFile, EntriesOnly
  <2>4. CASE tree[p].real \in DOMAIN RealSlots
    <3> DEFINE new == {At(p, n) : n \in 0 .. (Slots(p) - 1)}
    <3>1. /\ DOMAIN disk' = new \cup DOMAIN disk
          /\ \A n \in 0 .. (Slots(p) - 1) : disk'[At(p, n)] = Contents(tree[p].real, n)
          /\ \A g \in DOMAIN disk : g \notin new => disk'[g] = disk[g]
      BY <1>2, <2>4, FileWritten
    <3>2. \A n \in 0 .. (Slots(p) - 1) : disk'[At(p, n)].attr # "dir"
      <4> SUFFICES ASSUME NEW n \in 0 .. (Slots(p) - 1) PROVE Contents(tree[p].real, n).attr # "dir"
        BY <3>1
      <4> QED
        BY DEF Contents
    <3>3. \A g \in new : disk'[g].attr # "dir"
      BY <3>2
    <3> HIDE DEF new
    <3>4. \A g \in DOMAIN disk' : disk'[g].attr = "dir" => \E o \in EntryJobs : disk'[g] = Entry(o[1], o[2])
      BY <3>1, <3>3 DEF EntriesOnly
    <3> QED
      BY <2>2, <3>4 DEF EntriesOnly
  <2> QED
    BY <2>3, <2>4
<1>3. ASSUME disk' = <<>> PROVE EntriesOnly'
  <2>1. DOMAIN disk' = {}
    BY <1>3
  <2> QED
    BY <2>1 DEF EntriesOnly
<1>4. ASSUME \/ \E x \in Vols : VolLine(x)
             \/ \E p \in DirArgs : DirLine(p)
             \/ \E r \in Reals : RealLine(r)
             \/ \E a \in FileArgs : FileLine(a[1], a[2])
             \/ \E a \in LnameArgs : LnameLine(a[1], a[2], a[3])
             \/ StartAlloc \/ StartFat \/ WriteFat
             \/ \E p \in DOMAIN tree : AllocCluster(p) \/ GenerateFat(p)
      PROVE  disk' = <<>>
  <2>1. phase \in {"parse", "alloc", "fat"} /\ disk' = disk
    BY <1>4 DEF VolLine, DirLine, RealLine, FileLine, LnameLine, Line, StartAlloc, StartFat,
                WriteFat, AllocCluster, GenerateFat
  <2> QED
    BY <2>1 DEF ImageInv, FatInv
<1>5. ASSUME StartFill \/ Close \/ UNCHANGED vars PROVE EntriesOnly'
  <2>1. UNCHANGED <<tree, clusters, disk>>
    BY <1>5 DEF StartFill, Close, vars
  <2>2. EntryJobs' = EntryJobs /\ \A p, k : Entry(p, k)' = Entry(p, k)
    BY <2>1, SameNodes
  <2> QED
    BY <2>1, <2>2 DEF EntriesOnly
<1> QED
  BY <1>1, <1>2, <1>3, <1>4, <1>5 DEF Next, Exited

LEMMA WriterInit == Init => WriterInv
<1> SUFFICES ASSUME Init PROVE WriterInv
  OBVIOUS
<1>1. DOMAIN disk = {} /\ ~ Allocated
  BY DEF Init, Allocated
<1> QED
  BY <1>1, InitInv, ImageInit DEF WriterInv, RootFirst, EntriesOnly

LEMMA WriterStep == WriterInv /\ [Next]_vars => WriterInv'
BY StepInv, ImageStep, RootFirstStep, EntriesOnlyStep DEF WriterInv

-----------------------------------------------------------------------------
(* The slots of the directories *)

\* The clusters for a size are not more than it takes.
LEMMA RoomNeeded ==
  ASSUME NEW size \in Nat
  PROVE  /\ ClustersFor(size) - 1 \in Nat
         /\ FileEntrySize * ((ClustersFor(size) - 1) * SlotsPerClus) <= size
<1> DEFINE a == size \div BytesPerSec
           b == a \div SecPerClus
<1>1. a \in Nat /\ a * BytesPerSec <= size
  BY GeometryAssumption, NextMultiple
<1>2. b \in Nat /\ b * SecPerClus <= a
  BY <1>1, GeometryAssumption, NextMultiple
<1>3. ClustersFor(size) - 1 = b
  BY <1>2 DEF ClustersFor
<1> HIDE DEF a, b
<1>4. (b * SecPerClus) * BytesPerSec <= a * BytesPerSec
  <2> DEFINE k == b * SecPerClus
  <2>1. k \in Nat /\ k <= a
    BY <1>2, GeometryAssumption
  <2> HIDE DEF k
  <2>2. k * BytesPerSec <= a * BytesPerSec
    BY <1>1, <2>1, GeometryAssumption
  <2> QED
    BY <2>2 DEF k
<1>5. (b * SecPerClus) * BytesPerSec = b * BytesPerClus
  BY <1>2, GeometryAssumption DEF BytesPerClus
<1>6. b * BytesPerClus = FileEntrySize * (b * SlotsPerClus)
  BY <1>2, ClusterSize, SlotsType DEF FileEntrySize
<1>7. b * BytesPerClus \in Nat /\ a * BytesPerSec \in Nat
  BY <1>1, <1>2, GeometryAssumption DEF BytesPerClus
<1> QED
  BY <1>1, <1>2, <1>3, <1>4, <1>5, <1>6, <1>7

\* Of a directory that is reached all entries were written, and they end in its
\* last cluster.
LEMMA DirectoryFilled ==
  ASSUME WriterInv, phase = "done", NEW d \in Directories
  PROVE  /\ Filled(d) \in Nat /\ Filled(d) = Cardinality(EntriesIn(d))
         /\ (Len(clusters[d]) - 1) * SlotsPerClus \in Nat
         /\ (Len(clusters[d]) - 1) * SlotsPerClus <= Filled(d)
         /\ Filled(d) < Slots(d) /\ Slots(d) \in Nat
<1>1. IInv /\ ImageInv /\ Allocated /\ Todo = {}
  BY DEF WriterInv, Allocated, Todo
<1>2. /\ d \in DOMAIN tree /\ IsDir(d) /\ clusters[d] # <<>> /\ Len(clusters[d]) \in Nat \ {0}
      /\ (d = Root \/ (Listed(d) /\ ~ IsDotName(Last(d))))
  BY <1>1, DirectoryHasCluster DEF Directories
<1>3. EntriesDone(d) = EntriesIn(d)
  <2>1. EntriesDone(d) \subseteq EntriesIn(d)
    BY <1>1, DoneCount
  <2>2. \A job \in EntriesIn(d) : job \in EntriesDone(d)
    BY <1>1, <1>2, ChildrenListed DEF EntriesDone
  <2> QED
    BY <2>1, <2>2
<1>4. Filled(d) = Cardinality(EntriesIn(d))
  BY <1>2, <1>3 DEF Filled
<1> DEFINE n == Cardinality(EntriesIn(d))
<1>5. n \in Nat /\ n < Slots(d) /\ Slots(d) \in Nat
  BY <1>1, <1>2, RoomForEntries
<1>6. DirSize(d) = FileEntrySize * n
  BY DEF DirSize
<1> HIDE DEF n
<1>7. DirSize(d) \in Nat
  BY <1>5, <1>6 DEF FileEntrySize
<1>8. Len(clusters[d]) = ClustersFor(DirSize(d))
  <2>1. Len(clusters[d]) = AllocCount(d)
    BY <1>1, <1>2 DEF IInv, AllocInv
  <2>2. tree[d].kind # "file"
    BY <1>2 DEF IsDir
  <2> QED
    BY <1>2, <2>1, <2>2 DEF AllocCount
<1> DEFINE k == (Len(clusters[d]) - 1) * SlotsPerClus
<1>9. k \in Nat /\ FileEntrySize * k <= DirSize(d)
  <2> DEFINE b == ClustersFor(DirSize(d)) - 1
  <2>1. b \in Nat /\ FileEntrySize * (b * SlotsPerClus) <= DirSize(d) /\ SlotsPerClus \in Nat
    BY <1>7, RoomNeeded, SlotsType
  <2>2. k = b * SlotsPerClus
    BY <1>8
  <2> HIDE DEF b, k
  <2>3. b * SlotsPerClus \in Nat
    BY <2>1
  <2> QED
    BY <2>1, <2>2, <2>3
<1> HIDE DEF k
<1>10. k <= n
  BY <1>5, <1>6, <1>9 DEF FileEntrySize
<1> QED
  BY <1>4, <1>5, <1>9, <1>10 DEF n, k

\* The slots of a directory's clusters, in the order of their chain, were written
\* as far as its entries go.
LEMMA SlotWritten ==
  ASSUME WriterInv, phase = "done", NEW d \in Directories, NEW i \in DOMAIN clusters[d],
         NEW s \in 0 .. (SlotsPerClus - 1)
  PROVE  /\ i \in Nat \ {0} /\ (i - 1) * SlotsPerClus + s \in Nat
         /\ <<clusters[d][i], s>> \in DOMAIN disk <=> (i - 1) * SlotsPerClus + s < Filled(d)
<1> DEFINE S == SlotsPerClus
           n == (i - 1) * S + s
           L == Len(clusters[d])
<1>1. IInv /\ ImageInv /\ Allocated /\ Finished
  BY DEF WriterInv, Allocated, Finished
<1>2. d \in DOMAIN tree /\ L \in Nat \ {0} /\ i \in 1 .. L
  BY <1>1, DirectoryHasCluster
<1>3. S \in Nat \ {0} /\ s \in 0 .. (S - 1)
  BY SlotsType
<1>4. Slots(d) = L * S /\ Filled(d) \in Nat /\ Filled(d) < Slots(d) /\ Slots(d) \in Nat
  BY DirectoryFilled DEF Slots
<1>5. n \in Nat /\ n \div S = i - 1 /\ n % S = s
  <2> HIDE DEF S
  <2>1. i - 1 \in Nat /\ (i - 1) * S \in Nat
    BY <1>2, <1>3
  <2>2. n \in Nat
    BY <1>3, <2>1
  <2> HIDE DEF n
  <2>3. n = (i - 1) * S + s
    BY DEF n
  <2> QED
    BY <1>3, <2>1, <2>2, <2>3, QuotientUnique
<1>6. At(d, n) = <<clusters[d][i], s>>
  <2>1. (i - 1) + 1 = i
    BY <1>2
  <2> HIDE DEF n
  <2>2. At(d, n) = <<clusters[d][(n \div S) + 1], n % S>>
    BY DEF At
  <2> QED
    BY <1>5, <2>1, <2>2
<1>7. n < Slots(d)
  <2> HIDE DEF S, L
  <2>1. i * S <= L * S /\ i * S \in Nat /\ L * S \in Nat
    BY <1>2, <1>3
  <2>2. i * S = (i - 1) * S + S
    BY <1>2, <1>3
  <2> QED
    BY <1>2, <1>3, <1>4, <2>1, <2>2
<1> HIDE DEF n
<1>8. DOMAIN disk = Occupied
  BY <1>1 DEF ImageInv, DiskInv
<1>9. n < Filled(d) => At(d, n) \in DOMAIN disk
  <2>1. n < Filled(d) => n \in 0 .. (Filled(d) - 1)
    BY <1>4, <1>5
  <2> QED
    BY <1>2, <1>8, <2>1 DEF Occupied
<1>10. ~ (n < Filled(d)) => At(d, n) \notin DOMAIN disk
  <2>1. n \in 0 .. (Slots(d) - 1)
    BY <1>4, <1>5, <1>7
  <2>2. ~ (n < Filled(d)) => Filled(d) <= n
    BY <1>4, <1>5
  <2> QED
    BY <1>1, <1>2, <1>8, <2>1, <2>2, FreshSlot
<1> QED
  BY <1>2, <1>5, <1>6, <1>9, <1>10 DEF n

-----------------------------------------------------------------------------
(* What the finished image shows a reader *)

\* The entries of a cluster go to its end.
Full(c) == \A s \in 0 .. (SlotsPerClus - 1) : <<c, s>> \in DOMAIN disk

\* What a reader can come to has a number below total_clusters; all of it but 0
\* are clusters of directories.
LEMMA TargetNumbers ==
  ASSUME WriterInv, phase = "done"
  PROVE  /\ Targets \subseteq 0 .. (total - 1) /\ 2 \in Targets
         /\ \A p \in Directories : ClustersOf(p) \subseteq 2 .. (total - 1)
<1>1. IInv /\ ImageInv /\ Allocated /\ total \in Nat \ {0, 1}
  BY DEF WriterInv, Allocated, IInv, TypeInv, TypeOK
<1>2. \A p \in Directories : ClustersOf(p) \subseteq 2 .. (total - 1)
  <2> SUFFICES ASSUME NEW p \in Directories, NEW i \in DOMAIN clusters[p]
               PROVE  clusters[p][i] \in 2 .. (total - 1)
    BY DEF ClustersOf
  <2> QED
    BY <1>1, ClusterInFat DEF Directories
<1>3. Root \in Directories
  <2>1. TreeOK(tree) /\ Hangs(tree)
    BY <1>1 DEF IInv, TypeInv, TreeInv
  <2> QED
    BY <2>1 DEF TreeOK, Hangs, Directories, IsDir
<1>4. 2 \in ClustersOf(Root)
  <2>1. 1 \in DOMAIN clusters[Root] /\ clusters[Root] # <<>>
    BY <1>1, <1>3, DirectoryHasCluster
  <2>2. clusters[Root][1] = 2
    BY <1>1, <2>1 DEF WriterInv, RootFirst
  <2> QED
    BY <2>1, <2>2 DEF ClustersOf
<1> QED
  BY <1>1, <1>2, <1>3, <1>4 DEF Targets, ZeroCluster

\* An entry of the image leads to a cluster of a directory, or for ".." to 0.
LEMMA EntryLeads ==
  ASSUME WriterInv, phase = "done", NEW g, ImageEntry(g).kind = "dir"
  PROVE  g \in DOMAIN disk /\ ImageEntry(g).first \in Targets
<1>1. IInv /\ ImageInv /\ Allocated /\ Finished /\ Todo = {}
  BY DEF WriterInv, Allocated, Finished, Todo
<1>2. g \in DOMAIN disk /\ disk[g].attr = "dir" /\ ImageEntry(g).first = disk[g].first
  BY DEF ImageEntry
<1>3. PICK o \in EntryJobs : disk[g] = Entry(o[1], o[2])
  BY <1>2 DEF WriterInv, EntriesOnly
<1> DEFINE p == o[1]
<1>4. p \in DOMAIN tree \ {Root} /\ Listed(p) /\ Front(p) \in Directories
  BY <1>1, JobInDirectory, FrontReached
<1>5. IsDir(p) /\ disk[g].first = FirstCluster(p)
  <2>1. tree[p].kind # "long"
    BY <1>2, <1>3 DEF Entry, LongEntry
  <2>2. disk[g] = ShortEntry(p)
    BY <1>3, <2>1 DEF Entry
  <2> QED
    BY <1>2, <2>2 DEF ShortEntry, IsDir
<1>6. ASSUME NEW d \in Directories PROVE clusters[d][1] \in Targets
  <2>1. 1 \in DOMAIN clusters[d]
    BY <1>1, DirectoryHasCluster
  <2> QED
    BY <2>1 DEF Targets, ClustersOf
<1>7. CASE IsDot(Last(p))
  <2>1. FirstCluster(p) = clusters[Front(p)][1]
    BY <1>5, <1>7, NotBothDots DEF FirstCluster
  <2> QED
    BY <1>2, <1>4, <1>5, <1>6, <2>1
<1>8. CASE IsDotDot(Last(p))
  <2>1. FirstCluster(p) = 0
    BY <1>5, <1>8, NotBothDots DEF FirstCluster
  <2>2. p \in Children(Front(p))
    BY <1>4 DEF Children
  <2>3. HasDotDot(Front(p))
    BY <1>5, <1>8, <2>2 DEF HasDotDot
  <2> QED
    BY <1>2, <1>4, <1>5, <2>1, <2>3 DEF Targets, ZeroCluster
<1>9. CASE ~ IsDotName(Last(p))
  <2>1. p \in Directories
    BY <1>4, <1>5, <1>9 DEF Directories
  <2>2. FirstCluster(p) = clusters[p][1]
    BY <1>5, <1>9 DEF FirstCluster, IsDotName
  <2> QED
    BY <1>2, <1>5, <1>6, <2>1, <2>2
<1> QED
  BY <1>2, <1>7, <1>8, <1>9 DEF IsDotName

\* Nothing was written to the clusters before the first of the root.
LEMMA ZeroEmpty ==
  ASSUME WriterInv, phase = "done", NEW s
  PROVE  <<0, s>> \notin DOMAIN disk
<1>1. IInv /\ ImageInv /\ Allocated /\ phase # "alloc" /\ DOMAIN disk = Occupied
  BY DEF WriterInv, Allocated, Finished, ImageInv, DiskInv
<1> SUFFICES ASSUME NEW p \in DOMAIN tree, NEW n \in 0 .. (Filled(p) - 1), At(p, n) = <<0, s>>
             PROVE  FALSE
  BY <1>1 DEF Occupied
<1>2. clusters[p] \in Seq(Nat) /\ Filled(p) \in Nat /\ Filled(p) <= Slots(p) /\ Slots(p) \in Nat
  BY <1>1, FilledBound DEF IInv, TypeInv, TypeOK
<1>3. Len(clusters[p]) \in Nat /\ DOMAIN clusters[p] = 1 .. Len(clusters[p])
  BY <1>2, LenProperties
<1>4. n \in 0 .. (Len(clusters[p]) * SlotsPerClus - 1)
  BY <1>2 DEF Slots
<1>5. n \div SlotsPerClus + 1 \in DOMAIN clusters[p]
  BY <1>3, <1>4, RowOfSlot
<1>6. clusters[p][n \div SlotsPerClus + 1] \in 2 .. (total - 1)
  BY <1>1, <1>5, ClusterInFat
<1>7. clusters[p][n \div SlotsPerClus + 1] = 0
  BY DEF At
<1> QED
  BY <1>6, <1>7

\* Before the last cluster of a directory all are full, the last one is not, and
\* no cluster has a gap in it.
LEMMA ClusterSlots ==
  ASSUME WriterInv, phase = "done", NEW d \in Directories, NEW i \in DOMAIN clusters[d]
  PROVE  /\ Full(clusters[d][i]) <=> i < Len(clusters[d])
         /\ \A s \in 0 .. (SlotsPerClus - 1), t \in 0 .. (SlotsPerClus - 1) :
              <<clusters[d][i], s>> \in DOMAIN disk /\ t < s => <<clusters[d][i], t>> \in DOMAIN disk
<1> DEFINE S == SlotsPerClus
           L == Len(clusters[d])
           k == (L - 1) * S
           j == (i - 1) * S
           F == Filled(d)
<1>1. IInv /\ ImageInv
  BY DEF WriterInv
<1>2. L \in Nat \ {0} /\ i \in 1 .. L /\ S \in Nat \ {0}
  BY <1>1, DirectoryHasCluster, SlotsType
<1>3. F \in Nat /\ k \in Nat /\ k <= F /\ F < L * S /\ L * S \in Nat
  BY DirectoryFilled DEF Slots
<1>4. \A s \in 0 .. (S - 1) : <<clusters[d][i], s>> \in DOMAIN disk <=> j + s < F
  BY SlotWritten
<1>5. j \in Nat
  <2> HIDE DEF S
  <2> QED
    BY <1>2
<1>6. L * S = k + S
  <2> HIDE DEF S, L
  <2> QED
    BY <1>2
<1>7. i < L => j + S <= k
  <2> HIDE DEF S, L
  <2>1. SUFFICES ASSUME i < L PROVE j + S <= k
    OBVIOUS
  <2>2. j + S = i * S
    BY <1>2
  <2>3. i * S <= (L - 1) * S
    <3> DEFINE m == L - 1
    <3>1. m \in Nat /\ i <= m /\ i \in Nat
      BY <1>2, <2>1
    <3> HIDE DEF m
    <3>2. i * S <= m * S
      BY <1>2, <3>1
    <3> QED
      BY <3>2 DEF m
  <2> QED
    BY <2>2, <2>3
<1>8. i = L => j = k
  OBVIOUS
<1> HIDE DEF j, k, F
<1>9. i < L => Full(clusters[d][i])
  <2> SUFFICES ASSUME i < L, NEW s \in 0 .. (S - 1) PROVE <<clusters[d][i], s>> \in DOMAIN disk
    BY DEF Full
  <2> HIDE DEF S, L
  <2>1. j + s < F
    BY <1>2, <1>3, <1>5, <1>7
  <2> QED
    BY <1>4, <2>1
<1>10. ~ (i < L) => ~ Full(clusters[d][i])
  <2> SUFFICES ASSUME ~ (i < L) PROVE \E s \in 0 .. (S - 1) : <<clusters[d][i], s>> \notin DOMAIN disk
    BY DEF Full
  <2> HIDE DEF S, L
  <2>1. i = L
    BY <1>2
  <2> DEFINE s == F - k
  <2>2. s \in 0 .. (S - 1) /\ ~ (j + s < F)
    BY <1>2, <1>3, <1>6, <1>8, <2>1
  <2> HIDE DEF s
  <2> QED
    BY <1>4, <2>2
<1>11. ASSUME NEW s \in 0 .. (S - 1), NEW t \in 0 .. (S - 1), <<clusters[d][i], s>> \in DOMAIN disk, t < s
       PROVE  <<clusters[d][i], t>> \in DOMAIN disk
  <2> HIDE DEF S, L
  <2>1. j + s < F
    BY <1>4, <1>11
  <2>2. j + t < F
    BY <1>2, <1>3, <1>5, <1>11, <2>1
  <2> QED
    BY <1>4, <2>2
<1> QED
  BY <1>9, <1>10, <1>11

\* What a chain goes on with after a full cluster is the next one of the directory.
LEMMA FullContinues ==
  ASSUME WriterInv, phase = "done", NEW c \in Targets, Full(c)
  PROVE  \E p \in Directories : \E i \in DOMAIN clusters[p] :
           /\ c = clusters[p][i] /\ i < Len(clusters[p])
           /\ i + 1 \in DOMAIN clusters[p]
           /\ ImageChain(c) = clusters[p][i + 1] /\ ImageChain(c) \in Targets
<1>1. IInv /\ ImageInv /\ Finished /\ FatInv
  BY DEF WriterInv, Finished, ImageInv
<1>2. c # 0
  <2>1. 0 \in 0 .. (SlotsPerClus - 1)
    BY SlotsType
  <2> QED
    BY <2>1, ZeroEmpty DEF Full
<1>3. PICK p \in Directories : \E i \in DOMAIN clusters[p] : c = clusters[p][i]
  BY <1>2 DEF Targets, ZeroCluster, ClustersOf
<1> PICK i \in DOMAIN clusters[p] : c = clusters[p][i]
  BY <1>3
<1>4. i < Len(clusters[p])
  BY <1>3, ClusterSlots
<1>5. p \in DOMAIN tree /\ clusters[p] \in Seq(Nat) /\ Len(clusters[p]) \in Nat
      /\ DOMAIN clusters[p] = 1 .. Len(clusters[p])
  BY <1>1, DirectoryHasCluster
<1>6. i + 1 \in DOMAIN clusters[p]
  BY <1>4, <1>5
<1>7. c \in DOMAIN imageFat /\ imageFat[c] = clusters[p][i + 1]
  <2>1. Chained(clusters[p])
    BY <1>1, <1>5, NodesChained
  <2> QED
    BY <1>3, <1>4, <2>1 DEF Chained, Link
<1>8. clusters[p][i + 1] \in Nat
  BY <1>5, <1>6, ElementOfSeq
<1>9. ImageChain(c) = clusters[p][i + 1]
  BY <1>7, <1>8, EndOfChainAssumption DEF ImageChain
<1>10. ImageChain(c) \in Targets
  BY <1>6, <1>9 DEF Targets, ClustersOf
<1> QED
  BY <1>3, <1>4, <1>6, <1>9, <1>10

\* Every entry of a directory stands in one of its clusters.
LEMMA EntryStands ==
  ASSUME WriterInv, phase = "done", NEW d \in Directories, NEW job \in EntriesIn(d)
  PROVE  /\ job \in EntryJobs /\ Front(job[1]) = d
         /\ \E i \in DOMAIN clusters[d], s \in 0 .. (SlotsPerClus - 1) :
              /\ <<clusters[d][i], s>> \in DOMAIN disk
              /\ disk[<<clusters[d][i], s>>] = Entry(job[1], job[2])
<1> DEFINE n == Position(d, job)
<1>1. IInv /\ ImageInv /\ Finished /\ Todo = {}
  BY DEF WriterInv, Finished, Todo
<1>2. job \in EntryJobs /\ Front(job[1]) = d
  BY <1>1, ChildrenListed DEF Directories
<1>3. At(d, n) \in DOMAIN disk /\ disk[At(d, n)] = Entry(job[1], job[2])
  BY <1>1, <1>2 DEF ImageInv, DiskInv
<1>4. Len(clusters[d]) \in Nat /\ DOMAIN clusters[d] = 1 .. Len(clusters[d])
  BY <1>1, DirectoryHasCluster
<1>5. n \in 0 .. (Len(clusters[d]) * SlotsPerClus - 1)
  <2>1. IsFiniteSet(EntriesIn(d))
    BY <1>1, EntriesFinite DEF IInv, TypeInv
  <2>2. {o \in EntriesIn(d) : JobBefore(o, job)} \in SUBSET EntriesIn(d)
    OBVIOUS
  <2>3. n \in Nat /\ n <= Cardinality(EntriesIn(d))
    BY <2>1, <2>2, FS_Subset, FS_CardinalityType DEF Position
  <2> HIDE DEF n
  <2> QED
    BY <2>3, DirectoryFilled DEF Slots
<1> HIDE DEF n
<1>6. n \div SlotsPerClus + 1 \in DOMAIN clusters[d] /\ n % SlotsPerClus \in 0 .. (SlotsPerClus - 1)
  BY <1>4, <1>5, RowOfSlot
<1> QED
  BY <1>2, <1>3, <1>6 DEF At

\* A set of clusters with all that its own entries and chains lead to.
LeadsWithin(M) ==
  /\ \A c \in M : \A s \in 0 .. (SlotsPerClus - 1) :
       ImageEntry(<<c, s>>).kind = "dir" => ImageEntry(<<c, s>>).first \in M
  /\ \A c \in M : Full(c) => ImageChain(c) \in M

\* Along the chain of a directory.
LEMMA AlongChain ==
  ASSUME WriterInv, phase = "done", NEW M, LeadsWithin(M),
         NEW d \in Directories, clusters[d][1] \in M
  PROVE  ClustersOf(d) \subseteq M
<1> DEFINE s == clusters[d]
           T == {n \in Nat : n + 1 \in DOMAIN s => s[n + 1] \in M}
<1>1. IInv /\ ImageInv /\ Finished /\ FatInv
  BY DEF WriterInv, Finished, ImageInv
<1>2. s \in Seq(Nat) /\ DOMAIN s = 1 .. Len(s) /\ Len(s) \in Nat \ {0} /\ d \in DOMAIN tree
  BY <1>1, DirectoryHasCluster
<1>3. Chained(s)
  BY <1>1, <1>2, NodesChained
<1> HIDE DEF s
<1>4. 0 \in T
  BY DEF s
<1>5. ASSUME NEW n \in T PROVE n + 1 \in T
  <2>1. SUFFICES ASSUME n + 2 \in DOMAIN s PROVE s[n + 2] \in M
    OBVIOUS
  <2>2. n \in Nat /\ n + 1 \in DOMAIN s /\ n + 1 < Len(s) /\ s[n + 1] \in M
    BY <1>2, <2>1
  <2>3. Full(s[n + 1])
    BY <2>2, ClusterSlots DEF s
  <2>4. imageFat[s[n + 1]] = s[n + 2] /\ s[n + 1] \in DOMAIN imageFat /\ s[n + 2] \in Nat
    <3>1. (n + 1) + 1 = n + 2
      BY <2>2
    <3> QED
      BY <1>2, <1>3, <2>1, <2>2, <3>1, ElementOfSeq DEF Chained, Link
  <2>5. ImageChain(s[n + 1]) = s[n + 2]
    BY <2>4, EndOfChainAssumption DEF ImageChain
  <2> QED
    BY <2>2, <2>3, <2>5 DEF LeadsWithin
<1>6. T = Nat
  <2>1. T \in SUBSET Nat
    OBVIOUS
  <2> HIDE DEF T
  <2> QED
    BY <1>4, <1>5, <2>1, SetInduction
<1>7. ASSUME NEW i \in DOMAIN s PROVE s[i] \in M
  <2>1. i - 1 \in T /\ (i - 1) + 1 = i
    BY <1>2, <1>6
  <2> QED
    BY <2>1
<1> QED
  BY <1>7 DEF ClustersOf, s

\* From the root's cluster a reader comes to all directories.
LEMMA AllReached ==
  ASSUME WriterInv, phase = "done", NEW M, 2 \in M, LeadsWithin(M)
  PROVE  Targets \subseteq M
<1> DEFINE T == {n \in Nat : \A d \in Directories : Len(d) = n => clusters[d][1] \in M}
<1>1. IInv /\ ImageInv
  BY DEF WriterInv
<1>2. ASSUME NEW d \in Directories, ClustersOf(d) \subseteq M, NEW job \in EntriesIn(d), IsDir(job[1])
      PROVE  FirstCluster(job[1]) \in M
  <2>1. PICK i \in DOMAIN clusters[d], s \in 0 .. (SlotsPerClus - 1) :
              /\ <<clusters[d][i], s>> \in DOMAIN disk
              /\ disk[<<clusters[d][i], s>>] = Entry(job[1], job[2])
    BY EntryStands
  <2>2. Entry(job[1], job[2]) = ShortEntry(job[1])
    BY <1>2 DEF Entry, IsDir
  <2>3. Entry(job[1], job[2]).attr = "dir" /\ Entry(job[1], job[2]).first = FirstCluster(job[1])
    BY <1>2, <2>2 DEF ShortEntry, IsDir
  <2>4. /\ ImageEntry(<<clusters[d][i], s>>).kind = "dir"
        /\ ImageEntry(<<clusters[d][i], s>>).first = FirstCluster(job[1])
    BY <2>1, <2>3 DEF ImageEntry
  <2>5. clusters[d][i] \in M
    BY <1>2, <2>1 DEF ClustersOf
  <2> QED
    BY <2>4, <2>5 DEF LeadsWithin
<1>3. 0 \in T
  <2> SUFFICES ASSUME NEW d \in Directories, Len(d) = 0 PROVE clusters[d][1] \in M
    OBVIOUS
  <2>1. d = Root
    BY <1>1, DirectoryHasCluster, EmptySeq DEF Path, Root
  <2>2. clusters[d] # <<>>
    BY <1>1, DirectoryHasCluster
  <2>3. clusters[Root][1] = 2
    BY <1>1, <2>1, <2>2 DEF WriterInv, RootFirst, Allocated
  <2> QED
    BY <2>1, <2>3
<1>4. ASSUME NEW n \in T PROVE n + 1 \in T
  <2> SUFFICES ASSUME NEW p \in Directories, Len(p) = n + 1 PROVE clusters[p][1] \in M
    BY <1>4
  <2> DEFINE d == Front(p)
  <2>1. n \in Nat /\ p \in Path /\ p \in DOMAIN tree /\ IsDir(p) /\ p # Root
    BY <1>1, <1>4, DirectoryHasCluster, EmptySeq DEF Root
  <2>2. Listed(p) /\ ~ IsDotName(Last(p)) /\ EntryLen(p) = 1
    BY <2>1 DEF Directories, EntryLen, IsDir
  <2>3. <<p, 1>> \in EntryJobs
    BY <2>1, <2>2 DEF EntryJobs
  <2>4. d \in Directories /\ <<p, 1>> \in EntriesIn(d)
    BY <1>1, <2>3, FrontReached, JobInDirectory
  <2>5. Len(d) = n
    <3>1. Len(d) = Len(p) - 1
      BY <2>1, FrontType
    <3> QED
      BY <2>1, <3>1
  <2> HIDE DEF d
  <2>6. ClustersOf(d) \subseteq M
    BY <1>4, <2>4, <2>5, AlongChain
  <2>7. FirstCluster(p) \in M
    BY <1>2, <2>1, <2>4, <2>6
  <2> QED
    BY <2>1, <2>2, <2>7 DEF FirstCluster, IsDotName
<1>5. T = Nat
  <2>1. T \in SUBSET Nat
    OBVIOUS
  <2> HIDE DEF T
  <2> QED
    BY <1>3, <1>4, <2>1, SetInduction
<1>6. ASSUME NEW d \in Directories PROVE ClustersOf(d) \subseteq M
  <2>1. Len(d) \in Nat
    BY <1>1, DirectoryHasCluster, LenProperties DEF Path
  <2>2. clusters[d][1] \in M
    BY <1>5, <2>1
  <2> QED
    BY <2>2, AlongChain
<1>7. ASSUME NEW d \in Directories, HasDotDot(d) PROVE 0 \in M
  <2>1. PICK q \in Children(d) : IsDir(q) /\ IsDotDot(Last(q))
    BY <1>7 DEF HasDotDot
  <2>2. <<q, 1>> \in EntriesIn(d)
    <3>1. EntryLen(q) = 1
      BY <2>1 DEF EntryLen, IsDir
    <3> QED
      BY <3>1 DEF EntriesIn
  <2>3. FirstCluster(q) \in M
    BY <1>2, <1>6, <1>7, <2>1, <2>2
  <2> QED
    BY <2>1, <2>3, NotBothDots DEF FirstCluster
<1> QED
  BY <1>6, <1>7 DEF Targets, ZeroCluster

-----------------------------------------------------------------------------
(* The reader's walk *)

Marks == 0 .. (ReaderClusters - 1)
InList(c) == \E i \in DOMAIN clsIdtoRead : clsIdtoRead[i] = c
InHand(c) == pc \in {"scan", "chain"} /\ cluster = c

\* A cluster was read up to an end of its entries, or to its own end and on.
Through(c) ==
  \/ \E e \in 0 .. (SlotsPerClus - 1) :
       <<c, e>> \notin DOMAIN disk /\ \A s \in 0 .. e : <<c, s>> \in DOMAIN seen
  \/ c \in DOMAIN chain /\ \A s \in 0 .. (SlotsPerClus - 1) : <<c, s>> \in DOMAIN seen

\* Only clusters of directories are marked, in the list and taken up.
WalkMarks ==
  /\ pc \in {"pop", "scan", "chain", "done", "throw"}
  /\ clsIdtoRead \in Seq(Marks)
  /\ clsHasRead \subseteq Marks \cap Targets
  /\ 2 \in clsHasRead /\ cluster \in clsHasRead
  /\ \A i \in DOMAIN clsIdtoRead : clsIdtoRead[i] \in clsHasRead
  /\ pc = "done" => clsIdtoRead = <<>>

\* The slots before the one in hand were read, and no end was among them.
WalkScan ==
  /\ pc = "scan" =>
       /\ slot \in 0 .. (SlotsPerClus - 1)
       /\ \A s \in 0 .. (slot - 1) : <<cluster, s>> \in DOMAIN disk /\ <<cluster, s>> \in DOMAIN seen
  /\ pc = "chain" =>
       \A s \in 0 .. (SlotsPerClus - 1) : <<cluster, s>> \in DOMAIN disk /\ <<cluster, s>> \in DOMAIN seen

\* What was read is what the image holds.
WalkRecord ==
  /\ \A g \in DOMAIN seen : seen[g] = ImageEntry(g)
  /\ \A c \in DOMAIN chain : c < R!FatLen /\ chain[c] = ImageChain(c)

\* What it leads to was marked, and every marked cluster is accounted for; but
\* where the vectors are too small for a directory, the reader may have stopped.
WalkClosed ==
  IF pc = "throw" THEN ~ WithinReader
  ELSE /\ \A g \in DOMAIN seen : ImageEntry(g).kind = "dir" => ImageEntry(g).first \in clsHasRead
       /\ \A c \in DOMAIN chain : Full(c) => ImageChain(c) \in clsHasRead
       /\ \A c \in clsHasRead : InList(c) \/ InHand(c) \/ Through(c)

WalkInv == WalkMarks /\ WalkScan /\ WalkRecord /\ WalkClosed

\* While the image is read it stays as it is.
LEMMA SameImage ==
  ASSUME UNCHANGED vars
  PROVE  /\ Targets' = Targets /\ (WithinReader' <=> WithinReader)
         /\ \A g : ImageEntry(g)' = ImageEntry(g)
         /\ \A c : ImageChain(c)' = ImageChain(c)
         /\ \A c : Full(c)' <=> Full(c)
<1>1. UNCHANGED <<phase, tree, clusters, imageFat, disk>>
  BY DEF vars
<1>2. Directories' = Directories
  BY <1>1 DEF Directories, IsDir, Listed
<1>3. \A p : ClustersOf(p)' = ClustersOf(p) /\ HasDotDot(p)' = HasDotDot(p)
  BY <1>1 DEF ClustersOf, HasDotDot, Children, IsDir
<1>4. Targets' = Targets
  BY <1>2, <1>3 DEF Targets, ZeroCluster
<1>5. WithinReader' <=> WithinReader
  BY <1>1, <1>2 DEF WithinReader
<1> QED
  BY <1>1, <1>4, <1>5 DEF ImageEntry, ImageChain, Full

LEMMA WalkBegins ==
  ASSUME WriterInv, phase = "done", R!Init
  PROVE  WalkInv
<1>1. /\ pc = "pop" /\ clsIdtoRead = <<2>> /\ clsHasRead = {2} /\ cluster = 2
      /\ DOMAIN seen = {} /\ DOMAIN chain = {}
  BY DEF R!Init
<1>2. DOMAIN clsIdtoRead = {1} /\ clsIdtoRead[1] = 2
  BY <1>1
<1>3. 2 \in Targets /\ 2 \in Marks
  BY TargetNumbers, VectorsAssumption DEF Marks
<1>4. WalkMarks
  BY <1>1, <1>2, <1>3 DEF WalkMarks
<1>5. WalkClosed
  BY <1>1, <1>2 DEF WalkClosed, InList
<1> QED
  BY <1>1, <1>4, <1>5 DEF WalkInv, WalkScan, WalkRecord

\* What taking up a cluster does to the list.
LEMMA PopTakes ==
  ASSUME WalkMarks, R!Pop
  PROVE  /\ cluster' \in clsHasRead /\ clsIdtoRead' \in Seq(Marks)
         /\ \A i \in DOMAIN clsIdtoRead' : i \in DOMAIN clsIdtoRead /\ clsIdtoRead'[i] = clsIdtoRead[i]
         /\ \A c : InList(c) => (\E i \in DOMAIN clsIdtoRead' : clsIdtoRead'[i] = c) \/ c = cluster'
<1>1. clsIdtoRead \in Seq(Marks) /\ clsIdtoRead # <<>> /\ \A i \in DOMAIN clsIdtoRead : clsIdtoRead[i] \in clsHasRead
  BY DEF WalkMarks, R!Pop
<1>2. Len(clsIdtoRead) \in Nat \ {0} /\ DOMAIN clsIdtoRead = 1 .. Len(clsIdtoRead)
  BY <1>1, LenProperties, EmptySeq
<1>3. clsIdtoRead' = SubSeq(clsIdtoRead, 1, Len(clsIdtoRead) - 1) /\ cluster' = clsIdtoRead[Len(clsIdtoRead)]
  BY DEF R!Pop, R!Front, R!Last
<1> HIDE DEF Marks
<1>4. SubSeq(clsIdtoRead, 1, Len(clsIdtoRead) - 1) \in Seq(Marks)
  BY <1>1, <1>2, SubSeqProperties
<1>5. DOMAIN clsIdtoRead' = 1 .. (Len(clsIdtoRead) - 1)
  BY <1>1, <1>2, <1>3
<1>6. \A i \in DOMAIN clsIdtoRead' : clsIdtoRead'[i] = clsIdtoRead[i]
  BY <1>1, <1>2, <1>3, <1>5
<1>7. \A i \in DOMAIN clsIdtoRead : i \in DOMAIN clsIdtoRead' \/ i = Len(clsIdtoRead)
  BY <1>2, <1>5
<1>8. DOMAIN clsIdtoRead' \subseteq DOMAIN clsIdtoRead
  BY <1>2, <1>5
<1> QED
  BY <1>1, <1>2, <1>3, <1>4, <1>6, <1>7, <1>8 DEF InList

LEMMA PopWalks ==
  ASSUME WalkInv, R!Pop, UNCHANGED vars
  PROVE  WalkInv'
<1>1. /\ pc = "pop" /\ pc' = "scan" /\ slot' = 0 /\ UNCHANGED <<clsHasRead, seen, chain, disk>>
  BY DEF R!Pop, vars
<1>2. WalkMarks /\ WalkRecord /\ WalkClosed
  BY DEF WalkInv
<1>3. /\ cluster' \in clsHasRead /\ clsIdtoRead' \in Seq(Marks)
      /\ \A i \in DOMAIN clsIdtoRead' : i \in DOMAIN clsIdtoRead /\ clsIdtoRead'[i] = clsIdtoRead[i]
      /\ \A c : InList(c) => (\E i \in DOMAIN clsIdtoRead' : clsIdtoRead'[i] = c) \/ c = cluster'
  BY <1>2, PopTakes
<1>4. WalkMarks'
  BY <1>1, <1>2, <1>3, SameImage DEF WalkMarks, Marks
<1>5. WalkScan'
  BY <1>1, SlotsType DEF WalkScan
<1>6. WalkRecord'
  BY <1>1, <1>2, SameImage DEF WalkRecord, R!FatLen
<1>7. WalkClosed'
  <2>1. \A c \in clsHasRead : InList(c)' \/ InHand(c)' \/ Through(c)'
    <3> TAKE c \in clsHasRead
    <3>1. InList(c) \/ Through(c)
      BY <1>1, <1>2 DEF WalkClosed, InHand
    <3>2. Through(c)' <=> Through(c)
      BY <1>1 DEF Through
    <3> QED
      BY <1>1, <1>3, <3>1, <3>2 DEF InList, InHand
  <2> QED
    BY <1>1, <1>2, <2>1, SameImage DEF WalkClosed
<1> QED
  BY <1>4, <1>5, <1>6, <1>7 DEF WalkInv

LEMMA FinishWalks ==
  ASSUME WalkInv, R!Finish, UNCHANGED vars
  PROVE  WalkInv'
<1>1. /\ pc = "pop" /\ pc' = "done" /\ clsIdtoRead = <<>>
      /\ UNCHANGED <<clsIdtoRead, clsHasRead, cluster, slot, seen, chain, disk>>
  BY DEF R!Finish, vars
<1>2. WalkMarks'
  BY <1>1, SameImage DEF WalkInv, WalkMarks, Marks
<1>3. WalkRecord'
  BY <1>1, SameImage DEF WalkInv, WalkRecord, R!FatLen
<1>4. \A c : (Through(c)' <=> Through(c)) /\ (InList(c)' <=> InList(c)) /\ ~ InHand(c)
  BY <1>1 DEF Through, InList, InHand
<1>5. WalkClosed'
  BY <1>1, <1>4, SameImage DEF WalkInv, WalkClosed
<1> QED
  BY <1>1, <1>2, <1>3, <1>5 DEF WalkInv, WalkScan

\* The cluster after whose slots the chain is looked up is not the last one of its
\* directory.
LEMMA PastFatWalks ==
  ASSUME WriterInv, phase = "done", WalkInv, R!PastFat, UNCHANGED vars
  PROVE  WalkInv'
<1>1. /\ pc = "chain" /\ pc' = "throw" /\ cluster >= R!FatLen
      /\ UNCHANGED <<clsIdtoRead, clsHasRead, cluster, slot, seen, chain, disk>>
  BY DEF R!PastFat, vars
<1>2. cluster \in Targets /\ cluster \in Nat /\ Full(cluster)
  BY <1>1 DEF WalkInv, WalkMarks, WalkScan, Full, Marks
<1>3. PICK p \in Directories : \E i \in DOMAIN clusters[p] : cluster = clusters[p][i] /\ i < Len(clusters[p])
  BY <1>2, FullContinues
<1>4. R!FatLen = FatSectors \div 4 /\ R!FatLen \in Nat
  BY VectorsAssumption DEF R!FatLen
<1>5. ~ (cluster < FatSectors \div 4)
  BY <1>1, <1>2, <1>4
<1>6. ~ WithinReader
  BY <1>3, <1>5 DEF WithinReader
<1>7. WalkMarks'
  BY <1>1, SameImage DEF WalkInv, WalkMarks, Marks
<1>8. WalkRecord'
  BY <1>1, SameImage DEF WalkInv, WalkRecord, R!FatLen
<1> QED
  BY <1>1, <1>6, <1>7, <1>8, SameImage DEF WalkInv, WalkScan, WalkClosed

\* What visiting a cluster does to the list and the marks.
LEMMA VisitTakes ==
  ASSUME WalkMarks, NEW c \in Marks, R!Visit(c)
  PROVE  /\ clsHasRead' = clsHasRead \cup {c} /\ clsIdtoRead' \in Seq(Marks)
         /\ \A i \in DOMAIN clsIdtoRead' : clsIdtoRead'[i] \in clsHasRead'
         /\ \A d : InList(d) => InList(d)'
         /\ \A d \in clsHasRead' \ clsHasRead : InList(d)'
<1>1. clsIdtoRead \in Seq(Marks) /\ \A i \in DOMAIN clsIdtoRead : clsIdtoRead[i] \in clsHasRead
  BY DEF WalkMarks
<1>2. CASE c \in clsHasRead
  BY <1>1, <1>2 DEF R!Visit, InList
<1>3. CASE c \notin clsHasRead
  <2>1. clsIdtoRead' = Append(clsIdtoRead, c) /\ clsHasRead' = clsHasRead \cup {c}
    BY <1>3 DEF R!Visit
  <2> HIDE DEF Marks
  <2>2. /\ clsIdtoRead' \in Seq(Marks)
        /\ Len(clsIdtoRead') = Len(clsIdtoRead) + 1
        /\ \A i \in 1 .. Len(clsIdtoRead) : clsIdtoRead'[i] = clsIdtoRead[i]
        /\ clsIdtoRead'[Len(clsIdtoRead) + 1] = c
    BY <1>1, <2>1, AppendProperties
  <2>3. /\ DOMAIN clsIdtoRead = 1 .. Len(clsIdtoRead) /\ Len(clsIdtoRead) \in Nat
        /\ DOMAIN clsIdtoRead' = 1 .. (Len(clsIdtoRead) + 1)
    BY <1>1, <2>2, LenProperties
  <2>4. DOMAIN clsIdtoRead' = DOMAIN clsIdtoRead \cup {Len(clsIdtoRead) + 1}
    BY <2>3
  <2>5. \A i \in DOMAIN clsIdtoRead' : clsIdtoRead'[i] \in clsHasRead'
    BY <1>1, <2>1, <2>2, <2>3, <2>4
  <2>6. \A d : InList(d) => InList(d)'
    BY <2>2, <2>3, <2>4 DEF InList
  <2>7. InList(c)'
    BY <2>2, <2>4 DEF InList
  <2> QED
    BY <2>1, <2>2, <2>5, <2>6, <2>7
<1> QED
  BY <1>2, <1>3

\* What reading a slot does to the record.
LEMMA SlotRead ==
  ASSUME WalkRecord, NEW e, R!ReadEntry(e)
  PROVE  /\ DOMAIN seen' = DOMAIN seen \cup {<<cluster, slot>>}
         /\ seen'[<<cluster, slot>>] = e
         /\ \A g \in DOMAIN seen : seen'[g] = seen[g]
<1>1. /\ R!Holds(<<cluster, slot>>, e)
      /\ seen' = [h \in DOMAIN seen \cup {<<cluster, slot>>} |-> IF h = <<cluster, slot>> THEN e ELSE seen[h]]
  BY DEF R!ReadEntry, R!Seen
<1> QED
  BY <1>1 DEF R!Holds

LEMMA ReadEntryWalks ==
  ASSUME WriterInv, phase = "done", WalkInv, R!ReadEntry(ImageEntry(<<cluster, slot>>)), UNCHANGED vars
  PROVE  WalkInv'
<1> DEFINE g == <<cluster, slot>>
           e == ImageEntry(g)
           S == SlotsPerClus
<1>1. pc = "scan" /\ UNCHANGED <<cluster, chain, disk>>
  BY DEF R!ReadEntry, vars
<1>2. WalkMarks /\ WalkScan /\ WalkRecord /\ WalkClosed
  BY DEF WalkInv
<1>3. /\ DOMAIN seen' = DOMAIN seen \cup {g} /\ seen'[g] = e
      /\ \A h \in DOMAIN seen : seen'[h] = seen[h]
  BY <1>2, SlotRead
<1>4. /\ slot \in 0 .. (S - 1) /\ S \in Nat \ {0}
      /\ \A s \in 0 .. (slot - 1) : <<cluster, s>> \in DOMAIN disk /\ <<cluster, s>> \in DOMAIN seen
  BY <1>1, <1>2, SlotsType DEF WalkScan
<1>5. e.kind \in {"end", "dir", "plain"} /\ (e.kind # "end" <=> g \in DOMAIN disk)
  BY DEF ImageEntry
<1>6. WalkRecord'
  <2>1. \A h \in DOMAIN seen' : seen'[h] = ImageEntry(h)
    BY <1>2, <1>3 DEF WalkRecord
  <2> HIDE DEF e, g
  <2> QED
    BY <1>1, <1>2, <2>1, SameImage DEF WalkRecord, R!FatLen
<1>7. \A c : Through(c) => Through(c)'
  BY <1>1, <1>3 DEF Through
<1>8. CASE e.kind = "end"
  <2>1. pc' = "pop" /\ UNCHANGED <<slot, clsIdtoRead, clsHasRead>>
    BY <1>8 DEF R!ReadEntry
  <2>2. WalkMarks'
    BY <1>1, <1>2, <2>1, SameImage DEF WalkMarks, Marks
  <2>3. Through(cluster)'
    <3>1. \A s \in 0 .. slot : <<cluster, s>> \in DOMAIN seen'
      <4> TAKE s \in 0 .. slot
      <4>1. s = slot \/ s \in 0 .. (slot - 1)
        BY <1>4
      <4> QED
        BY <1>3, <1>4, <4>1
    <3>2. <<cluster, slot>> \notin DOMAIN disk
      BY <1>5, <1>8
    <3> QED
      BY <1>1, <1>4, <3>1, <3>2 DEF Through
  <2>4. \A c \in clsHasRead : InList(c)' \/ InHand(c)' \/ Through(c)'
    BY <1>1, <1>2, <1>7, <2>1, <2>3 DEF WalkClosed, InHand, InList
  <2>5. WalkClosed'
    BY <1>1, <1>2, <1>3, <1>8, <2>1, <2>4, SameImage DEF WalkClosed
  <2> QED
    BY <1>6, <2>1, <2>2, <2>5 DEF WalkInv, WalkScan
<1>9. ASSUME R!NextSlot, g \in DOMAIN disk
      PROVE  WalkScan' /\ pc' \in {"scan", "chain"}
  <2>1. slot' = slot + 1 /\ pc' = IF slot + 1 = S THEN "chain" ELSE "scan"
    BY <1>9 DEF R!NextSlot
  <2>2. \A s \in 0 .. slot : <<cluster, s>> \in DOMAIN disk /\ <<cluster, s>> \in DOMAIN seen'
    <3> TAKE s \in 0 .. slot
    <3>1. s = slot \/ s \in 0 .. (slot - 1)
      BY <1>4
    <3> QED
      BY <1>3, <1>4, <1>9, <3>1
  <2> HIDE DEF S
  <2>3. CASE slot + 1 = S
    <3>1. 0 .. (S - 1) = 0 .. slot
      BY <1>4, <2>3
    <3> QED
      BY <1>1, <2>1, <2>2, <2>3, <3>1 DEF WalkScan, S
  <2>4. CASE slot + 1 # S
    <3>1. slot' \in 0 .. (S - 1) /\ 0 .. (slot' - 1) = 0 .. slot
      BY <1>4, <2>1, <2>4
    <3> QED
      BY <1>1, <2>1, <2>2, <2>4, <3>1 DEF WalkScan, S
  <2> QED
    BY <2>3, <2>4
<1>10. CASE e.kind = "plain"
  <2>1. R!NextSlot /\ UNCHANGED <<clsIdtoRead, clsHasRead>> /\ g \in DOMAIN disk
    BY <1>5, <1>10 DEF R!ReadEntry
  <2>2. WalkScan' /\ pc' \in {"scan", "chain"}
    BY <1>9, <2>1
  <2>3. WalkMarks'
    BY <1>1, <1>2, <2>1, <2>2, SameImage DEF WalkMarks, Marks
  <2>4. \A c \in clsHasRead : InList(c)' \/ InHand(c)' \/ Through(c)'
    BY <1>1, <1>2, <1>7, <2>1, <2>2 DEF WalkClosed, InHand, InList
  <2>5. WalkClosed'
    BY <1>1, <1>2, <1>3, <1>10, <2>1, <2>2, <2>4, SameImage DEF WalkClosed
  <2> QED
    BY <1>6, <2>2, <2>3, <2>5 DEF WalkInv
<1>11. e.kind = "dir" => e.first \in Targets /\ e.first \in Nat
  <2>1. Targets \subseteq 0 .. (total - 1) /\ total \in Nat
    BY TargetNumbers DEF WriterInv, IInv, TypeInv, TypeOK
  <2>2. \A x \in Targets : x \in Nat
    BY <2>1
  <2>3. e.kind = "dir" => e.first \in Targets
    BY EntryLeads
  <2> HIDE DEF e
  <2> QED
    BY <2>2, <2>3
<1>12. CASE e.kind = "dir" /\ e.first < ReaderClusters
  <2>1. R!NextSlot /\ R!Visit(e.first) /\ g \in DOMAIN disk
    BY <1>5, <1>11, <1>12, VectorsAssumption DEF R!ReadEntry
  <2>2. WalkScan' /\ pc' \in {"scan", "chain"}
    BY <1>9, <2>1
  <2>3. e.first \in Marks /\ e.first \in Targets
    BY <1>11, <1>12, VectorsAssumption DEF Marks
  <2>4. /\ clsHasRead' = clsHasRead \cup {e.first} /\ clsIdtoRead' \in Seq(Marks)
        /\ \A i \in DOMAIN clsIdtoRead' : clsIdtoRead'[i] \in clsHasRead'
        /\ \A d : InList(d) => InList(d)'
        /\ \A d \in clsHasRead' \ clsHasRead : InList(d)'
    BY <1>2, <2>1, <2>3, VisitTakes
  <2>5. WalkMarks'
    BY <1>1, <1>2, <2>2, <2>3, <2>4, SameImage DEF WalkMarks, Marks
  <2>6. \A c \in clsHasRead' : InList(c)' \/ InHand(c)' \/ Through(c)'
    BY <1>1, <1>2, <1>7, <2>2, <2>4 DEF WalkClosed, InHand
  <2>7. \A h \in DOMAIN seen' : ImageEntry(h).kind = "dir" => ImageEntry(h).first \in clsHasRead'
    BY <1>1, <1>2, <1>3, <2>4 DEF WalkClosed
  <2>8. \A c \in DOMAIN chain' : Full(c) => ImageChain(c) \in clsHasRead'
    BY <1>1, <1>2, <2>4 DEF WalkClosed
  <2> HIDE DEF e, g
  <2>9. WalkClosed'
    BY <2>2, <2>6, <2>7, <2>8, SameImage DEF WalkClosed
  <2> QED
    BY <1>6, <2>2, <2>5, <2>9 DEF WalkInv
<1>13. CASE e.kind = "dir" /\ ~ (e.first < ReaderClusters)
  <2>1. pc' = "throw" /\ UNCHANGED <<slot, clsIdtoRead, clsHasRead>>
    BY <1>11, <1>13, VectorsAssumption DEF R!ReadEntry
  <2>2. e.first # 0
    BY <1>13, VectorsAssumption
  <2>3. PICK p \in Directories : e.first \in ClustersOf(p)
    BY <1>11, <1>13, <2>2 DEF Targets, ZeroCluster
  <2>4. ~ WithinReader
    BY <1>13, <2>3 DEF WithinReader, ClustersOf
  <2>5. WalkMarks'
    BY <1>1, <1>2, <2>1, SameImage DEF WalkMarks, Marks
  <2> HIDE DEF e, g
  <2> QED
    BY <1>6, <2>1, <2>4, <2>5, SameImage DEF WalkInv, WalkScan, WalkClosed
<1> HIDE DEF e
<1> QED
  BY <1>5, <1>8, <1>10, <1>12, <1>13

LEMMA FollowChainWalks ==
  ASSUME WriterInv, phase = "done", total <= R!BadCluster, WalkInv,
         R!FollowChain(ImageChain(cluster)), UNCHANGED vars
  PROVE  WalkInv'
<1> DEFINE v == ImageChain(cluster)
<1>1. pc = "chain" /\ cluster < R!FatLen /\ UNCHANGED <<cluster, slot, seen, disk>>
  BY DEF R!FollowChain, vars
<1>2. WalkMarks /\ WalkScan /\ WalkRecord /\ WalkClosed
  BY DEF WalkInv
<1>3. /\ DOMAIN chain' = DOMAIN chain \cup {cluster} /\ chain'[cluster] = v
      /\ \A c \in DOMAIN chain : c # cluster => chain'[c] = chain[c]
  BY DEF R!FollowChain, R!Chained
<1>4. cluster \in Targets /\ Full(cluster)
  BY <1>1, <1>2 DEF WalkMarks, WalkScan, Full
<1>5. PICK p \in Directories : \E i \in DOMAIN clusters[p] :
           /\ cluster = clusters[p][i] /\ i < Len(clusters[p])
           /\ i + 1 \in DOMAIN clusters[p]
           /\ v = clusters[p][i + 1] /\ v \in Targets
  BY <1>4, FullContinues
<1>6. v \in Targets /\ v \in Nat /\ v < R!BadCluster
  <2>1. Targets \subseteq 0 .. (total - 1) /\ total \in Nat
    BY TargetNumbers DEF WriterInv, IInv, TypeInv, TypeOK
  <2> HIDE DEF v
  <2> QED
    BY <1>5, <2>1 DEF R!BadCluster
<1>7. v \in ClustersOf(p)
  BY <1>5 DEF ClustersOf
<1> HIDE DEF v
<1>8. WalkRecord'
  <2>1. \A c \in DOMAIN chain' : c < R!FatLen /\ chain'[c] = ImageChain(c)
    BY <1>1, <1>2, <1>3 DEF WalkRecord, v
  <2> QED
    BY <1>1, <1>2, <2>1, SameImage DEF WalkRecord, R!FatLen
<1>9. Through(cluster)' /\ \A c : Through(c) => Through(c)'
  BY <1>1, <1>2, <1>3 DEF Through, WalkScan
<1>10. CASE v < ReaderClusters
  <2>1. pc' = "pop" /\ R!Visit(v)
    BY <1>6, <1>10, VectorsAssumption DEF R!FollowChain, R!BadCluster, v
  <2>2. v \in Marks
    BY <1>6, <1>10, VectorsAssumption DEF Marks
  <2>3. /\ clsHasRead' = clsHasRead \cup {v} /\ clsIdtoRead' \in Seq(Marks)
        /\ \A i \in DOMAIN clsIdtoRead' : clsIdtoRead'[i] \in clsHasRead'
        /\ \A d : InList(d) => InList(d)'
        /\ \A d \in clsHasRead' \ clsHasRead : InList(d)'
    BY <1>2, <2>1, <2>2, VisitTakes
  <2>4. WalkMarks'
    BY <1>1, <1>2, <1>6, <2>1, <2>2, <2>3, SameImage DEF WalkMarks, Marks
  <2>5. \A c \in clsHasRead' : InList(c)' \/ InHand(c)' \/ Through(c)'
    BY <1>1, <1>2, <1>9, <2>3 DEF WalkClosed, InHand
  <2>6. \A h \in DOMAIN seen' : ImageEntry(h).kind = "dir" => ImageEntry(h).first \in clsHasRead'
    BY <1>1, <1>2, <2>3 DEF WalkClosed
  <2>7. \A c \in DOMAIN chain' : Full(c) => ImageChain(c) \in clsHasRead'
    BY <1>1, <1>2, <1>3, <2>3 DEF WalkClosed, v
  <2>8. WalkClosed'
    BY <2>1, <2>5, <2>6, <2>7, SameImage DEF WalkClosed
  <2> QED
    BY <1>8, <2>1, <2>4, <2>8 DEF WalkInv, WalkScan
<1>11. CASE ~ (v < ReaderClusters)
  <2>1. pc' = "throw" /\ UNCHANGED <<clsIdtoRead, clsHasRead>>
    BY <1>6, <1>11, VectorsAssumption DEF R!FollowChain, R!BadCluster, v
  <2>2. ~ WithinReader
    BY <1>7, <1>11 DEF WithinReader, ClustersOf
  <2>3. WalkMarks'
    BY <1>1, <1>2, <2>1, SameImage DEF WalkMarks, Marks
  <2> QED
    BY <1>8, <2>1, <2>2, <2>3, SameImage DEF WalkInv, WalkScan, WalkClosed
<1> QED
  BY <1>10, <1>11

\* A walk that is done has come to all clusters of all directories.
LEMMA WalkEnds ==
  ASSUME WriterInv, phase = "done", WalkInv, pc = "done"
  PROVE  WithinReader /\ {c \in clsHasRead : R!HasBeenRead(c)} = Targets
<1>1. /\ clsHasRead \subseteq Marks \cap Targets /\ 2 \in clsHasRead
      /\ \A g \in DOMAIN seen : ImageEntry(g).kind = "dir" => ImageEntry(g).first \in clsHasRead
      /\ \A c \in DOMAIN chain : c < R!FatLen /\ (Full(c) => ImageChain(c) \in clsHasRead)
  BY DEF WalkInv, WalkMarks, WalkRecord, WalkClosed
<1>2. \A c \in clsHasRead : Through(c)
  <2>1. DOMAIN clsIdtoRead = {}
    BY DEF WalkInv, WalkMarks
  <2> QED
    BY <2>1 DEF WalkInv, WalkClosed, InList, InHand
<1>3. ASSUME NEW c \in clsHasRead, Full(c)
      PROVE  c \in DOMAIN chain
  BY <1>2, <1>3 DEF Through, Full
<1>4. ASSUME NEW c \in clsHasRead, NEW s \in 0 .. (SlotsPerClus - 1), <<c, s>> \in DOMAIN disk
      PROVE  <<c, s>> \in DOMAIN seen
  <2>1. CASE \A t \in 0 .. (SlotsPerClus - 1) : <<c, t>> \in DOMAIN seen
    BY <2>1
  <2>2. ASSUME NEW e \in 0 .. (SlotsPerClus - 1), <<c, e>> \notin DOMAIN disk,
               \A t \in 0 .. e : <<c, t>> \in DOMAIN seen
        PROVE  <<c, s>> \in DOMAIN seen
    <3>1. c # 0
      BY <1>4, ZeroEmpty
    <3>2. PICK p \in Directories : \E i \in DOMAIN clusters[p] : c = clusters[p][i]
      BY <1>1, <3>1 DEF Targets, ZeroCluster, ClustersOf
    <3>3. ~ (e < s)
      BY <1>4, <2>2, <3>2, ClusterSlots
    <3>4. s # e
      BY <1>4, <2>2
    <3>5. s \in 0 .. e
      BY <3>3, SlotsType
    <3> QED
      BY <2>2, <3>5
  <2> QED
    BY <1>2, <2>1, <2>2 DEF Through
<1>5. LeadsWithin(clsHasRead)
  <2>1. ASSUME NEW c \in clsHasRead, NEW s \in 0 .. (SlotsPerClus - 1),
               ImageEntry(<<c, s>>).kind = "dir"
        PROVE  ImageEntry(<<c, s>>).first \in clsHasRead
    <3>1. <<c, s>> \in DOMAIN disk
      BY <2>1, EntryLeads
    <3> QED
      BY <1>1, <1>4, <2>1, <3>1
  <2>2. \A c \in clsHasRead : Full(c) => ImageChain(c) \in clsHasRead
    BY <1>1, <1>3
  <2> QED
    BY <2>1, <2>2 DEF LeadsWithin
<1>6. Targets \subseteq clsHasRead
  BY <1>1, <1>5, AllReached
<1>7. \A c \in clsHasRead : R!HasBeenRead(c)
  <2> TAKE c \in clsHasRead
  <2>1. 0 \in 0 .. (SlotsPerClus - 1) /\ \A e \in 0 .. (SlotsPerClus - 1) : 0 \in 0 .. e
    BY SlotsType
  <2>2. <<c, 0>> \in DOMAIN seen
    BY <1>2, <2>1 DEF Through
  <2> QED
    BY <2>2 DEF R!HasBeenRead
<1>8. WithinReader
  <2> SUFFICES ASSUME NEW p \in Directories, NEW i \in DOMAIN clusters[p]
               PROVE  /\ clusters[p][i] < ReaderClusters
                      /\ i < Len(clusters[p]) => clusters[p][i] < FatSectors \div 4
    BY DEF WithinReader
  <2>1. clusters[p][i] \in clsHasRead
    BY <1>6 DEF Targets, ClustersOf
  <2>2. clusters[p][i] < ReaderClusters
    <3>1. clusters[p][i] \in Marks
      BY <1>1, <2>1
    <3>2. \A c \in Marks : c < ReaderClusters
      BY VectorsAssumption DEF Marks
    <3> QED
      BY <3>1, <3>2
  <2>3. i < Len(clusters[p]) => clusters[p][i] < FatSectors \div 4
    BY <1>1, <1>3, <2>1, ClusterSlots DEF R!FatLen
  <2> QED
    BY <2>2, <2>3
<1> QED
  BY <1>1, <1>6, <1>7, <1>8

-----------------------------------------------------------------------------
(* Both programs *)

BothInv ==
  /\ WriterInv
  /\ phase # "done" => R!Init
  /\ phase = "done" /\ total <= R!BadCluster => WalkInv

LEMMA BothInit == InitBoth => BothInv
BY WriterInit DEF InitBoth, BothInv, Init

LEMMA WalkBeginsNext == (WriterInv /\ phase = "done" /\ R!Init => WalkInv)'
BY WalkBegins, PTL

\* A finished writer does nothing more.
LEMMA WriterEnded ==
  ASSUME phase = "done", [Next]_vars
  PROVE  UNCHANGED vars
BY DEF Next, VolLine, DirLine, RealLine, FileLine, LnameLine, Line, StartAlloc, AllocCluster,
       StartFat, GenerateFat, WriteFat, WriteEntry, StartFill, FillFile, Close, Exited

LEMMA BothStep == BothInv /\ [NextBoth]_allVars => BothInv'
<1> SUFFICES ASSUME BothInv, [NextBoth]_allVars PROVE BothInv'
  OBVIOUS
<1>1. WriterInv'
  <2>1. [Next]_vars
    BY DEF NextBoth, Write, Read, allVars, vars
  <2> QED
    BY <2>1, WriterStep DEF BothInv
<1>2. ASSUME [Next]_vars, UNCHANGED readerVars PROVE BothInv'
  <2>1. CASE phase # "done"
    <3>1. R!Init'
      BY <1>2, <2>1 DEF BothInv, R!Init, readerVars
    <3> QED
      BY <1>1, <3>1, WalkBeginsNext DEF BothInv
  <2>2. CASE phase = "done"
    <3>1. UNCHANGED vars
      BY <1>2, <2>2, WriterEnded
    <3>2. UNCHANGED <<phase, total>> /\ UNCHANGED <<pc, clsIdtoRead, clsHasRead, cluster, slot, seen, chain, disk>>
      BY <1>2, <3>1 DEF vars, readerVars
    <3>3. WalkInv => WalkInv'
      <4> SUFFICES ASSUME WalkInv PROVE WalkInv'
        OBVIOUS
      <4>1. WalkMarks'
        BY <3>1, <3>2, SameImage DEF WalkInv, WalkMarks, Marks
      <4>2. WalkRecord' /\ WalkScan'
        BY <3>1, <3>2, SameImage DEF WalkInv, WalkRecord, WalkScan, R!FatLen
      <4>3. \A c : (Through(c)' <=> Through(c)) /\ (InList(c)' <=> InList(c)) /\ (InHand(c)' <=> InHand(c))
        BY <3>2 DEF Through, InList, InHand
      <4>4. WalkClosed'
        BY <3>1, <3>2, <4>3, SameImage DEF WalkInv, WalkClosed
      <4> QED
        BY <4>1, <4>2, <4>4 DEF WalkInv
    <3> QED
      BY <1>1, <2>2, <3>2, <3>3 DEF BothInv, R!BadCluster
  <2> QED
    BY <2>1, <2>2
<1>3. ASSUME Read PROVE BothInv'
  <2>1. phase = "done" /\ phase' = "done" /\ total' = total /\ UNCHANGED vars /\ WriterInv
    BY <1>3 DEF Read, vars, BothInv
  <2>2. total <= R!BadCluster => WalkInv'
    <3> SUFFICES ASSUME total <= R!BadCluster PROVE WalkInv'
      OBVIOUS
    <3>1. WalkInv
      BY <2>1 DEF BothInv
    <3> QED
      BY <1>3, <2>1, <3>1, PopWalks, FinishWalks, PastFatWalks, ReadEntryWalks, FollowChainWalks DEF Read
  <2> QED
    BY <1>1, <2>1, <2>2 DEF BothInv, R!BadCluster
<1> QED
  BY <1>2, <1>3 DEF NextBoth, Write, allVars

LEMMA BothFinds == BothInv => FindsAll
<1> SUFFICES ASSUME BothInv, total <= R!BadCluster
             PROVE  /\ pc = "done" =>
                         /\ WithinReader
                         /\ {c \in clsHasRead : R!HasBeenRead(c)} =
                              (UNION {ClustersOf(p) : p \in Directories}) \cup
                              {c \in {0} : \E p \in Directories : HasDotDot(p)}
                    /\ pc = "throw" => ~ WithinReader
                    /\ pc # "bad"
  BY DEF FindsAll
<1>1. CASE phase # "done"
  BY <1>1 DEF BothInv, R!Init
<1>2. CASE phase = "done"
  <2>1. WriterInv /\ WalkInv
    BY <1>2 DEF BothInv
  <2>2. pc = "done" => WithinReader /\ {c \in clsHasRead : R!HasBeenRead(c)} = Targets
    BY <1>2, <2>1, WalkEnds
  <2>3. (pc = "throw" => ~ WithinReader) /\ pc # "bad"
    BY <2>1 DEF WalkInv, WalkMarks, WalkClosed
  <2> QED
    BY <2>2, <2>3 DEF Targets, ZeroCluster
<1> QED
  BY <1>1, <1>2

\* readfat finds exactly the directories that writefat stored, for every touch.txt,
\* every geometry and every size of the reader's vectors: the fields that the writer
\* computes, the FAT that it chains and the zeros that it leaves behind the entries
\* lead the reader to each cluster of each directory and to no other, and it throws
\* only where its vectors are too small (write.cpp:198-208, 278-370, read.cpp:79-155).
THEOREM ReaderFindsAll == SpecBoth => []FindsAll
<1>1. SpecBoth => []BothInv
  BY BothInit, BothStep, PTL DEF SpecBoth
<1> QED
  BY <1>1, BothFinds, PTL

\* Composed with a reader, the writer still does what Spec allows it, so that what
\* is proved of its steps holds of the two programs together.
THEOREM WriterInBoth == SpecBoth => Init /\ [][Next]_vars
<1>1. InitBoth => Init
  BY DEF InitBoth
<1>2. [NextBoth]_allVars => [Next]_vars
  BY DEF NextBoth, Write, Read, allVars, vars
<1> QED
  BY <1>1, <1>2, PTL DEF SpecBoth
=============================================================================
