----------------------------- MODULE RoundTrip -----------------------------
(***************************************************************************)
(* readfat on the image that writefat finished: the two programs run one   *)
(* after the other and share nothing but res.img.  FatReader takes any     *)
(* image; here what its slots and FAT entries hold is what FatWriter left  *)
(* in `disk` and `imageFat`.                                               *)
(***************************************************************************)
EXTENDS FatWriter

CONSTANTS
  ReaderClusters,  \* the marks of the reader, total_clusters
  FatSectors       \* BPB_FATSz32

VARIABLES pc, clsIdtoRead, clsHasRead, cluster, slot, seen, chain

R == INSTANCE FatReader WITH
  RootCluster <- 2, TotalClusters <- ReaderClusters, FatSize <- FatSectors, Slots <- SlotsPerClus

\* The root's cluster has a mark, and no mark is one of a FAT.
ASSUME VectorsAssumption ==
  /\ ReaderClusters \in Nat \ {0, 1, 2} /\ ReaderClusters < R!BadCluster - 1
  /\ FatSectors \in Nat

readerVars == <<pc, clsIdtoRead, clsHasRead, cluster, slot, seen, chain>>
allVars == <<vars, readerVars>>

\* The entry at a slot of the image.  What was never written is zero, and so are
\* clusters 0 and 1, the end of the second FAT, which nobody writes.
ImageEntry(g) ==
  IF g \notin DOMAIN disk THEN [kind |-> "end", first |-> 0]
  ELSE IF disk[g].attr = "dir" THEN [kind |-> "dir", first |-> disk[g].first]
  ELSE [kind |-> "plain", first |-> 0]

\* The image's FAT, masked with 0x0fffffff as the reader does.
ImageChain(c) ==
  IF c \notin DOMAIN imageFat THEN 0
  ELSE IF imageFat[c] = EndOfChain THEN R!EndMark ELSE imageFat[c]

InitBoth == Init /\ R!Init

Write == Next /\ UNCHANGED readerVars
Read ==
  /\ phase = "done"
  /\ \/ R!Pop \/ R!Finish \/ R!PastFat
     \/ R!ReadEntry(ImageEntry(<<cluster, slot>>))
     \/ R!FollowChain(ImageChain(cluster))
  /\ UNCHANGED vars

NextBoth == Write \/ Read

\* First one program, then the other.
SpecBoth == InitBoth /\ [][NextBoth]_allVars /\ WF_allVars(NextBoth)

-----------------------------------------------------------------------------
\* The directories that can be reached in the image.
Directories ==
  {p \in DOMAIN tree : IsDir(p) /\ (p = Root \/ (Listed(p) /\ ~ IsDotName(Last(p))))}
ClustersOf(p) == {clusters[p][i] : i \in DOMAIN clusters[p]}
HasDotDot(p) == \E q \in Children(p) : IsDir(q) /\ IsDotDot(Last(q))

\* What the reader's vectors hold: a mark for each cluster of a directory, a FAT
\* entry for each but its last one, after whose entries a zero follows.
WithinReader ==
  \A p \in Directories : \A i \in DOMAIN clusters[p] :
    /\ clusters[p][i] < ReaderClusters
    /\ i < Len(clusters[p]) => clusters[p][i] < FatSectors \div 4

\* readfat finds exactly what writefat wrote: of a finished image whose clusters
\* have numbers that are no marks of a FAT, it ends with all clusters of all
\* directories read, none of a file, and beyond these only cluster 0, where a ".."
\* leads; it throws only on an image that has a directory beyond its vectors, and
\* meets no bad cluster (write.cpp:344-370, read.cpp:79-155).
FindsAll ==
  total <= R!BadCluster =>
    /\ pc = "done" =>
         /\ WithinReader
         /\ {c \in clsHasRead : R!HasBeenRead(c)} =
              (UNION {ClustersOf(p) : p \in Directories}) \cup
              {c \in {0} : \E p \in Directories : HasDotDot(p)}
    /\ pc = "throw" => ~ WithinReader
    /\ pc # "bad"

\* With a finished image to read, readfat ends (read.cpp:90-155).
ReaderEnds == phase = "done" ~> pc \in {"done", "bad", "throw"}
=============================================================================
