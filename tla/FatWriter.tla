----------------------------- MODULE FatWriter -----------------------------
(***************************************************************************)
(* The image writer of src/write.cpp.  It parses touch.txt into a tree of  *)
(* nodes (426-470), gives every node its clusters (198-202, 278-292),      *)
(* chains them in the FAT (203-208, 293-305), writes one copy of the FAT   *)
(* (549-556), then the directory entries (344-370), then the contents of   *)
(* the files (210-232).                                                    *)
(*                                                                         *)
(* The program is sequential and its passes are depth-first recursions     *)
(* over std::map's order.  A pass is here a set of pending jobs taken in   *)
(* the order of the recursion, which is the lexicographic order of paths;  *)
(* a step is one call on one node, or one 32-byte directory entry.         *)
(*                                                                         *)
(* A name is a pair <<id, x>>, ordered as operator< orders a filename:     *)
(* the id first (write.cpp:50-52), then the text, which is a number here.  *)
(* The unit of the data region is a slot of FileEntrySize bytes.           *)
(***************************************************************************)
EXTENDS Integers, FiniteSets, SequencesExt

CONSTANTS
  Vols,          \* texts that `vol:` lines name
  DirArgs,       \* paths of the `dir:` lines
  Reals,         \* host files that `real:` lines name
  FileArgs,      \* pairs <<path, size>> of the `file:` lines
  LnameArgs,     \* triples <<directory, short name, length of the long name>>
  DotStems, DotDotStems,  \* texts like "..x" and "...x": the part before the last dot is "." or ".."
  MaxLines,      \* bound on the number of lines of touch.txt
  BytesPerSec, SecPerClus,
  RealSlots,     \* [existing host files -> their length in slots]
  NoFile,        \* the empty realname, before any `real:` line
  EndOfChain     \* 0xfffffff8

FileEntrySize == 32
BytesPerClus == BytesPerSec * SecPerClus
SlotsPerClus == BytesPerClus \div FileEntrySize

Name == (0 .. 256) \X Nat
Dot == <<64, 0>>
DotDot == <<65, 0>>
VolName(x) == <<128, x>>
LfnName(x) == <<255, x>>
PlainId == 256
Path == Seq(Name)
Root == <<>>

ASSUME ArgsAssumption ==
  /\ Vols \subseteq Nat
  /\ DirArgs \subseteq Path \ {Root}
  /\ FileArgs \subseteq (Path \ {Root}) \X Nat
  /\ LnameArgs \subseteq Path \X Nat \X (Nat \ {0})
  /\ MaxLines \in Nat
ASSUME StemsAssumption == DotStems \cap DotDotStems = {}
\* A long name of 3328 characters has a fragment whose number is 0 in a BYTE: the
\* directory ends there for a reader.
ASSUME LengthAssumption == \A a \in LnameArgs : a[3] < 3328
ASSUME GeometryAssumption ==
  /\ BytesPerSec \in Nat \ {0}
  /\ SecPerClus \in Nat \ {0}
  /\ BytesPerClus >= FileEntrySize /\ BytesPerClus % FileEntrySize = 0
ASSUME RealAssumption ==
  /\ DOMAIN RealSlots \subseteq Reals
  /\ \A r \in DOMAIN RealSlots : RealSlots[r] \in Nat
  /\ NoFile \notin Reals
ASSUME EndOfChainAssumption == EndOfChain \notin Nat

VARIABLES
  phase,      \* the pass main() is in
  lineCount,  \* lines of touch.txt read
  realname,   \* main's realname
  tree,       \* [path -> node], what hangs below main's root
  pending,    \* jobs <<path, k>> the current pass still has to do
  clusters,   \* [path -> clusters of the node]
  total,      \* total_clusters
  fat,        \* the vector fat
  cursor,     \* [directory -> clust and now of its generate_fileentry]
  imageFat,   \* the FAT in the image
  disk        \* [<<cluster, slot>> -> what was written there], the data region

vars == <<phase, lineCount, realname, tree, pending, clusters, total, fat,
          cursor, imageFat, disk>>

-----------------------------------------------------------------------------
(* The tree *)

Kinds == {"dir", "file", "vol", "long"}
Node == {n \in [kind : Kinds, size : Nat, real : Reals \cup {NoFile}] :
           n.kind = "long" => n.size < 3328}
DirNode == [kind |-> "dir", size |-> 0, real |-> NoFile]
VolNode == [kind |-> "vol", size |-> 0, real |-> NoFile]
LongNode(length) == [kind |-> "long", size |-> length, real |-> NoFile]
FileNode(size, r) == [kind |-> "file", size |-> size, real |-> r]

Children(p) == {q \in DOMAIN tree : q # Root /\ Front(q) = p}
IsDir(p) == tree[p].kind = "dir"

\* The walk of main() dereferences the null pointer its dynamic_cast gave for a
\* node on the way that is no directory.
Blocked(dir) == \E q \in Prefixes(dir) : q \in DOMAIN tree /\ ~ IsDir(q)

\* The tree after the walk to `dir` created the missing directories.
Walked(dir) == [q \in DOMAIN tree \cup Prefixes(dir) |->
                  IF q \in DOMAIN tree THEN tree[q] ELSE DirNode]

\* Mutant: what hung below a replaced directory stays.
PutKeepingSubtree(p, node) ==
  [q \in {p} \cup DOMAIN Walked(Front(p)) |-> IF q = p THEN node ELSE Walked(Front(p))[q]]

\* d->files[name] = new ...: what hung below the replaced node is lost.
Put(p, node) == [q \in {p} \cup {r \in DOMAIN Walked(Front(p)) : ~ IsPrefix(p, r)} |->
                   IF q = p THEN node ELSE Walked(Front(p))[q]]

-----------------------------------------------------------------------------
(* The order of the passes *)

\* Mutant: the text of a name does not count.
NameLessById(a, b) == a[1] < b[1]

NameLess(a, b) == a[1] < b[1] \/ (a[1] = b[1] /\ a[2] < b[2])

Before(p, q) ==
  \/ IsStrictPrefix(p, q)
  \/ \E i \in DOMAIN p \cap DOMAIN q :
       /\ \A j \in 1 .. (i - 1) : p[j] = q[j]
       /\ NameLess(p[i], q[i])

JobBefore(a, b) == Before(a[1], b[1]) \/ (a[1] = b[1] /\ a[2] < b[2])
Turn(job) == job \in pending /\ \A o \in pending \ {job} : JobBefore(job, o)

-----------------------------------------------------------------------------
(* Sizes and entries *)

\* set_name cuts a long name into pieces of 13 characters.
FragmentSize == 13
Fragments(length) == (length + FragmentSize - 1) \div FragmentSize
EntryLen(p) == IF tree[p].kind = "long" THEN Fragments(tree[p].size) ELSE 1

EntriesIn(p) == UNION {{c} \X (1 .. EntryLen(c)) : c \in Children(p)}
\* Mutant: the fragments of a long name counted as one entry.
DirSizeByChild(p) == FileEntrySize * Cardinality(Children(p))
DirSize(p) == FileEntrySize * Cardinality(EntriesIn(p))

ClustersFor(size) == (size \div BytesPerSec) \div SecPerClus + 1
AllocCount(p) ==
  CASE tree[p].kind = "file"       -> ClustersFor(tree[p].size)
    [] IsDir(p) /\ DirSize(p) # 0  -> ClustersFor(DirSize(p))
    [] OTHER                       -> 0

\* generate_fileentry and get_fe take for "." and ".." what is before the last dot
\* of a name; the names "." and ".." themselves are not cut.
IsDot(n) == n = Dot \/ (n[1] = PlainId /\ n[2] \in DotStems)
IsDotDot(n) == n = DotDot \/ (n[1] = PlainId /\ n[2] \in DotDotStems)
IsDotName(n) == IsDot(n) \/ IsDotDot(n)
\* generate_fileentry does not descend into these.
Listed(p) == /\ p # Root
             /\ \A q \in Prefixes(Front(p)) \ {Root} : ~ IsDotName(Last(q))
EntryJobs == UNION {{p} \X (1 .. EntryLen(p)) : p \in {q \in DOMAIN tree : Listed(q)}}

\* get_fe reads clusters[0] of a directory, except for "." and "..".
NoFirstCluster(p) == IsDir(p) /\ ~ IsDotName(Last(p)) /\ clusters[p] = <<>>

\* What get_fe's caller passes on: "." is given the containing directory's own
\* cluster, ".." the parameter parent_cluster, which the recursion of
\* generate_fileentry never changes from the 0 that main() passes.
FirstCluster(p) ==
  CASE ~ IsDir(p) /\ tree[p].kind # "file" -> 0
    [] IsDir(p) /\ IsDot(Last(p))          -> clusters[Front(p)][1]
    [] IsDir(p) /\ IsDotDot(Last(p))       -> 0
    [] OTHER                               -> clusters[p][1]

\* Num of the n-th fragment of a long name, (n | 0x40 if it is the last) as a BYTE.
LastMark == 64
HasMark(b) == (b \div LastMark) % 2 = 1
Num(n, length) ==
  LET b == n % 256
  IN  IF FragmentSize * n > length /\ ~ HasMark(b) THEN b + LastMark ELSE b

\* Mutant: the fragments are not reversed.
LongEntryForward(p, k) ==
  [attr |-> "long", name |-> Last(p), num |-> Num(k, tree[p].size)]

\* get_fe of a LFN reverses its fragments.
LongEntry(p, k) ==
  [attr |-> "long", name |-> Last(p), num |-> Num(EntryLen(p) - k + 1, tree[p].size)]
ShortEntry(p) ==
  [attr |-> tree[p].kind, name |-> Last(p), first |-> FirstCluster(p),
   len |-> IF tree[p].kind = "file" THEN tree[p].size ELSE 0]
Entry(p, k) == IF tree[p].kind = "long" THEN LongEntry(p, k) ELSE ShortEntry(p)

-----------------------------------------------------------------------------
(* touch.txt *)

Init ==
  /\ phase = "parse" /\ lineCount = 0 /\ realname = NoFile
  /\ tree = [q \in {Root} |-> DirNode]
  /\ pending = {} /\ clusters = <<>> /\ total = 2 /\ fat = <<>>
  /\ cursor = <<>> /\ imageFat = <<>> /\ disk = <<>>

Line ==
  /\ phase = "parse" /\ lineCount < MaxLines
  /\ lineCount' = lineCount + 1
  /\ UNCHANGED <<pending, clusters, total, fat, cursor, imageFat, disk>>

Parsed(newTree) == tree' = newTree /\ UNCHANGED <<phase, realname>>
Segfault == phase' = "crash" /\ UNCHANGED <<tree, realname>>

VolLine(x) == Line /\ Parsed(Put(<<VolName(x)>>, VolNode))

\* The last component is created but not dereferenced.
DirLine(p) ==
  /\ Line
  /\ IF Blocked(Front(p)) THEN Segfault ELSE Parsed(Walked(p))

RealLine(r) == Line /\ realname' = r /\ UNCHANGED <<phase, tree>>

FileLine(p, size) ==
  /\ Line
  /\ IF Blocked(Front(p)) THEN Segfault
     ELSE Parsed(Put(p, FileNode(size, realname)))

LnameLine(dir, x, length) ==
  /\ Line
  /\ IF Blocked(dir) THEN Segfault
     ELSE Parsed(Put(Append(dir, LfnName(x)), LongNode(length)))

-----------------------------------------------------------------------------
(* alloc_cluster and generate_fat *)

Jobs(paths) == paths \X {1}

StartAlloc ==
  /\ phase = "parse"
  /\ phase' = "alloc"
  /\ pending' = Jobs(DOMAIN tree)
  /\ clusters' = [p \in DOMAIN tree |-> <<>>]
  /\ UNCHANGED <<lineCount, realname, tree, total, fat, cursor, imageFat, disk>>

\* Mutants: total_clusters falls behind, runs ahead.
AllocClusterBehind(p) ==
  /\ phase = "alloc" /\ Turn(<<p, 1>>)
  /\ pending' = pending \ {<<p, 1>>}
  /\ clusters' = [clusters EXCEPT ![p] = [i \in 1 .. AllocCount(p) |-> total + i - 1]]
  /\ total' = IF AllocCount(p) = 0 THEN total ELSE total + AllocCount(p) - 1
  /\ UNCHANGED <<phase, lineCount, realname, tree, fat, cursor, imageFat, disk>>
AllocClusterAhead(p) ==
  /\ phase = "alloc" /\ Turn(<<p, 1>>)
  /\ pending' = pending \ {<<p, 1>>}
  /\ clusters' = [clusters EXCEPT ![p] = [i \in 1 .. AllocCount(p) |-> total + i - 1]]
  /\ total' = total + AllocCount(p) + 1
  /\ UNCHANGED <<phase, lineCount, realname, tree, fat, cursor, imageFat, disk>>

\* Mutant: a directory after what hangs below it.
AllocClusterChildrenFirst(p) ==
  /\ phase = "alloc" /\ <<p, 1>> \in pending
  /\ \A o \in pending : ~ IsStrictPrefix(p, o[1])
  /\ pending' = pending \ {<<p, 1>>}
  /\ clusters' = [clusters EXCEPT ![p] = [i \in 1 .. AllocCount(p) |-> total + i - 1]]
  /\ total' = total + AllocCount(p)
  /\ UNCHANGED <<phase, lineCount, realname, tree, fat, cursor, imageFat, disk>>

AllocCluster(p) ==
  /\ phase = "alloc" /\ Turn(<<p, 1>>)
  /\ pending' = pending \ {<<p, 1>>}
  /\ clusters' = [clusters EXCEPT ![p] = [i \in 1 .. AllocCount(p) |-> total + i - 1]]
  /\ total' = total + AllocCount(p)
  /\ UNCHANGED <<phase, lineCount, realname, tree, fat, cursor, imageFat, disk>>

StartFat ==
  /\ phase = "alloc" /\ pending = {}
  /\ phase' = "fat"
  /\ fat' = [c \in 0 .. (total - 1) |-> 0]
  /\ pending' = Jobs({p \in DOMAIN tree : clusters[p] # <<>>})
  /\ UNCHANGED <<lineCount, realname, tree, clusters, total, cursor, imageFat, disk>>

\* Mutant: the chain is cut one cluster short.
LinkShort(s, i) == IF i < Len(s) - 1 THEN s[i + 1] ELSE EndOfChain

\* What a chain links the cluster to: the next one of the node or the end.
Link(s, i) == IF i < Len(s) THEN s[i + 1] ELSE EndOfChain

GenerateFat(p) ==
  /\ phase = "fat" /\ Turn(<<p, 1>>)
  /\ pending' = pending \ {<<p, 1>>}
  /\ fat' = [c \in DOMAIN fat |->
               IF \E i \in DOMAIN clusters[p] : clusters[p][i] = c
               THEN Link(clusters[p], CHOOSE i \in DOMAIN clusters[p] : clusters[p][i] = c)
               ELSE fat[c]]
  /\ UNCHANGED <<phase, lineCount, realname, tree, clusters, total, cursor,
                 imageFat, disk>>

\* BPB_NumFATs says two, main() writes the first only.  With no entry below it
\* the root has no cluster and generate_fileentry reads clusters[0] of an empty
\* vector.
MediaMark == 268435200    \* 0x0fffff00
CleanMark == 268435215    \* 0x0fffff0f
WriteFat ==
  /\ phase = "fat" /\ pending = {}
  /\ phase' = IF clusters[Root] = <<>> THEN "crash" ELSE "entries"
  /\ fat' = [fat EXCEPT ![0] = MediaMark, ![1] = CleanMark]
  /\ imageFat' = fat'
  /\ pending' = EntryJobs
  /\ cursor' = [d \in {p \in DOMAIN tree : IsDir(p) /\ clusters[p] # <<>>} |->
                  [clust |-> clusters[d][1], now |-> 0]]
  /\ UNCHANGED <<lineCount, realname, tree, clusters, total, disk>>

-----------------------------------------------------------------------------
(* generate_fileentry and fill_file *)

\* The data region after the slots in the domain of `new` were written.
Written(new) == [g \in DOMAIN new \cup DOMAIN disk |-> IF g \in DOMAIN new THEN new[g] ELSE disk[g]]

\* Mutants: no check(); check() starts over in the same cluster.
AdvancedNever(at) == at
AdvancedInPlace(at) == IF at.now = SlotsPerClus THEN [at EXCEPT !.now = 0] ELSE at

\* The macro check(): at the end of a cluster go on with the next of the chain.
Advanced(at) == IF at.now = SlotsPerClus THEN [clust |-> fat[at.clust], now |-> 0] ELSE at

WriteEntry(p, k) ==
  /\ phase = "entries" /\ Turn(<<p, k>>)
  /\ IF NoFirstCluster(p)
     THEN phase' = "crash" /\ UNCHANGED <<pending, cursor, disk>>
     ELSE LET at == Advanced(cursor[Front(p)])
          IN  /\ disk' = Written([g \in {<<at.clust, at.now>>} |-> Entry(p, k)])
              /\ cursor' = [cursor EXCEPT ![Front(p)] = [clust |-> at.clust, now |-> at.now + 1]]
              /\ pending' = pending \ {<<p, k>>}
              /\ UNCHANGED phase
  /\ UNCHANGED <<lineCount, realname, tree, clusters, total, fat, imageFat>>

StartFill ==
  /\ phase = "entries" /\ pending = {}
  /\ phase' = "fill"
  /\ pending' = Jobs({p \in DOMAIN tree : tree[p].kind = "file"})
  /\ UNCHANGED <<lineCount, realname, tree, clusters, total, fat, cursor, imageFat, disk>>

\* The n-th slot of what a stream of the host file gives; past the end 0xff.
Contents(r, n) == IF n < RealSlots[r] THEN [attr |-> "data", real |-> r, at |-> n]
                  ELSE [attr |-> "padding"]

\* Mutant: every cluster starts over at the beginning of the host file.
StreamPosRestarted(i, slot) == slot

\* The stream goes on from cluster to cluster of the file.
StreamPos(i, slot) == (i - 1) * SlotsPerClus + slot

\* A real file that cannot be opened is passed over.
FillFile(p) ==
  /\ phase = "fill" /\ Turn(<<p, 1>>)
  /\ pending' = pending \ {<<p, 1>>}
  /\ LET r == tree[p].real
         s == clusters[p]
         slots == (DOMAIN s) \X (0 .. (SlotsPerClus - 1))
     IN  IF r \in DOMAIN RealSlots
         THEN disk' = Written([g \in {<<s[x[1]], x[2]>> : x \in slots} |->
                         LET i == CHOOSE j \in DOMAIN s : s[j] = g[1]
                         IN  Contents(r, StreamPos(i, g[2]))])
         ELSE UNCHANGED disk
  /\ UNCHANGED <<phase, lineCount, realname, tree, clusters, total, fat, cursor, imageFat>>

Close ==
  /\ phase = "fill" /\ pending = {}
  /\ phase' = "done"
  /\ UNCHANGED <<lineCount, realname, tree, pending, clusters, total, fat, cursor,
                 imageFat, disk>>

Exited == phase \in {"done", "crash"} /\ UNCHANGED vars

Next ==
  \/ \E x \in Vols : VolLine(x)
  \/ \E p \in DirArgs : DirLine(p)
  \/ \E r \in Reals : RealLine(r)
  \/ \E a \in FileArgs : FileLine(a[1], a[2])
  \/ \E a \in LnameArgs : LnameLine(a[1], a[2], a[3])
  \/ StartAlloc
  \/ \E p \in DOMAIN tree : AllocCluster(p)
  \/ StartFat
  \/ \E p \in DOMAIN tree : GenerateFat(p)
  \/ WriteFat
  \/ \E job \in pending : WriteEntry(job[1], job[2])
  \/ StartFill
  \/ \E p \in DOMAIN tree : FillFile(p)
  \/ Close
  \/ Exited

\* The program is one thread: it keeps running until it returns from main().
Spec == Init /\ [][Next]_vars /\ WF_vars(Next)

-----------------------------------------------------------------------------
(* Properties *)

ClusterNumber == Nat \cup {EndOfChain}

\* Type invariant.  cursor.now counts the slots used of a cluster, which the
\* macro check() (write.cpp:336-343) keeps from passing the end of it.
TypeOK ==
  /\ phase \in {"parse", "alloc", "fat", "entries", "fill", "done", "crash"}
  /\ lineCount \in 0 .. MaxLines
  /\ realname \in Reals \cup {NoFile}
  /\ DOMAIN tree \subseteq Path /\ Root \in DOMAIN tree
  /\ \A p \in DOMAIN tree : tree[p] \in Node
  /\ pending \subseteq Path \X Nat
  /\ \A p \in DOMAIN clusters : clusters[p] \in Seq(Nat)
  /\ total \in Nat \ {0, 1}
  /\ \A c \in DOMAIN fat : c \in Nat /\ fat[c] \in ClusterNumber
  /\ \A d \in DOMAIN cursor : cursor[d].now \in 0 .. SlotsPerClus
  /\ \A c \in DOMAIN imageFat : c \in Nat /\ imageFat[c] \in ClusterNumber
  /\ \A g \in DOMAIN disk : g[2] \in 0 .. (SlotsPerClus - 1)

\* The parsed tree hangs together: every node but the root hangs below a
\* directory, whatever lines replaced a node that others hung below
\* (write.cpp:426-470).
TreeHangsTogether ==
  \A p \in DOMAIN tree \ {Root} : Front(p) \in DOMAIN tree /\ IsDir(Front(p))

\* No cluster is given to two nodes, nor twice to one (write.cpp:198-202, 278-292).
ClustersDisjoint ==
  \A p, q \in DOMAIN clusters :
    \A i \in DOMAIN clusters[p], j \in DOMAIN clusters[q] :
      clusters[p][i] = clusters[q][j] => p = q /\ i = j

\* Every cluster below total_clusters belongs to a node: none leaks, and
\* FSI_Nxt_Free, total_clusters - 1 (write.cpp:523), is the last one in use.
NoLostClusters ==
  UNION {{clusters[p][i] : i \in DOMAIN clusters[p]} : p \in DOMAIN clusters}
    = 2 .. (total - 1)

\* A node's clusters are consecutive, and nodes have theirs in the order of the
\* passes, a directory before what hangs below it.  With NoLostClusters, where a
\* node begins is then known from the sizes of those before it: BootDisk lays its
\* images out by this (write.cpp:198-202, 278-292).
LaidOutInOrder ==
  \A p, q \in DOMAIN clusters :
    \A i \in DOMAIN clusters[p], j \in DOMAIN clusters[q] :
      /\ p = q => clusters[q][j] - clusters[p][i] = j - i
      /\ Before(p, q) => clusters[p][i] < clusters[q][j]

\* The n-th cluster of the chain from c, read in the FAT of the image.
Nth(c, n) ==
  LET f[i \in 0 .. n] ==
        IF i = 0 THEN c
        ELSE IF f[i - 1] \in DOMAIN imageFat THEN imageFat[f[i - 1]]
        ELSE EndOfChain
  IN  f[n]

\* Follow the chain of a node in the image: it has exactly the node's clusters,
\* in order, and then the end mark (write.cpp:203-208, 293-305, 554-556).
FatChains ==
  phase \in {"entries", "fill", "done"} =>
    \A p \in DOMAIN clusters :
      clusters[p] # <<>> =>
        /\ \A i \in DOMAIN clusters[p] : Nth(clusters[p][1], i - 1) = clusters[p][i]
        /\ Nth(clusters[p][1], Len(clusters[p])) = EndOfChain

\* The error branch of check() (write.cpp:340-342) is dead: a directory has
\* room for its entries, and the walk never leaves the directory's clusters.
CursorInChain ==
  \A d \in DOMAIN cursor : \E i \in DOMAIN clusters[d] : clusters[d][i] = cursor[d].clust

\* No slot of the data region is written twice: entries and contents of
\* different nodes never overlap (write.cpp:222-231, 358-366).
WriteOnce == [][\A g \in DOMAIN disk : g \in DOMAIN disk' /\ disk'[g] = disk[g]]_vars

\* The n-th slot of the chain from c.
Slot(c, n) ==
  LET g == <<Nth(c, n \div SlotsPerClus), n % SlotsPerClus>>
  IN  IF g \in DOMAIN disk THEN disk[g] ELSE [attr |-> "zero"]

Position(d, job) == Cardinality({o \in EntriesIn(d) : JobBefore(o, job)})

Describes(e, c, k) ==
  /\ e.attr = tree[c].kind /\ e.name = Last(c)
  /\ tree[c].kind = "long" => e.num # 0 /\ e.num % LastMark = (Fragments(tree[c].size) - k + 1) % LastMark
  /\ tree[c].kind = "file" => e.first = clusters[c][1] /\ e.len = tree[c].size
  /\ IsDir(c) /\ ~ IsDotName(Last(c)) => e.first = clusters[c][1]
  /\ IsDir(c) /\ IsDot(Last(c)) => e.first = clusters[Front(c)][1]

\* What a reader of the finished image finds in a directory: one entry per
\* child, in the order of the names, the fragments of a long name numbered from the
\* last down to the first in bits 0-5, each leading to the child's chain, and only
\* then the 0 that read.cpp:100-104 takes for the end, in a slot never written.
DirReadsBack ==
  phase = "done" =>
    \A d \in {p \in DOMAIN tree : IsDir(p) /\ (p = Root \/ (Listed(p) /\ ~ IsDotName(Last(p))))} :
      LET first == clusters[d][1]
      IN  /\ \A job \in EntriesIn(d) : Describes(Slot(first, Position(d, job)), job[1], job[2])
          /\ Slot(first, Cardinality(EntriesIn(d))).attr = "zero"
          /\ Nth(first, Cardinality(EntriesIn(d)) \div SlotsPerClus) # EndOfChain

\* What a reader finds in a file whose real file exists: the first `size` bytes
\* along the chain are those of the real file, and 0xff after its end.
FileReadsBack ==
  phase = "done" =>
    \A p \in {q \in DOMAIN tree : tree[q].kind = "file" /\ tree[q].real \in DOMAIN RealSlots} :
      \A n \in 0 .. ((tree[p].size + FileEntrySize - 1) \div FileEntrySize - 1) :
        Slot(clusters[p][1], n) = Contents(tree[p].real, n)

\* What the image has of a node so far: the slots along its chain up to the first
\* one that was not written.
ContentsOf(p) ==
  LET at(n) == <<Nth(clusters[p][1], n \div SlotsPerClus), n % SlotsPerClus>>
      first == CHOOSE n \in 0 .. (Len(clusters[p]) * SlotsPerClus) :
                 at(n) \notin DOMAIN disk /\ \A m \in 0 .. (n - 1) : at(m) \in DOMAIN disk
  IN  [n \in 1 .. first |-> disk[at(n - 1)]]
Owners == {p \in DOMAIN clusters : clusters[p] # <<>>}
Formatted == imageFat # <<>>

Stored == INSTANCE Volume WITH
  formatted <- Formatted,
  contents <- IF Formatted THEN [p \in Owners |-> ContentsOf(p)] ELSE <<>>

\* Read along the chains of the image's own FAT, each step of the two passes that
\* write the data region makes the contents of one node longer, and touches no
\* other's: a directory grows by its next entry, a file comes whole, whatever
\* the recursion does in between (write.cpp:222-231, 344-370, 561-569).
GrowsApart == Stored!Spec

\* The writer ends, with an image or with a crash: no pass waits for a node
\* that the order of the recursion never reaches.
Termination == <>(phase \in {"done", "crash"})

\* write.cpp:68-70 and 323-328: the entry ".." is to lead to the grandparent of
\* the node it stands for, the parent of the directory it stands in, and to 0
\* where that is the root.
DotDotNamesParent ==
  phase = "done" =>
    \A p \in {q \in DOMAIN tree : Listed(q) /\ IsDir(q) /\ Last(q) = DotDot /\ Len(q) > 2} :
      LET d == Front(p)
      IN  Slot(clusters[d][1], Position(d, <<p, 1>>)).first = clusters[Front(d)][1]

\* fat32.hpp:206: bit 6 of Num marks the last fragment of a long name.
LastFragmentMarked ==
  phase = "done" =>
    \A p \in {q \in DOMAIN tree : Listed(q) /\ tree[q].kind = "long"} :
      \A k \in 1 .. EntryLen(p) :
        HasMark(Slot(clusters[Front(p)][1], Position(Front(p), <<p, k>>)).num) <=> (k = 1)
=============================================================================
