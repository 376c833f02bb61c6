--------------------------- MODULE FatImageProofs ---------------------------
(***************************************************************************)
(* What the image holds, for every touch.txt and every geometry: the       *)
(* chains of the FAT, the entries of the directories and the contents of   *)
(* the files.                                                              *)
(***************************************************************************)
EXTENDS FatWriterProofs, Numbers

-----------------------------------------------------------------------------
(* Chains *)

\* What the n-th step along a chain of clusters gives.
Along(s, n) == IF n < Len(s) THEN s[n + 1] ELSE EndOfChain

\* The FAT of the image has the chain s.
Chained(s) ==
  \A i \in DOMAIN s : s[i] \in DOMAIN imageFat /\ imageFat[s[i]] = Link(s, i)

\* The recursive function of Nth is the one that Along describes: the latter
\* meets its equation, and what meets it agrees with it from 0 on.
LEMMA NthAlong ==
  ASSUME NEW s \in Seq(Nat), s # <<>>, Chained(s), EndOfChain \notin DOMAIN imageFat,
         NEW n \in Nat
  PROVE  Nth(s[1], n) = Along(s, n)
<1> DEFINE c == s[1]
           Step(g) == [i \in 0 .. n |->
                        IF i = 0 THEN c
                        ELSE IF g[i - 1] \in DOMAIN imageFat THEN imageFat[g[i - 1]]
                        ELSE EndOfChain]
           f == CHOOSE g : g = Step(g)
           w == [i \in 0 .. n |-> Along(s, i)]
<1>1. Len(s) \in Nat \ {0} /\ DOMAIN s = 1 .. Len(s)
  BY EmptySeq, LenProperties
<1>2. Nth(c, n) = f[n]
  BY DEF Nth
<1>3. ASSUME NEW i \in Nat, i # 0
      PROVE  Along(s, i) = IF Along(s, i - 1) \in DOMAIN imageFat THEN imageFat[Along(s, i - 1)]
                           ELSE EndOfChain
  <2>1. CASE i - 1 < Len(s)
    <3>1. i \in DOMAIN s /\ Along(s, i - 1) = s[i]
      BY <1>1, <1>3, <2>1 DEF Along
    <3>2. s[i] \in DOMAIN imageFat /\ imageFat[s[i]] = Link(s, i)
      BY <3>1 DEF Chained
    <3>3. Link(s, i) = Along(s, i)
      BY DEF Link, Along
    <3> QED
      BY <3>1, <3>2, <3>3
  <2>2. CASE ~ (i - 1 < Len(s))
    <3>1. Along(s, i - 1) = EndOfChain /\ Along(s, i) = EndOfChain
      BY <1>1, <1>3, <2>2 DEF Along
    <3> QED
      BY <3>1
  <2> QED
    BY <2>1, <2>2
<1>4. Along(s, 0) = c
  BY <1>1 DEF Along
<1>5. w = Step(w)
  <2> SUFFICES ASSUME NEW i \in 0 .. n
               PROVE  w[i] = IF i = 0 THEN c
                             ELSE IF w[i - 1] \in DOMAIN imageFat THEN imageFat[w[i - 1]]
                             ELSE EndOfChain
    OBVIOUS
  <2>1. CASE i = 0
    BY <1>4, <2>1
  <2>2. CASE i # 0
    <3>1. i \in Nat /\ i - 1 \in 0 .. n /\ w[i] = Along(s, i) /\ w[i - 1] = Along(s, i - 1)
      BY <2>2
    <3> HIDE DEF w
    <3> QED
      BY <1>3, <2>2, <3>1
  <2> QED
    BY <2>1, <2>2
<1>6. f = Step(f)
  <2> HIDE DEF w, Step
  <2> QED
    BY <1>5
<1> DEFINE T == {i \in Nat : i <= n => f[i] = Along(s, i)}
<1>7. 0 \in T
  <2>1. 0 \in 0 .. n
    OBVIOUS
  <2>2. Step(f)[0] = c
    BY <2>1
  <2> HIDE DEF Step, f
  <2> QED
    BY <1>4, <1>6, <2>2
<1>8. \A i \in T : i + 1 \in T
  <2> SUFFICES ASSUME NEW i \in Nat, i + 1 <= n, f[i] = Along(s, i)
               PROVE  f[i + 1] = Along(s, i + 1)
    OBVIOUS
  <2>1. i + 1 \in 0 .. n /\ i + 1 # 0 /\ (i + 1) - 1 = i
    OBVIOUS
  <2>2. Step(f)[i + 1] = IF f[i] \in DOMAIN imageFat THEN imageFat[f[i]] ELSE EndOfChain
    <3> HIDE DEF f
    <3> QED
      BY <2>1
  <2>3. Along(s, i + 1) = IF Along(s, i) \in DOMAIN imageFat THEN imageFat[Along(s, i)]
                          ELSE EndOfChain
    <3>1. i + 1 \in Nat
      OBVIOUS
    <3> QED
      BY <1>3, <2>1, <3>1
  <2> HIDE DEF Step, f
  <2> QED
    BY <1>6, <2>2, <2>3
<1>9. T = Nat
  <2> HIDE DEF T
  <2>1. T \in SUBSET Nat
    BY DEF T
  <2> QED
    BY <1>7, <1>8, <2>1, SetInduction
<1> QED
  <2>1. f[n] = Along(s, n)
    <3> HIDE DEF f
    <3> QED
      BY <1>9
  <2> QED
    BY <1>2, <2>1

-----------------------------------------------------------------------------
(* The FAT *)

Finished == phase \in {"entries", "fill", "done"}
Linked(p) == \A i \in DOMAIN clusters[p] : fat[clusters[p][i]] = Link(clusters[p], i)

\* generate_fat has linked the clusters of the nodes it is done with, and what
\* it made is the FAT in the image.
FatInv ==
  /\ phase \in {"parse", "alloc", "fat"} => imageFat = <<>> /\ cursor = <<>> /\ disk = <<>>
  /\ phase = "fat" \/ Finished => DOMAIN fat = 0 .. (total - 1)
  /\ phase = "fat" => \A p \in DOMAIN tree : <<p, 1>> \notin pending => Linked(p)
  /\ Finished => imageFat = fat /\ \A p \in DOMAIN tree : Linked(p)

\* A cluster of a node is one that the FAT has an entry for, past the first two.
LEMMA ClusterInFat ==
  ASSUME IInv, Allocated, NEW p \in DOMAIN tree, NEW i \in DOMAIN clusters[p]
  PROVE  clusters[p][i] \in 2 .. (total - 1)
BY DEF IInv, AllocInv, TypeInv

LEMMA StartFatFat ==
  ASSUME IInv, FatInv, StartFat
  PROVE  FatInv'
<1>1. DOMAIN fat' = 0 .. (total' - 1) /\ phase' = "fat" /\ phase = "alloc"
  BY DEF StartFat
<1>2. ASSUME NEW p \in DOMAIN tree', <<p, 1>> \notin pending' PROVE Linked(p)'
  <2>1. p \in DOMAIN tree /\ clusters' = clusters /\ clusters[p] = <<>>
    BY <1>2 DEF StartFat, Jobs
  <2>2. DOMAIN clusters'[p] = {}
    BY <2>1
  <2> QED
    BY <2>2 DEF Linked
<1> QED
  BY <1>1, <1>2 DEF StartFat, FatInv, Finished

LEMMA GenerateFatFat ==
  ASSUME IInv, FatInv, NEW p \in DOMAIN tree, GenerateFat(p)
  PROVE  FatInv'
<1>1. /\ phase = "fat" /\ phase' = "fat" /\ pending' = pending \ {<<p, 1>>}
      /\ UNCHANGED <<tree, clusters, total, cursor, imageFat, disk>>
      /\ Allocated
  BY DEF GenerateFat, Allocated
<1>2. DOMAIN fat' = DOMAIN fat /\ DOMAIN fat = 0 .. (total - 1)
  BY <1>1 DEF GenerateFat, FatInv
<1>3. DOMAIN clusters = DOMAIN tree /\ ClustersDisjoint
  BY <1>1 DEF IInv, TypeInv, AllocInv
<1>4. ASSUME NEW q \in DOMAIN tree, NEW i \in DOMAIN clusters[q],
             q = p \/ fat[clusters[q][i]] = Link(clusters[q], i)
      PROVE  fat'[clusters[q][i]] = Link(clusters[q], i)
  <2> DEFINE c == clusters[q][i]
             s == clusters[p]
             j == CHOOSE k \in DOMAIN s : s[k] = c
  <2>1. c \in DOMAIN fat
    <3>1. c \in 2 .. (total - 1) /\ total \in Nat
      BY <1>1, ClusterInFat DEF IInv, TypeInv, TypeOK
    <3> QED
      BY <1>2, <3>1
  <2>2. fat'[c] = IF \E k \in DOMAIN s : s[k] = c THEN Link(s, j) ELSE fat[c]
    BY <2>1 DEF GenerateFat
  <2>3. CASE q = p
    <3>1. i \in DOMAIN s /\ s[i] = c
      BY <2>3
    <3>2. j \in DOMAIN s /\ s[j] = c
      BY <3>1
    <3>3. j = i
      BY <1>3, <2>3, <3>2 DEF ClustersDisjoint
    <3> HIDE DEF j
    <3> QED
      BY <2>2, <2>3, <3>1, <3>3
  <2>4. CASE q # p
    <3>1. ~ \E k \in DOMAIN s : s[k] = c
      BY <1>3, <2>4 DEF ClustersDisjoint
    <3> QED
      BY <1>4, <2>2, <2>4, <3>1
  <2> QED
    BY <2>3, <2>4
<1>5. ASSUME NEW q \in DOMAIN tree', <<q, 1>> \notin pending' PROVE Linked(q)'
  <2>1. q \in DOMAIN tree /\ (q = p \/ <<q, 1>> \notin pending)
    BY <1>1, <1>5
  <2>2. q = p \/ Linked(q)
    BY <1>1, <2>1 DEF FatInv
  <2>3. \A i \in DOMAIN clusters[q] : fat'[clusters[q][i]] = Link(clusters[q], i)
    BY <1>4, <2>1, <2>2 DEF Linked
  <2> QED
    BY <1>1, <2>3 DEF Linked, Link
<1> QED
  BY <1>1, <1>2, <1>5 DEF FatInv, Finished

LEMMA WriteFatFat ==
  ASSUME IInv, FatInv, WriteFat
  PROVE  FatInv'
<1>1. /\ phase = "fat" /\ phase' \in {"entries", "crash"} /\ pending = {}
      /\ UNCHANGED <<tree, clusters, total, disk>> /\ imageFat' = fat'
      /\ Allocated
  BY DEF WriteFat, Allocated
<1>2. DOMAIN fat' = DOMAIN fat /\ DOMAIN fat = 0 .. (total - 1)
  BY <1>1 DEF WriteFat, FatInv
<1>3. ASSUME NEW p \in DOMAIN tree PROVE Linked(p)'
  <2>1. Linked(p)
    BY <1>1 DEF FatInv
  <2>2. ASSUME NEW i \in DOMAIN clusters[p] PROVE fat'[clusters[p][i]] = fat[clusters[p][i]]
    <3>1. clusters[p][i] \in 2 .. (total - 1) /\ total \in Nat
      BY <1>1, ClusterInFat DEF IInv, TypeInv, TypeOK
    <3>2. clusters[p][i] \in DOMAIN fat /\ clusters[p][i] \notin {0, 1}
      BY <1>2, <3>1
    <3> QED
      BY <3>2 DEF WriteFat
  <2> QED
    BY <1>1, <2>1, <2>2 DEF Linked, Link
<1> QED
  BY <1>1, <1>2, <1>3 DEF FatInv, Finished

LEMMA FatInit == Init => FatInv
BY DEF Init, FatInv, Finished

LEMMA FatStep == IInv /\ FatInv /\ [Next]_vars => FatInv'
<1> SUFFICES ASSUME IInv, FatInv, [Next]_vars PROVE FatInv'
  OBVIOUS
<1> USE DEF FatInv, Finished, Linked, Link
<1>1. ASSUME \/ \E x \in Vols : VolLine(x)
             \/ \E p \in DirArgs : DirLine(p)
             \/ \E r \in Reals : RealLine(r)
             \/ \E a \in FileArgs : FileLine(a[1], a[2])
             \/ \E a \in LnameArgs : LnameLine(a[1], a[2], a[3])
      PROVE  FatInv'
  BY <1>1 DEF VolLine, DirLine, RealLine, FileLine, LnameLine, Parsed, Segfault, Line
<1>2. CASE StartAlloc
  BY <1>2 DEF StartAlloc
<1>3. ASSUME NEW p \in DOMAIN tree, AllocCluster(p) PROVE FatInv'
  BY <1>3 DEF AllocCluster
<1>4. CASE StartFat
  BY <1>4, StartFatFat
<1>5. ASSUME NEW p \in DOMAIN tree, GenerateFat(p) PROVE FatInv'
  BY <1>5, GenerateFatFat
<1>6. CASE WriteFat
  BY <1>6, WriteFatFat
<1>7. ASSUME NEW job \in pending, WriteEntry(job[1], job[2]) PROVE FatInv'
  BY <1>7 DEF WriteEntry
<1>8. CASE StartFill
  BY <1>8 DEF StartFill
<1>9. ASSUME NEW p \in DOMAIN tree, FillFile(p) PROVE FatInv'
  BY <1>9 DEF FillFile
<1>10. CASE Close
  BY <1>10 DEF Close
<1>11. CASE UNCHANGED vars
  BY <1>11 DEF vars
<1> QED
  BY <1>1, <1>2, <1>3, <1>4, <1>5, <1>6, <1>7, <1>8, <1>9, <1>10, <1>11
  DEF Next, Exited

\* Every node's clusters are a chain of the image's FAT.
LEMMA NodesChained ==
  ASSUME IInv, FatInv, Finished, NEW p \in DOMAIN tree
  PROVE  /\ clusters[p] \in Seq(Nat) /\ Chained(clusters[p])
         /\ EndOfChain \notin DOMAIN imageFat
<1>1. Allocated /\ imageFat = fat /\ Linked(p) /\ DOMAIN fat = 0 .. (total - 1)
  BY DEF Allocated, FatInv, Finished
<1>2. clusters[p] \in Seq(Nat) /\ total \in Nat
  BY <1>1 DEF IInv, TypeInv, TypeOK
<1>3. EndOfChain \notin DOMAIN imageFat
  BY <1>1, <1>2, EndOfChainAssumption
<1>4. \A i \in DOMAIN clusters[p] : clusters[p][i] \in DOMAIN fat
  <2> TAKE i \in DOMAIN clusters[p]
  <2>1. clusters[p][i] \in 2 .. (total - 1)
    BY <1>1, ClusterInFat
  <2> QED
    BY <1>1, <1>2, <2>1
<1> QED
  BY <1>1, <1>2, <1>3, <1>4 DEF Linked, Chained

LEMMA ChainsFollow == IInv /\ FatInv => FatChains
<1> SUFFICES ASSUME IInv, FatInv, Finished, NEW p \in DOMAIN clusters, clusters[p] # <<>>
             PROVE  /\ \A i \in DOMAIN clusters[p] : Nth(clusters[p][1], i - 1) = clusters[p][i]
                    /\ Nth(clusters[p][1], Len(clusters[p])) = EndOfChain
  BY DEF FatChains, Finished
<1> DEFINE s == clusters[p]
<1>1. p \in DOMAIN tree
  BY DEF IInv, TypeInv, Allocated, Finished
<1>2. s \in Seq(Nat) /\ Chained(s) /\ EndOfChain \notin DOMAIN imageFat
  BY <1>1, NodesChained
<1>3. Len(s) \in Nat /\ DOMAIN s = 1 .. Len(s)
  BY <1>2, LenProperties
<1> HIDE DEF s
<1>4. \A n \in Nat : Nth(s[1], n) = Along(s, n)
  BY <1>2, NthAlong DEF s
<1>5. \A i \in DOMAIN s : Nth(s[1], i - 1) = s[i]
  <2> TAKE i \in DOMAIN s
  <2>1. i - 1 \in Nat /\ i - 1 < Len(s) /\ (i - 1) + 1 = i
    BY <1>3
  <2> QED
    BY <1>4, <2>1 DEF Along
<1>6. Nth(s[1], Len(s)) = EndOfChain
  BY <1>3, <1>4 DEF Along
<1> QED
  BY <1>5, <1>6 DEF s

-----------------------------------------------------------------------------
(* Slots *)

\* The n-th slot of a node.
At(p, n) == <<clusters[p][n \div SlotsPerClus + 1], n % SlotsPerClus>>
Slots(p) == Len(clusters[p]) * SlotsPerClus

LEMMA ClusterSize == BytesPerClus = FileEntrySize * SlotsPerClus
<1>1. BytesPerClus \in Nat
  BY GeometryAssumption DEF BytesPerClus
<1> QED
  BY <1>1, GeometryAssumption DEF SlotsPerClus, FileEntrySize

\* The clusters for a size hold one byte more at least.
LEMMA RoomForSize ==
  ASSUME NEW size \in Nat
  PROVE  size < FileEntrySize * (ClustersFor(size) * SlotsPerClus)
<1> DEFINE a == size \div BytesPerSec
           b == a \div SecPerClus
<1>1. a \in Nat /\ size < (a + 1) * BytesPerSec
  BY GeometryAssumption, NextMultiple
<1>2. b \in Nat /\ a < (b + 1) * SecPerClus
  BY <1>1, GeometryAssumption, NextMultiple
<1>3. ClustersFor(size) = b + 1
  BY DEF ClustersFor
<1> HIDE DEF a, b
<1>4. (a + 1) * BytesPerSec <= ((b + 1) * SecPerClus) * BytesPerSec
  <2>1. a + 1 <= (b + 1) * SecPerClus /\ (b + 1) * SecPerClus \in Nat
    BY <1>1, <1>2, GeometryAssumption
  <2> DEFINE k == (b + 1) * SecPerClus
  <2> HIDE DEF k
  <2>2. k \in Nat /\ a + 1 <= k
    BY <2>1 DEF k
  <2>3. (a + 1) * BytesPerSec <= k * BytesPerSec
    BY <1>1, <2>2, GeometryAssumption
  <2> QED
    BY <2>3 DEF k
<1>5. ((b + 1) * SecPerClus) * BytesPerSec = (b + 1) * BytesPerClus
  BY <1>2, GeometryAssumption DEF BytesPerClus
<1>6. (b + 1) * BytesPerClus = FileEntrySize * ((b + 1) * SlotsPerClus)
  BY <1>2, ClusterSize, SlotsType DEF FileEntrySize
<1>7. size < (b + 1) * BytesPerClus
  <2>1. BytesPerClus \in Nat /\ (b + 1) * BytesPerClus \in Nat /\ (a + 1) * BytesPerSec \in Nat
    BY <1>1, <1>2, GeometryAssumption DEF BytesPerClus
  <2> QED
    BY <1>1, <1>4, <1>5, <2>1
<1> QED
  BY <1>3, <1>6, <1>7

\* A directory that has a cluster has a slot more than entries.
LEMMA RoomForEntries ==
  ASSUME IInv, Allocated, phase # "alloc", NEW d \in DOMAIN tree, IsDir(d), clusters[d] # <<>>
  PROVE  /\ Cardinality(EntriesIn(d)) \in Nat /\ Slots(d) \in Nat
         /\ Cardinality(EntriesIn(d)) < Slots(d)
<1> DEFINE n == Cardinality(EntriesIn(d))
<1>1. n \in Nat
  BY EntriesFinite, FS_CardinalityType DEF IInv, TypeInv
<1>2. clusters[d] \in Seq(Nat) /\ Len(clusters[d]) = AllocCount(d)
  BY DEF IInv, TypeInv, TypeOK, AllocInv
<1>3. Len(clusters[d]) # 0
  BY <1>2, EmptySeq
<1>4. DirSize(d) # 0 /\ Len(clusters[d]) = ClustersFor(DirSize(d))
  <2>1. tree[d].kind # "file"
    BY DEF IsDir
  <2> QED
    BY <1>2, <1>3, <2>1 DEF AllocCount
<1> HIDE DEF n
<1>5. DirSize(d) = FileEntrySize * n /\ DirSize(d) \in Nat
  BY <1>1 DEF DirSize, FileEntrySize, n
<1>6. FileEntrySize * n < FileEntrySize * Slots(d)
  BY <1>4, <1>5, RoomForSize DEF Slots
<1>7. Slots(d) \in Nat
  BY <1>2, LenProperties, SlotsType DEF Slots
<1> QED
  BY <1>1, <1>6, <1>7 DEF n, FileEntrySize

\* Where a slot is among the clusters of its node.
LEMMA RowOfSlot ==
  ASSUME NEW k \in Nat, NEW n \in 0 .. (k * SlotsPerClus - 1)
  PROVE  /\ n \div SlotsPerClus \in Nat /\ n \div SlotsPerClus < k
         /\ n \div SlotsPerClus + 1 \in 1 .. k
         /\ n % SlotsPerClus \in 0 .. (SlotsPerClus - 1)
         /\ n = (n \div SlotsPerClus) * SlotsPerClus + (n % SlotsPerClus)
<1> DEFINE q == n \div SlotsPerClus
           r == n % SlotsPerClus
<1>1. n \in Nat /\ n < k * SlotsPerClus /\ SlotsPerClus \in Nat \ {0}
  BY SlotsType
<1>2. q \in Nat /\ r \in 0 .. (SlotsPerClus - 1) /\ n = q * SlotsPerClus + r
  BY <1>1, Division
<1> HIDE DEF q, r
<1>3. q < k
  <2>1. SUFFICES ASSUME k <= q PROVE FALSE
    BY <1>2
  <2>2. k * SlotsPerClus <= q * SlotsPerClus
    BY <1>1, <1>2, <2>1
  <2> QED
    BY <1>1, <1>2, <2>2
<1> QED
  BY <1>2, <1>3 DEF q, r

\* Two slots of two nodes, or of one, are at different places.
LEMMA SlotsApart ==
  ASSUME IInv, Allocated, NEW p \in DOMAIN tree, NEW q \in DOMAIN tree,
         NEW n \in 0 .. (Slots(p) - 1), NEW m \in 0 .. (Slots(q) - 1), At(p, n) = At(q, m)
  PROVE  p = q /\ n = m
<1>1. DOMAIN clusters = DOMAIN tree /\ ClustersDisjoint
  BY DEF IInv, TypeInv, AllocInv
<1>2. clusters[p] \in Seq(Nat) /\ clusters[q] \in Seq(Nat)
  BY <1>1 DEF IInv, TypeInv, TypeOK
<1>3. Len(clusters[p]) \in Nat /\ DOMAIN clusters[p] = 1 .. Len(clusters[p])
  BY <1>2, LenProperties
<1>4. Len(clusters[q]) \in Nat /\ DOMAIN clusters[q] = 1 .. Len(clusters[q])
  BY <1>2, LenProperties
<1> DEFINE i == n \div SlotsPerClus
           j == m \div SlotsPerClus
<1>5. i + 1 \in DOMAIN clusters[p] /\ i \in Nat /\ n = i * SlotsPerClus + (n % SlotsPerClus)
  BY <1>3, RowOfSlot DEF Slots
<1>6. j + 1 \in DOMAIN clusters[q] /\ j \in Nat /\ m = j * SlotsPerClus + (m % SlotsPerClus)
  BY <1>4, RowOfSlot DEF Slots
<1>7. clusters[p][i + 1] = clusters[q][j + 1] /\ n % SlotsPerClus = m % SlotsPerClus
  BY DEF At
<1> HIDE DEF i, j
<1>8. p = q /\ i + 1 = j + 1
  BY <1>1, <1>5, <1>6, <1>7 DEF ClustersDisjoint
<1>9. i = j
  BY <1>5, <1>6, <1>8
<1> QED
  BY <1>5, <1>6, <1>7, <1>8, <1>9

\* The slot that a reader who follows the chain of a node comes to.
LEMMA SlotAt ==
  ASSUME IInv, FatInv, Finished, NEW p \in DOMAIN tree, NEW n \in 0 .. (Slots(p) - 1)
  PROVE  /\ <<Nth(clusters[p][1], n \div SlotsPerClus), n % SlotsPerClus>> = At(p, n)
         /\ Nth(clusters[p][1], n \div SlotsPerClus) \in Nat
<1> DEFINE s == clusters[p]
           i == n \div SlotsPerClus
<1>1. s \in Seq(Nat) /\ Chained(s) /\ EndOfChain \notin DOMAIN imageFat
  BY NodesChained
<1>2. Len(s) \in Nat /\ DOMAIN s = 1 .. Len(s)
  BY <1>1, LenProperties
<1>3. i \in Nat /\ i < Len(s) /\ i + 1 \in 1 .. Len(s)
  BY <1>2, RowOfSlot DEF Slots
<1>4. s # <<>>
  BY <1>1, <1>3, EmptySeq
<1> HIDE DEF s, i
<1>5. Nth(s[1], i) = s[i + 1]
  BY <1>1, <1>3, <1>4, NthAlong DEF Along
<1>6. s[i + 1] \in Nat
  BY <1>1, <1>3, ElementOfSeq
<1> QED
  BY <1>5, <1>6 DEF At, s, i

-----------------------------------------------------------------------------
(* The order of the entries *)

LEMMA BeforeAsymmetric ==
  ASSUME NEW p \in Path, NEW q \in Path, Before(p, q), Before(q, p)
  PROVE  FALSE
<1>1. Len(p) \in Nat /\ DOMAIN p = 1 .. Len(p) /\ Len(q) \in Nat /\ DOMAIN q = 1 .. Len(q)
  BY LenProperties DEF Path
<1>2. \A i \in DOMAIN p : p[i] \in Name
  BY <1>1, ElementOfSeq DEF Path
<1>3. \A i \in DOMAIN q : q[i] \in Name
  BY <1>1, ElementOfSeq DEF Path
<1>4. \A a, b \in Name : ~ (NameLess(a, b) /\ NameLess(b, a))
  <2> TAKE a \in Name, b \in Name
  <2>1. a[1] \in Nat /\ a[2] \in Nat /\ b[1] \in Nat /\ b[2] \in Nat
    BY DEF Name
  <2> QED
    BY <2>1 DEF NameLess
<1>5. \A a \in Name : ~ NameLess(a, a)
  BY <1>4
<1> DEFINE Differ(a, b, i) == (\A j \in 1 .. (i - 1) : a[j] = b[j]) /\ NameLess(a[i], b[i])
<1>6. ASSUME NEW a \in Path, NEW b \in Path, IsPrefix(a, b)
      PROVE  \A i \in 1 .. Len(a) : i \in 1 .. Len(b) /\ a[i] = b[i]
  <2>1. Len(a) \in Nat /\ Len(b) \in Nat /\ Len(a) <= Len(b)
    BY <1>6, LenProperties DEF Path, IsPrefix
  <2>2. SubSeq(a, 1, Len(a)) = SubSeq(b, 1, Len(a))
    BY <1>6 DEF IsPrefix
  <2>3. \A i \in 1 .. Len(a) : a[i] \in Name /\ b[i] \in Name
    BY <2>1, ElementOfSeq DEF Path
  <2>4. \A i \in 1 .. Len(a) - 1 + 1 : SubSeq(a, 1, Len(a))[i] = a[1 + i - 1]
    BY <2>1, <2>3, SubSeqProperties
  <2>5. \A i \in 1 .. Len(a) - 1 + 1 : SubSeq(b, 1, Len(a))[i] = b[1 + i - 1]
    BY <2>1, <2>3, SubSeqProperties
  <2> TAKE i \in 1 .. Len(a)
  <2>6. i \in 1 .. Len(a) - 1 + 1 /\ 1 + i - 1 = i
    BY <2>1
  <2> QED
    BY <2>1, <2>2, <2>4, <2>5, <2>6
<1>7. ASSUME IsPrefix(p, q), IsPrefix(q, p) PROVE p = q
  <2>1. Len(p) = Len(q)
    <3>1. Len(p) <= Len(q) /\ Len(q) <= Len(p)
      BY <1>7, Zenon DEF IsPrefix
    <3> DEFINE a == Len(p)
               b == Len(q)
    <3>2. a \in Nat /\ b \in Nat /\ a <= b /\ b <= a
      BY <1>1, <3>1
    <3> HIDE DEF a, b
    <3>3. a = b
      BY <3>2
    <3> QED
      BY <3>3 DEF a, b
  <2> QED
    BY <1>6, <1>7, <2>1, SeqEqual DEF Path
<1>8. CASE IsStrictPrefix(p, q)
  <2>1. IsPrefix(p, q) /\ p # q
    BY <1>8 DEF IsStrictPrefix
  <2>2. ~ IsStrictPrefix(q, p)
    BY <1>7, <2>1 DEF IsStrictPrefix
  <2>3. PICK i \in DOMAIN q \cap DOMAIN p : Differ(q, p, i)
    BY <2>2 DEF Before
  <2> QED
    BY <1>1, <1>2, <1>5, <1>6, <2>1, <2>3
<1>9. CASE ~ IsStrictPrefix(p, q)
  <2>1. PICK i \in DOMAIN p \cap DOMAIN q : Differ(p, q, i)
    BY <1>9 DEF Before
  <2>2. CASE IsStrictPrefix(q, p)
    <3>1. IsPrefix(q, p)
      BY <2>2 DEF IsStrictPrefix
    <3> QED
      BY <1>1, <1>2, <1>5, <1>6, <2>1, <3>1
  <2>3. CASE ~ IsStrictPrefix(q, p)
    <3>1. PICK j \in DOMAIN q \cap DOMAIN p : Differ(q, p, j)
      BY <2>3 DEF Before
    <3>2. CASE i < j
      <4>1. i \in 1 .. (j - 1)
        BY <1>1, <3>2
      <4> QED
        BY <1>2, <1>5, <2>1, <3>1, <4>1
    <3>3. CASE j < i
      <4>1. j \in 1 .. (i - 1)
        BY <1>1, <3>3
      <4> QED
        BY <1>2, <1>5, <2>1, <3>1, <4>1
    <3>4. CASE i = j
      BY <1>2, <1>3, <1>4, <2>1, <3>1, <3>4
    <3> QED
      BY <1>1, <3>2, <3>3, <3>4
  <2> QED
    BY <2>2, <2>3
<1> QED
  BY <1>8, <1>9

LEMMA JobBeforeAsymmetric ==
  ASSUME NEW a \in Path \X Nat, NEW b \in Path \X Nat, JobBefore(a, b), JobBefore(b, a)
  PROVE  FALSE
<1>1. a[1] \in Path /\ b[1] \in Path /\ a[2] \in Nat /\ b[2] \in Nat
  OBVIOUS
<1>2. CASE Before(a[1], b[1]) /\ Before(b[1], a[1])
  BY <1>1, <1>2, BeforeAsymmetric
<1>3. CASE a[1] = b[1] /\ (Before(a[1], b[1]) \/ Before(b[1], a[1]))
  <2>1. Before(a[1], a[1])
    BY <1>3
  <2> QED
    BY <1>1, <2>1, BeforeAsymmetric
<1>4. CASE a[2] < b[2] /\ b[2] < a[2]
  BY <1>1, <1>4
<1> QED
  BY <1>2, <1>3, <1>4 DEF JobBefore

-----------------------------------------------------------------------------
(* The layout *)

\* alloc_cluster keeps to the order of the nodes.
OrderInv ==
  /\ LaidOutInOrder
  /\ phase = "alloc" => \A o \in Jobs(DOMAIN tree) \ pending, q \in pending : JobBefore(o, q)

LEMMA AllocClusterOrder ==
  ASSUME IInv, OrderInv, NEW p \in DOMAIN tree, AllocCluster(p)
  PROVE  OrderInv'
<1> DEFINE n == AllocCount(p)
           new == [i \in 1 .. n |-> total + i - 1]
<1>1. n \in Nat /\ total \in Nat \ {0, 1}
  BY AllocCountType DEF IInv, TypeInv, TypeOK
<1>2. phase = "alloc" /\ tree' = tree /\ clusters' = [clusters EXCEPT ![p] = new]
  BY DEF AllocCluster
<1>3. DOMAIN clusters = DOMAIN tree /\ DOMAIN tree \subseteq Path
  BY <1>2 DEF IInv, TypeInv, TypeOK, Allocated
<1>4. <<p, 1>> \in pending /\ pending' = pending \ {<<p, 1>>}
      /\ \A o \in pending' : JobBefore(<<p, 1>>, o)
  BY DEF AllocCluster, Turn
<1>5. DOMAIN new = 1 .. n /\ \A i \in 1 .. n : new[i] = total + i - 1
  OBVIOUS
<1> HIDE DEF n, new
<1>6. DOMAIN clusters' = DOMAIN tree /\ clusters'[p] = new
      /\ \A q \in DOMAIN tree \ {p} : clusters'[q] = clusters[q]
  BY <1>2, <1>3
<1>7. ASSUME NEW q \in DOMAIN tree \ {p}, NEW i \in DOMAIN clusters[q]
      PROVE  clusters[q][i] \in 2 .. (total - 1) /\ Before(q, p)
  <2>1. clusters[q] \in Seq(Nat)
    BY <1>3 DEF IInv, TypeInv, TypeOK
  <2>2. Len(clusters[q]) # 0
    BY <2>1, LenProperties
  <2>3. <<q, 1>> \notin pending
    BY <1>2, <2>2 DEF IInv, AllocInv, Allocated
  <2>4. JobBefore(<<q, 1>>, <<p, 1>>)
    BY <1>2, <1>4, <2>3 DEF OrderInv, Jobs
  <2> QED
    BY <1>3, <2>4 DEF IInv, AllocInv, JobBefore
<1>8. ASSUME NEW q \in DOMAIN tree, NEW r \in DOMAIN tree,
             NEW i \in DOMAIN clusters'[q], NEW j \in DOMAIN clusters'[r]
      PROVE  /\ q = r => clusters'[r][j] - clusters'[q][i] = j - i
             /\ Before(q, r) => clusters'[q][i] < clusters'[r][j]
  <2>1. CASE q = p /\ r = p
    <3>1. ~ Before(p, p)
      BY <1>3, BeforeAsymmetric
    <3> QED
      BY <1>1, <1>5, <1>6, <2>1, <3>1
  <2>2. CASE q = p /\ r # p
    <3>1. Before(r, p)
      BY <1>6, <1>7, <2>2
    <3>2. ~ Before(p, r)
      BY <1>3, <3>1, BeforeAsymmetric
    <3> QED
      BY <2>2, <3>2
  <2>3. CASE q # p /\ r = p
    <3>1. clusters'[q][i] \in 2 .. (total - 1)
      BY <1>6, <1>7, <2>3
    <3>2. j \in 1 .. n /\ clusters'[r][j] = total + j - 1
      BY <1>5, <1>6, <2>3
    <3> QED
      BY <1>1, <2>3, <3>1, <3>2
  <2>4. CASE q # p /\ r # p
    BY <1>3, <1>6, <2>4 DEF OrderInv, LaidOutInOrder
  <2> QED
    BY <2>1, <2>2, <2>3, <2>4
<1>9. LaidOutInOrder'
  BY <1>6, <1>8 DEF LaidOutInOrder, Before, IsStrictPrefix, NameLess
<1>10. \A o \in Jobs(DOMAIN tree) \ pending', q \in pending' : JobBefore(o, q)
  <2> TAKE o \in Jobs(DOMAIN tree) \ pending', q \in pending'
  <2>1. o = <<p, 1>> \/ o \in Jobs(DOMAIN tree) \ pending
    BY <1>4
  <2> QED
    BY <1>2, <1>4, <2>1 DEF OrderInv
<1> QED
  BY <1>2, <1>9, <1>10 DEF OrderInv, JobBefore, Before, Jobs

LEMMA OrderStep == IInv /\ OrderInv /\ [Next]_vars => OrderInv'
<1> SUFFICES ASSUME IInv, OrderInv, [Next]_vars PROVE OrderInv'
  OBVIOUS
<1>1. ASSUME clusters' = clusters, phase' # "alloc" PROVE OrderInv'
  BY <1>1 DEF OrderInv, LaidOutInOrder
<1>2. ASSUME \/ \E x \in Vols : VolLine(x)
             \/ \E p \in DirArgs : DirLine(p)
             \/ \E r \in Reals : RealLine(r)
             \/ \E a \in FileArgs : FileLine(a[1], a[2])
             \/ \E a \in LnameArgs : LnameLine(a[1], a[2], a[3])
      PROVE  OrderInv'
  BY <1>1, <1>2 DEF VolLine, DirLine, RealLine, FileLine, LnameLine, Parsed, Segfault, Line
<1>3. CASE StartAlloc
  <2>1. DOMAIN clusters' = DOMAIN tree /\ \A p \in DOMAIN tree : DOMAIN clusters'[p] = {}
    BY <1>3, EmptySeq DEF StartAlloc
  <2>2. Jobs(DOMAIN tree)' \ pending' = {}
    BY <1>3 DEF StartAlloc, Jobs
  <2>3. LaidOutInOrder'
    BY <2>1 DEF LaidOutInOrder
  <2> QED
    BY <2>2, <2>3 DEF OrderInv
<1>4. ASSUME NEW p \in DOMAIN tree, AllocCluster(p) PROVE OrderInv'
  BY <1>4, AllocClusterOrder
<1>5. CASE StartFat \/ WriteFat \/ StartFill \/ Close
  BY <1>1, <1>5 DEF StartFat, WriteFat, StartFill, Close
<1>6. ASSUME NEW p \in DOMAIN tree, GenerateFat(p) \/ FillFile(p) PROVE OrderInv'
  BY <1>1, <1>6 DEF GenerateFat, FillFile
<1>7. ASSUME NEW job \in pending, WriteEntry(job[1], job[2]) PROVE OrderInv'
  BY <1>1, <1>7 DEF WriteEntry
<1>8. CASE UNCHANGED vars
  BY <1>8 DEF vars, OrderInv, LaidOutInOrder, Jobs, JobBefore
<1> QED
  BY <1>2, <1>3, <1>4, <1>5, <1>6, <1>7, <1>8 DEF Next, Exited

\* For every touch.txt and every geometry, clusters are consecutive in a node and
\* in the order of the passes from node to node (write.cpp:198-202, 278-292).
THEOREM LayoutInOrder == Spec => []LaidOutInOrder
<1>1. Init => OrderInv
  <2> SUFFICES ASSUME Init PROVE OrderInv
    OBVIOUS
  <2>1. DOMAIN clusters = {} /\ phase = "parse"
    BY DEF Init
  <2> QED
    BY <2>1 DEF OrderInv, LaidOutInOrder
<1>2. IInv /\ OrderInv /\ [Next]_vars => OrderInv'
  BY OrderStep
<1>3. OrderInv => LaidOutInOrder
  BY DEF OrderInv
<1> QED
  BY <1>1, <1>2, <1>3, Invariance, PTL DEF Spec

-----------------------------------------------------------------------------
(* What was written so far *)

Todo == IF phase = "entries" THEN pending ELSE {}
EntriesDone(d) == {job \in EntryJobs \ Todo : Front(job[1]) = d}
FileDone(p) ==
  /\ tree[p].kind = "file" /\ tree[p].real \in DOMAIN RealSlots
  /\ phase = "done" \/ (phase = "fill" /\ <<p, 1>> \notin pending)

\* How many slots of a node were written.
Filled(p) == IF IsDir(p) THEN Cardinality(EntriesDone(p))
             ELSE IF FileDone(p) THEN Slots(p) ELSE 0
Occupied == UNION {{At(p, n) : n \in 0 .. (Filled(p) - 1)} : p \in DOMAIN tree}

\* The passes keep to their order, and an entry whose node has no cluster stops them.
PassInv ==
  /\ phase = "entries" => \A o \in EntryJobs \ pending, q \in pending : JobBefore(o, q)
  /\ phase = "fill" => pending \subseteq Jobs({p \in DOMAIN tree : tree[p].kind = "file"})
  /\ Finished => clusters[Root] # <<>> /\ \A o \in EntryJobs \ Todo : ~ NoFirstCluster(o[1])

\* The cursor of a directory stands behind the entries that were written.
Behind(d, at) ==
  \E i \in DOMAIN clusters[d] :
    at.clust = clusters[d][i] /\ (i - 1) * SlotsPerClus + at.now = Filled(d)
CursorInv ==
  /\ CursorInChain
  /\ phase = "entries" => \A d \in DOMAIN cursor : Behind(d, cursor[d])

\* Of each node the first slots were written and no others; they hold the
\* entries, each at its place in the order, and the contents of the files.
DiskInv ==
  Finished =>
    /\ DOMAIN disk = Occupied
    /\ \A o \in EntryJobs \ Todo :
         LET g == At(Front(o[1]), Position(Front(o[1]), o))
         IN  g \in DOMAIN disk /\ disk[g] = Entry(o[1], o[2])
    /\ \A p \in DOMAIN tree : FileDone(p) =>
         \A n \in 0 .. (Slots(p) - 1) : disk[At(p, n)] = Contents(tree[p].real, n)

ImageInv == FatInv /\ PassInv /\ CursorInv /\ DiskInv

LEMMA JobInDirectory ==
  ASSUME IInv, NEW job \in EntryJobs
  PROVE  /\ job \in Path \X Nat /\ job = <<job[1], job[2]>>
         /\ job[1] \in DOMAIN tree \ {Root} /\ job[1] \in Path /\ Listed(job[1])
         /\ job[2] \in 1 .. EntryLen(job[1])
         /\ Front(job[1]) \in DOMAIN tree /\ IsDir(Front(job[1]))
         /\ job \in EntriesIn(Front(job[1]))
<1>1. TreeOK(tree) /\ Hangs(tree)
  BY DEF IInv, TypeInv, TreeInv
<1>2. PICK q \in DOMAIN tree : Listed(q) /\ job \in {q} \X (1 .. EntryLen(q))
  BY DEF EntryJobs
<1>3. job[1] = q /\ job = <<job[1], job[2]>> /\ job[2] \in 1 .. EntryLen(q) /\ q # Root
  BY <1>2 DEF Listed
<1>4. q \in Path /\ EntryLen(q) \in Nat
  BY <1>1, EntryLenType DEF TreeOK
<1>5. Front(q) \in DOMAIN tree /\ IsDir(Front(q))
  BY <1>1, <1>3 DEF Hangs, IsDir
<1>6. job \in EntriesIn(Front(q))
  <2>1. q \in Children(Front(q))
    BY <1>3 DEF Children
  <2> QED
    BY <1>2, <2>1 DEF EntriesIn
<1> QED
  BY <1>2, <1>3, <1>4, <1>5, <1>6

LEMMA DoneCount ==
  ASSUME IInv, NEW d
  PROVE  /\ EntriesDone(d) \subseteq EntriesIn(d) /\ IsFiniteSet(EntriesDone(d))
         /\ Cardinality(EntriesDone(d)) \in Nat /\ Cardinality(EntriesIn(d)) \in Nat
         /\ Cardinality(EntriesDone(d)) <= Cardinality(EntriesIn(d))
<1>1. EntriesDone(d) \subseteq EntriesIn(d)
  BY JobInDirectory DEF EntriesDone
<1>2. IsFiniteSet(EntriesIn(d))
  BY EntriesFinite DEF IInv, TypeInv
<1> QED
  BY <1>1, <1>2, FS_Subset, FS_CardinalityType

\* No more was written of a node than fits its clusters.
LEMMA FilledBound ==
  ASSUME IInv, Allocated, phase # "alloc", NEW p \in DOMAIN tree
  PROVE  Filled(p) \in Nat /\ Slots(p) \in Nat /\ Filled(p) <= Slots(p)
<1>1. clusters[p] \in Seq(Nat) /\ Len(clusters[p]) = AllocCount(p)
  BY DEF IInv, TypeInv, TypeOK, AllocInv
<1>2. Slots(p) \in Nat
  BY <1>1, LenProperties, SlotsType DEF Slots
<1>3. CASE ~ IsDir(p)
  BY <1>2, <1>3 DEF Filled
<1>4. CASE IsDir(p) /\ clusters[p] # <<>>
  BY <1>2, <1>4, DoneCount, RoomForEntries DEF Filled
<1>5. CASE IsDir(p) /\ clusters[p] = <<>>
  <2>1. Cardinality(EntriesIn(p)) \in Nat /\ Cardinality(EntriesDone(p)) \in Nat
        /\ Cardinality(EntriesDone(p)) <= Cardinality(EntriesIn(p))
    BY DoneCount
  <2>2. DirSize(p) = 0
    <3>1. SUFFICES ASSUME DirSize(p) # 0 PROVE FALSE
      OBVIOUS
    <3>2. DirSize(p) \in Nat /\ tree[p].kind # "file"
      BY <1>5, <2>1 DEF DirSize, FileEntrySize, IsDir
    <3>3. AllocCount(p) = ClustersFor(DirSize(p))
      BY <1>5, <3>1, <3>2 DEF AllocCount
    <3> QED
      BY <1>1, <1>5, <3>2, <3>3, EmptySeq, ClustersForType
  <2>3. Cardinality(EntriesIn(p)) = 0
    BY <2>1, <2>2 DEF DirSize, FileEntrySize
  <2> QED
    BY <1>2, <1>5, <2>1, <2>3 DEF Filled
<1> QED
  BY <1>3, <1>4, <1>5

\* All entries of a directory are listed as soon as one is.
LEMMA SiblingsListed ==
  ASSUME IInv, NEW job \in EntryJobs, NEW o \in EntriesIn(Front(job[1]))
  PROVE  o \in EntryJobs /\ Front(o[1]) = Front(job[1])
<1> DEFINE d == Front(job[1])
<1>1. PICK c \in Children(d) : o \in {c} \X (1 .. EntryLen(c))
  BY DEF EntriesIn
<1>2. c \in DOMAIN tree /\ c # Root /\ Front(c) = d
  BY <1>1 DEF Children
<1>3. Listed(c)
  BY <1>2, JobInDirectory DEF Listed
<1>4. o \in EntryJobs
  BY <1>1, <1>2, <1>3 DEF EntryJobs
<1> QED
  BY <1>1, <1>2, <1>4

\* The next entry of a directory comes right behind those that were written.
LEMMA NextPosition ==
  ASSUME IInv, PassInv, phase = "entries", NEW job \in pending, Turn(job)
  PROVE  Position(Front(job[1]), job) = Cardinality(EntriesDone(Front(job[1])))
<1> DEFINE d == Front(job[1])
<1>1. job \in EntryJobs /\ pending \subseteq EntryJobs
  BY DEF IInv, EntryInv
<1>2. \A o \in EntryJobs : o \in Path \X Nat
  BY JobInDirectory
<1>3. ASSUME NEW o \in EntriesIn(d), JobBefore(o, job) PROVE o \in EntriesDone(d)
  <2>1. o \in EntryJobs /\ Front(o[1]) = d
    BY <1>1, SiblingsListed
  <2>2. o \notin pending
    <3>1. SUFFICES ASSUME o \in pending PROVE FALSE
      OBVIOUS
    <3>2. JobBefore(job, o)
      BY <1>3, <3>1 DEF Turn
    <3> QED
      BY <1>1, <1>2, <1>3, <2>1, <3>2, JobBeforeAsymmetric
  <2> QED
    BY <2>1, <2>2 DEF EntriesDone, Todo
<1>4. ASSUME NEW o \in EntriesDone(d) PROVE o \in EntriesIn(d) /\ JobBefore(o, job)
  <2>1. o \in EntryJobs \ pending
    BY DEF EntriesDone, Todo
  <2> QED
    BY <2>1, DoneCount DEF PassInv
<1>5. {o \in EntriesIn(d) : JobBefore(o, job)} = EntriesDone(d)
  BY <1>3, <1>4
<1> QED
  BY <1>5 DEF Position

-----------------------------------------------------------------------------
(* One entry more *)

\* What the tree and the clusters decide.
LEMMA SameNodes ==
  ASSUME UNCHANGED <<tree, clusters>>
  PROVE  /\ EntryJobs' = EntryJobs
         /\ \A p, n : At(p, n)' = At(p, n)
         /\ \A p : Slots(p)' = Slots(p) /\ IsDir(p)' = IsDir(p) /\ EntriesIn(p)' = EntriesIn(p)
         /\ \A p : NoFirstCluster(p)' = NoFirstCluster(p)
         /\ \A d, job : Position(d, job)' = Position(d, job)
         /\ \A p, k : Entry(p, k)' = Entry(p, k)
<1>1. \A p : EntryLen(p)' = EntryLen(p) /\ IsDir(p)' = IsDir(p)
  BY DEF EntryLen, IsDir
<1>2. EntryJobs' = EntryJobs
  BY SameEntryJobs
<1>3. \A p : EntriesIn(p)' = EntriesIn(p)
  BY DEF EntriesIn, Children, EntryLen
<1>4. \A p, n : At(p, n)' = At(p, n)
  BY DEF At
<1>5. \A p : Slots(p)' = Slots(p)
  BY DEF Slots
<1>6. \A d, job : Position(d, job)' = Position(d, job)
  BY <1>3 DEF Position
<1>7. \A p, k : Entry(p, k)' = Entry(p, k)
  <2> TAKE p, k
  <2>1. LongEntry(p, k)' = LongEntry(p, k)
    BY <1>1 DEF LongEntry
  <2>2. FirstCluster(p)' = FirstCluster(p)
    BY DEF FirstCluster, IsDir
  <2>3. ShortEntry(p)' = ShortEntry(p)
    BY <2>2 DEF ShortEntry
  <2> QED
    BY <2>1, <2>3 DEF Entry
<1>8. \A p : NoFirstCluster(p)' = NoFirstCluster(p)
  BY DEF NoFirstCluster, IsDir
<1> QED
  BY <1>1, <1>2, <1>3, <1>4, <1>5, <1>6, <1>7, <1>8

\* The macro check() moves the cursor to the slot behind what was written.
LEMMA AdvancedBehind ==
  ASSUME IInv, FatInv, phase = "entries", NEW d \in DOMAIN tree, NEW at,
         at.now \in 0 .. SlotsPerClus, Behind(d, at), Filled(d) \in Nat, Filled(d) < Slots(d)
  PROVE  /\ Behind(d, Advanced(at))
         /\ Advanced(at).now \in 0 .. (SlotsPerClus - 1)
         /\ <<Advanced(at).clust, Advanced(at).now>> = At(d, Filled(d))
<1> DEFINE S == SlotsPerClus
           s == clusters[d]
           f == Filled(d)
           up == Advanced(at)
<1>1. PICK i \in DOMAIN s : at.clust = s[i] /\ (i - 1) * S + at.now = f
  BY DEF Behind
<1>2. Finished /\ Allocated
  BY DEF Finished, Allocated
<1>3. s \in Seq(Nat) /\ S \in Nat \ {0}
  BY <1>2, NodesChained, SlotsType
<1>4. Len(s) \in Nat /\ DOMAIN s = 1 .. Len(s)
  BY <1>3, LenProperties
<1>5. PICK j \in DOMAIN s : up.clust = s[j] /\ (j - 1) * S + up.now = f /\ up.now \in 0 .. (S - 1)
  <2>1. CASE at.now # S
    BY <1>1, <1>3, <2>1 DEF Advanced
  <2>2. CASE at.now = S
    <3>1. up = [clust |-> fat[at.clust], now |-> 0]
      BY <2>2 DEF Advanced
    <3>2. i \in Nat /\ i * S = f /\ i <= Len(s)
      BY <1>1, <1>3, <1>4, <2>2
    <3>3. i # Len(s)
      BY <3>2 DEF Slots
    <3>4. i < Len(s) /\ i + 1 \in DOMAIN s
      BY <1>4, <3>2, <3>3
    <3>5. fat[at.clust] = s[i + 1]
      BY <1>1, <1>2, <3>4 DEF FatInv, Linked, Link
    <3>6. ((i + 1) - 1) * S + 0 = f /\ 0 \in 0 .. (S - 1)
      BY <1>3, <3>2
    <3>7. up.clust = s[i + 1] /\ up.now = 0
      BY <3>1, <3>5
    <3> HIDE DEF up
    <3> QED
      BY <3>4, <3>6, <3>7
  <2> QED
    BY <2>1, <2>2
<1> HIDE DEF up
<1>6. j - 1 \in Nat /\ up.now \in 0 .. (S - 1)
  BY <1>4, <1>5
<1>7. f \div S = j - 1 /\ f % S = up.now
  <2> HIDE DEF f, S
  <2>1. f = (j - 1) * S + up.now /\ f \in Nat
    BY <1>5 DEF f
  <2> QED
    BY <1>3, <1>6, <2>1, QuotientUnique
<1>8. (j - 1) + 1 = j
  BY <1>4
<1>9. At(d, f) = <<s[(f \div S) + 1], f % S>>
  BY DEF At
<1>10. At(d, f) = <<up.clust, up.now>>
  <2> HIDE DEF f, S, s
  <2> QED
    BY <1>5, <1>7, <1>8, <1>9
<1>11. Behind(d, up)
  BY <1>5 DEF Behind
<1> QED
  BY <1>6, <1>10, <1>11 DEF up

\* What a step of generate_fileentry does.
LEMMA EntryWritten ==
  ASSUME IInv, ImageInv, NEW job \in pending, WriteEntry(job[1], job[2]),
         ~ NoFirstCluster(job[1]), NEW d, d = Front(job[1])
  PROVE  /\ phase = "entries" /\ phase' = "entries" /\ Turn(job) /\ pending' = pending \ {job}
         /\ job \in EntryJobs /\ d \in DOMAIN cursor /\ d \in DOMAIN tree /\ IsDir(d)
         /\ Filled(d) \in Nat /\ Filled(d) < Slots(d) /\ Slots(d) \in Nat
         /\ Position(d, job) = Filled(d)
         /\ DOMAIN disk' = {At(d, Filled(d))} \cup DOMAIN disk
         /\ disk'[At(d, Filled(d))] = Entry(job[1], job[2])
         /\ \A g \in DOMAIN disk \ {At(d, Filled(d))} : disk'[g] = disk[g]
         /\ \E at : /\ Behind(d, at) /\ at.now \in 0 .. (SlotsPerClus - 1)
                    /\ cursor' = [cursor EXCEPT ![d] = [clust |-> at.clust, now |-> at.now + 1]]
<1> DEFINE at == Advanced(cursor[d])
<1>1. phase = "entries" /\ Finished /\ Allocated
  BY DEF WriteEntry, Finished, Allocated
<1>2. job \in EntryJobs /\ pending \subseteq EntryJobs
  BY <1>1 DEF IInv, EntryInv
<1>3. /\ job = <<job[1], job[2]>> /\ d \in DOMAIN tree /\ IsDir(d) /\ job \in EntriesIn(d)
  BY <1>2, JobInDirectory
<1>4. d \in DOMAIN cursor /\ clusters[d] # <<>>
  BY <1>1, HasCursor DEF IInv, EntryInv
<1>5. Turn(job) /\ pending' = pending \ {job} /\ phase' = "entries"
  BY <1>1, <1>3 DEF WriteEntry
<1>6. Filled(d) = Cardinality(EntriesDone(d))
  BY <1>3 DEF Filled
<1>7. Filled(d) < Cardinality(EntriesIn(d)) /\ Filled(d) \in Nat
  <2>1. EntriesDone(d) # EntriesIn(d)
    <3>1. job \notin EntriesDone(d)
      BY <1>1 DEF EntriesDone, Todo
    <3> QED
      BY <1>3, <3>1
  <2>2. IsFiniteSet(EntriesIn(d))
    BY EntriesFinite DEF IInv, TypeInv
  <2>3. Cardinality(EntriesDone(d)) # Cardinality(EntriesIn(d))
    BY <2>1, <2>2, DoneCount, FS_Subset
  <2> QED
    BY <1>6, <2>3, DoneCount
<1>8. Filled(d) < Slots(d) /\ Slots(d) \in Nat
  BY <1>1, <1>3, <1>4, <1>7, RoomForEntries
<1>9. Position(d, job) = Filled(d)
  BY <1>1, <1>5, <1>6, NextPosition DEF ImageInv
<1>10. /\ Behind(d, at) /\ at.now \in 0 .. (SlotsPerClus - 1)
       /\ <<at.clust, at.now>> = At(d, Filled(d))
  <2>1. cursor[d].now \in 0 .. SlotsPerClus
    BY <1>4 DEF IInv, TypeInv, TypeOK
  <2>2. Behind(d, cursor[d])
    BY <1>1, <1>4 DEF ImageInv, CursorInv
  <2> QED
    BY <1>1, <1>3, <1>7, <1>8, <2>1, <2>2, AdvancedBehind DEF ImageInv
<1>11. /\ disk' = Written([g \in {<<at.clust, at.now>>} |-> Entry(job[1], job[2])])
       /\ cursor' = [cursor EXCEPT ![d] = [clust |-> at.clust, now |-> at.now + 1]]
  BY DEF WriteEntry
<1> HIDE DEF at
<1>12. disk' = Written([g \in {At(d, Filled(d))} |-> Entry(job[1], job[2])])
  BY <1>10, <1>11
<1>13. /\ DOMAIN disk' = {At(d, Filled(d))} \cup DOMAIN disk
       /\ disk'[At(d, Filled(d))] = Entry(job[1], job[2])
       /\ \A g \in DOMAIN disk \ {At(d, Filled(d))} : disk'[g] = disk[g]
  BY <1>12 DEF Written
<1> QED
  BY <1>1, <1>2, <1>3, <1>4, <1>5, <1>7, <1>8, <1>9, <1>10, <1>11, <1>13

\* A slot behind what was written of its node was not written.
LEMMA FreshSlot ==
  ASSUME IInv, Finished, NEW p \in DOMAIN tree, NEW n \in 0 .. (Slots(p) - 1), Filled(p) <= n
  PROVE  At(p, n) \notin Occupied
<1>1. Allocated /\ phase # "alloc"
  BY DEF Finished, Allocated
<1> SUFFICES ASSUME NEW q \in DOMAIN tree, NEW m \in 0 .. (Filled(q) - 1), At(p, n) = At(q, m)
             PROVE  FALSE
  BY DEF Occupied
<1>2. Filled(q) \in Nat /\ Slots(q) \in Nat /\ Filled(q) <= Slots(q)
  BY <1>1, FilledBound
<1>3. m \in 0 .. (Slots(q) - 1)
  BY <1>2
<1>4. p = q /\ n = m
  BY <1>1, <1>3, SlotsApart
<1> QED
  BY <1>2, <1>4

LEMMA EntryCounts ==
  ASSUME IInv, ImageInv, NEW job \in pending, WriteEntry(job[1], job[2]),
         ~ NoFirstCluster(job[1]), NEW d, d = Front(job[1])
  PROVE  /\ Filled(d)' = Filled(d) + 1
         /\ \A p \in DOMAIN tree \ {d} : Filled(p)' = Filled(p)
<1>1. /\ phase = "entries" /\ phase' = "entries" /\ pending' = pending \ {job}
      /\ job \in EntryJobs /\ IsDir(d)
  BY EntryWritten
<1>2. UNCHANGED <<tree, clusters>>
  BY DEF WriteEntry
<1>3. \A e : EntriesDone(e)' = {o \in EntryJobs \ (pending \ {job}) : Front(o[1]) = e}
  BY <1>1, <1>2, SameNodes DEF EntriesDone, Todo
<1>4. EntriesDone(d)' = EntriesDone(d) \cup {job} /\ job \notin EntriesDone(d)
  BY <1>1, <1>3 DEF EntriesDone, Todo
<1>5. \A e : e # d => EntriesDone(e)' = EntriesDone(e)
  BY <1>1, <1>3 DEF EntriesDone, Todo
<1>6. Cardinality(EntriesDone(d) \cup {job}) = Cardinality(EntriesDone(d)) + 1
  BY <1>4, DoneCount, FS_AddElement
<1>7. Filled(d)' = Filled(d) + 1
  BY <1>1, <1>2, <1>4, <1>6 DEF Filled, IsDir
<1>8. ASSUME NEW p \in DOMAIN tree \ {d} PROVE Filled(p)' = Filled(p)
  <2>1. IsDir(p)' = IsDir(p) /\ Slots(p)' = Slots(p)
    BY <1>2, SameNodes
  <2>2. ~ FileDone(p) /\ ~ FileDone(p)'
    BY <1>1 DEF FileDone
  <2>3. Cardinality(EntriesDone(p))' = Cardinality(EntriesDone(p))
    BY <1>5
  <2> QED
    BY <2>1, <2>2, <2>3 DEF Filled
<1> QED
  BY <1>7, <1>8

LEMMA WriteEntryImage ==
  ASSUME IInv, ImageInv, NEW job \in pending, WriteEntry(job[1], job[2])
  PROVE  PassInv' /\ CursorInv' /\ DiskInv'
<1>1. UNCHANGED <<tree, clusters>> /\ phase = "entries"
  BY DEF WriteEntry
<1>2. CASE NoFirstCluster(job[1])
  BY <1>1, <1>2 DEF WriteEntry, ImageInv, PassInv, CursorInv, DiskInv, Finished, CursorInChain
<1>3. CASE ~ NoFirstCluster(job[1])
  <2> DEFINE d == Front(job[1])
             f == Filled(d)
             g == At(d, f)
  <2>1. /\ phase' = "entries" /\ Turn(job) /\ pending' = pending \ {job}
        /\ job \in EntryJobs /\ d \in DOMAIN cursor /\ d \in DOMAIN tree /\ IsDir(d)
        /\ f \in Nat /\ f < Slots(d) /\ Slots(d) \in Nat
        /\ Position(d, job) = f
        /\ DOMAIN disk' = {g} \cup DOMAIN disk
        /\ disk'[g] = Entry(job[1], job[2])
        /\ \A h \in DOMAIN disk \ {g} : disk'[h] = disk[h]
    BY <1>3, EntryWritten
  <2>2. PICK at : /\ Behind(d, at) /\ at.now \in 0 .. (SlotsPerClus - 1)
                  /\ cursor' = [cursor EXCEPT ![d] = [clust |-> at.clust, now |-> at.now + 1]]
    BY <1>3, EntryWritten
  <2>3. Filled(d)' = f + 1 /\ \A p \in DOMAIN tree \ {d} : Filled(p)' = Filled(p)
    BY <1>3, EntryCounts
  <2> HIDE DEF f, g
  <2>4. Finished /\ Finished' /\ Allocated
    BY <1>1, <2>1 DEF Finished, Allocated
  <2>5. g \notin DOMAIN disk /\ DOMAIN disk = Occupied
    <3>1. f \in 0 .. (Slots(d) - 1) /\ Filled(d) <= f
      BY <2>1 DEF f
    <3>2. g \notin Occupied
      BY <2>1, <2>4, <3>1, FreshSlot DEF g
    <3> QED
      BY <2>4, <3>2 DEF ImageInv, DiskInv
  <2>6. PassInv'
    <3>1. \A o \in EntryJobs \ pending, q \in pending : JobBefore(o, q)
      BY <1>1 DEF ImageInv, PassInv
    <3>2. \A q \in pending \ {job} : JobBefore(job, q)
      BY <2>1 DEF Turn
    <3>3. \A o \in EntryJobs \ pending', q \in pending' : JobBefore(o, q)
      BY <2>1, <3>1, <3>2
    <3>4. clusters[Root] # <<>> /\ \A o \in EntryJobs \ pending : ~ NoFirstCluster(o[1])
      BY <1>1, <2>4 DEF ImageInv, PassInv, Todo
    <3>5. \A o \in EntryJobs \ pending' : ~ NoFirstCluster(o[1])
      BY <1>3, <2>1, <3>4
    <3>6. Todo' = pending' /\ EntryJobs' = EntryJobs /\ \A p : NoFirstCluster(p)' = NoFirstCluster(p)
      BY <1>1, <2>1, SameNodes DEF Todo
    <3>7. \A o, q : JobBefore(o, q)' = JobBefore(o, q)
      BY DEF JobBefore
    <3> QED
      BY <1>1, <2>1, <3>3, <3>4, <3>5, <3>6, <3>7 DEF PassInv
  <2>7. CursorInv'
    <3>1. CursorInChain /\ \A e \in DOMAIN cursor : Behind(e, cursor[e])
      BY <1>1 DEF ImageInv, CursorInv
    <3>2. DOMAIN cursor' = DOMAIN cursor /\ cursor'[d] = [clust |-> at.clust, now |-> at.now + 1]
          /\ \A e \in DOMAIN cursor \ {d} : cursor'[e] = cursor[e]
      BY <2>1, <2>2
    <3>3. \E i \in DOMAIN clusters[d] : cursor'[d].clust = clusters[d][i]
            /\ (i - 1) * SlotsPerClus + cursor'[d].now = f + 1
      <4>1. PICK i \in DOMAIN clusters[d] : at.clust = clusters[d][i]
              /\ (i - 1) * SlotsPerClus + at.now = f
        BY <2>2 DEF Behind, f
      <4>2. clusters[d] \in Seq(Nat)
        BY <2>1, <2>4 DEF IInv, TypeInv, TypeOK
      <4>3. i \in Nat /\ SlotsPerClus \in Nat /\ at.now \in Nat
        BY <2>2, <4>2, LenProperties, SlotsType
      <4>4. (i - 1) * SlotsPerClus + (at.now + 1) = f + 1
        <5>1. (i - 1) * SlotsPerClus \in Int
          BY <4>3
        <5> QED
          BY <2>1, <4>1, <4>3, <5>1
      <4> QED
        BY <3>2, <4>1, <4>4
    <3>4. Behind(d, cursor[d])'
      BY <1>1, <2>3, <3>3 DEF Behind
    <3>5. ASSUME NEW e \in DOMAIN cursor \ {d} PROVE Behind(e, cursor[e])'
      <4>1. e \in DOMAIN tree
        BY <1>1 DEF IInv, EntryInv
      <4>2. Filled(e)' = Filled(e) /\ cursor'[e] = cursor[e] /\ Behind(e, cursor[e])
        BY <2>3, <3>1, <3>2, <4>1
      <4> QED
        BY <1>1, <4>2 DEF Behind
    <3>6. \A e \in DOMAIN cursor' : Behind(e, cursor[e])'
      BY <3>2, <3>4, <3>5
    <3>7. CursorInChain'
      BY <3>6 DEF CursorInChain, Behind
    <3> QED
      BY <3>6, <3>7 DEF CursorInv
  <2>8. DOMAIN disk' = Occupied'
    <3>1. ASSUME NEW p \in DOMAIN tree, NEW h
          PROVE  (\E n \in 0 .. (Filled(p)' - 1) : h = At(p, n)) <=>
                 (\E n \in 0 .. (Filled(p) - 1) : h = At(p, n)) \/ (p = d /\ h = g)
      <4>1. CASE p # d
        BY <2>3, <4>1
      <4>2. CASE p = d
        <5>1. 0 .. (Filled(p)' - 1) = (0 .. (f - 1)) \cup {f}
          BY <2>1, <2>3, <4>2
        <5> QED
          BY <4>2, <5>1 DEF f, g
      <4> QED
        BY <4>1, <4>2
    <3>2. \A h : h \in Occupied' <=> \E p \in DOMAIN tree : \E n \in 0 .. (Filled(p)' - 1) : h = At(p, n)
      BY <1>1, SameNodes DEF Occupied
    <3>3. \A h : h \in Occupied <=> \E p \in DOMAIN tree : \E n \in 0 .. (Filled(p) - 1) : h = At(p, n)
      BY DEF Occupied
    <3>4. \A h : h \in Occupied' <=> h \in Occupied \/ h = g
      BY <2>1, <3>1, <3>2, <3>3
    <3> QED
      BY <2>1, <2>5, <3>4
  <2>9. ASSUME NEW o \in EntryJobs \ pending'
        PROVE  LET h == At(Front(o[1]), Position(Front(o[1]), o))
               IN  h \in DOMAIN disk' /\ disk'[h] = Entry(o[1], o[2])
    <3>1. CASE o = job
      BY <2>1, <3>1 DEF g
    <3>2. CASE o # job
      <4>1. o \in EntryJobs \ Todo
        BY <1>1, <2>1, <3>2 DEF Todo
      <4> DEFINE h == At(Front(o[1]), Position(Front(o[1]), o))
      <4>2. h \in DOMAIN disk /\ disk[h] = Entry(o[1], o[2])
        BY <2>4, <4>1 DEF ImageInv, DiskInv
      <4> HIDE DEF h
      <4>3. h \in DOMAIN disk' /\ disk'[h] = Entry(o[1], o[2])
        BY <2>1, <2>5, <4>2
      <4> QED
        BY <4>3 DEF h
    <3> QED
      BY <3>1, <3>2
  <2>10. \A p : ~ FileDone(p)'
    BY <2>1 DEF FileDone
  <2>11. Todo' = pending' /\ EntryJobs' = EntryJobs
    BY <1>1, <2>1, SameNodes DEF Todo
  <2>12. \A o \in EntryJobs' \ Todo' :
           LET h == At(Front(o[1]), Position(Front(o[1]), o))'
           IN  h \in DOMAIN disk' /\ disk'[h] = Entry(o[1], o[2])'
    BY <1>1, <2>9, <2>11, SameNodes
  <2>13. DiskInv'
    BY <2>8, <2>10, <2>12 DEF DiskInv
  <2> QED
    BY <2>6, <2>7, <2>13
<1> QED
  BY <1>2, <1>3

-----------------------------------------------------------------------------
(* One file more *)

\* The slots of a node, by cluster and place in it and one after the other.
LEMMA SlotsOfNode ==
  ASSUME IInv, Finished, NEW p \in DOMAIN tree
  PROVE  {<<clusters[p][x[1]], x[2]>> : x \in (DOMAIN clusters[p]) \X (0 .. (SlotsPerClus - 1))}
           = {At(p, n) : n \in 0 .. (Slots(p) - 1)}
<1> DEFINE s == clusters[p]
           S == SlotsPerClus
           byCluster == {<<s[x[1]], x[2]>> : x \in (DOMAIN s) \X (0 .. (S - 1))}
           inTurn == {At(p, n) : n \in 0 .. (Slots(p) - 1)}
<1>1. s \in Seq(Nat) /\ S \in Nat \ {0}
  BY SlotsType DEF IInv, TypeInv, TypeOK, Finished, Allocated
<1>2. Len(s) \in Nat /\ DOMAIN s = 1 .. Len(s)
  BY <1>1, LenProperties
<1>3. ASSUME NEW i \in DOMAIN s, NEW r \in 0 .. (S - 1)
      PROVE  \E n \in 0 .. (Slots(p) - 1) : At(p, n) = <<s[i], r>>
  <2> DEFINE n == (i - 1) * S + r
  <2>1. i - 1 \in Nat /\ i <= Len(s) /\ i \in Nat
    BY <1>2
  <2>2. (i - 1) * S \in Nat /\ n \in Nat
    BY <1>1, <2>1
  <2>3. n < Len(s) * S
    <3>1. i * S <= Len(s) * S /\ i * S \in Nat /\ Len(s) * S \in Nat
      <4> DEFINE L == Len(s)
      <4>1. i \in Nat /\ L \in Nat /\ S \in Nat /\ i <= L
        BY <1>1, <1>2, <2>1
      <4> HIDE DEF L, S
      <4>2. i * S <= L * S /\ i * S \in Nat /\ L * S \in Nat
        BY <4>1
      <4> QED
        BY <4>2 DEF L
    <3>2. i * S = (i - 1) * S + S
      BY <1>1, <2>1
    <3> QED
      BY <1>1, <2>2, <3>1, <3>2
  <2>4. n \div S = i - 1 /\ n % S = r
    <3> HIDE DEF S, n
    <3>1. n = (i - 1) * S + r
      BY DEF n
    <3> QED
      BY <1>1, <2>1, <2>2, <3>1, QuotientUnique
  <2>5. n \in 0 .. (Slots(p) - 1)
    <3>1. Slots(p) = Len(s) * S /\ Len(s) * S \in Nat
      BY <1>1, <1>2 DEF Slots
    <3> HIDE DEF n
    <3> QED
      BY <2>2, <2>3, <3>1
  <2> HIDE DEF n
  <2>6. At(p, n) = <<s[(n \div S) + 1], n % S>>
    BY DEF At
  <2>7. (i - 1) + 1 = i
    BY <2>1
  <2>8. At(p, n) = <<s[i], r>>
    BY <2>4, <2>6, <2>7
  <2> QED
    BY <2>5, <2>8
<1>4. ASSUME NEW n \in 0 .. (Slots(p) - 1) PROVE At(p, n) \in byCluster
  <2>1. n \div S + 1 \in DOMAIN s /\ n % S \in 0 .. (S - 1)
    BY <1>2, RowOfSlot DEF Slots
  <2> DEFINE x == <<n \div S + 1, n % S>>
  <2>2. x \in (DOMAIN s) \X (0 .. (S - 1)) /\ At(p, n) = <<s[x[1]], x[2]>>
    BY <2>1 DEF At
  <2> QED
    BY <2>2
<1>5. byCluster \subseteq inTurn
  BY <1>3
<1>6. inTurn \subseteq byCluster
  BY <1>4
<1> QED
  BY <1>5, <1>6

LEMMA FileWritten ==
  ASSUME IInv, ImageInv, NEW p \in DOMAIN tree, FillFile(p), tree[p].real \in DOMAIN RealSlots
  PROVE  /\ DOMAIN disk' = {At(p, n) : n \in 0 .. (Slots(p) - 1)} \cup DOMAIN disk
         /\ \A n \in 0 .. (Slots(p) - 1) : disk'[At(p, n)] = Contents(tree[p].real, n)
         /\ \A g \in DOMAIN disk : g \notin {At(p, n) : n \in 0 .. (Slots(p) - 1)} => disk'[g] = disk[g]
<1> DEFINE s == clusters[p]
           r == tree[p].real
           new == {<<s[x[1]], x[2]>> : x \in (DOMAIN s) \X (0 .. (SlotsPerClus - 1))}
           pos(g) == StreamPos(CHOOSE j \in DOMAIN s : s[j] = g[1], g[2])
<1>1. Finished /\ Allocated
  BY DEF FillFile, Finished, Allocated
<1>2. disk' = Written([g \in new |-> Contents(r, pos(g))])
  BY DEF FillFile
<1>3. new = {At(p, n) : n \in 0 .. (Slots(p) - 1)}
  BY <1>1, SlotsOfNode
<1>4. ASSUME NEW n \in 0 .. (Slots(p) - 1) PROVE pos(At(p, n)) = n
  <2> DEFINE i == n \div SlotsPerClus + 1
             j == CHOOSE k \in DOMAIN s : s[k] = At(p, n)[1]
  <2>1. s \in Seq(Nat) /\ ClustersDisjoint /\ p \in DOMAIN clusters
    BY <1>1 DEF IInv, TypeInv, TypeOK, AllocInv
  <2>2. Len(s) \in Nat /\ DOMAIN s = 1 .. Len(s)
    BY <2>1, LenProperties
  <2>3. /\ i \in DOMAIN s /\ n \div SlotsPerClus \in Nat
        /\ n = (n \div SlotsPerClus) * SlotsPerClus + (n % SlotsPerClus)
    BY <2>2, RowOfSlot DEF Slots
  <2>4. At(p, n)[1] = s[i] /\ At(p, n)[2] = n % SlotsPerClus
    BY DEF At
  <2>5. j \in DOMAIN s /\ s[j] = s[i]
    BY <2>3, <2>4
  <2>6. j = i
    BY <2>1, <2>3, <2>5 DEF ClustersDisjoint
  <2>7. i - 1 = n \div SlotsPerClus
    BY <2>3
  <2> HIDE DEF i, j
  <2>8. pos(At(p, n)) = (i - 1) * SlotsPerClus + (n % SlotsPerClus)
    BY <2>4, <2>6 DEF StreamPos, j
  <2> QED
    BY <2>3, <2>7, <2>8
<1> HIDE DEF new, pos
<1>5. DOMAIN disk' = new \cup DOMAIN disk
      /\ (\A g \in new : disk'[g] = Contents(r, pos(g)))
      /\ (\A g \in DOMAIN disk : g \notin new => disk'[g] = disk[g])
  BY <1>2 DEF Written
<1> QED
  BY <1>3, <1>4, <1>5

LEMMA FillCounts ==
  ASSUME IInv, ImageInv, NEW p \in DOMAIN tree, FillFile(p)
  PROVE  /\ \A q \in DOMAIN tree \ {p} : Filled(q)' = Filled(q) /\ FileDone(q)' = FileDone(q)
         /\ Filled(p) = 0 /\ ~ FileDone(p)
         /\ FileDone(p)' <=> tree[p].real \in DOMAIN RealSlots
         /\ Filled(p)' = IF tree[p].real \in DOMAIN RealSlots THEN Slots(p) ELSE 0
<1>1. /\ phase = "fill" /\ phase' = "fill" /\ pending' = pending \ {<<p, 1>>} /\ <<p, 1>> \in pending
      /\ UNCHANGED <<tree, clusters>>
  BY DEF FillFile, Turn
<1>2. tree[p].kind = "file" /\ ~ IsDir(p)
  BY <1>1 DEF ImageInv, PassInv, Jobs, IsDir
<1>3. \A q : EntriesDone(q)' = EntriesDone(q) /\ Slots(q)' = Slots(q) /\ IsDir(q)' = IsDir(q)
  BY <1>1, SameNodes DEF EntriesDone, Todo
<1>4. ~ FileDone(p) /\ (FileDone(p)' <=> tree[p].real \in DOMAIN RealSlots)
  BY <1>1, <1>2 DEF FileDone
<1>5. ASSUME NEW q \in DOMAIN tree \ {p} PROVE Filled(q)' = Filled(q) /\ FileDone(q)' = FileDone(q)
  <2>1. <<q, 1>> \in pending' <=> <<q, 1>> \in pending
    BY <1>1
  <2>2. FileDone(q)' <=> FileDone(q)
    BY <1>1, <2>1 DEF FileDone
  <2>3. FileDone(q)' = FileDone(q)
    BY <2>2 DEF FileDone
  <2> QED
    BY <1>3, <2>2, <2>3 DEF Filled
<1>6. Filled(p) = 0 /\ Filled(p)' = IF tree[p].real \in DOMAIN RealSlots THEN Slots(p) ELSE 0
  BY <1>2, <1>3, <1>4 DEF Filled
<1> QED
  BY <1>4, <1>5, <1>6

LEMMA FillFileImage ==
  ASSUME IInv, ImageInv, NEW p \in DOMAIN tree, FillFile(p)
  PROVE  PassInv' /\ CursorInv' /\ DiskInv'
<1>1. /\ phase = "fill" /\ phase' = "fill" /\ pending' = pending \ {<<p, 1>>}
      /\ UNCHANGED <<tree, clusters, cursor>> /\ Finished /\ Finished' /\ Todo = {} /\ Todo' = {}
  BY DEF FillFile, Finished, Todo
<1>2. PassInv'
  BY <1>1, SameNodes DEF ImageInv, PassInv, Jobs
<1>3. CursorInv'
  BY <1>1 DEF ImageInv, CursorInv, CursorInChain
<1>4. /\ DOMAIN disk = Occupied
      /\ \A o \in EntryJobs :
           LET g == At(Front(o[1]), Position(Front(o[1]), o))
           IN  g \in DOMAIN disk /\ disk[g] = Entry(o[1], o[2])
      /\ \A q \in DOMAIN tree : FileDone(q) =>
           \A n \in 0 .. (Slots(q) - 1) : disk[At(q, n)] = Contents(tree[q].real, n)
  BY <1>1 DEF ImageInv, DiskInv
<1>5. \A h : h \in Occupied' <=> \E q \in DOMAIN tree : \E n \in 0 .. (Filled(q)' - 1) : h = At(q, n)
  BY <1>1, SameNodes DEF Occupied
<1>6. \A h : h \in Occupied <=> \E q \in DOMAIN tree : \E n \in 0 .. (Filled(q) - 1) : h = At(q, n)
  BY DEF Occupied
<1>7. CASE tree[p].real \notin DOMAIN RealSlots
  <2>1. disk' = disk /\ \A q \in DOMAIN tree : Filled(q)' = Filled(q) /\ (FileDone(q)' <=> FileDone(q))
    BY <1>7, FillCounts DEF FillFile
  <2>2. Occupied' = Occupied
    BY <1>5, <1>6, <2>1
  <2> QED
    BY <1>1, <1>2, <1>3, <1>4, <2>1, <2>2, SameNodes DEF DiskInv, Contents
<1>8. CASE tree[p].real \in DOMAIN RealSlots
  <2> DEFINE new == {At(p, n) : n \in 0 .. (Slots(p) - 1)}
  <2>1. /\ DOMAIN disk' = new \cup DOMAIN disk
        /\ \A n \in 0 .. (Slots(p) - 1) : disk'[At(p, n)] = Contents(tree[p].real, n)
        /\ \A g \in DOMAIN disk : g \notin new => disk'[g] = disk[g]
    BY <1>8, FileWritten
  <2>2. /\ \A q \in DOMAIN tree \ {p} : Filled(q)' = Filled(q) /\ (FileDone(q)' <=> FileDone(q))
        /\ Filled(p) = 0 /\ ~ FileDone(p) /\ Filled(p)' = Slots(p) /\ FileDone(p)'
    BY <1>8, FillCounts
  <2>3. \A g \in new : g \notin DOMAIN disk
    BY <1>1, <1>4, <2>2, FreshSlot
  <2>4. \A h : h \in Occupied' <=> h \in Occupied \/ h \in new
    BY <1>5, <1>6, <2>2
  <2>5. DOMAIN disk' = Occupied'
    BY <1>4, <2>1, <2>4
  <2>6. \A g \in DOMAIN disk : g \in DOMAIN disk' /\ disk'[g] = disk[g]
    BY <2>1, <2>3
  <2>7. ASSUME NEW o \in EntryJobs
        PROVE  LET g == At(Front(o[1]), Position(Front(o[1]), o))
               IN  g \in DOMAIN disk' /\ disk'[g] = Entry(o[1], o[2])
    BY <1>4, <2>6
  <2>8. ASSUME NEW q \in DOMAIN tree, FileDone(q)', NEW n \in 0 .. (Slots(q) - 1)
        PROVE  disk'[At(q, n)] = Contents(tree[q].real, n)
    <3>1. CASE q = p
      BY <2>1, <3>1
    <3>2. CASE q # p
      <4>1. FileDone(q)
        BY <2>2, <2>8, <3>2
      <4>2. disk[At(q, n)] = Contents(tree[q].real, n) /\ Filled(q) = Slots(q)
        BY <1>4, <4>1 DEF Filled, FileDone, IsDir
      <4>3. At(q, n) \in DOMAIN disk
        BY <1>4, <1>6, <4>2
      <4> QED
        BY <2>6, <4>2, <4>3
    <3> QED
      BY <3>1, <3>2
  <2>9. \A o \in EntryJobs' \ Todo' :
          LET g == At(Front(o[1]), Position(Front(o[1]), o))'
          IN  g \in DOMAIN disk' /\ disk'[g] = Entry(o[1], o[2])'
    BY <1>1, <2>7, SameNodes
  <2>10. \A q \in DOMAIN tree' : FileDone(q)' =>
           \A n \in 0 .. (Slots(q)' - 1) : disk'[At(q, n)'] = Contents(tree'[q].real, n)
    BY <1>1, <2>8, SameNodes
  <2>11. DiskInv'
    BY <2>5, <2>9, <2>10 DEF DiskInv, Contents
  <2> QED
    BY <1>2, <1>3, <2>11
<1> QED
  BY <1>7, <1>8

-----------------------------------------------------------------------------
(* The invariant of the image *)

LEMMA ImageInit == Init => ImageInv
<1> SUFFICES ASSUME Init PROVE ImageInv
  OBVIOUS
<1>1. phase = "parse" /\ cursor = <<>> /\ ~ Finished
  BY DEF Init, Finished
<1>2. DOMAIN cursor = {}
  BY <1>1
<1> QED
  BY <1>1, <1>2, FatInit DEF ImageInv, PassInv, CursorInv, DiskInv, CursorInChain

\* Before the FAT is written there are no cursors to move.
LEMMA EarlyImage ==
  ASSUME IInv, ImageInv, phase \in {"parse", "alloc", "fat"},
         phase' \in {"parse", "alloc", "fat", "crash"}, cursor' = cursor
  PROVE  PassInv' /\ CursorInv' /\ DiskInv'
<1>1. cursor = <<>>
  BY DEF ImageInv, FatInv
<1>2. DOMAIN cursor' = {}
  BY <1>1
<1>3. ~ Finished'
  BY DEF Finished
<1> QED
  BY <1>2, <1>3 DEF PassInv, CursorInv, DiskInv, CursorInChain, Finished

LEMMA WriteFatImage ==
  ASSUME IInv, ImageInv, WriteFat
  PROVE  PassInv' /\ CursorInv' /\ DiskInv'
<1>1. /\ phase = "fat" /\ phase' = IF clusters[Root] = <<>> THEN "crash" ELSE "entries"
      /\ pending' = EntryJobs /\ UNCHANGED <<tree, clusters, total, disk>> /\ Allocated
  BY DEF WriteFat, Allocated
<1>2. EntryJobs' = EntryJobs /\ \A p : IsDir(p)' = IsDir(p)
  BY <1>1, SameNodes
<1>3. disk' = <<>> /\ DOMAIN disk' = {}
  BY <1>1 DEF ImageInv, FatInv
<1>4. phase' = "entries" => \A d : EntriesDone(d)' = {}
  BY <1>1, <1>2 DEF EntriesDone, Todo
<1>5. phase' = "entries" => \A d : Filled(d)' = 0
  <2> SUFFICES ASSUME phase' = "entries", NEW d PROVE Filled(d)' = 0
    OBVIOUS
  <2>1. Cardinality(EntriesDone(d))' = 0
    <3>1. EntriesDone(d)' = {}
      BY <1>4
    <3> QED
      BY <3>1, FS_EmptySet
  <2>2. ~ FileDone(d)'
    BY DEF FileDone
  <2> QED
    BY <2>1, <2>2 DEF Filled
<1>6. ASSUME NEW d \in DOMAIN cursor'
      PROVE  1 \in DOMAIN clusters[d] /\ cursor'[d].clust = clusters[d][1] /\ cursor'[d].now = 0
  <2>1. d \in DOMAIN tree /\ clusters[d] # <<>> /\ cursor'[d] = [clust |-> clusters[d][1], now |-> 0]
    BY DEF WriteFat
  <2>2. clusters[d] \in Seq(Nat)
    BY <1>1, <2>1 DEF IInv, TypeInv, TypeOK
  <2>3. Len(clusters[d]) \in Nat \ {0} /\ DOMAIN clusters[d] = 1 .. Len(clusters[d])
    BY <2>1, <2>2, EmptySeq, LenProperties
  <2> QED
    BY <2>1, <2>3
<1>7. CursorInv'
  <2>1. CursorInChain'
    BY <1>1, <1>6 DEF CursorInChain
  <2>2. ASSUME phase' = "entries", NEW d \in DOMAIN cursor' PROVE Behind(d, cursor[d])'
    <3>1. (1 - 1) * SlotsPerClus + 0 = 0
      BY SlotsType
    <3>2. (1 - 1) * SlotsPerClus + cursor'[d].now = Filled(d)'
      BY <1>5, <1>6, <2>2, <3>1
    <3> QED
      BY <1>1, <1>6, <3>2 DEF Behind
  <2> QED
    BY <2>1, <2>2 DEF CursorInv
<1>8. PassInv'
  BY <1>1, <1>2 DEF PassInv, Finished, Todo
<1>9. DiskInv'
  <2> SUFFICES ASSUME Finished' PROVE DiskInv'
    BY DEF DiskInv
  <2>1. phase' = "entries"
    BY <1>1 DEF Finished
  <2>2. Occupied' = {}
    BY <1>5, <2>1 DEF Occupied
  <2>3. \A p : ~ FileDone(p)'
    BY <2>1 DEF FileDone
  <2>4. EntryJobs' \ Todo' = {}
    BY <1>1, <1>2, <2>1 DEF Todo
  <2> QED
    BY <1>3, <2>2, <2>3, <2>4 DEF DiskInv
<1> QED
  BY <1>7, <1>8, <1>9

\* The passes change where nothing is left to do.
LEMMA TurnOfPass ==
  ASSUME IInv, ImageInv, StartFill \/ Close
  PROVE  PassInv' /\ CursorInv' /\ DiskInv'
<1>1. /\ UNCHANGED <<tree, clusters, cursor, disk>> /\ Finished /\ Finished' /\ phase' # "entries"
      /\ pending = {} /\ Todo = {} /\ Todo' = {}
  BY DEF StartFill, Close, Finished, Todo
<1>2. \A p \in DOMAIN tree : FileDone(p)' <=> FileDone(p)
  <2> TAKE p \in DOMAIN tree
  <2>1. CASE StartFill
    <3>1. phase = "entries" /\ phase' = "fill" /\ pending' = Jobs({q \in DOMAIN tree : tree[q].kind = "file"})
      BY <2>1 DEF StartFill
    <3>2. tree[p].kind = "file" => <<p, 1>> \in pending'
      BY <3>1 DEF Jobs
    <3> QED
      BY <1>1, <3>1, <3>2 DEF FileDone
  <2>2. CASE Close
    <3>1. phase = "fill" /\ phase' = "done"
      BY <2>2 DEF Close
    <3> QED
      BY <1>1, <3>1 DEF FileDone
  <2> QED
    BY <2>1, <2>2
<1>3. \A p : EntriesDone(p)' = EntriesDone(p) /\ Slots(p)' = Slots(p) /\ IsDir(p)' = IsDir(p)
  BY <1>1, SameNodes DEF EntriesDone
<1>4. \A p \in DOMAIN tree : Filled(p)' = Filled(p)
  BY <1>2, <1>3 DEF Filled
<1>5. Occupied' = Occupied
  BY <1>1, <1>4, SameNodes DEF Occupied
<1>6. DiskInv'
  BY <1>1, <1>2, <1>5, SameNodes DEF ImageInv, DiskInv, Contents
<1>7. PassInv'
  BY <1>1, SameNodes DEF ImageInv, PassInv, StartFill, Close, Jobs
<1>8. CursorInv'
  BY <1>1 DEF ImageInv, CursorInv, CursorInChain
<1> QED
  BY <1>6, <1>7, <1>8

LEMMA ImageKept ==
  ASSUME IInv, ImageInv, UNCHANGED vars
  PROVE  PassInv' /\ CursorInv' /\ DiskInv'
<1>1. /\ UNCHANGED <<tree, clusters, cursor, disk, pending, phase>> /\ Todo' = Todo
      /\ (Finished' <=> Finished)
  BY DEF vars, Todo, Finished
<1>2. \A p : FileDone(p)' <=> FileDone(p)
  BY <1>1 DEF FileDone
<1>3. \A p : EntriesDone(p)' = EntriesDone(p) /\ Slots(p)' = Slots(p) /\ IsDir(p)' = IsDir(p)
  BY <1>1, SameNodes DEF EntriesDone
<1>4. \A p : Filled(p)' = Filled(p)
  BY <1>2, <1>3 DEF Filled
<1>5. Occupied' = Occupied
  BY <1>1, <1>4, SameNodes DEF Occupied
<1>6. DiskInv'
  BY <1>1, <1>2, <1>5, SameNodes DEF ImageInv, DiskInv, Contents
<1>7. PassInv'
  BY <1>1, SameNodes DEF ImageInv, PassInv, Jobs, JobBefore
<1>8. CursorInv'
  BY <1>1, <1>4 DEF ImageInv, CursorInv, CursorInChain, Behind
<1> QED
  BY <1>6, <1>7, <1>8

LEMMA ImageStep == IInv /\ ImageInv /\ [Next]_vars => ImageInv'
<1> SUFFICES ASSUME IInv, ImageInv, [Next]_vars PROVE ImageInv'
  OBVIOUS
<1>1. FatInv'
  BY FatStep DEF ImageInv
<1>2. ASSUME \/ \E x \in Vols : VolLine(x)
             \/ \E p \in DirArgs : DirLine(p)
             \/ \E r \in Reals : RealLine(r)
             \/ \E a \in FileArgs : FileLine(a[1], a[2])
             \/ \E a \in LnameArgs : LnameLine(a[1], a[2], a[3])
      PROVE  PassInv' /\ CursorInv' /\ DiskInv'
  <2>1. phase = "parse" /\ phase' \in {"parse", "crash"} /\ cursor' = cursor
    BY <1>2 DEF VolLine, DirLine, RealLine, FileLine, LnameLine, Parsed, Segfault, Line
  <2> QED
    BY <2>1, EarlyImage
<1>3. ASSUME \/ StartAlloc \/ StartFat
             \/ \E p \in DOMAIN tree : AllocCluster(p) \/ GenerateFat(p)
      PROVE  PassInv' /\ CursorInv' /\ DiskInv'
  <2>1. phase \in {"parse", "alloc", "fat"} /\ phase' \in {"alloc", "fat"} /\ cursor' = cursor
    BY <1>3 DEF StartAlloc, StartFat, AllocCluster, GenerateFat
  <2> QED
    BY <2>1, EarlyImage
<1>4. CASE WriteFat
  BY <1>1, <1>4, WriteFatImage DEF ImageInv
<1>5. ASSUME NEW job \in pending, WriteEntry(job[1], job[2]) PROVE ImageInv'
  BY <1>1, <1>5, WriteEntryImage DEF ImageInv
<1>6. ASSUME NEW p \in DOMAIN tree, FillFile(p) PROVE ImageInv'
  BY <1>1, <1>6, FillFileImage DEF ImageInv
<1>7. CASE StartFill \/ Close
  BY <1>1, <1>7, TurnOfPass DEF ImageInv
<1>8. CASE UNCHANGED vars
  BY <1>1, <1>8, ImageKept DEF ImageInv
<1> QED
  BY <1>1, <1>2, <1>3, <1>4, <1>5, <1>6, <1>7, <1>8 DEF Next, Exited, ImageInv

LEMMA ImageInvariance == Spec => [](IInv /\ ImageInv)
<1>1. Init => IInv /\ ImageInv
  BY InitInv, ImageInit
<1>2. IInv /\ ImageInv /\ [Next]_vars => (IInv /\ ImageInv)'
  BY StepInv, ImageStep
<1> QED
  BY <1>1, <1>2, PTL DEF Spec

-----------------------------------------------------------------------------
(* What the finished image holds *)

\* What was written stays as it is.
LEMMA DiskKept ==
  ASSUME IInv, ImageInv, [Next]_vars, NEW g \in DOMAIN disk
  PROVE  g \in DOMAIN disk' /\ disk'[g] = disk[g]
<1>1. ASSUME NEW job \in pending, WriteEntry(job[1], job[2])
      PROVE  g \in DOMAIN disk' /\ disk'[g] = disk[g]
  <2> DEFINE d == Front(job[1])
             h == At(d, Filled(d))
  <2>1. CASE NoFirstCluster(job[1])
    BY <1>1, <2>1 DEF WriteEntry
  <2>2. CASE ~ NoFirstCluster(job[1])
    <3>1. /\ d \in DOMAIN tree /\ Filled(d) \in Nat /\ Filled(d) < Slots(d) /\ Slots(d) \in Nat
          /\ DOMAIN disk' = {h} \cup DOMAIN disk /\ phase = "entries"
          /\ \A x \in DOMAIN disk \ {h} : disk'[x] = disk[x]
      BY <1>1, <2>2, EntryWritten
    <3>2. Finished
      BY <3>1 DEF Finished
    <3>3. Filled(d) \in 0 .. (Slots(d) - 1)
      BY <3>1
    <3>4. h \notin Occupied
      BY <3>1, <3>2, <3>3, FreshSlot
    <3>5. h \notin DOMAIN disk
      BY <3>2, <3>4 DEF ImageInv, DiskInv
    <3> HIDE DEF h
    <3> QED
      BY <3>1, <3>5
  <2> QED
    BY <2>1, <2>2
<1>2. ASSUME NEW p \in DOMAIN tree, FillFile(p)
      PROVE  g \in DOMAIN disk' /\ disk'[g] = disk[g]
  <2>1. CASE tree[p].real \notin DOMAIN RealSlots
    BY <1>2, <2>1 DEF FillFile
  <2>2. CASE tree[p].real \in DOMAIN RealSlots
    <3> DEFINE new == {At(p, n) : n \in 0 .. (Slots(p) - 1)}
    <3>1. Finished /\ DOMAIN disk = Occupied
      BY <1>2 DEF FillFile, Finished, ImageInv, DiskInv
    <3>2. Filled(p) = 0
      BY <1>2, FillCounts
    <3>3. g \notin new
      BY <3>1, <3>2, FreshSlot
    <3> HIDE DEF new
    <3>4. DOMAIN disk' = new \cup DOMAIN disk /\ (g \notin new => disk'[g] = disk[g])
      BY <1>2, <2>2, FileWritten DEF new
    <3> QED
      BY <3>3, <3>4
  <2> QED
    BY <2>1, <2>2
<1>3. ASSUME \/ \E x \in Vols : VolLine(x)
             \/ \E p \in DirArgs : DirLine(p)
             \/ \E r \in Reals : RealLine(r)
             \/ \E a \in FileArgs : FileLine(a[1], a[2])
             \/ \E a \in LnameArgs : LnameLine(a[1], a[2], a[3])
             \/ StartAlloc \/ StartFat \/ WriteFat \/ StartFill \/ Close \/ UNCHANGED vars
             \/ \E p \in DOMAIN tree : AllocCluster(p) \/ GenerateFat(p)
      PROVE  disk' = disk
  BY <1>3 DEF VolLine, DirLine, RealLine, FileLine, LnameLine, Line, StartAlloc, StartFat,
              WriteFat, StartFill, Close, AllocCluster, GenerateFat, vars
<1> QED
  BY <1>1, <1>2, <1>3 DEF Next, Exited

\* The directories that the recursion of generate_fileentry comes to list all
\* that hangs in them.
LEMMA ChildrenListed ==
  ASSUME IInv, NEW d \in DOMAIN tree, d = Root \/ (Listed(d) /\ ~ IsDotName(Last(d))),
         NEW job \in EntriesIn(d)
  PROVE  job \in EntryJobs /\ Front(job[1]) = d
<1>1. PICK c \in Children(d) : job \in {c} \X (1 .. EntryLen(c))
  BY DEF EntriesIn
<1>2. c \in DOMAIN tree /\ c # Root /\ Front(c) = d
  BY <1>1 DEF Children
<1>3. d \in Path
  BY DEF IInv, TypeInv, TreeOK
<1>4. ASSUME NEW q \in Prefixes(d), q # Root PROVE ~ IsDotName(Last(q))
  <2>1. d # Root
    BY <1>3, <1>4, FrontOfPrefix
  <2>2. PICK l \in 0 .. Len(d) : q = SubSeq(d, 1, l)
    BY DEF Prefixes
  <2>3. Len(d) \in Nat \ {0} /\ Len(Front(d)) = Len(d) - 1
    BY <1>3, <2>1, EmptySeq, FrontType DEF Path, Root
  <2>4. CASE l = Len(d)
    <3>1. q = d
      BY <1>3, <2>2, <2>4, SubSeqFull DEF Path
    <3> QED
      BY <2>1, <3>1
  <2>5. CASE l # Len(d)
    <3>1. l # 0
      BY <1>4, <2>2, SubSeqEmpty DEF Root
    <3>2. l \in 1 .. (Len(d) - 1)
      BY <2>3, <2>5, <3>1
    <3>3. SubSeq(SubSeq(d, 1, Len(d) - 1), 1, l) = SubSeq(d, 1 + 1 - 1, 1 + l - 1)
      <4>1. 1 \in 1 .. Len(d) /\ Len(d) - 1 \in 1 .. Len(d)
        BY <2>3, <3>2
      <4>2. 1 \in 1 .. (Len(d) - 1 - 1 + 1) /\ l \in 1 .. (Len(d) - 1 - 1 + 1)
        BY <2>3, <3>2
      <4> QED
        BY <1>3, <4>1, <4>2, SubSeqOfSubSeq DEF Path
    <3>4. 1 + 1 - 1 = 1 /\ 1 + l - 1 = l
      BY <3>2
    <3>5. SubSeq(SubSeq(d, 1, Len(d) - 1), 1, l) = SubSeq(d, 1, l)
      BY <3>3, <3>4
    <3>6. q = SubSeq(Front(d), 1, l)
      BY <2>2, <3>5, Zenon DEF Front
    <3>7. l \in 0 .. Len(Front(d))
      BY <2>3, <3>2
    <3>8. q \in Prefixes(Front(d))
      BY <3>6, <3>7, Zenon DEF Prefixes
    <3> QED
      BY <1>4, <2>1, <3>8 DEF Listed
  <2> QED
    BY <2>4, <2>5
<1>5. Listed(c)
  BY <1>2, <1>4 DEF Listed
<1> QED
  BY <1>1, <1>2, <1>5 DEF EntryJobs

\* No name is taken for "." and for "..".
LEMMA NotBothDots == \A n : ~ (IsDot(n) /\ IsDotDot(n))
BY StemsAssumption DEF IsDot, IsDotDot, Dot, DotDot, PlainId

\* An entry says of its node what the reader looks for.
LEMMA EntryDescribes ==
  ASSUME NEW c, tree[c] \in Node, NEW k \in 1 .. EntryLen(c)
  PROVE  Describes(Entry(c, k), c, k)
<1>1. CASE tree[c].kind = "long"
  <2> DEFINE n == EntryLen(c) - k + 1
             num == Num(n, tree[c].size)
  <2>1. tree[c].size \in Nat /\ tree[c].size < 3328 /\ EntryLen(c) = Fragments(tree[c].size)
    BY <1>1 DEF Node, EntryLen
  <2>2. n \in Nat \ {0} /\ (n = 256 => FragmentSize * n > tree[c].size) /\ n <= 256
    BY <2>1 DEF Fragments, FragmentSize
  <2> HIDE DEF n
  <2>3. num # 0 /\ num % LastMark = n % LastMark
    BY <2>2 DEF Num, HasMark, LastMark
  <2>4. Entry(c, k) = [attr |-> "long", name |-> Last(c), num |-> num]
    BY <1>1 DEF Entry, LongEntry, n
  <2> HIDE DEF num
  <2> QED
    BY <1>1, <2>1, <2>3, <2>4 DEF Describes, IsDir, n
<1>2. CASE tree[c].kind # "long"
  <2>1. /\ Entry(c, k).attr = tree[c].kind /\ Entry(c, k).name = Last(c)
        /\ Entry(c, k).first = FirstCluster(c)
        /\ tree[c].kind = "file" => Entry(c, k).len = tree[c].size
    BY <1>2 DEF Entry, ShortEntry
  <2>2. tree[c].kind = "file" => FirstCluster(c) = clusters[c][1]
    <3>1. SUFFICES ASSUME tree[c].kind = "file" PROVE FirstCluster(c) = clusters[c][1]
      OBVIOUS
    <3>2. ~ IsDir(c)
      BY <3>1 DEF IsDir
    <3> QED
      BY <3>1, <3>2 DEF FirstCluster
  <2>3. IsDir(c) /\ ~ IsDotName(Last(c)) => FirstCluster(c) = clusters[c][1]
    BY DEF FirstCluster, IsDotName
  <2>4. IsDir(c) /\ IsDot(Last(c)) => FirstCluster(c) = clusters[Front(c)][1]
    BY NotBothDots DEF FirstCluster
  <2> QED
    BY <1>2, <2>1, <2>2, <2>3, <2>4 DEF Describes
<1> QED
  BY <1>1, <1>2

LEMMA DirectoriesReadBack == IInv /\ ImageInv => DirReadsBack
<1> SUFFICES ASSUME IInv, ImageInv, phase = "done", NEW d \in DOMAIN tree, IsDir(d),
                    d = Root \/ (Listed(d) /\ ~ IsDotName(Last(d)))
             PROVE  LET first == clusters[d][1]
                    IN  /\ \A job \in EntriesIn(d) :
                             Describes(Slot(first, Position(d, job)), job[1], job[2])
                        /\ Slot(first, Cardinality(EntriesIn(d))).attr = "zero"
                        /\ Nth(first, Cardinality(EntriesIn(d)) \div SlotsPerClus) # EndOfChain
  BY DEF DirReadsBack
<1> DEFINE first == clusters[d][1]
           n == Cardinality(EntriesIn(d))
<1>1. Finished /\ Allocated /\ Todo = {} /\ FatInv
  BY DEF Finished, Allocated, Todo, ImageInv
<1>2. clusters[d] # <<>>
  <2>1. CASE d = Root
    BY <1>1, <2>1 DEF ImageInv, PassInv
  <2>2. CASE d # Root
    <3>1. EntryLen(d) = 1 /\ Listed(d) /\ ~ IsDotName(Last(d))
      BY <2>2 DEF EntryLen, IsDir
    <3>2. <<d, 1>> \in EntryJobs
      BY <3>1 DEF EntryJobs
    <3>3. ~ NoFirstCluster(<<d, 1>>[1])
      BY <1>1, <3>2 DEF ImageInv, PassInv
    <3> QED
      BY <3>1, <3>3 DEF NoFirstCluster
  <2> QED
    BY <2>1, <2>2
<1>3. n \in Nat /\ Slots(d) \in Nat /\ n < Slots(d)
  BY <1>1, <1>2, RoomForEntries
<1>4. ASSUME NEW m \in 0 .. (Slots(d) - 1)
      PROVE  Slot(first, m) = IF At(d, m) \in DOMAIN disk THEN disk[At(d, m)] ELSE [attr |-> "zero"]
  BY <1>1, SlotAt DEF Slot
<1>5. ASSUME NEW job \in EntriesIn(d)
      PROVE  Describes(Slot(first, Position(d, job)), job[1], job[2])
  <2>1. job \in EntryJobs /\ Front(job[1]) = d
    BY ChildrenListed
  <2>2. /\ At(d, Position(d, job)) \in DOMAIN disk
        /\ disk[At(d, Position(d, job))] = Entry(job[1], job[2])
    BY <1>1, <2>1 DEF ImageInv, DiskInv
  <2>3. Position(d, job) \in 0 .. (Slots(d) - 1)
    <3>1. IsFiniteSet(EntriesIn(d))
      BY EntriesFinite DEF IInv, TypeInv
    <3>2. {o \in EntriesIn(d) : JobBefore(o, job)} \in SUBSET EntriesIn(d)
      OBVIOUS
    <3>3. Position(d, job) \in Nat /\ Position(d, job) <= n
      BY <3>1, <3>2, FS_Subset, FS_CardinalityType DEF Position
    <3> QED
      BY <1>3, <3>3
  <2>4. Slot(first, Position(d, job)) = Entry(job[1], job[2])
    BY <1>4, <2>2, <2>3
  <2>5. tree[job[1]] \in Node /\ job[2] \in 1 .. EntryLen(job[1])
    <3>1. job[1] \in DOMAIN tree
      BY <2>1, JobInDirectory
    <3>2. \A q \in DOMAIN tree : tree[q] \in Node
      BY DEF IInv, TypeInv, TypeOK, TreeOK
    <3>3. PICK c \in Children(d) : job \in {c} \X (1 .. EntryLen(c))
      BY DEF EntriesIn
    <3> QED
      BY <3>1, <3>2, <3>3
  <2> QED
    BY <2>4, <2>5, EntryDescribes
<1>6. Slot(first, n) = [attr |-> "zero"] /\ Nth(first, n \div SlotsPerClus) # EndOfChain
  <2>1. n \in 0 .. (Slots(d) - 1)
    BY <1>3
  <2>2. Filled(d) <= n
    BY DoneCount DEF Filled
  <2>3. At(d, n) \notin DOMAIN disk
    BY <1>1, <2>1, <2>2, FreshSlot DEF ImageInv, DiskInv
  <2>4. Nth(first, n \div SlotsPerClus) \in Nat
    BY <1>1, <2>1, SlotAt
  <2> QED
    BY <1>4, <2>1, <2>3, <2>4, EndOfChainAssumption
<1> QED
  BY <1>5, <1>6

LEMMA FilesReadBack == IInv /\ ImageInv => FileReadsBack
<1> SUFFICES ASSUME IInv, ImageInv, phase = "done", NEW p \in DOMAIN tree,
                    tree[p].kind = "file", tree[p].real \in DOMAIN RealSlots,
                    NEW n \in 0 .. ((tree[p].size + FileEntrySize - 1) \div FileEntrySize - 1)
             PROVE  Slot(clusters[p][1], n) = Contents(tree[p].real, n)
  BY DEF FileReadsBack
<1> DEFINE size == tree[p].size
<1>1. Finished /\ Allocated /\ FatInv /\ FileDone(p) /\ ~ IsDir(p)
  BY DEF Finished, Allocated, ImageInv, FileDone, IsDir
<1>2. size \in Nat
  BY DEF IInv, TypeInv, TypeOK, Node
<1>3. clusters[p] \in Seq(Nat) /\ Len(clusters[p]) = ClustersFor(size)
  BY <1>1 DEF IInv, TypeInv, TypeOK, AllocInv, AllocCount
<1>4. Slots(p) \in Nat
  BY <1>3, LenProperties, SlotsType DEF Slots
<1>5. size < FileEntrySize * Slots(p)
  BY <1>2, <1>3, RoomForSize DEF Slots
<1> HIDE DEF size
<1>6. n \in 0 .. (Slots(p) - 1)
  <2>1. n \in 0 .. ((size + 32 - 1) \div 32 - 1)
    BY DEF size, FileEntrySize
  <2> QED
    BY <1>2, <1>4, <1>5, <2>1 DEF FileEntrySize
<1>7. Filled(p) = Slots(p) /\ disk[At(p, n)] = Contents(tree[p].real, n)
  BY <1>1, <1>6 DEF Filled, ImageInv, DiskInv
<1>8. At(p, n) \in DOMAIN disk
  BY <1>1, <1>6, <1>7 DEF ImageInv, DiskInv, Occupied
<1> QED
  BY <1>1, <1>6, <1>7, <1>8, SlotAt DEF Slot

\* In the image's FAT, the chain of each node has its clusters and ends there,
\* for every touch.txt and every geometry (write.cpp:203-208, 293-305, 554-556).
THEOREM ChainsInImage == Spec => []FatChains
<1>1. IInv /\ ImageInv => FatChains
  BY ChainsFollow DEF ImageInv
<1> QED
  BY <1>1, ImageInvariance, PTL

\* No cursor leaves the clusters of its directory: the error branch of check()
\* is dead (write.cpp:336-343).
THEOREM CursorsInChains == Spec => []CursorInChain
<1>1. IInv /\ ImageInv => CursorInChain
  BY DEF ImageInv, CursorInv
<1> QED
  BY <1>1, ImageInvariance, PTL

\* Nothing in the data region is written over (write.cpp:222-231, 358-366).
THEOREM WrittenOnce == Spec => WriteOnce
<1>1. IInv /\ ImageInv /\ [Next]_vars
        => [\A g \in DOMAIN disk : g \in DOMAIN disk' /\ disk'[g] = disk[g]]_vars
  BY DiskKept
<1> QED
  BY <1>1, ImageInvariance, PTL DEF Spec, WriteOnce

\* A reader finds the entries of a directory along its chain, in the order of
\* the names, each leading to its node, and then a zero (write.cpp:344-370).
THEOREM DirectoriesComplete == Spec => []DirReadsBack
<1>1. IInv /\ ImageInv => DirReadsBack
  BY DirectoriesReadBack
<1> QED
  BY <1>1, ImageInvariance, PTL

\* A reader finds the contents of a host file along the chain of the file that
\* stands for it, however many clusters it takes (write.cpp:210-232).
THEOREM FilesComplete == Spec => []FileReadsBack
<1>1. IInv /\ ImageInv => FileReadsBack
  BY FilesReadBack
<1> QED
  BY <1>1, ImageInvariance, PTL

-----------------------------------------------------------------------------
(* The writer implements Volume *)

LEMMA PrefixOfLonger ==
  ASSUME NEW S, NEW s \in Seq(S), NEW t \in Seq(S), Len(s) < Len(t),
         \A i \in 1 .. Len(s) : s[i] = t[i]
  PROVE  IsStrictPrefix(s, t)
<1>1. Len(s) \in Nat /\ Len(t) \in Nat
  BY LenProperties
<1>2. SubSeq(s, 1, Len(s)) = s
  BY SubSeqFull
<1>3. \A i \in 1 .. Len(s) : t[i] \in S
  BY <1>1, ElementOfSeq
<1>4. /\ SubSeq(t, 1, Len(s)) \in Seq(S)
      /\ Len(SubSeq(t, 1, Len(s))) = IF 1 <= Len(s) THEN Len(s) - 1 + 1 ELSE 0
      /\ \A i \in 1 .. Len(s) - 1 + 1 : SubSeq(t, 1, Len(s))[i] = t[1 + i - 1]
  BY <1>1, <1>3, SubSeqProperties
<1> DEFINE u == SubSeq(t, 1, Len(s))
<1>5. Len(u) = Len(s)
  BY <1>1, <1>4
<1>6. \A i \in 1 .. Len(s) : s[i] = u[i]
  <2> TAKE i \in 1 .. Len(s)
  <2>1. i \in 1 .. Len(s) - 1 + 1 /\ 1 + i - 1 = i
    BY <1>1
  <2> QED
    BY <1>4, <2>1
<1>7. s = u
  <2> HIDE DEF u
  <2>1. u \in Seq(S)
    BY <1>4 DEF u
  <2> QED
    BY <1>5, <1>6, <2>1, SeqEqual
<1>8. s # t
  BY <1>1
<1> QED
  BY <1>1, <1>2, <1>7, <1>8 DEF IsStrictPrefix, IsPrefix

\* What the image has of a node is what was written of it.
Held(p) == [n \in 1 .. Filled(p) |-> disk[At(p, n - 1)]]

LEMMA ContentsHeld ==
  ASSUME IInv, ImageInv, Finished, NEW p \in DOMAIN tree, clusters[p] # <<>>
  PROVE  ContentsOf(p) = Held(p)
<1> DEFINE at(n) == <<Nth(clusters[p][1], n \div SlotsPerClus), n % SlotsPerClus>>
           Ends(n) == at(n) \notin DOMAIN disk /\ \A m \in 0 .. (n - 1) : at(m) \in DOMAIN disk
           first == CHOOSE n \in 0 .. (Len(clusters[p]) * SlotsPerClus) : Ends(n)
           f == Filled(p)
<1>1. Allocated /\ phase # "alloc" /\ FatInv /\ DOMAIN disk = Occupied
  BY DEF Finished, Allocated, ImageInv, DiskInv
<1>2. f \in Nat /\ Slots(p) \in Nat /\ f <= Slots(p)
  BY <1>1, FilledBound
<1>3. \A n \in 0 .. (Slots(p) - 1) : at(n) = At(p, n)
  BY <1>1, SlotAt
<1>4. \A m \in 0 .. (f - 1) : at(m) \in DOMAIN disk
  BY <1>1, <1>2, <1>3 DEF Occupied
<1>5. at(f) \notin DOMAIN disk
  <2>1. CASE f < Slots(p)
    <3>1. f \in 0 .. (Slots(p) - 1)
      BY <1>2, <2>1
    <3>2. At(p, f) \notin Occupied
      BY <1>2, <3>1, FreshSlot
    <3> QED
      BY <1>1, <1>3, <3>1, <3>2
  <2>2. CASE f = Slots(p)
    <3>1. clusters[p] \in Seq(Nat) /\ Chained(clusters[p]) /\ EndOfChain \notin DOMAIN imageFat
      BY <1>1, NodesChained
    <3>2. Len(clusters[p]) \in Nat /\ SlotsPerClus \in Nat \ {0}
      BY <3>1, LenProperties, SlotsType
    <3>3. f \div SlotsPerClus = Len(clusters[p])
      <4>1. f = Len(clusters[p]) * SlotsPerClus + 0 /\ 0 \in 0 .. (SlotsPerClus - 1)
        BY <2>2, <3>2 DEF Slots
      <4> HIDE DEF f
      <4> QED
        BY <1>2, <3>2, <4>1, QuotientUnique
    <3>4. Nth(clusters[p][1], Len(clusters[p])) = EndOfChain
      BY <3>1, <3>2, NthAlong DEF Along
    <3>5. at(f)[1] = EndOfChain
      BY <3>3, <3>4
    <3>6. \A q \in DOMAIN tree : \A m \in 0 .. (Filled(q) - 1) : At(q, m)[1] \in Nat
      <4> TAKE q \in DOMAIN tree
      <4> TAKE m \in 0 .. (Filled(q) - 1)
      <4>1. m \in 0 .. (Slots(q) - 1)
        BY <1>1, FilledBound
      <4>2. <<Nth(clusters[q][1], m \div SlotsPerClus), m % SlotsPerClus>> = At(q, m)
            /\ Nth(clusters[q][1], m \div SlotsPerClus) \in Nat
        BY <1>1, <4>1, SlotAt
      <4> QED
        BY <4>2 DEF At
    <3> HIDE DEF at
    <3>7. \A g \in Occupied : g[1] \in Nat
      BY <3>6 DEF Occupied
    <3> QED
      BY <1>1, <3>5, <3>7, EndOfChainAssumption
  <2> QED
    BY <1>2, <2>1, <2>2
<1> HIDE DEF at
<1>6. f \in 0 .. (Len(clusters[p]) * SlotsPerClus) /\ Ends(f)
  BY <1>2, <1>4, <1>5 DEF Slots
<1>7. ASSUME NEW n \in 0 .. (Len(clusters[p]) * SlotsPerClus), Ends(n) PROVE n = f
  <2>1. n \in Nat
    OBVIOUS
  <2>2. CASE n < f
    <3>1. n \in 0 .. (f - 1)
      BY <1>2, <2>1, <2>2
    <3> QED
      BY <1>4, <1>7, <3>1
  <2>3. CASE f < n
    <3>1. f \in 0 .. (n - 1)
      BY <1>2, <2>1, <2>3
    <3> QED
      BY <1>5, <1>7, <3>1
  <2> QED
    BY <1>2, <2>1, <2>2, <2>3
<1>8. first = f
  <2> HIDE DEF Ends, f
  <2>1. first \in 0 .. (Len(clusters[p]) * SlotsPerClus) /\ Ends(first)
    BY <1>6
  <2> QED
    BY <1>7, <2>1
<1>9. ContentsOf(p) = [n \in 1 .. first |-> disk[at(n - 1)]]
  BY DEF ContentsOf, at
<1>10. ASSUME NEW n \in 1 .. f PROVE at(n - 1) = At(p, n - 1)
  <2>1. n - 1 \in 0 .. (Slots(p) - 1)
    BY <1>2
  <2> QED
    BY <1>3, <2>1
<1> HIDE DEF first
<1>11. ContentsOf(p) = [n \in 1 .. f |-> disk[at(n - 1)]]
  BY <1>8, <1>9
<1> QED
  BY <1>10, <1>11 DEF Held

\* Contents that got longer by what was written behind them.
LEMMA HeldLonger ==
  ASSUME IInv, ImageInv, ImageInv', NEW p \in DOMAIN tree, UNCHANGED <<tree, clusters>>,
         Filled(p) \in Nat, Filled(p)' \in Nat, Filled(p) < Filled(p)', Finished,
         \A g \in DOMAIN disk : g \in DOMAIN disk' /\ disk'[g] = disk[g]
  PROVE  IsStrictPrefix(Held(p), Held(p)')
<1> DEFINE a == Filled(p)
           b == Filled(p)'
           s == [n \in 1 .. a |-> disk[At(p, n - 1)]]
           t == [n \in 1 .. b |-> disk'[At(p, n - 1)]]
           S == {disk'[At(p, n - 1)] : n \in 1 .. b}
<1>1. Held(p) = s /\ Held(p)' = t
  BY SameNodes DEF Held
<1>2. \A n \in 1 .. a : disk'[At(p, n - 1)] = disk[At(p, n - 1)]
  <2> TAKE n \in 1 .. a
  <2>1. n - 1 \in 0 .. (Filled(p) - 1)
    OBVIOUS
  <2>2. At(p, n - 1) \in DOMAIN disk
    BY <2>1 DEF ImageInv, DiskInv, Occupied
  <2> QED
    BY <2>2
<1> HIDE DEF a, b
<1>3. a \in Nat /\ b \in Nat /\ a < b
  BY DEF a, b
<1>4. t \in Seq(S) /\ Len(t) = b
  <2>1. \A n \in 1 .. b : disk'[At(p, n - 1)] \in S
    OBVIOUS
  <2> HIDE DEF S
  <2> QED
    BY <1>3, <2>1
<1>5. s \in Seq(S) /\ Len(s) = a
  <2>1. \A n \in 1 .. a : disk[At(p, n - 1)] \in S
    BY <1>2, <1>3
  <2> HIDE DEF S
  <2> QED
    BY <1>3, <2>1
<1>6. \A n \in 1 .. Len(s) : s[n] = t[n]
  BY <1>2, <1>3, <1>5
<1> HIDE DEF s, t, S
<1>7. IsStrictPrefix(s, t)
  BY <1>3, <1>4, <1>5, <1>6, PrefixOfLonger
<1> QED
  BY <1>1, <1>7

LEMMA HeldKept ==
  ASSUME IInv, ImageInv, NEW p \in DOMAIN tree, UNCHANGED <<tree, clusters>>,
         Filled(p)' = Filled(p), Finished,
         \A g \in DOMAIN disk : g \in DOMAIN disk' /\ disk'[g] = disk[g]
  PROVE  Held(p)' = Held(p)
<1>1. Held(p)' = [n \in 1 .. Filled(p) |-> disk'[At(p, n - 1)]]
  BY SameNodes DEF Held
<1>2. \A n \in 1 .. Filled(p) : disk'[At(p, n - 1)] = disk[At(p, n - 1)]
  <2> TAKE n \in 1 .. Filled(p)
  <2>1. Filled(p) \in Nat
    BY FilledBound DEF Finished, Allocated
  <2>2. n - 1 \in 0 .. (Filled(p) - 1)
    BY <2>1
  <2>3. At(p, n - 1) \in DOMAIN disk
    BY <2>2 DEF ImageInv, DiskInv, Occupied
  <2> QED
    BY <2>3
<1> QED
  BY <1>1, <1>2 DEF Held

LEMMA FormattedPhases ==
  ASSUME IInv, ImageInv
  PROVE  /\ Finished => Formatted
         /\ phase \in {"parse", "alloc", "fat"} => ~ Formatted
<1>1. ASSUME Finished PROVE Formatted
  <2>1. imageFat = fat /\ DOMAIN fat = 0 .. (total - 1)
    BY <1>1 DEF ImageInv, FatInv
  <2>2. 0 \in DOMAIN imageFat
    BY <2>1 DEF IInv, TypeInv, TypeOK
  <2> QED
    BY <2>2 DEF Formatted
<1> QED
  BY <1>1 DEF ImageInv, FatInv, Formatted

\* The contents of Volume, by the refinement mapping.
Stores == IF Formatted THEN [p \in Owners |-> ContentsOf(p)] ELSE <<>>

StoreFacts ==
  Finished => /\ Formatted /\ Owners = {p \in DOMAIN tree : clusters[p] # <<>>}
              /\ Stores = [p \in Owners |-> Held(p)]
              /\ \A p \in DOMAIN tree : Filled(p) \in Nat

LEMMA StoresHeld == IInv /\ ImageInv => StoreFacts
<1> SUFFICES ASSUME IInv, ImageInv, Finished PROVE StoreFacts
  BY DEF StoreFacts
<1>1. DOMAIN clusters = DOMAIN tree /\ Allocated /\ phase # "alloc"
  BY DEF IInv, TypeInv, Finished, Allocated
<1>2. Formatted /\ \A p \in DOMAIN tree : Filled(p) \in Nat
  BY <1>1, FormattedPhases, FilledBound
<1>3. Owners = {p \in DOMAIN tree : clusters[p] # <<>>}
  BY <1>1 DEF Owners
<1>4. Stores = [p \in Owners |-> Held(p)]
  BY <1>2, <1>3, ContentsHeld DEF Stores
<1> QED
  BY <1>2, <1>3, <1>4 DEF StoreFacts

LEMMA StoresHeldNext == (IInv /\ ImageInv => StoreFacts)'
BY StoresHeld, PTL

\* A step that writes behind what there is of one node.
LEMMA OneLonger ==
  ASSUME IInv, ImageInv, IInv', ImageInv', Finished, Finished', UNCHANGED <<tree, clusters>>,
         NEW d \in DOMAIN tree, clusters[d] # <<>>, Filled(d) < Filled(d)',
         \A p \in DOMAIN tree \ {d} : Filled(p)' = Filled(p),
         \A g \in DOMAIN disk : g \in DOMAIN disk' /\ disk'[g] = disk[g]
  PROVE  Stored!Extend
<1>1. /\ Formatted /\ Owners = {p \in DOMAIN tree : clusters[p] # <<>>}
      /\ Stores = [p \in Owners |-> Held(p)]
      /\ \A p \in DOMAIN tree : Filled(p) \in Nat
  BY StoresHeld DEF StoreFacts
<1>2. /\ Formatted' /\ Owners' = {p \in DOMAIN tree' : clusters'[p] # <<>>}
      /\ Stores' = [p \in Owners' |-> Held(p)']
      /\ \A p \in DOMAIN tree' : Filled(p)' \in Nat
  BY StoresHeldNext DEF StoreFacts
<1>3. Owners' = Owners /\ d \in Owners
  BY <1>1, <1>2
<1>4. IsStrictPrefix(Held(d), Held(d)')
  BY <1>1, <1>2, HeldLonger
<1>5. \A p \in Owners \ {d} : Held(p)' = Held(p)
  BY <1>1, HeldKept
<1>6. Stored!Longer(Stores, Stores')
  <2> DEFINE old == Stores
             new == Stores'
  <2>1. DOMAIN new = Owners /\ DOMAIN old = Owners
    BY <1>1, <1>2, <1>3
  <2>2. IsStrictPrefix(old[d], new[d])
    BY <1>1, <1>2, <1>3, <1>4
  <2>3. \A q \in Owners \ {d} : new[q] = old[q]
    BY <1>1, <1>2, <1>3, <1>5
  <2> HIDE DEF old, new
  <2>4. Stored!IsStrictPrefix(old[d], new[d])
    BY <2>2 DEF IsStrictPrefix, IsPrefix, Stored!IsStrictPrefix, Stored!IsPrefix
  <2>5. Stored!Longer(old, new)
    BY <1>3, <2>1, <2>3, <2>4 DEF Stored!Longer
  <2> QED
    BY <2>5 DEF old, new
<1> QED
  BY <1>1, <1>2, <1>6 DEF Stored!Extend, Stores

LEMMA StoresInit == Init => Stored!Init
BY DEF Init, Formatted, Stored!Init

\* Where neither the FAT nor the data region is written, nothing changes.
LEMMA StoresKept ==
  ASSUME UNCHANGED imageFat, Formatted => UNCHANGED <<clusters, disk>>
  PROVE  UNCHANGED Stored!vars
<1>1. Formatted' = Formatted
  BY DEF Formatted
<1>2. ASSUME Formatted PROVE Stores' = Stores
  <2>1. UNCHANGED <<clusters, disk, imageFat>>
    BY <1>2
  <2>2. Owners' = Owners /\ \A p : ContentsOf(p)' = ContentsOf(p)
    BY <2>1 DEF Owners, ContentsOf, Nth
  <2> QED
    BY <1>1, <2>2 DEF Stores
<1>3. ASSUME ~ Formatted PROVE Stores' = Stores
  BY <1>1, <1>3 DEF Stores
<1> QED
  BY <1>1, <1>2, <1>3 DEF Stored!vars, Stores

\* The step that writes the FAT lays the volume out, with nothing in it yet.
LEMMA StoresFormat ==
  ASSUME IInv, ImageInv, WriteFat
  PROVE  Stored!Format
<1>1. phase = "fat" /\ imageFat' = fat' /\ UNCHANGED <<tree, clusters, disk>> /\ Allocated
  BY DEF WriteFat, Allocated
<1>2. ~ Formatted /\ disk' = <<>> /\ DOMAIN disk' = {}
  BY <1>1, FormattedPhases DEF ImageInv, FatInv
<1>3. Formatted'
  <2>1. DOMAIN imageFat' = 0 .. (total - 1) /\ total \in Nat \ {0, 1}
    BY <1>1 DEF WriteFat, ImageInv, FatInv, IInv, TypeInv, TypeOK
  <2>2. 0 \in DOMAIN imageFat'
    BY <2>1
  <2> QED
    BY <2>2 DEF Formatted
<1>4. ASSUME NEW p \in Owners' PROVE ContentsOf(p)' = <<>>
  <2> DEFINE at(n) == <<Nth(clusters[p][1], n \div SlotsPerClus)', n % SlotsPerClus>>
             Ends(n) == at(n) \notin DOMAIN disk' /\ \A m \in 0 .. (n - 1) : at(m) \in DOMAIN disk'
             room == Len(clusters[p]) * SlotsPerClus
             first == CHOOSE n \in 0 .. room : Ends(n)
  <2>1. clusters[p] \in Seq(Nat)
    BY <1>1 DEF Owners, IInv, TypeInv, TypeOK
  <2>2. room \in Nat
    BY <2>1, LenProperties, SlotsType
  <2> HIDE DEF at
  <2>3. 0 \in 0 .. room /\ Ends(0)
    BY <1>2, <2>2
  <2>4. ASSUME NEW n \in 0 .. room, Ends(n) PROVE n = 0
    <3>1. 0 \notin 0 .. (n - 1)
      BY <1>2, <2>4
    <3> QED
      BY <2>2, <3>1
  <2>5. first = 0
    <3> HIDE DEF Ends, room
    <3>1. \E n \in 0 .. room : first = n /\ Ends(n)
      BY <2>3
    <3> QED
      BY <2>4, <3>1
  <2>6. ContentsOf(p)' = [n \in 1 .. first |-> disk'[at(n - 1)]]
    BY <1>1 DEF ContentsOf, at
  <2> HIDE DEF first
  <2>7. ContentsOf(p)' = [n \in 1 .. 0 |-> disk'[at(n - 1)]]
    BY <2>5, <2>6
  <2> QED
    BY <2>7
<1>5. Stores' = [p \in Owners' |-> ContentsOf(p)']
  BY <1>3 DEF Stores
<1>6. \A p \in DOMAIN Stores' : Stores'[p] = <<>>
  BY <1>4, <1>5
<1> QED
  BY <1>2, <1>3, <1>6 DEF Stored!Format, Stores

LEMMA StoresStep ==
  IInv /\ ImageInv /\ IInv' /\ ImageInv' /\ [Next]_vars => [Stored!Next]_(Stored!vars)
<1> SUFFICES ASSUME IInv, ImageInv, IInv', ImageInv', [Next]_vars
             PROVE  Stored!Next \/ UNCHANGED Stored!vars
  OBVIOUS
<1>1. ASSUME \/ \E x \in Vols : VolLine(x)
             \/ \E p \in DirArgs : DirLine(p)
             \/ \E r \in Reals : RealLine(r)
             \/ \E a \in FileArgs : FileLine(a[1], a[2])
             \/ \E a \in LnameArgs : LnameLine(a[1], a[2], a[3])
             \/ StartAlloc \/ StartFat
             \/ \E p \in DOMAIN tree : AllocCluster(p) \/ GenerateFat(p)
      PROVE  UNCHANGED Stored!vars
  <2>1. phase \in {"parse", "alloc", "fat"} /\ UNCHANGED imageFat
    BY <1>1 DEF VolLine, DirLine, RealLine, FileLine, LnameLine, Line, StartAlloc, StartFat,
                AllocCluster, GenerateFat
  <2>2. ~ Formatted
    BY <2>1, FormattedPhases
  <2> QED
    BY <2>1, <2>2, StoresKept
<1>2. ASSUME StartFill \/ Close \/ UNCHANGED vars PROVE UNCHANGED Stored!vars
  BY <1>2, StoresKept DEF StartFill, Close, vars
<1>3. CASE WriteFat
  BY <1>3, StoresFormat DEF Stored!Next
<1>4. ASSUME NEW job \in pending, WriteEntry(job[1], job[2])
      PROVE  Stored!Next \/ UNCHANGED Stored!vars
  <2>1. CASE NoFirstCluster(job[1])
    BY <1>4, <2>1, StoresKept DEF WriteEntry
  <2>2. CASE ~ NoFirstCluster(job[1])
    <3> DEFINE d == Front(job[1])
    <3>1. /\ phase = "entries" /\ phase' = "entries" /\ d \in DOMAIN cursor /\ d \in DOMAIN tree
          /\ Filled(d) \in Nat
      BY <1>4, <2>2, EntryWritten
    <3>2. Finished /\ Finished' /\ UNCHANGED <<tree, clusters>> /\ clusters[d] # <<>>
      BY <1>4, <3>1 DEF Finished, WriteEntry, IInv, EntryInv
    <3>3. Filled(d)' = Filled(d) + 1 /\ \A p \in DOMAIN tree \ {d} : Filled(p)' = Filled(p)
      BY <1>4, <2>2, EntryCounts
    <3>4. Filled(d) < Filled(d)'
      BY <3>1, <3>3
    <3> HIDE DEF d
    <3>5. Stored!Extend
      BY <3>1, <3>2, <3>3, <3>4, DiskKept, OneLonger
    <3> QED
      BY <3>5 DEF Stored!Next
  <2> QED
    BY <2>1, <2>2
<1>5. ASSUME NEW p \in DOMAIN tree, FillFile(p)
      PROVE  Stored!Next \/ UNCHANGED Stored!vars
  <2>1. CASE tree[p].real \notin DOMAIN RealSlots
    BY <1>5, <2>1, StoresKept DEF FillFile
  <2>2. CASE tree[p].real \in DOMAIN RealSlots
    <3>1. phase = "fill" /\ phase' = "fill" /\ UNCHANGED <<tree, clusters>> /\ <<p, 1>> \in pending
      BY <1>5 DEF FillFile, Turn
    <3>2. Finished /\ Finished' /\ Allocated /\ tree[p].kind = "file"
      BY <3>1 DEF Finished, Allocated, ImageInv, PassInv, Jobs
    <3>3. /\ Filled(p) = 0 /\ Filled(p)' = Slots(p)
          /\ \A q \in DOMAIN tree \ {p} : Filled(q)' = Filled(q)
      BY <1>5, <2>2, FillCounts
    <3>4. clusters[p] \in Seq(Nat) /\ Len(clusters[p]) = ClustersFor(tree[p].size)
      <4>1. clusters[p] \in Seq(Nat) /\ Len(clusters[p]) = AllocCount(p)
        BY <3>1, <3>2 DEF IInv, TypeInv, TypeOK, AllocInv
      <4>2. ~ IsDir(p)
        BY <3>2 DEF IsDir
      <4> QED
        BY <3>2, <4>1, <4>2 DEF AllocCount
    <3>5. Len(clusters[p]) \in Nat \ {0}
      BY <3>4, ClustersForType DEF IInv, TypeInv, TypeOK, Node
    <3>6. clusters[p] # <<>> /\ Slots(p) > 0 /\ Slots(p) \in Nat
      BY <3>5, SlotsType, EmptySeq DEF Slots
    <3>7. Filled(p) < Filled(p)'
      BY <3>3, <3>6
    <3>8. Stored!Extend
      BY <3>1, <3>2, <3>3, <3>6, <3>7, DiskKept, OneLonger
    <3> QED
      BY <3>8 DEF Stored!Next
  <2> QED
    BY <2>1, <2>2
<1> QED
  BY <1>1, <1>2, <1>3, <1>4, <1>5 DEF Next, Exited

\* The writer implements Volume: for every touch.txt and every geometry, each
\* step of its passes leaves the contents of all nodes but one as they are, and
\* adds to that one's end (write.cpp:222-231, 344-370, 561-569).
THEOREM WriterGrowsApart == Spec => GrowsApart
<1>1. Init => Stored!Init
  BY StoresInit
<1>2. IInv /\ ImageInv /\ IInv' /\ ImageInv' /\ [Next]_vars => [Stored!Next]_(Stored!vars)
  BY StoresStep
<1> QED
  BY <1>1, <1>2, ImageInvariance, PTL DEF Spec, GrowsApart, Stored!Spec
=============================================================================
