-------------------------- MODULE FatWriterProofs --------------------------
(***************************************************************************)
(* Theorems about FatWriter, for every touch.txt and every geometry.       *)
(***************************************************************************)
EXTENDS FatWriter, FunctionTheorems, FiniteSetTheorems, SequenceTheorems, TLAPS

\* A cluster holds at least one slot.
LEMMA SlotsType == SlotsPerClus \in Nat \ {0}
<1>1. BytesPerClus \in Nat
  BY GeometryAssumption DEF BytesPerClus
<1> QED
  BY <1>1, GeometryAssumption DEF SlotsPerClus, FileEntrySize

\* The prefixes of a path are paths, finitely many, the root among them.
LEMMA PrefixesType ==
  ASSUME NEW p \in Path
  PROVE  /\ Prefixes(p) \subseteq Path
         /\ IsFiniteSet(Prefixes(p))
         /\ Root \in Prefixes(p)
         /\ p \in Prefixes(p)
<1> DEFINE F == [l \in 0 .. Len(p) |-> SubSeq(p, 1, l)]
<1>1. Len(p) \in Nat
  BY LenProperties DEF Path
<1>2. \A l \in 0 .. Len(p) : SubSeq(p, 1, l) \in Path
  <2> TAKE l \in 0 .. Len(p)
  <2>1. \A i \in 1 .. l : p[i] \in Name
    BY <1>1, ElementOfSeq DEF Path
  <2> QED
    BY <1>1, <2>1, SubSeqProperties DEF Path
<1>3. F \in Surjection(0 .. Len(p), Prefixes(p))
  <2>1. F \in [0 .. Len(p) -> Prefixes(p)]
    BY DEF Prefixes
  <2>2. \A q \in Prefixes(p) : \E l \in 0 .. Len(p) : F[l] = q
    BY DEF Prefixes
  <2> HIDE DEF F
  <2> QED
    BY <2>1, <2>2, Fun_IsSurj
<1>4. IsFiniteSet(0 .. Len(p))
  BY <1>1, FS_Interval
<1>5. IsFiniteSet(Prefixes(p))
  BY <1>3, <1>4, FS_Surjection
<1>6. SubSeq(p, 1, 0) = Root
  BY SubSeqEmpty DEF Root
<1>7. SubSeq(p, 1, Len(p)) = p
  BY SubSeqFull DEF Path
<1>8. Prefixes(p) \subseteq Path
  BY <1>2 DEF Prefixes
<1>9. Root \in Prefixes(p) /\ p \in Prefixes(p)
  <2>1. 0 \in 0 .. Len(p) /\ Len(p) \in 0 .. Len(p)
    BY <1>1
  <2>2. SubSeq(p, 1, 0) \in Prefixes(p) /\ SubSeq(p, 1, Len(p)) \in Prefixes(p)
    BY <2>1, Zenon DEF Prefixes
  <2> QED
    BY <2>2, <1>6, <1>7
<1> QED
  BY <1>5, <1>8, <1>9

\* The directory a path names its last component in is a path.
LEMMA FrontType ==
  ASSUME NEW p \in Path, p # Root
  PROVE  Front(p) \in Path /\ Len(Front(p)) = Len(p) - 1
<1>1. Len(p) \in Nat \ {0}
  BY EmptySeq DEF Path, Root
<1> DEFINE n == Len(p) - 1
<1>2. n \in Nat
  BY <1>1
<1>3. \A i \in 1 .. n : p[i] \in Name
  BY <1>1, ElementOfSeq DEF Path
<1> HIDE DEF n
<1>4. /\ SubSeq(p, 1, n) \in Seq(Name)
      /\ Len(SubSeq(p, 1, n)) = IF 1 <= n THEN n - 1 + 1 ELSE 0
  BY <1>2, <1>3, SubSeqProperties
<1>5. Len(SubSeq(p, 1, n)) = n
  BY <1>2, <1>4
<1>6. Front(p) = SubSeq(p, 1, n)
  BY Zenon DEF Front, n
<1> QED
  BY <1>4, <1>5, <1>6, Zenon DEF Path, n

-----------------------------------------------------------------------------
(* The tree *)

TreeOK(t) ==
  /\ DOMAIN t \subseteq Path /\ Root \in DOMAIN t /\ IsFiniteSet(DOMAIN t)
  /\ \A p \in DOMAIN t : t[p] \in Node

LEMMA NodeTypes ==
  /\ DirNode \in Node /\ VolNode \in Node
  /\ \A n \in Nat : n < 3328 => LongNode(n) \in Node
  /\ \A n \in Nat, r \in Reals \cup {NoFile} : FileNode(n, r) \in Node
BY DEF DirNode, VolNode, LongNode, FileNode, Node, Kinds

LEMMA NameTypes ==
  /\ \A x \in Nat : VolName(x) \in Name /\ LfnName(x) \in Name
  /\ \A x \in Nat : <<VolName(x)>> \in Path \ {Root}
BY DEF VolName, LfnName, Name, Path, Root

\* The walk to a directory keeps the tree well formed.
LEMMA WalkedType ==
  ASSUME NEW p \in Path, TreeOK(tree)
  PROVE  TreeOK(Walked(p))
<1>1. DOMAIN Walked(p) = DOMAIN tree \cup Prefixes(p)
  BY DEF Walked
<1>2. IsFiniteSet(DOMAIN tree \cup Prefixes(p))
  BY PrefixesType, FS_Union DEF TreeOK
<1>3. \A q \in DOMAIN Walked(p) : Walked(p)[q] \in Node
  BY NodeTypes DEF Walked, TreeOK
<1> QED
  BY <1>1, <1>2, <1>3, PrefixesType DEF TreeOK

\* So does a line that replaces a node.
LEMMA PutType ==
  ASSUME NEW p \in Path \ {Root}, NEW node \in Node, TreeOK(tree)
  PROVE  TreeOK(Put(p, node))
<1> DEFINE W == Walked(Front(p))
           kept == {r \in DOMAIN W : ~ IsPrefix(p, r)}
<1>1. TreeOK(W)
  BY FrontType, WalkedType
<1> HIDE DEF W
<1>2. DOMAIN Put(p, node) = {p} \cup kept
  BY DEF Put, W
<1>3. \A q \in {p} \cup kept : Put(p, node)[q] = IF q = p THEN node ELSE W[q]
  BY DEF Put, W
<1>4. IsFiniteSet({p} \cup kept)
  <2>1. IsFiniteSet(kept)
    BY <1>1, FS_Subset DEF TreeOK
  <2>2. IsFiniteSet(kept \cup {p})
    BY <2>1, FS_AddElement
  <2>3. kept \cup {p} = {p} \cup kept
    OBVIOUS
  <2> QED
    BY <2>2, <2>3
<1>5. Root \in kept
  <2>1. Len(p) \in Nat \ {0} /\ Len(Root) = 0
    BY EmptySeq DEF Path, Root
  <2>2. ~ IsPrefix(p, Root)
    BY <2>1 DEF IsPrefix
  <2> QED
    BY <1>1, <2>2 DEF TreeOK
<1> HIDE DEF kept
<1>6. kept \subseteq DOMAIN W
  BY DEF kept
<1> QED
  BY <1>1, <1>2, <1>3, <1>4, <1>5, <1>6 DEF TreeOK

\* The directories on the way to a node.
LEMMA FrontOfPrefix ==
  ASSUME NEW p \in Path, NEW q \in Prefixes(p), q # Root
  PROVE  p # Root /\ Front(q) \in Prefixes(Front(p)) /\ Front(q) \in Prefixes(p)
<1>1. PICK l \in 0 .. Len(p) : q = SubSeq(p, 1, l)
  BY DEF Prefixes
<1>2. Len(p) \in Nat
  BY LenProperties DEF Path
<1>3. l # 0
  BY <1>1, SubSeqEmpty DEF Root
<1>4. l \in 1 .. Len(p) /\ l - 1 \in 0 .. Len(p)
  BY <1>2, <1>3
<1>5. \A i \in 1 .. l : p[i] \in Name
  BY <1>2, <1>4, ElementOfSeq DEF Path
<1>6. Len(q) = l
  BY <1>1, <1>4, <1>5, SubSeqProperties
<1>7. Front(q) = SubSeq(p, 1, l - 1)
  <2>1. Front(q) = SubSeq(SubSeq(p, 1, l), 1, l - 1)
    BY <1>1, <1>6 DEF Front
  <2>2. CASE l = 1
    BY <2>1, <2>2, SubSeqEmpty
  <2>3. CASE l # 1
    <3>1. SubSeq(SubSeq(p, 1, l), 1, l - 1) = SubSeq(p, 1 + 1 - 1, 1 + (l - 1) - 1)
      <4>1. 1 \in 1 .. Len(p) /\ l \in 1 .. Len(p)
        BY <1>2, <1>4
      <4>2. 1 \in 1 .. (l - 1 + 1) /\ l - 1 \in 1 .. (l - 1 + 1)
        BY <1>4, <2>3
      <4> QED
        BY <4>1, <4>2, SubSeqOfSubSeq DEF Path
    <3>2. 1 + (l - 1) - 1 = l - 1
      BY <1>4
    <3> QED
      BY <2>1, <3>1, <3>2
  <2> QED
    BY <2>2, <2>3
<1>8. p # Root
  BY <1>2, <1>4, EmptySeq DEF Root
<1>9. Front(q) \in Prefixes(Front(p))
  <2>1. Len(Front(p)) = Len(p) - 1
    BY <1>8, FrontType
  <2>2. CASE l = 1
    <3>1. Front(q) = Root
      BY <1>7, <2>2, SubSeqEmpty DEF Root
    <3> QED
      BY <1>8, <3>1, FrontType, PrefixesType
  <2>3. CASE l # 1
    <3>1. SubSeq(SubSeq(p, 1, Len(p) - 1), 1, l - 1) = SubSeq(p, 1 + 1 - 1, 1 + (l - 1) - 1)
      <4>1. 1 \in 1 .. Len(p) /\ Len(p) - 1 \in 1 .. Len(p)
        BY <1>2, <1>4, <2>3
      <4>2. 1 \in 1 .. (Len(p) - 1 - 1 + 1) /\ l - 1 \in 1 .. (Len(p) - 1 - 1 + 1)
        BY <1>2, <1>4, <2>3
      <4> QED
        BY <4>1, <4>2, SubSeqOfSubSeq DEF Path
    <3>2. 1 + (l - 1) - 1 = l - 1
      BY <1>4
    <3>3. Front(q) = SubSeq(Front(p), 1, l - 1)
      BY <1>7, <3>1, <3>2 DEF Front
    <3>4. l - 1 \in 0 .. Len(Front(p))
      BY <1>2, <1>4, <2>1
    <3> QED
      BY <3>3, <3>4, Zenon DEF Prefixes
  <2> QED
    BY <2>2, <2>3
<1>10. Front(q) \in Prefixes(p)
  BY <1>4, <1>7, Zenon DEF Prefixes
<1> QED
  BY <1>8, <1>9, <1>10

LEMMA PrefixOfFront ==
  ASSUME NEW p \in Path \ {Root}, NEW q \in Path \ {Root}
  PROVE  IsPrefix(p, Front(q)) => IsPrefix(p, q)
<1> SUFFICES ASSUME IsPrefix(p, Front(q)) PROVE IsPrefix(p, q)
  OBVIOUS
<1>1. Len(p) \in Nat \ {0} /\ Len(q) \in Nat \ {0}
  BY EmptySeq DEF Path, Root
<1>2. Len(Front(q)) = Len(q) - 1
  BY FrontType
<1>3. Len(p) <= Len(q) - 1
  BY <1>2 DEF IsPrefix
<1>4. SubSeq(SubSeq(q, 1, Len(q) - 1), 1, Len(p)) = SubSeq(q, 1 + 1 - 1, 1 + Len(p) - 1)
  <2>1. 1 \in 1 .. Len(q) /\ Len(q) - 1 \in 1 .. Len(q)
    BY <1>1, <1>3
  <2>2. 1 \in 1 .. (Len(q) - 1 - 1 + 1) /\ Len(p) \in 1 .. (Len(q) - 1 - 1 + 1)
    BY <1>1, <1>3
  <2> QED
    BY <2>1, <2>2, SubSeqOfSubSeq DEF Path
<1>5. 1 + Len(p) - 1 = Len(p)
  BY <1>1
<1>6. SubSeq(Front(q), 1, Len(p)) = SubSeq(q, 1, Len(p))
  <2>1. 1 + 1 - 1 = 1
    OBVIOUS
  <2>2. SubSeq(SubSeq(q, 1, Len(q) - 1), 1, Len(p)) = SubSeq(q, 1, Len(p))
    BY <1>4, <1>5, <2>1
  <2> QED
    BY <2>2, Zenon DEF Front
<1> QED
  BY <1>1, <1>3, <1>6 DEF IsPrefix

\* Every node but the root hangs below a directory, and the root is one.
Hangs(t) ==
  /\ t[Root].kind = "dir"
  /\ \A q \in DOMAIN t \ {Root} : Front(q) \in DOMAIN t /\ t[Front(q)].kind = "dir"

LEMMA WalkedHangs ==
  ASSUME NEW p \in Path, TreeOK(tree), Hangs(tree),
         p = Root \/ ~ Blocked(Front(p))
  PROVE  Hangs(Walked(p))
<1> SUFFICES ASSUME NEW q \in DOMAIN Walked(p) \ {Root}
             PROVE  /\ Front(q) \in DOMAIN Walked(p)
                    /\ Walked(p)[Front(q)].kind = "dir"
  BY DEF Hangs, Walked, TreeOK
<1>1. DOMAIN Walked(p) = DOMAIN tree \cup Prefixes(p)
  BY DEF Walked
<1>2. CASE q \in DOMAIN tree
  BY <1>1, <1>2 DEF Walked, Hangs
<1>3. CASE q \notin DOMAIN tree
  <2>1. p # Root /\ Front(q) \in Prefixes(Front(p)) /\ Front(q) \in Prefixes(p)
    BY <1>1, <1>3, FrontOfPrefix
  <2>2. CASE Front(q) \in DOMAIN tree
    BY <1>1, <2>1, <2>2 DEF Walked, Blocked, IsDir
  <2>3. CASE Front(q) \notin DOMAIN tree
    BY <1>1, <2>1, <2>3 DEF Walked, DirNode
  <2> QED
    BY <2>2, <2>3
<1> QED
  BY <1>2, <1>3

\* The whole walk of a line that is not blocked ends in a directory.
LEMMA NotBlockedFront ==
  ASSUME NEW p \in Path, ~ Blocked(p)
  PROVE  /\ p = Root \/ ~ Blocked(Front(p))
         /\ Walked(p)[p].kind = "dir"
<1>1. p \in Prefixes(p)
  BY PrefixesType
<1>2. p # Root => Prefixes(Front(p)) \subseteq Prefixes(p)
  <2> SUFFICES ASSUME p # Root, NEW q \in Prefixes(Front(p)) PROVE q \in Prefixes(p)
    OBVIOUS
  <2>1. Len(p) \in Nat \ {0} /\ Len(Front(p)) = Len(p) - 1
    BY EmptySeq, FrontType DEF Path, Root
  <2>2. PICK l \in 0 .. Len(Front(p)) : q = SubSeq(Front(p), 1, l)
    BY DEF Prefixes
  <2>3. l \in 0 .. Len(p)
    BY <2>1
  <2>4. CASE l = 0
    <3>1. q = <<>>
      BY <2>2, <2>4, SubSeqEmpty
    <3> QED
      BY <3>1, PrefixesType DEF Root
  <2>5. CASE l # 0
    <3>1. SubSeq(SubSeq(p, 1, Len(p) - 1), 1, l) = SubSeq(p, 1 + 1 - 1, 1 + l - 1)
      <4>1. 1 \in 1 .. Len(p) /\ Len(p) - 1 \in 1 .. Len(p)
        BY <2>1, <2>5
      <4>2. 1 \in 1 .. (Len(p) - 1 - 1 + 1) /\ l \in 1 .. (Len(p) - 1 - 1 + 1)
        BY <2>1, <2>5
      <4> QED
        BY <4>1, <4>2, SubSeqOfSubSeq DEF Path
    <3>2. 1 + l - 1 = l
      BY <2>3
    <3>3. q = SubSeq(p, 1, l)
      BY <2>2, <3>1, <3>2 DEF Front
    <3> QED
      BY <2>3, <3>3, Zenon DEF Prefixes
  <2> QED
    BY <2>4, <2>5
<1>3. Walked(p)[p].kind = "dir"
  BY <1>1 DEF Walked, Blocked, IsDir, DirNode
<1> QED
  BY <1>2, <1>3 DEF Blocked

LEMMA PutHangs ==
  ASSUME NEW p \in Path \ {Root}, NEW node \in Node, TreeOK(tree), Hangs(tree),
         ~ Blocked(Front(p))
  PROVE  Hangs(Put(p, node))
<1> DEFINE d == Front(p)
           W == Walked(d)
           kept == {r \in DOMAIN W : ~ IsPrefix(p, r)}
<1>1. d \in Path /\ Len(d) = Len(p) - 1 /\ Len(p) \in Nat \ {0}
  BY FrontType, EmptySeq DEF Path, Root
<1>2. TreeOK(W) /\ Hangs(W) /\ W[d].kind = "dir" /\ d \in DOMAIN W
  <2>1. DOMAIN W = DOMAIN tree \cup Prefixes(d)
    BY DEF Walked
  <2> QED
    BY <1>1, <2>1, WalkedType, WalkedHangs, NotBlockedFront, PrefixesType
<1>3. DOMAIN Put(p, node) = {p} \cup kept
  BY DEF Put
<1>4. \A q \in {p} \cup kept : Put(p, node)[q] = IF q = p THEN node ELSE W[q]
  BY DEF Put
<1>5. d \in kept /\ d # p
  BY <1>1, <1>2 DEF IsPrefix
<1>6. p \notin kept
  BY <1>1 DEF IsPrefix
<1> HIDE DEF d, W
<1>7. ASSUME NEW q \in kept \ {Root} PROVE Front(q) \in kept /\ W[Front(q)].kind = "dir"
  <2>1. q \in DOMAIN W /\ q \in Path /\ ~ IsPrefix(p, q)
    BY <1>2 DEF TreeOK
  <2>2. Front(q) \in DOMAIN W /\ W[Front(q)].kind = "dir"
    BY <1>2, <2>1 DEF Hangs
  <2>3. ~ IsPrefix(p, Front(q))
    BY <2>1, PrefixOfFront
  <2> QED
    BY <2>2, <2>3
<1> HIDE DEF kept
<1>8. ASSUME NEW q \in DOMAIN Put(p, node) \ {Root}
      PROVE  Front(q) \in kept /\ W[Front(q)].kind = "dir"
  BY <1>2, <1>3, <1>5, <1>7 DEF d
<1>9. ASSUME NEW q \in kept PROVE q \in DOMAIN Put(p, node) /\ Put(p, node)[q] = W[q]
  BY <1>3, <1>4, <1>6
<1>10. Root \in kept
  <2>1. Len(Root) = 0
    BY EmptySeq DEF Root
  <2>2. ~ IsPrefix(p, Root)
    BY <1>1, <2>1 DEF IsPrefix
  <2> QED
    BY <1>2, <2>2 DEF TreeOK, kept
<1> QED
  BY <1>2, <1>8, <1>9, <1>10 DEF Hangs

-----------------------------------------------------------------------------
(* Counting clusters *)

\* A node with something in it gets a cluster.
LEMMA ClustersForType ==
  ASSUME NEW size \in Nat
  PROVE  ClustersFor(size) \in Nat \ {0}
<1>1. size \div BytesPerSec \in Nat
  BY GeometryAssumption
<1>2. (size \div BytesPerSec) \div SecPerClus \in Nat
  BY <1>1, GeometryAssumption
<1> QED
  BY <1>2 DEF ClustersFor

LEMMA EntryLenType ==
  ASSUME NEW p, tree[p] \in Node
  PROVE  EntryLen(p) \in Nat
BY DEF EntryLen, Node, Fragments, FragmentSize

\* A directory has finitely many entries.
LEMMA EntriesFinite ==
  ASSUME NEW p, TreeOK(tree)
  PROVE  IsFiniteSet(EntriesIn(p))
<1> DEFINE E == [c \in Children(p) |-> {c} \X (1 .. EntryLen(c))]
           T == {{c} \X (1 .. EntryLen(c)) : c \in Children(p)}
<1>1. IsFiniteSet(Children(p))
  BY FS_Subset DEF Children, TreeOK
<1>2. E \in Surjection(Children(p), T)
  <2>1. E \in [Children(p) -> T]
    OBVIOUS
  <2>2. \A t \in T : \E c \in Children(p) : E[c] = t
    OBVIOUS
  <2> HIDE DEF E, T
  <2> QED
    BY <2>1, <2>2, Fun_IsSurj
<1>3. IsFiniteSet(T)
  <2> HIDE DEF E, T
  <2> QED
    BY <1>1, <1>2, FS_Surjection
<1>4. \A c \in Children(p) : IsFiniteSet({c} \X (1 .. EntryLen(c)))
  <2> TAKE c \in Children(p)
  <2>1. EntryLen(c) \in Nat
    BY EntryLenType DEF Children, TreeOK
  <2>2. IsFiniteSet(1 .. EntryLen(c))
    BY <2>1, FS_Interval
  <2> QED
    BY <2>2, FS_Singleton, FS_Product
<1>5. \A S \in T : IsFiniteSet(S)
  BY <1>4
<1>6. EntriesIn(p) = UNION T
  BY DEF EntriesIn
<1> HIDE DEF T
<1> QED
  BY <1>3, <1>5, <1>6, FS_UNION

LEMMA AllocCountType ==
  ASSUME NEW p \in DOMAIN tree, TreeOK(tree)
  PROVE  AllocCount(p) \in Nat
<1>1. tree[p].size \in Nat
  BY DEF TreeOK, Node
<1>2. Cardinality(EntriesIn(p)) \in Nat
  BY EntriesFinite, FS_CardinalityType
<1>3. DirSize(p) \in Nat
  BY <1>2 DEF DirSize, FileEntrySize
<1>4. ClustersFor(tree[p].size) \in Nat /\ ClustersFor(DirSize(p)) \in Nat
  BY <1>1, <1>3, ClustersForType
<1> QED
  BY <1>4 DEF AllocCount

-----------------------------------------------------------------------------
(* Type correctness *)

Allocated == phase \in {"alloc", "fat", "entries", "fill", "done"}

TypeInv ==
  /\ TypeOK /\ TreeOK(tree)
  /\ Allocated => DOMAIN clusters = DOMAIN tree

LEMMA TypeInit == Init => TypeInv
<1> SUFFICES ASSUME Init PROVE TypeInv
  OBVIOUS
<1>1. DOMAIN tree = {Root} /\ tree[Root] = DirNode
  BY DEF Init
<1>2. TreeOK(tree)
  <2>1. Root \in Path
    BY EmptySeq DEF Path, Root
  <2>2. IsFiniteSet({Root})
    BY FS_Singleton
  <2> QED
    BY <1>1, <2>1, <2>2, NodeTypes DEF TreeOK
<1>3. DOMAIN (<<>>) = {}
  OBVIOUS
<1>4. 0 \in 0 .. MaxLines
  BY ArgsAssumption
<1> QED
  BY <1>2, <1>3, <1>4 DEF Init, TypeInv, TypeOK, TreeOK, Allocated

\* A line of touch.txt changes the tree, realname and the count only.
LEMMA LineType ==
  ASSUME TypeInv, Line, TreeOK(tree'), realname' \in Reals \cup {NoFile},
         phase' \in {"parse", "crash"}
  PROVE  TypeInv'
<1>1. lineCount' \in 0 .. MaxLines
  BY ArgsAssumption DEF Line, TypeInv, TypeOK
<1>2. TypeOK'
  BY <1>1 DEF Line, TypeInv, TypeOK, TreeOK, ClusterNumber
<1> QED
  BY <1>2 DEF TypeInv, TreeOK, Allocated

LEMMA ParseType ==
  ASSUME TypeInv,
         \/ \E x \in Vols : VolLine(x)
         \/ \E p \in DirArgs : DirLine(p)
         \/ \E r \in Reals : RealLine(r)
         \/ \E a \in FileArgs : FileLine(a[1], a[2])
         \/ \E a \in LnameArgs : LnameLine(a[1], a[2], a[3])
  PROVE  TypeInv'
<1>1. TreeOK(tree) /\ realname \in Reals \cup {NoFile}
  BY DEF TypeInv, TypeOK
<1> USE DEF Parsed, Segfault
<1>2. ASSUME NEW x \in Vols, VolLine(x) PROVE TypeInv'
  <2>1. TreeOK(Put(<<VolName(x)>>, VolNode))
    BY <1>1, PutType, NameTypes, NodeTypes, ArgsAssumption
  <2> QED
    BY <1>1, <1>2, <2>1, LineType DEF VolLine, Line
<1>3. ASSUME NEW p \in DirArgs, DirLine(p) PROVE TypeInv'
  <2>1. TreeOK(Walked(p))
    BY <1>1, WalkedType, ArgsAssumption
  <2> QED
    BY <1>1, <1>3, <2>1, LineType DEF DirLine, Line
<1>4. ASSUME NEW r \in Reals, RealLine(r) PROVE TypeInv'
  BY <1>1, <1>4, LineType DEF RealLine, Line
<1>5. ASSUME NEW a \in FileArgs, FileLine(a[1], a[2]) PROVE TypeInv'
  <2>1. a[1] \in Path \ {Root} /\ FileNode(a[2], realname) \in Node
    BY <1>1, NodeTypes, ArgsAssumption
  <2>2. TreeOK(Put(a[1], FileNode(a[2], realname)))
    BY <1>1, <2>1, PutType
  <2> QED
    BY <1>1, <1>5, <2>2, LineType DEF FileLine, Line
<1>6. ASSUME NEW a \in LnameArgs, LnameLine(a[1], a[2], a[3]) PROVE TypeInv'
  <2> DEFINE p == Append(a[1], LfnName(a[2]))
  <2>1. a[1] \in Path /\ LfnName(a[2]) \in Name /\ LongNode(a[3]) \in Node
    BY NodeTypes, NameTypes, ArgsAssumption, LengthAssumption
  <2>2. p \in Path \ {Root}
    BY <2>1 DEF Path, Root
  <2> HIDE DEF p
  <2>3. TreeOK(Put(p, LongNode(a[3])))
    BY <1>1, <2>1, <2>2, PutType
  <2> QED
    BY <1>1, <1>6, <2>3, LineType DEF LnameLine, Line, p
<1> QED
  BY <1>2, <1>3, <1>4, <1>5, <1>6

\* The new clusters of a node are a sequence of numbers.
LEMMA NewClusters ==
  ASSUME NEW n \in Nat, NEW t \in Nat
  PROVE  [i \in 1 .. n |-> t + i - 1] \in Seq(Nat)
OBVIOUS

LEMMA AllocType ==
  ASSUME TypeInv, NEW p \in DOMAIN tree, AllocCluster(p)
  PROVE  TypeInv'
<1>1. AllocCount(p) \in Nat /\ total \in Nat \ {0, 1}
  BY AllocCountType DEF TypeInv, TypeOK
<1>2. [i \in 1 .. AllocCount(p) |-> total + i - 1] \in Seq(Nat)
  BY <1>1, NewClusters
<1>3. total' \in Nat \ {0, 1}
  BY <1>1 DEF AllocCluster
<1>4. DOMAIN clusters' = DOMAIN clusters
  BY DEF AllocCluster
<1>5. \A q \in DOMAIN clusters' : clusters'[q] \in Seq(Nat)
  BY <1>2, <1>4 DEF AllocCluster, TypeInv, TypeOK
<1>6. pending' \subseteq Path \X Nat
  BY DEF AllocCluster, TypeInv, TypeOK
<1>7. TypeOK'
  BY <1>3, <1>5, <1>6 DEF AllocCluster, TypeInv, TypeOK, ClusterNumber
<1> QED
  BY <1>4, <1>7 DEF AllocCluster, TypeInv, Allocated, TreeOK

\* The passes that only build a new variable from the tree and the clusters.
LEMMA JobsType ==
  ASSUME TreeOK(tree), NEW S, S \subseteq DOMAIN tree
  PROVE  Jobs(S) \subseteq Path \X Nat
BY DEF Jobs, TreeOK

LEMMA StartAllocType ==
  ASSUME TypeInv, StartAlloc
  PROVE  TypeInv'
<1>1. pending' \subseteq Path \X Nat
  BY JobsType DEF StartAlloc, TypeInv
<1>2. \A p \in DOMAIN clusters' : clusters'[p] \in Seq(Nat)
  BY EmptySeq DEF StartAlloc
<1>3. TypeOK'
  BY <1>1, <1>2 DEF StartAlloc, TypeInv, TypeOK, ClusterNumber
<1> QED
  BY <1>3 DEF StartAlloc, TypeInv, Allocated, TreeOK

LEMMA StartFatType ==
  ASSUME TypeInv, StartFat
  PROVE  TypeInv'
<1>1. pending' \subseteq Path \X Nat
  BY JobsType DEF StartFat, TypeInv
<1>2. \A c \in DOMAIN fat' : c \in Nat /\ fat'[c] \in ClusterNumber
  BY DEF StartFat, ClusterNumber, TypeInv, TypeOK
<1>3. TypeOK'
  BY <1>1, <1>2 DEF StartFat, TypeInv, TypeOK, ClusterNumber
<1> QED
  BY <1>3 DEF StartFat, TypeInv, Allocated, TreeOK

\* What a cluster is linked to is a cluster or the end mark.
LEMMA LinkType ==
  ASSUME NEW s \in Seq(Nat), NEW i \in DOMAIN s
  PROVE  Link(s, i) \in ClusterNumber
<1>1. Len(s) \in Nat /\ DOMAIN s = 1 .. Len(s)
  BY LenProperties
<1>2. i < Len(s) => s[i + 1] \in Nat
  BY <1>1, ElementOfSeq
<1> QED
  BY <1>2 DEF Link, ClusterNumber

LEMMA GenerateFatType ==
  ASSUME TypeInv, NEW p \in DOMAIN tree, GenerateFat(p)
  PROVE  TypeInv'
<1> DEFINE s == clusters[p]
<1>1. s \in Seq(Nat)
  BY DEF GenerateFat, TypeInv, TypeOK, Allocated
<1>2. \A c \in DOMAIN fat' : c \in Nat /\ fat'[c] \in ClusterNumber
  <2> TAKE c \in DOMAIN fat'
  <2>1. c \in DOMAIN fat /\ c \in Nat /\ fat[c] \in ClusterNumber
    BY DEF GenerateFat, TypeInv, TypeOK
  <2>2. CASE \E i \in DOMAIN s : s[i] = c
    <3> DEFINE j == CHOOSE i \in DOMAIN s : s[i] = c
    <3>1. j \in DOMAIN s
      BY <2>2
    <3>2. fat'[c] = Link(s, j)
      BY <2>1, <2>2 DEF GenerateFat
    <3> HIDE DEF j, s
    <3> QED
      BY <1>1, <2>1, <3>1, <3>2, LinkType
  <2>3. CASE ~ \E i \in DOMAIN s : s[i] = c
    BY <2>1, <2>3 DEF GenerateFat
  <2> QED
    BY <2>2, <2>3
<1>3. TypeOK'
  BY <1>2 DEF GenerateFat, TypeInv, TypeOK, ClusterNumber
<1> QED
  BY <1>3 DEF GenerateFat, TypeInv, Allocated, TreeOK

LEMMA EntryJobsType ==
  ASSUME TreeOK(tree)
  PROVE  EntryJobs \subseteq Path \X Nat
BY DEF EntryJobs, TreeOK

LEMMA WriteFatType ==
  ASSUME TypeInv, WriteFat
  PROVE  TypeInv'
<1>1. pending' \subseteq Path \X Nat
  BY EntryJobsType DEF WriteFat, TypeInv
<1>2. \A c \in DOMAIN fat' : c \in Nat /\ fat'[c] \in ClusterNumber
  BY DEF WriteFat, TypeInv, TypeOK, ClusterNumber, MediaMark, CleanMark
<1>3. \A d \in DOMAIN cursor' : cursor'[d].now \in 0 .. SlotsPerClus
  <2>1. \A d \in DOMAIN cursor' : cursor'[d].now = 0
    BY DEF WriteFat
  <2> QED
    BY <2>1, SlotsType
<1>4. phase' \in {"entries", "crash"}
  BY DEF WriteFat
<1>5. imageFat' = fat'
  BY DEF WriteFat
<1>6. TypeOK'
  BY <1>1, <1>2, <1>3, <1>4, <1>5 DEF WriteFat, TypeInv, TypeOK, ClusterNumber
<1> QED
  BY <1>6 DEF WriteFat, TypeInv, Allocated, TreeOK


-----------------------------------------------------------------------------
(* Cluster allocation *)

\* What alloc_cluster has done so far: a node it has not reached has no
\* cluster, the others have as many as they need, all below total_clusters.
AllocInv ==
  /\ phase = "parse" => clusters = <<>> /\ total = 2
  /\ Allocated => \A p \in DOMAIN tree :
       Len(clusters[p]) = IF phase = "alloc" /\ <<p, 1>> \in pending THEN 0 ELSE AllocCount(p)
  /\ \A p \in DOMAIN clusters : \A i \in DOMAIN clusters[p] : clusters[p][i] \in 2 .. (total - 1)
  /\ ClustersDisjoint /\ NoLostClusters

TreeInv == Hangs(tree)

LEMMA AllocInit == Init => AllocInv /\ TreeInv
<1> SUFFICES ASSUME Init PROVE AllocInv /\ TreeInv
  OBVIOUS
<1>1. DOMAIN clusters = {} /\ DOMAIN tree = {Root} /\ total = 2
  BY DEF Init
<1>2. ClustersDisjoint /\ NoLostClusters
  BY <1>1 DEF ClustersDisjoint, NoLostClusters
<1> QED
  BY <1>1, <1>2 DEF Init, AllocInv, TreeInv, Hangs, Allocated, DirNode

\* A line leaves the allocation alone and the tree hanging together.
LEMMA ParseAlloc ==
  ASSUME TypeInv, AllocInv, TreeInv,
         \/ \E x \in Vols : VolLine(x)
         \/ \E p \in DirArgs : DirLine(p)
         \/ \E r \in Reals : RealLine(r)
         \/ \E a \in FileArgs : FileLine(a[1], a[2])
         \/ \E a \in LnameArgs : LnameLine(a[1], a[2], a[3])
  PROVE  AllocInv' /\ TreeInv'
<1>1. TreeOK(tree) /\ Hangs(tree) /\ realname \in Reals \cup {NoFile}
  BY DEF TypeInv, TypeOK, TreeInv
<1>2. Line /\ phase' \in {"parse", "crash"}
  BY DEF VolLine, DirLine, RealLine, FileLine, LnameLine, Parsed, Segfault, Line
<1>3. AllocInv'
  BY <1>2 DEF AllocInv, Line, Allocated, ClustersDisjoint, NoLostClusters
<1> USE DEF Parsed, Segfault, TreeInv
<1>4. ASSUME NEW x \in Vols, VolLine(x) PROVE TreeInv'
  <2> DEFINE p == <<VolName(x)>>
  <2>1. p \in Path \ {Root} /\ VolNode \in Node
    BY NameTypes, NodeTypes, ArgsAssumption
  <2>2. Front(p) = Root
    BY SubSeqEmpty DEF Front, Root
  <2>3. ~ Blocked(Front(p))
    <3>1. Prefixes(Root) = {Root}
      <4>1. Len(Root) = 0 /\ 0 .. 0 = {0} /\ SubSeq(Root, 1, 0) = Root
        BY SubSeqEmpty, EmptySeq DEF Root
      <4> QED
        BY <4>1, Zenon DEF Prefixes
    <3>2. IsDir(Root)
      BY <1>1 DEF Hangs, IsDir
    <3> QED
      BY <2>2, <3>1, <3>2 DEF Blocked
  <2> QED
    BY <1>1, <1>4, <2>1, <2>3, PutHangs DEF VolLine
<1>5. ASSUME NEW p \in DirArgs, DirLine(p) PROVE TreeInv'
  <2>1. p \in Path
    BY ArgsAssumption
  <2> QED
    BY <1>1, <1>5, <2>1, WalkedHangs DEF DirLine
<1>6. ASSUME NEW r \in Reals, RealLine(r) PROVE TreeInv'
  BY <1>1, <1>6 DEF RealLine
<1>7. ASSUME NEW a \in FileArgs, FileLine(a[1], a[2]) PROVE TreeInv'
  <2>1. a[1] \in Path \ {Root} /\ FileNode(a[2], realname) \in Node
    BY <1>1, NodeTypes, ArgsAssumption
  <2> QED
    BY <1>1, <1>7, <2>1, PutHangs DEF FileLine
<1>8. ASSUME NEW a \in LnameArgs, LnameLine(a[1], a[2], a[3]) PROVE TreeInv'
  <2> DEFINE p == Append(a[1], LfnName(a[2]))
  <2>1. a[1] \in Path /\ LfnName(a[2]) \in Name /\ LongNode(a[3]) \in Node
    BY NodeTypes, NameTypes, ArgsAssumption, LengthAssumption
  <2>2. p \in Path \ {Root}
    BY <2>1 DEF Path, Root
  <2>3. Front(p) = a[1]
    BY <2>1 DEF Front, Path
  <2> HIDE DEF p
  <2> QED
    BY <1>1, <1>8, <2>1, <2>2, <2>3, PutHangs DEF LnameLine, p
<1> QED
  BY <1>3, <1>4, <1>5, <1>6, <1>7, <1>8

\* How many clusters a node needs depends on the tree only.
LEMMA SameCount ==
  ASSUME tree' = tree
  PROVE  \A p : AllocCount(p)' = AllocCount(p)
<1> TAKE p
<1>1. EntriesIn(p)' = EntriesIn(p)
  BY DEF EntriesIn, Children, EntryLen
<1>2. DirSize(p)' = DirSize(p)
  BY <1>1 DEF DirSize
<1> QED
  BY <1>2 DEF AllocCount, IsDir

LEMMA StartAllocAlloc ==
  ASSUME TypeInv, AllocInv, StartAlloc
  PROVE  AllocInv'
<1>1. phase' = "alloc" /\ total' = total /\ total = 2 /\ tree' = tree
  BY DEF StartAlloc, AllocInv
<1>2. clusters' = [p \in DOMAIN tree |-> <<>>]
  BY DEF StartAlloc
<1>3. \A p \in DOMAIN tree : clusters'[p] = <<>> /\ Len(clusters'[p]) = 0 /\ DOMAIN clusters'[p] = {}
  BY <1>2, EmptySeq
<1>4. \A p \in DOMAIN tree : <<p, 1>> \in pending'
  BY DEF StartAlloc, Jobs
<1>5. ClustersDisjoint'
  BY <1>2, <1>3 DEF ClustersDisjoint
<1>6. NoLostClusters'
  <2>1. UNION {{clusters'[p][i] : i \in DOMAIN clusters'[p]} : p \in DOMAIN clusters'} = {}
    BY <1>2, <1>3
  <2>2. 2 .. (total' - 1) = {}
    BY <1>1
  <2> QED
    BY <2>1, <2>2 DEF NoLostClusters
<1> QED
  BY <1>1, <1>2, <1>3, <1>4, <1>5, <1>6 DEF AllocInv

\* The heart of the allocation: the clusters a node gets lie from total_clusters
\* on, above all that were given before, and total_clusters moves past them.
LEMMA AllocClusterAlloc ==
  ASSUME TypeInv, AllocInv, NEW p \in DOMAIN tree, AllocCluster(p)
  PROVE  AllocInv'
<1> DEFINE n == AllocCount(p)
           new == [i \in 1 .. n |-> total + i - 1]
<1>1. n \in Nat /\ total \in Nat \ {0, 1}
  BY AllocCountType DEF TypeInv, TypeOK
<1>2. phase = "alloc" /\ phase' = "alloc" /\ tree' = tree /\ total' = total + n
  BY DEF AllocCluster
<1>3. DOMAIN clusters = DOMAIN tree /\ clusters' = [clusters EXCEPT ![p] = new]
  BY <1>2 DEF AllocCluster, TypeInv, Allocated
<1>4. <<p, 1>> \in pending /\ pending' = pending \ {<<p, 1>>}
  BY DEF AllocCluster, Turn
<1>5. \A q \in DOMAIN tree : clusters[q] \in Seq(Nat)
  BY <1>3 DEF TypeInv, TypeOK
<1>6. Len(clusters[p]) = 0
  BY <1>2, <1>4 DEF AllocInv, Allocated
<1>7. DOMAIN clusters[p] = {}
  BY <1>5, <1>6, LenProperties
<1>8. DOMAIN new = 1 .. n /\ Len(new) = n /\ \A i \in 1 .. n : new[i] = total + i - 1
  BY <1>1
<1> HIDE DEF n, new
<1>9. clusters'[p] = new /\ \A q \in DOMAIN tree \ {p} : clusters'[q] = clusters[q]
  BY <1>3
<1>10. \A q \in DOMAIN tree \ {p} : \A i \in DOMAIN clusters[q] : clusters[q][i] \in 2 .. (total - 1)
  BY <1>3 DEF AllocInv
<1>11. \A q \in DOMAIN clusters' : \A i \in DOMAIN clusters'[q] : clusters'[q][i] \in 2 .. (total' - 1)
  BY <1>1, <1>2, <1>3, <1>8, <1>9, <1>10
<1>12. \A q \in DOMAIN tree' : Len(clusters'[q]) = IF phase' = "alloc" /\ <<q, 1>> \in pending' THEN 0 ELSE AllocCount(q)'
  <2>1. \A q \in DOMAIN tree : Len(clusters[q]) = IF <<q, 1>> \in pending THEN 0 ELSE AllocCount(q)
    BY <1>2 DEF AllocInv, Allocated
  <2>2. Len(clusters'[p]) = AllocCount(p)
    BY <1>8, <1>9 DEF n
  <2>3. \A q : AllocCount(q)' = AllocCount(q)
    BY <1>2, SameCount
  <2> TAKE q \in DOMAIN tree'
  <2>4. q \in DOMAIN tree /\ AllocCount(q)' = AllocCount(q)
    BY <1>2, <2>3
  <2>5. CASE q = p
    <3>1. <<q, 1>> \notin pending'
      BY <1>4, <2>5
    <3> QED
      BY <2>2, <2>4, <2>5, <3>1
  <2>6. CASE q # p
    <3>1. <<q, 1>> \in pending' <=> <<q, 1>> \in pending
      BY <1>4, <2>6
    <3> QED
      BY <1>2, <1>9, <2>1, <2>4, <2>6, <3>1
  <2> QED
    BY <2>5, <2>6
<1>13. ClustersDisjoint'
  <2> SUFFICES ASSUME NEW q \in DOMAIN tree, NEW r \in DOMAIN tree,
                      NEW i \in DOMAIN clusters'[q], NEW j \in DOMAIN clusters'[r],
                      clusters'[q][i] = clusters'[r][j]
               PROVE  q = r /\ i = j
    BY <1>3 DEF ClustersDisjoint
  <2>1. CASE q = p /\ r = p
    BY <1>1, <1>8, <1>9, <2>1
  <2>2. CASE q = p /\ r # p
    BY <1>1, <1>8, <1>9, <1>10, <2>2
  <2>3. CASE q # p /\ r = p
    BY <1>1, <1>8, <1>9, <1>10, <2>3
  <2>4. CASE q # p /\ r # p
    BY <1>3, <1>9, <2>4 DEF AllocInv, ClustersDisjoint
  <2> QED
    BY <2>1, <2>2, <2>3, <2>4
<1>14. NoLostClusters'
  <2> DEFINE U == UNION {{clusters[q][i] : i \in DOMAIN clusters[q]} : q \in DOMAIN clusters}
             V == UNION {{clusters'[q][i] : i \in DOMAIN clusters'[q]} : q \in DOMAIN clusters'}
  <2>1. U = 2 .. (total - 1)
    BY DEF AllocInv, NoLostClusters
  <2>2. \A c : c \in U <=> \E q \in DOMAIN tree : \E i \in DOMAIN clusters[q] : clusters[q][i] = c
    BY <1>3
  <2>3. \A c : c \in V <=> \E q \in DOMAIN tree : \E i \in DOMAIN clusters'[q] : clusters'[q][i] = c
    BY <1>3
  <2> HIDE DEF U, V
  <2>4. \A c : c \in V <=> c \in U \/ \E i \in 1 .. n : new[i] = c
    BY <1>7, <1>8, <1>9, <2>2, <2>3
  <2>5. \A c : (\E i \in 1 .. n : new[i] = c) <=> c \in total .. (total + n - 1)
    <3>1. ASSUME NEW c \in total .. (total + n - 1) PROVE \E i \in 1 .. n : new[i] = c
      <4>1. c - total + 1 \in 1 .. n /\ total + (c - total + 1) - 1 = c
        BY <1>1
      <4> QED
        BY <1>8, <4>1
    <3>2. ASSUME NEW i \in 1 .. n PROVE new[i] \in total .. (total + n - 1)
      BY <1>1, <1>8
    <3> QED
      BY <3>1, <3>2
  <2>6. \A c : c \in V <=> c \in 2 .. (total + n - 1)
    <3> TAKE c
    <3>1. c \in V <=> c \in 2 .. (total - 1) \/ c \in total .. (total + n - 1)
      BY <2>1, <2>4, <2>5
    <3> QED
      BY <1>1, <3>1
  <2>7. V = 2 .. (total' - 1)
    <3>1. V = 2 .. (total + n - 1)
      BY <2>6, Zenon
    <3>2. total' - 1 = total + n - 1
      BY <1>1, <1>2
    <3> QED
      BY <3>1, <3>2, Zenon
  <2> QED
    BY <2>7 DEF NoLostClusters, V
<1> QED
  BY <1>2, <1>11, <1>12, <1>13, <1>14 DEF AllocInv

\* The passes after it leave the allocation alone.
LEMMA AllocKept ==
  ASSUME TypeInv, AllocInv, UNCHANGED <<tree, clusters, total>>,
         phase \in {"alloc", "fat", "entries", "fill", "done"},
         phase = "alloc" => pending = {},
         phase' \in {"fat", "entries", "fill", "done", "crash"}
  PROVE  AllocInv'
<1>1. \A p : AllocCount(p)' = AllocCount(p)
  BY SameCount
<1>2. \A p \in DOMAIN tree : Len(clusters[p]) = AllocCount(p)
  BY DEF AllocInv, Allocated
<1> QED
  BY <1>1, <1>2 DEF AllocInv, Allocated, ClustersDisjoint, NoLostClusters

-----------------------------------------------------------------------------
(* Directory entries *)

\* What generate_fileentry still has to write are entries of nodes, and every
\* directory with a cluster has its cursor.
EntryInv ==
  phase = "entries" =>
    /\ pending \subseteq EntryJobs
    /\ DOMAIN cursor = {p \in DOMAIN tree : IsDir(p) /\ clusters[p] # <<>>}

IInv == TypeInv /\ AllocInv /\ TreeInv /\ EntryInv

\* A directory in which there is an entry to write has a cluster to write it to.
LEMMA HasCursor ==
  ASSUME IInv, phase = "entries", NEW job \in pending
  PROVE  Front(job[1]) \in DOMAIN cursor
<1> DEFINE p == job[1]
           d == Front(p)
<1>1. PICK q \in DOMAIN tree : Listed(q) /\ job \in {q} \X (1 .. EntryLen(q))
  BY DEF IInv, EntryInv, EntryJobs
<1>2. p = q /\ job = <<p, job[2]>> /\ job[2] \in 1 .. EntryLen(p) /\ p \in DOMAIN tree /\ p # Root
  BY <1>1 DEF Listed
<1>3. d \in DOMAIN tree /\ IsDir(d)
  BY <1>2 DEF IInv, TreeInv, Hangs, IsDir
<1>4. job \in EntriesIn(d)
  <2>1. p \in Children(d)
    BY <1>2 DEF Children
  <2> QED
    BY <1>2, <2>1 DEF EntriesIn
<1>5. TreeOK(tree)
  BY DEF IInv, TypeInv
<1>6. Cardinality(EntriesIn(d)) \in Nat \ {0}
  BY <1>4, <1>5, EntriesFinite, FS_CardinalityType, FS_EmptySet
<1>7. DirSize(d) \in Nat \ {0}
  BY <1>6 DEF DirSize, FileEntrySize
<1>8. AllocCount(d) = ClustersFor(DirSize(d))
  BY <1>3, <1>7 DEF AllocCount, IsDir
<1>9. Len(clusters[d]) = AllocCount(d)
  BY <1>3 DEF IInv, AllocInv, Allocated
<1>10. Len(clusters[d]) # 0
  BY <1>7, <1>8, <1>9, ClustersForType
<1>11. clusters[d] # <<>>
  BY <1>10, EmptySeq
<1> QED
  BY <1>3, <1>11 DEF IInv, EntryInv

LEMMA WriteEntryType ==
  ASSUME IInv, NEW job \in pending, WriteEntry(job[1], job[2])
  PROVE  TypeInv'
<1> DEFINE d == Front(job[1])
           at == Advanced(cursor[d])
<1>1. TypeInv /\ phase = "entries"
  BY DEF IInv, WriteEntry
<1>2. CASE NoFirstCluster(job[1])
  <2>1. TypeOK'
    BY <1>1, <1>2 DEF WriteEntry, TypeInv, TypeOK, ClusterNumber
  <2> QED
    BY <1>1, <1>2, <2>1 DEF WriteEntry, TypeInv, Allocated, TreeOK
<1>3. CASE ~ NoFirstCluster(job[1])
  <2>1. \A e \in DOMAIN cursor : cursor[e].now \in 0 .. SlotsPerClus
    BY <1>1 DEF TypeInv, TypeOK
  <2>2. at.now \in 0 .. (SlotsPerClus - 1)
    <3>1. d \in DOMAIN cursor
      BY <1>1, HasCursor
    <3> QED
      BY <2>1, <3>1, SlotsType DEF Advanced
  <2>3. DOMAIN disk' = {<<at.clust, at.now>>} \cup DOMAIN disk
    BY <1>3 DEF WriteEntry, Written
  <2>4. cursor' = [cursor EXCEPT ![d] = [clust |-> at.clust, now |-> at.now + 1]]
    BY <1>3 DEF WriteEntry
  <2> HIDE DEF at
  <2>6. \A g \in DOMAIN disk' : g[2] \in 0 .. (SlotsPerClus - 1)
    BY <1>1, <2>2, <2>3 DEF TypeInv, TypeOK
  <2>7. \A e \in DOMAIN cursor' : cursor'[e].now \in 0 .. SlotsPerClus
    <3>1. at.now + 1 \in 0 .. SlotsPerClus
      BY <2>2, SlotsType
    <3> QED
      BY <2>1, <2>4, <3>1
  <2>8. pending' \subseteq Path \X Nat
    BY <1>1, <1>3 DEF WriteEntry, TypeInv, TypeOK
  <2>9. TypeOK'
    BY <1>1, <1>3, <2>6, <2>7, <2>8 DEF WriteEntry, TypeInv, TypeOK, ClusterNumber
  <2> QED
    BY <1>1, <1>3, <2>9 DEF WriteEntry, TypeInv, Allocated, TreeOK
<1> QED
  BY <1>2, <1>3

LEMMA FillFileType ==
  ASSUME TypeInv, NEW p \in DOMAIN tree, FillFile(p)
  PROVE  TypeInv'
<1>1. \A g \in DOMAIN disk' : g[2] \in 0 .. (SlotsPerClus - 1)
  <2>1. CASE tree[p].real \in DOMAIN RealSlots
    <3> DEFINE s == clusters[p]
               slots == (DOMAIN s) \X (0 .. (SlotsPerClus - 1))
    <3>1. DOMAIN disk' = {<<s[x[1]], x[2]>> : x \in slots} \cup DOMAIN disk
      BY <2>1 DEF FillFile, Written
    <3>2. \A g \in {<<s[x[1]], x[2]>> : x \in slots} : g[2] \in 0 .. (SlotsPerClus - 1)
      OBVIOUS
    <3> QED
      BY <3>1, <3>2 DEF TypeInv, TypeOK
  <2>2. CASE tree[p].real \notin DOMAIN RealSlots
    BY <2>2 DEF FillFile, TypeInv, TypeOK
  <2> QED
    BY <2>1, <2>2
<1>2. pending' \subseteq Path \X Nat
  BY DEF FillFile, TypeInv, TypeOK
<1>3. TypeOK'
  BY <1>1, <1>2 DEF FillFile, TypeInv, TypeOK, ClusterNumber
<1> QED
  BY <1>3 DEF FillFile, TypeInv, Allocated, TreeOK

LEMMA StartFillType ==
  ASSUME TypeInv, StartFill
  PROVE  TypeInv'
<1>1. pending' \subseteq Path \X Nat
  BY JobsType DEF StartFill, TypeInv
<1>2. TypeOK'
  BY <1>1 DEF StartFill, TypeInv, TypeOK, ClusterNumber
<1> QED
  BY <1>2 DEF StartFill, TypeInv, Allocated, TreeOK

LEMMA CloseType ==
  ASSUME TypeInv, Close
  PROVE  TypeInv'
<1>1. TypeOK'
  BY DEF Close, TypeInv, TypeOK, ClusterNumber
<1> QED
  BY <1>1 DEF Close, TypeInv, Allocated, TreeOK

\* The entries to write depend on the tree only.
LEMMA SameEntryJobs ==
  ASSUME tree' = tree
  PROVE  EntryJobs' = EntryJobs
BY DEF EntryJobs, EntryLen, Listed

-----------------------------------------------------------------------------
(* The inductive invariant *)

LEMMA InitInv == Init => IInv
BY TypeInit, AllocInit DEF IInv, EntryInv, Init

LEMMA StepInv == IInv /\ [Next]_vars => IInv'
<1> SUFFICES ASSUME IInv, [Next]_vars PROVE IInv'
  OBVIOUS
<1> USE DEF IInv
<1>1. ASSUME \/ \E x \in Vols : VolLine(x)
             \/ \E p \in DirArgs : DirLine(p)
             \/ \E r \in Reals : RealLine(r)
             \/ \E a \in FileArgs : FileLine(a[1], a[2])
             \/ \E a \in LnameArgs : LnameLine(a[1], a[2], a[3])
      PROVE  IInv'
  <2>1. phase' \in {"parse", "crash"}
    BY <1>1 DEF VolLine, DirLine, RealLine, FileLine, LnameLine, Parsed, Segfault, Line
  <2> QED
    BY <1>1, <2>1, ParseType, ParseAlloc DEF EntryInv
<1>2. ASSUME StartAlloc PROVE IInv'
  BY <1>2, StartAllocType, StartAllocAlloc DEF StartAlloc, TreeInv, Hangs, EntryInv
<1>3. ASSUME NEW p \in DOMAIN tree, AllocCluster(p) PROVE IInv'
  BY <1>3, AllocType, AllocClusterAlloc DEF AllocCluster, TreeInv, Hangs, EntryInv
<1>4. ASSUME StartFat PROVE IInv'
  BY <1>4, StartFatType, AllocKept DEF StartFat, TreeInv, Hangs, EntryInv
<1>5. ASSUME NEW p \in DOMAIN tree, GenerateFat(p) PROVE IInv'
  BY <1>5, GenerateFatType, AllocKept DEF GenerateFat, TreeInv, Hangs, EntryInv
<1>6. ASSUME WriteFat PROVE IInv'
  <2>1. EntryInv'
    BY <1>6, SameEntryJobs DEF WriteFat, EntryInv, IsDir
  <2>2. phase = "fat" /\ phase' \in {"entries", "crash"} /\ UNCHANGED <<tree, clusters, total>>
    BY <1>6 DEF WriteFat
  <2> QED
    BY <1>6, <2>1, <2>2, WriteFatType, AllocKept DEF TreeInv, Hangs
<1>7. ASSUME NEW job \in pending, WriteEntry(job[1], job[2]) PROVE IInv'
  <2>1. /\ phase = "entries" /\ phase' \in {"entries", "crash"}
        /\ UNCHANGED <<tree, clusters, total>>
        /\ DOMAIN cursor' = DOMAIN cursor /\ pending' \subseteq pending
    BY <1>7 DEF WriteEntry
  <2>2. EntryInv'
    BY <2>1, SameEntryJobs DEF EntryInv, IsDir
  <2> QED
    BY <1>7, <2>1, <2>2, WriteEntryType, AllocKept DEF TreeInv, Hangs
<1>8. ASSUME StartFill PROVE IInv'
  BY <1>8, StartFillType, AllocKept DEF StartFill, TreeInv, Hangs, EntryInv
<1>9. ASSUME NEW p \in DOMAIN tree, FillFile(p) PROVE IInv'
  BY <1>9, FillFileType, AllocKept DEF FillFile, TreeInv, Hangs, EntryInv
<1>10. ASSUME Close PROVE IInv'
  BY <1>10, CloseType, AllocKept DEF Close, TreeInv, Hangs, EntryInv
<1>11. ASSUME UNCHANGED vars PROVE IInv'
  <2>1. TypeOK'
    BY <1>11 DEF vars, TypeInv, TypeOK, ClusterNumber
  <2>2. TypeInv'
    BY <1>11, <2>1 DEF vars, TypeInv, Allocated, TreeOK
  <2>3. \A p : AllocCount(p)' = AllocCount(p)
    BY <1>11, SameCount DEF vars
  <2>4. AllocInv'
    BY <1>11, <2>3 DEF vars, AllocInv, Allocated, ClustersDisjoint, NoLostClusters
  <2>5. EntryInv'
    BY <1>11, SameEntryJobs DEF vars, EntryInv, IsDir
  <2> QED
    BY <1>11, <2>2, <2>4, <2>5 DEF vars, TreeInv, Hangs
<1> QED
  BY <1>1, <1>2, <1>3, <1>4, <1>5, <1>6, <1>7, <1>8, <1>9, <1>10, <1>11
  DEF Next, Exited

LEMMA Invariance == Spec => []IInv
BY InitInv, StepInv, PTL DEF Spec

\* The type invariant holds for every touch.txt and every geometry: no counter,
\* cursor or slot leaves its range (write.cpp:336-366).
THEOREM TypeCorrect == Spec => []TypeOK
<1>1. IInv => TypeOK
  BY DEF IInv, TypeInv
<1> QED
  BY <1>1, Invariance, PTL

\* No cluster has two owners (write.cpp:198-202, 278-292).
THEOREM DisjointClusters == Spec => []ClustersDisjoint
<1>1. IInv => ClustersDisjoint
  BY DEF IInv, AllocInv
<1> QED
  BY <1>1, Invariance, PTL

\* Every cluster below total_clusters has an owner.
THEOREM AllClustersOwned == Spec => []NoLostClusters
<1>1. IInv => NoLostClusters
  BY DEF IInv, AllocInv
<1> QED
  BY <1>1, Invariance, PTL

\* The parser keeps every node hanging below a directory (write.cpp:426-470).
THEOREM TreeSound == Spec => []TreeHangsTogether
<1>1. IInv => TreeHangsTogether
  BY DEF IInv, TreeInv, Hangs, TreeHangsTogether, IsDir
<1> QED
  BY <1>1, Invariance, PTL
=============================================================================
