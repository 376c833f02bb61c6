-------------------------- MODULE FatReaderProofs --------------------------
(***************************************************************************)
(* The worklist of FatReader, for every image and every size: its type,    *)
(* that it reads no cluster twice, misses none, reads no other, and that   *)
(* the number of its steps is bounded.                                     *)
(*                                                                         *)
(* The inductive invariant says where every marked cluster is: waiting in  *)
(* clsIdtoRead, being read, or read.                                       *)
(***************************************************************************)
EXTENDS FatReader, SequenceTheorems, FiniteSetTheorems, TLAPS

InList(c) == \E i \in DOMAIN clsIdtoRead : clsIdtoRead[i] = c
InHand(c) == pc = "scan" /\ cluster = c

\* Every marked cluster is accounted for, and only marked ones are touched.
Accounted ==
  /\ RootCluster \in clsHasRead /\ cluster \in clsHasRead
  /\ \A c \in clsHasRead : InList(c) \/ InHand(c) \/ HasBeenRead(c)
  /\ \A i \in DOMAIN clsIdtoRead : clsIdtoRead[i] \in clsHasRead
  /\ \A g \in DOMAIN seen : g[1] \in clsHasRead
  /\ DOMAIN chain \subseteq clsHasRead
  /\ pc = "done" => clsIdtoRead = <<>>

\* What waits has not been read, and waits once.
WaitsOnce ==
  /\ \A i \in DOMAIN clsIdtoRead : ~ HasBeenRead(clsIdtoRead[i]) /\ ~ InHand(clsIdtoRead[i])
  /\ \A i, j \in DOMAIN clsIdtoRead : i # j => clsIdtoRead[i] # clsIdtoRead[j]

\* A cluster past its first slot has been read.
SlotsInOrder ==
  /\ pc = "scan" /\ slot > 0 => HasBeenRead(cluster)
  /\ pc = "chain" => HasBeenRead(cluster)

\* Where the entries and chains lead was marked.
TargetsMarked ==
  pc # "throw" => \A c \in Cluster : Subdirectory(c) \/ Continuation(c) => c \in clsHasRead

IInv == TypeOK /\ Accounted /\ WaitsOnce /\ SlotsInOrder /\ TargetsMarked

-----------------------------------------------------------------------------
LEMMA InitInv == Init => IInv /\ OnlyReachable
<1> SUFFICES ASSUME Init PROVE IInv /\ OnlyReachable
  OBVIOUS
<1> USE ReaderAssumption DEF Init
<1>1. DOMAIN seen = {} /\ DOMAIN chain = {}
  OBVIOUS
<1>2. DOMAIN clsIdtoRead = {1} /\ clsIdtoRead[1] = RootCluster
  OBVIOUS
<1>3. TypeOK
  BY <1>1 DEF TypeOK
<1>4. Accounted
  BY <1>1, <1>2 DEF Accounted, InList
<1>5. WaitsOnce /\ SlotsInOrder /\ TargetsMarked
  BY <1>1, <1>2 DEF WaitsOnce, SlotsInOrder, TargetsMarked, HasBeenRead, InHand,
                    Subdirectory, Continuation
<1>6. OnlyReachable
  BY DEF OnlyReachable, Closed
<1> QED BY <1>3, <1>4, <1>5, <1>6 DEF IInv

\* What Visit does to the list and the marks.
LEMMA VisitMarks ==
  ASSUME TypeOK, NEW c \in 0 .. (TotalClusters - 1), Visit(c)
  PROVE  /\ clsHasRead' = clsHasRead \cup {c}
         /\ clsIdtoRead' \in Seq(0 .. (TotalClusters - 1))
         /\ \A i \in DOMAIN clsIdtoRead :
              i \in DOMAIN clsIdtoRead' /\ clsIdtoRead'[i] = clsIdtoRead[i]
         /\ \A i \in DOMAIN clsIdtoRead' \ DOMAIN clsIdtoRead :
              clsIdtoRead'[i] = c /\ c \notin clsHasRead /\ i = Len(clsIdtoRead) + 1
         /\ c \notin clsHasRead => Len(clsIdtoRead) + 1 \in DOMAIN clsIdtoRead'
<1>1. CASE c \in clsHasRead
  BY <1>1 DEF Visit, TypeOK
<1>2. CASE c \notin clsHasRead
  <2> DEFINE S == 0 .. (TotalClusters - 1)
  <2>1. clsIdtoRead \in Seq(S) /\ c \in S
    BY DEF TypeOK
  <2>2. clsIdtoRead' = Append(clsIdtoRead, c) /\ clsHasRead' = clsHasRead \cup {c}
    BY <1>2 DEF Visit
  <2> HIDE DEF S
  <2>3. /\ Append(clsIdtoRead, c) \in Seq(S)
        /\ Len(Append(clsIdtoRead, c)) = Len(clsIdtoRead) + 1
        /\ \A i \in 1 .. Len(clsIdtoRead) : Append(clsIdtoRead, c)[i] = clsIdtoRead[i]
        /\ Append(clsIdtoRead, c)[Len(clsIdtoRead) + 1] = c
    BY <2>1, AppendProperties
  <2>4. /\ DOMAIN clsIdtoRead = 1 .. Len(clsIdtoRead) /\ Len(clsIdtoRead) \in Nat
        /\ DOMAIN clsIdtoRead' = 1 .. (Len(clsIdtoRead) + 1)
    BY <2>1, <2>2, <2>3
  <2>5. \A i \in DOMAIN clsIdtoRead :
          i \in DOMAIN clsIdtoRead' /\ clsIdtoRead'[i] = clsIdtoRead[i]
    BY <2>2, <2>3, <2>4
  <2>6. \A i \in DOMAIN clsIdtoRead' \ DOMAIN clsIdtoRead :
          clsIdtoRead'[i] = c /\ c \notin clsHasRead /\ i = Len(clsIdtoRead) + 1
    BY <1>2, <2>2, <2>3, <2>4
  <2>7. Len(clsIdtoRead) + 1 \in DOMAIN clsIdtoRead'
    BY <2>4
  <2> QED BY <2>2, <2>3, <2>5, <2>6, <2>7 DEF S
<1> QED BY <1>1, <1>2

LEMMA PopTakes ==
  ASSUME TypeOK, Pop
  PROVE  /\ Len(clsIdtoRead) \in DOMAIN clsIdtoRead
         /\ cluster' = clsIdtoRead[Len(clsIdtoRead)]
         /\ clsIdtoRead' \in Seq(0 .. (TotalClusters - 1))
         /\ DOMAIN clsIdtoRead' = DOMAIN clsIdtoRead \ {Len(clsIdtoRead)}
         /\ \A i \in DOMAIN clsIdtoRead' : clsIdtoRead'[i] = clsIdtoRead[i]
<1>1. clsIdtoRead \in Seq(0 .. (TotalClusters - 1)) /\ clsIdtoRead # <<>>
  BY DEF TypeOK, Pop
<1>2. Len(clsIdtoRead) \in Nat \ {0} /\ DOMAIN clsIdtoRead = 1 .. Len(clsIdtoRead)
  BY <1>1
<1>3. clsIdtoRead' = SubSeq(clsIdtoRead, 1, Len(clsIdtoRead) - 1)
  BY DEF Pop, Front
<1>4. DOMAIN clsIdtoRead' = 1 .. (Len(clsIdtoRead) - 1)
  BY <1>1, <1>2, <1>3
<1>5. \A i \in DOMAIN clsIdtoRead' : clsIdtoRead'[i] = clsIdtoRead[i]
  BY <1>1, <1>2, <1>3, <1>4
<1>6. clsIdtoRead' \in Seq(0 .. (TotalClusters - 1))
  <2> DEFINE S == 0 .. (TotalClusters - 1)
  <2>1. clsIdtoRead \in Seq(S) /\ clsIdtoRead # <<>>
    BY <1>1
  <2> HIDE DEF S
  <2>2. SubSeq(clsIdtoRead, 1, Len(clsIdtoRead) - 1) \in Seq(S)
    BY <2>1, <1>2, SubSeqProperties
  <2> QED BY <1>3, <2>2 DEF S
<1> QED BY <1>2, <1>4, <1>5, <1>6 DEF Pop, Last

LEMMA PopInv == IInv /\ OnlyReachable /\ Pop => IInv' /\ OnlyReachable'
<1> SUFFICES ASSUME IInv, OnlyReachable, Pop PROVE IInv' /\ OnlyReachable'
  OBVIOUS
<1> DEFINE n == Len(clsIdtoRead)
<1>1. TypeOK /\ Accounted /\ WaitsOnce
  BY DEF IInv
<1>2. /\ n \in DOMAIN clsIdtoRead /\ cluster' = clsIdtoRead[n]
      /\ clsIdtoRead' \in Seq(0 .. (TotalClusters - 1))
      /\ DOMAIN clsIdtoRead' = DOMAIN clsIdtoRead \ {n}
      /\ \A i \in DOMAIN clsIdtoRead' : clsIdtoRead'[i] = clsIdtoRead[i]
  BY <1>1, PopTakes
<1>3. pc' = "scan" /\ pc = "pop" /\ slot' = 0 /\ UNCHANGED <<clsHasRead, seen, chain>>
  BY DEF Pop
<1>4. cluster' \in clsHasRead
  BY <1>1, <1>2 DEF Accounted
<1>5. TypeOK'
  BY <1>1, <1>2, <1>3, <1>4, ReaderAssumption DEF TypeOK
<1>6. Accounted'
  <2>1. \A c \in clsHasRead : InList(c)' \/ InHand(c)' \/ HasBeenRead(c)'
    BY <1>1, <1>2, <1>3 DEF Accounted, InList, InHand, HasBeenRead
  <2>2. \A i \in DOMAIN clsIdtoRead' : clsIdtoRead'[i] \in clsHasRead'
    BY <1>1, <1>2, <1>3 DEF Accounted
  <2> QED BY <1>1, <1>3, <1>4, <2>1, <2>2 DEF Accounted
<1>7. WaitsOnce'
  <2>1. \A i \in DOMAIN clsIdtoRead' : ~ HasBeenRead(clsIdtoRead[i]) /\ clsIdtoRead[i] # clsIdtoRead[n]
    BY <1>1, <1>2 DEF WaitsOnce
  <2> QED BY <1>1, <1>2, <1>3, <2>1 DEF WaitsOnce, HasBeenRead, InHand
<1>8. SlotsInOrder' /\ TargetsMarked'
  BY <1>3 DEF IInv, SlotsInOrder, TargetsMarked, Subdirectory, Continuation
<1>9. OnlyReachable'
  BY <1>3 DEF OnlyReachable, Closed
<1> QED BY <1>5, <1>6, <1>7, <1>8, <1>9 DEF IInv

LEMMA FinishInv == IInv /\ OnlyReachable /\ (Finish \/ PastFat \/ Exited) => IInv' /\ OnlyReachable'
<1> SUFFICES ASSUME IInv, OnlyReachable, Finish \/ PastFat \/ Exited PROVE IInv' /\ OnlyReachable'
  OBVIOUS
<1>1. UNCHANGED <<clsIdtoRead, clsHasRead, cluster, slot, seen, chain>> /\ pc # "scan"
      /\ pc' \in {"done", "bad", "throw"} /\ (pc' # "throw" => pc # "throw")
  BY DEF Finish, PastFat, Exited, vars
<1>2. TypeOK'
  BY <1>1 DEF IInv, TypeOK
<1>3. Accounted' /\ WaitsOnce'
  BY <1>1 DEF IInv, Finish, PastFat, Exited, vars, Accounted, WaitsOnce, InList, InHand, HasBeenRead
<1>4. SlotsInOrder' /\ TargetsMarked'
  BY <1>1 DEF IInv, SlotsInOrder, TargetsMarked, Subdirectory, Continuation, HasBeenRead
<1>5. OnlyReachable'
  BY <1>1 DEF OnlyReachable, Closed
<1> QED BY <1>2, <1>3, <1>4, <1>5 DEF IInv

\* Reading the entry of a slot: `seen` grows by that slot, and the cluster of it
\* has been read from then on.
LEMMA EntrySeen ==
  ASSUME TypeOK, SlotsInOrder, NEW e \in Entry, ReadEntry(e)
  PROVE  /\ DOMAIN seen' = DOMAIN seen \cup {<<cluster, slot>>}
         /\ seen'[<<cluster, slot>>] = e
         /\ \A g \in DOMAIN seen : seen'[g] = seen[g]
         /\ DOMAIN seen' \subseteq Cluster \X (0 .. (Slots - 1))
         /\ \A g \in DOMAIN seen' : seen'[g] \in Entry
         /\ HasBeenRead(cluster)'
         /\ \A c : HasBeenRead(c)' => HasBeenRead(c) \/ c = cluster
         /\ \A c : HasBeenRead(c) => HasBeenRead(c)'
<1> DEFINE g0 == <<cluster, slot>>
<1>1. pc = "scan" /\ Holds(g0, e) /\ Seen(g0, e) /\ UNCHANGED <<cluster, chain>>
  BY DEF ReadEntry
<1>2. seen' = [h \in DOMAIN seen \cup {g0} |-> IF h = g0 THEN e ELSE seen[h]]
  BY <1>1 DEF Seen
<1>3. DOMAIN seen' = DOMAIN seen \cup {g0} /\ seen'[g0] = e
  BY <1>2
<1>4. \A g \in DOMAIN seen : seen'[g] = seen[g]
  BY <1>1, <1>2 DEF Holds
<1>5. g0 \in Cluster \X (0 .. (Slots - 1))
  BY <1>1, ReaderAssumption DEF TypeOK, Cluster
<1>6. DOMAIN seen' \subseteq Cluster \X (0 .. (Slots - 1)) /\ \A g \in DOMAIN seen' : seen'[g] \in Entry
  BY <1>3, <1>4, <1>5 DEF TypeOK
<1>7. slot = 0 \/ HasBeenRead(cluster)
  <2>1. slot \in 0 .. Slots
    BY DEF TypeOK
  <2> QED BY <1>1, <2>1, ReaderAssumption DEF SlotsInOrder
<1>8. HasBeenRead(cluster)'
  BY <1>1, <1>3, <1>7 DEF HasBeenRead
<1>9. \A c : HasBeenRead(c)' => HasBeenRead(c) \/ c = cluster
  BY <1>1, <1>3 DEF HasBeenRead
<1>10. \A c : HasBeenRead(c) => HasBeenRead(c)'
  BY <1>3 DEF HasBeenRead
<1> QED BY <1>3, <1>4, <1>6, <1>8, <1>9, <1>10

\* What both a scanned entry and a followed chain do to the list: nothing, or the
\* visit of a cluster that may be marked already.
ListKept == UNCHANGED <<clsIdtoRead, clsHasRead>>
ListStep(c) == ListKept \/ (c \in 0 .. (TotalClusters - 1) /\ Visit(c))

LEMMA ListStepMarks ==
  ASSUME TypeOK, Accounted, WaitsOnce, NEW c, ListStep(c)
  PROVE  /\ clsHasRead \subseteq clsHasRead' /\ clsHasRead' \subseteq clsHasRead \cup {c}
         /\ clsHasRead' \subseteq 0 .. (TotalClusters - 1)
         /\ clsIdtoRead' \in Seq(0 .. (TotalClusters - 1))
         /\ \A d : InList(d) => InList(d)'
         /\ \A d \in clsHasRead' \ clsHasRead : InList(d)'
         /\ \A i \in DOMAIN clsIdtoRead' :
              clsIdtoRead'[i] \in clsHasRead' /\ (InList(clsIdtoRead'[i]) \/ clsIdtoRead'[i] \notin clsHasRead)
         /\ \A i, j \in DOMAIN clsIdtoRead' : i # j => clsIdtoRead'[i] # clsIdtoRead'[j]
<1>1. CASE ListKept
  BY <1>1 DEF ListKept, TypeOK, Accounted, WaitsOnce, InList
<1>2. CASE c \in 0 .. (TotalClusters - 1) /\ Visit(c)
  <2>1. /\ clsHasRead' = clsHasRead \cup {c}
        /\ clsIdtoRead' \in Seq(0 .. (TotalClusters - 1))
        /\ \A i \in DOMAIN clsIdtoRead :
             i \in DOMAIN clsIdtoRead' /\ clsIdtoRead'[i] = clsIdtoRead[i]
        /\ \A i \in DOMAIN clsIdtoRead' \ DOMAIN clsIdtoRead :
             clsIdtoRead'[i] = c /\ c \notin clsHasRead /\ i = Len(clsIdtoRead) + 1
        /\ c \notin clsHasRead => Len(clsIdtoRead) + 1 \in DOMAIN clsIdtoRead'
    BY <1>2, VisitMarks
  <2>2. clsIdtoRead \in Seq(0 .. (TotalClusters - 1)) /\ DOMAIN clsIdtoRead = 1 .. Len(clsIdtoRead)
    BY DEF TypeOK
  <2>3. Len(clsIdtoRead) + 1 \notin DOMAIN clsIdtoRead
    BY <2>2
  <2>4. clsHasRead' \subseteq 0 .. (TotalClusters - 1)
    BY <1>2, <2>1 DEF TypeOK
  <2>5. \A d : InList(d) => InList(d)'
    BY <2>1 DEF InList
  <2>6. \A d \in clsHasRead' \ clsHasRead : InList(d)'
    BY <2>1, <2>3 DEF InList
  <2>7. \A i \in DOMAIN clsIdtoRead' :
          clsIdtoRead'[i] \in clsHasRead' /\ (InList(clsIdtoRead'[i]) \/ clsIdtoRead'[i] \notin clsHasRead)
    BY <2>1 DEF Accounted, InList
  <2>8. \A i, j \in DOMAIN clsIdtoRead' : i # j => clsIdtoRead'[i] # clsIdtoRead'[j]
    BY <2>1 DEF Accounted, WaitsOnce
  <2> QED BY <2>1, <2>4, <2>5, <2>6, <2>7, <2>8
<1> QED BY <1>1, <1>2 DEF ListStep

LEMMA ReadEntryInv ==
  ASSUME IInv, OnlyReachable, NEW e \in Entry, ReadEntry(e)
  PROVE  IInv' /\ OnlyReachable'
<1>1. TypeOK /\ Accounted /\ WaitsOnce /\ SlotsInOrder /\ TargetsMarked
  BY DEF IInv
<1>2. pc = "scan" /\ UNCHANGED <<cluster, chain>> /\ slot < Slots /\ slot \in Nat
  BY <1>1 DEF ReadEntry, TypeOK
<1>3. /\ DOMAIN seen' = DOMAIN seen \cup {<<cluster, slot>>}
      /\ seen'[<<cluster, slot>>] = e
      /\ \A g \in DOMAIN seen : seen'[g] = seen[g]
      /\ DOMAIN seen' \subseteq Cluster \X (0 .. (Slots - 1))
      /\ \A g \in DOMAIN seen' : seen'[g] \in Entry
      /\ HasBeenRead(cluster)'
      /\ \A c : HasBeenRead(c)' => HasBeenRead(c) \/ c = cluster
      /\ \A c : HasBeenRead(c) => HasBeenRead(c)'
  BY <1>1, EntrySeen
<1>4. ListStep(e.first)
  <2>1. e.kind = "dir" => e.first \in Cluster
    BY DEF Entry
  <2> QED BY <2>1, ReaderAssumption DEF ReadEntry, ListStep, ListKept, Cluster
<1>5. pc' # "throw" /\ e.kind = "dir" => e.first \in clsHasRead'
  BY <1>1, ReaderAssumption DEF ReadEntry, Visit, Cluster
<1>6. pc' \in {"pop", "scan", "chain", "throw"} /\ slot' \in 0 .. Slots /\ (pc' = "scan" => slot' < Slots)
  BY <1>2, ReaderAssumption DEF ReadEntry, NextSlot
<1>7. /\ clsHasRead \subseteq clsHasRead' /\ clsHasRead' \subseteq clsHasRead \cup {e.first}
      /\ clsHasRead' \subseteq 0 .. (TotalClusters - 1)
      /\ clsIdtoRead' \in Seq(0 .. (TotalClusters - 1))
      /\ \A d : InList(d) => InList(d)'
      /\ \A d \in clsHasRead' \ clsHasRead : InList(d)'
      /\ \A i \in DOMAIN clsIdtoRead' :
           clsIdtoRead'[i] \in clsHasRead' /\ (InList(clsIdtoRead'[i]) \/ clsIdtoRead'[i] \notin clsHasRead)
      /\ \A i, j \in DOMAIN clsIdtoRead' : i # j => clsIdtoRead'[i] # clsIdtoRead'[j]
  BY <1>1, <1>4, ListStepMarks
<1>8. TypeOK'
  BY <1>1, <1>2, <1>3, <1>6, <1>7 DEF TypeOK
<1>9. Accounted'
  <2>1. \A c \in clsHasRead' : InList(c)' \/ InHand(c)' \/ HasBeenRead(c)'
    BY <1>1, <1>2, <1>3, <1>7 DEF Accounted, InHand
  <2>2. cluster \in clsHasRead /\ \A g \in DOMAIN seen : g[1] \in clsHasRead
    BY <1>1 DEF Accounted
  <2>3. \A g \in DOMAIN seen' : g[1] \in clsHasRead'
    <3> TAKE g \in DOMAIN seen'
    <3>1. CASE g \in DOMAIN seen
      BY <1>7, <2>2, <3>1
    <3>2. CASE g = <<cluster, slot>>
      BY <1>7, <2>2, <3>2
    <3> QED BY <1>3, <3>1, <3>2
  <2>4. RootCluster \in clsHasRead' /\ cluster' \in clsHasRead' /\ DOMAIN chain' \subseteq clsHasRead'
    BY <1>1, <1>2, <1>7 DEF Accounted
  <2> QED BY <1>6, <1>7, <2>1, <2>3, <2>4 DEF Accounted
<1>10. WaitsOnce'
  <2>1. ASSUME NEW i \in DOMAIN clsIdtoRead'
        PROVE  ~ HasBeenRead(clsIdtoRead'[i]) /\ clsIdtoRead'[i] # cluster
    <3>1. CASE InList(clsIdtoRead'[i])
      BY <1>1, <1>2, <3>1 DEF InList, WaitsOnce, InHand
    <3>2. CASE clsIdtoRead'[i] \notin clsHasRead
      BY <1>1, <3>2 DEF Accounted, HasBeenRead
    <3> QED BY <1>7, <3>1, <3>2
  <2>2. \A c : HasBeenRead(c)' => HasBeenRead(c) \/ c = cluster
    BY <1>3
  <2>3. \A i \in DOMAIN clsIdtoRead' : (~ HasBeenRead(clsIdtoRead[i]))' /\ (~ InHand(clsIdtoRead[i]))'
    BY <1>2, <2>1, <2>2 DEF InHand, HasBeenRead
  <2> QED BY <1>7, <2>3 DEF WaitsOnce
<1>11. SlotsInOrder'
  BY <1>2, <1>3 DEF SlotsInOrder
<1>12. TargetsMarked'
  <2> SUFFICES ASSUME pc' # "throw", NEW c \in Cluster, Subdirectory(c)' \/ Continuation(c)'
               PROVE  c \in clsHasRead'
    BY DEF TargetsMarked
  <2>1. CASE Continuation(c)'
    BY <1>1, <1>2, <1>7, <2>1 DEF TargetsMarked, Continuation
  <2>2. CASE Subdirectory(c)'
    <3>1. PICK g \in DOMAIN seen' : seen'[g].kind = "dir" /\ seen'[g].first = c
      BY <2>2 DEF Subdirectory
    <3>2. CASE g \in DOMAIN seen
      BY <1>1, <1>2, <1>3, <1>7, <3>1, <3>2 DEF TargetsMarked, Subdirectory
    <3>3. CASE g = <<cluster, slot>>
      BY <1>3, <1>5, <3>1, <3>3
    <3> QED BY <1>3, <3>2, <3>3
  <2> QED BY <2>1, <2>2
<1>13. OnlyReachable'
  <2> SUFFICES ASSUME NEW S \in SUBSET Cluster, Closed(S)' PROVE clsHasRead' \subseteq S
    BY DEF OnlyReachable
  <2>1. Closed(S)
    BY <1>2, <1>3 DEF Closed
  <2>2. clsHasRead \subseteq S
    BY <2>1 DEF OnlyReachable
  <2>3. cluster \in S
    BY <1>1, <2>2 DEF Accounted
  <2>4. e.kind = "dir" => e.first \in S
    BY <1>3, <2>3 DEF Closed
  <2>5. e.kind # "dir" => clsHasRead' = clsHasRead
    BY DEF ReadEntry
  <2> QED BY <1>7, <2>2, <2>4, <2>5
<1> QED BY <1>8, <1>9, <1>10, <1>11, <1>12, <1>13 DEF IInv

LEMMA FollowChainInv ==
  ASSUME IInv, OnlyReachable, NEW v \in Cluster \cup {BadCluster, EndMark}, FollowChain(v)
  PROVE  IInv' /\ OnlyReachable'
<1>1. TypeOK /\ Accounted /\ WaitsOnce /\ SlotsInOrder /\ TargetsMarked
  BY DEF IInv
<1>2. pc = "chain" /\ UNCHANGED <<cluster, slot, seen>> /\ HasBeenRead(cluster)
  BY <1>1 DEF FollowChain, SlotsInOrder
<1>3. /\ DOMAIN chain' = DOMAIN chain \cup {cluster} /\ chain'[cluster] = v
      /\ \A b \in DOMAIN chain : chain'[b] = chain[b]
  BY DEF FollowChain, Chained
<1>4. ListStep(v)
  BY ReaderAssumption DEF FollowChain, ListStep, ListKept, Cluster, BadCluster, EndMark
<1>5. pc' \in {"pop", "bad", "throw"}
  BY DEF FollowChain
<1>6. pc' # "throw" /\ v < BadCluster => v \in clsHasRead'
  BY <1>1, ReaderAssumption DEF FollowChain, Visit, Cluster, BadCluster, EndMark
<1>7. /\ clsHasRead \subseteq clsHasRead' /\ clsHasRead' \subseteq clsHasRead \cup {v}
      /\ clsHasRead' \subseteq 0 .. (TotalClusters - 1)
      /\ clsIdtoRead' \in Seq(0 .. (TotalClusters - 1))
      /\ \A d : InList(d) => InList(d)'
      /\ \A d \in clsHasRead' \ clsHasRead : InList(d)'
      /\ \A i \in DOMAIN clsIdtoRead' :
           clsIdtoRead'[i] \in clsHasRead' /\ (InList(clsIdtoRead'[i]) \/ clsIdtoRead'[i] \notin clsHasRead)
      /\ \A i, j \in DOMAIN clsIdtoRead' : i # j => clsIdtoRead'[i] # clsIdtoRead'[j]
  BY <1>1, <1>4, ListStepMarks
<1>8. TypeOK'
  <2>1. DOMAIN chain' \subseteq Cluster /\ \A b \in DOMAIN chain' : chain'[b] \in Cluster \cup {BadCluster, EndMark}
    BY <1>1, <1>3, ReaderAssumption DEF TypeOK, Cluster
  <2> QED BY <1>1, <1>2, <1>5, <1>7, <2>1 DEF TypeOK
<1>9. Accounted'
  <2>1. \A c \in clsHasRead' : InList(c)' \/ HasBeenRead(c)'
    BY <1>1, <1>2, <1>7 DEF Accounted, InHand, HasBeenRead
  <2>2. /\ cluster \in clsHasRead /\ RootCluster \in clsHasRead /\ DOMAIN chain \subseteq clsHasRead
        /\ \A g \in DOMAIN seen : g[1] \in clsHasRead
    BY <1>1 DEF Accounted
  <2>3. DOMAIN chain' \subseteq clsHasRead'
    BY <1>3, <1>7, <2>2
  <2>4. cluster' \in clsHasRead' /\ RootCluster \in clsHasRead' /\ \A g \in DOMAIN seen' : g[1] \in clsHasRead'
    BY <1>2, <1>7, <2>2
  <2> QED BY <1>5, <1>7, <2>1, <2>3, <2>4 DEF Accounted
<1>10. WaitsOnce'
  <2>1. ASSUME NEW i \in DOMAIN clsIdtoRead' PROVE ~ HasBeenRead(clsIdtoRead'[i])
    <3>1. CASE InList(clsIdtoRead'[i])
      BY <1>1, <3>1 DEF InList, WaitsOnce
    <3>2. CASE clsIdtoRead'[i] \notin clsHasRead
      BY <1>1, <3>2 DEF Accounted, HasBeenRead
    <3> QED BY <1>7, <3>1, <3>2
  <2>2. \A i \in DOMAIN clsIdtoRead' : (~ HasBeenRead(clsIdtoRead[i]))' /\ (~ InHand(clsIdtoRead[i]))'
    BY <1>2, <1>5, <2>1 DEF InHand, HasBeenRead
  <2> QED BY <1>7, <2>2 DEF WaitsOnce
<1>11. SlotsInOrder'
  BY <1>5 DEF SlotsInOrder
<1>12. TargetsMarked'
  <2> SUFFICES ASSUME pc' # "throw", NEW c \in Cluster, Subdirectory(c)' \/ Continuation(c)'
               PROVE  c \in clsHasRead'
    BY DEF TargetsMarked
  <2>1. CASE Subdirectory(c)'
    BY <1>1, <1>2, <1>7, <2>1 DEF TargetsMarked, Subdirectory
  <2>2. CASE Continuation(c)'
    <3>1. PICK b \in DOMAIN chain' : chain'[b] < BadCluster /\ chain'[b] = c
      BY <2>2 DEF Continuation
    <3>2. CASE b \in DOMAIN chain
      BY <1>1, <1>2, <1>3, <1>7, <3>1, <3>2 DEF TargetsMarked, Continuation
    <3>3. CASE b = cluster
      BY <1>3, <1>6, <3>1, <3>3
    <3> QED BY <1>3, <3>2, <3>3
  <2> QED BY <2>1, <2>2
<1>13. OnlyReachable'
  <2> SUFFICES ASSUME NEW S \in SUBSET Cluster, Closed(S)' PROVE clsHasRead' \subseteq S
    BY DEF OnlyReachable
  <2>1. Closed(S)
    BY <1>2, <1>3 DEF Closed
  <2>2. clsHasRead \subseteq S
    BY <2>1 DEF OnlyReachable
  <2>3. cluster \in S
    BY <1>1, <2>2 DEF Accounted
  <2>4. v < BadCluster => v \in S
    BY <1>3, <2>3 DEF Closed
  <2>5. ~ (v < BadCluster) => clsHasRead' = clsHasRead
    BY ReaderAssumption DEF FollowChain, BadCluster, EndMark, Cluster
  <2> QED BY <1>7, <2>2, <2>4, <2>5
<1> QED BY <1>8, <1>9, <1>10, <1>11, <1>12, <1>13 DEF IInv

LEMMA StepInv == IInv /\ OnlyReachable /\ [Next]_vars => IInv' /\ OnlyReachable'
<1> SUFFICES ASSUME IInv, OnlyReachable, [Next]_vars PROVE IInv' /\ OnlyReachable'
  OBVIOUS
<1>1. CASE Pop
  BY <1>1, PopInv
<1>2. CASE Finish \/ PastFat \/ Exited
  BY <1>2, FinishInv
<1>3. CASE \E e \in Entry : ReadEntry(e)
  BY <1>3, ReadEntryInv
<1>4. CASE \E v \in Cluster \cup {BadCluster, EndMark} : FollowChain(v)
  BY <1>4, FollowChainInv
<1>5. CASE UNCHANGED vars
  BY <1>5 DEF vars, IInv, TypeOK, Accounted, WaitsOnce, SlotsInOrder, TargetsMarked, OnlyReachable,
              InList, InHand, HasBeenRead, Subdirectory, Continuation, Closed
<1> QED BY <1>1, <1>2, <1>3, <1>4, <1>5 DEF Next

LEMMA Invariance == Spec => [](IInv /\ OnlyReachable)
<1>1. Init => IInv /\ OnlyReachable
  BY InitInv
<1>2. (IInv /\ OnlyReachable) /\ [Next]_vars => (IInv /\ OnlyReachable)'
  BY StepInv
<1> QED BY <1>1, <1>2, PTL DEF Spec

-----------------------------------------------------------------------------
\* The variables of read.cpp's loop keep their types (read.cpp:79-92).
THEOREM ReaderTypes == Spec => []TypeOK
<1>1. IInv /\ OnlyReachable => TypeOK
  BY DEF IInv
<1> QED BY <1>1, Invariance, PTL

\* When the loop of read.cpp:90-155 runs dry, it has read every cluster that the
\* directories it read lead to, for every image.
THEOREM ReaderComplete == Spec => []NothingMissed
<1>1. IInv /\ OnlyReachable => NothingMissed
  <2> SUFFICES ASSUME IInv, pc = "done", NEW c \in Cluster,
                      c = RootCluster \/ Subdirectory(c) \/ Continuation(c)
               PROVE  HasBeenRead(c)
    BY DEF NothingMissed
  <2>1. c \in clsHasRead
    BY DEF IInv, Accounted, TargetsMarked
  <2>2. ~ InList(c)
    BY DEF IInv, Accounted, InList
  <2> QED BY <2>1, <2>2 DEF IInv, Accounted, InHand
<1> QED BY <1>1, Invariance, PTL

\* Every cluster that read.cpp marks is one the root leads to, for every image.
THEOREM ReaderSound == Spec => []OnlyReachable
BY Invariance, PTL

\* No cluster is read twice, for every image and whatever its cycles
\* (read.cpp:88-93, 136-149).
THEOREM ReaderReadsOnce == Spec => ReadOnce
<1>1. IInv /\ [Next]_vars => [pc' = "scan" /\ pc = "pop" => ~ HasBeenRead(cluster')]_vars
  <2> SUFFICES ASSUME IInv, Next, pc' = "scan", pc = "pop" PROVE ~ HasBeenRead(cluster')
    OBVIOUS
  <2>1. Pop
    BY DEF Next, Finish, PastFat, Exited, ReadEntry, FollowChain, vars
  <2> QED BY <2>1, PopTakes DEF IInv, WaitsOnce
<1> QED BY <1>1, Invariance, PTL DEF Spec, ReadOnce

-----------------------------------------------------------------------------
(* The implementation of Exploration *)

\* The cluster being read does not wait.
LEMMA InHandIsRead ==
  ASSUME IInv, pc \in {"scan", "chain"}
  PROVE  cluster \in Known /\ cluster \in clsHasRead \ Waiting
BY DEF IInv, TypeOK, Accounted, WaitsOnce, SlotsInOrder, Waiting, InHand, Known

\* What is read does not change by the visit of a cluster.
LEMMA VisitKeepsRead ==
  ASSUME IInv, NEW c, ListStep(c)
  PROVE  clsHasRead' \ Waiting' = clsHasRead \ Waiting
<1>1. CASE ListKept
  BY <1>1 DEF ListKept, Waiting
<1>2. CASE c \in 0 .. (TotalClusters - 1) /\ Visit(c)
  <2>1. /\ clsHasRead' = clsHasRead \cup {c}
        /\ \A i \in DOMAIN clsIdtoRead : i \in DOMAIN clsIdtoRead' /\ clsIdtoRead'[i] = clsIdtoRead[i]
        /\ \A i \in DOMAIN clsIdtoRead' \ DOMAIN clsIdtoRead : clsIdtoRead'[i] = c /\ c \notin clsHasRead
        /\ c \notin clsHasRead => Len(clsIdtoRead) + 1 \in DOMAIN clsIdtoRead'
    BY <1>2, VisitMarks DEF IInv
  <2>2. Len(clsIdtoRead) + 1 \notin DOMAIN clsIdtoRead
    BY DEF IInv, TypeOK
  <2>3. Waiting' = Waiting \cup (clsHasRead' \ clsHasRead)
    <3>1. c \notin clsHasRead => c \in Waiting'
      BY <2>1, <2>2 DEF Waiting
    <3>2. Waiting \subseteq Waiting'
      BY <2>1 DEF Waiting
    <3>3. Waiting' \subseteq Waiting \cup (clsHasRead' \ clsHasRead)
      BY <2>1 DEF Waiting
    <3> QED BY <2>1, <3>1, <3>2, <3>3
  <2> QED BY <2>1, <2>3
<1> QED BY <1>1, <1>2 DEF ListStep

LEMMA PopReads == IInv /\ Pop => Walk!Read(cluster') /\ cluster' \in Known
<1> SUFFICES ASSUME IInv, Pop PROVE Walk!Read(cluster') /\ cluster' \in Known
  OBVIOUS
<1> DEFINE n == Len(clsIdtoRead)
<1>1. /\ n \in DOMAIN clsIdtoRead /\ cluster' = clsIdtoRead[n]
      /\ DOMAIN clsIdtoRead' = DOMAIN clsIdtoRead \ {n}
      /\ \A i \in DOMAIN clsIdtoRead' : clsIdtoRead'[i] = clsIdtoRead[i]
  BY PopTakes DEF IInv
<1>2. pc = "pop" /\ pc' = "scan" /\ UNCHANGED <<clsHasRead, seen, chain>>
  BY DEF Pop
<1>3. cluster' \in clsHasRead /\ cluster' \in Waiting /\ cluster' \in Known
  BY <1>1 DEF IInv, TypeOK, Accounted, Waiting, Known
<1>4. Waiting' = Waiting \ {cluster'}
  BY <1>1 DEF IInv, WaitsOnce, Waiting
<1>5. Status = "walking" /\ Status' = "walking"
  BY <1>2 DEF Status
<1>6. Leads' = Leads
  BY <1>2 DEF Leads, LeadsTo, Known
<1> QED BY <1>2, <1>3, <1>4, <1>5, <1>6 DEF Walk!Read

LEMMA ReadEntryDiscovers ==
  ASSUME IInv, NEW e \in Entry, ReadEntry(e)
  PROVE  [Walk!Next]_(Walk!vars)
<1>1. pc = "scan" /\ UNCHANGED <<cluster, chain>> /\ slot \in 0 .. (Slots - 1)
  BY ReaderAssumption DEF ReadEntry, IInv, TypeOK
<1>2. cluster \in Known /\ cluster \in clsHasRead \ Waiting
  BY <1>1, InHandIsRead
<1>3. /\ DOMAIN seen' = DOMAIN seen \cup {<<cluster, slot>>}
      /\ seen'[<<cluster, slot>>] = e
      /\ \A g \in DOMAIN seen : seen'[g] = seen[g]
  BY EntrySeen DEF IInv
<1>4. Status = "walking"
  BY <1>1 DEF Status
<1>5. ASSUME e.kind # "dir" \/ e.first \notin Known PROVE Leads' = Leads
  BY <1>1, <1>3, <1>5 DEF Leads, LeadsTo, Known
<1>6. CASE e.kind = "dir" /\ e.first < TotalClusters
  <2>1. e.first \in Known
    BY <1>6, ReaderAssumption DEF Entry, Known, Cluster
  <2>2. Visit(e.first) /\ NextSlot
    BY <1>6, <2>1, ReaderAssumption DEF ReadEntry, Known
  <2>3. clsHasRead' \ Waiting' = clsHasRead \ Waiting
    BY <2>1, <2>2, VisitKeepsRead DEF ListStep, Known
  <2>4. clsHasRead' = clsHasRead \cup {e.first}
    BY <2>1, <2>2, VisitMarks DEF IInv, Known
  <2>5. Status' = "walking"
    BY <2>2 DEF NextSlot, Status
  <2>6. Leads' = Leads \cup {<<cluster, e.first>>}
    <3>1. \A b, c \in Known : LeadsTo(b, c)' <=> LeadsTo(b, c) \/ (b = cluster /\ c = e.first)
      BY <1>1, <1>3, <1>6 DEF LeadsTo
    <3> QED BY <1>2, <2>1, <3>1 DEF Leads, Known
  <2>7. Walk!Discover(cluster, e.first)
    BY <1>2, <1>4, <2>3, <2>4, <2>5, <2>6 DEF Walk!Discover
  <2> QED BY <1>2, <2>1, <2>7 DEF Walk!Next
<1>7. CASE e.kind = "dir" /\ e.first >= TotalClusters
  <2>1. pc' = "throw" /\ UNCHANGED <<clsIdtoRead, clsHasRead>>
    BY <1>7, ReaderAssumption DEF ReadEntry, Entry, Cluster
  <2>2. e.first \notin Known
    BY <1>7, ReaderAssumption DEF Known, Entry, Cluster
  <2> QED BY <1>4, <1>5, <2>1, <2>2 DEF Walk!Next, Walk!GiveUp, Status, Waiting
<1>8. CASE e.kind # "dir"
  <2>1. pc' \in {"pop", "scan", "chain"} /\ UNCHANGED <<clsIdtoRead, clsHasRead>>
    BY <1>8 DEF ReadEntry, NextSlot
  <2> QED BY <1>4, <1>5, <1>8, <2>1 DEF Walk!vars, Status, Waiting
<1>9. e.kind # "dir" \/ e.first \in Nat
  BY ReaderAssumption DEF Entry, Cluster
<1> QED BY <1>6, <1>7, <1>8, <1>9, ReaderAssumption

LEMMA FollowChainDiscovers ==
  ASSUME IInv, NEW v \in Cluster \cup {BadCluster, EndMark}, FollowChain(v)
  PROVE  [Walk!Next]_(Walk!vars)
<1>1. pc = "chain" /\ UNCHANGED <<cluster, slot, seen>> /\ Status = "walking"
  BY DEF FollowChain, Status
<1>2. cluster \in Known /\ cluster \in clsHasRead \ Waiting
  BY <1>1, InHandIsRead
<1>3. /\ DOMAIN chain' = DOMAIN chain \cup {cluster} /\ chain'[cluster] = v
      /\ \A b \in DOMAIN chain : chain'[b] = chain[b]
  BY DEF FollowChain, Chained
<1>4. v \in Nat
  BY ReaderAssumption DEF Cluster, BadCluster, EndMark
<1>5. CASE v < TotalClusters
  <2>1. v \in Known /\ Visit(v) /\ pc' = "pop"
    BY <1>4, <1>5, ReaderAssumption DEF FollowChain, Known, BadCluster
  <2>2. clsHasRead' \ Waiting' = clsHasRead \ Waiting
    BY <2>1, VisitKeepsRead DEF ListStep, Known
  <2>3. clsHasRead' = clsHasRead \cup {v}
    BY <2>1, VisitMarks DEF IInv, Known
  <2>4. Status' = "walking"
    BY <2>1 DEF Status
  <2>5. Leads' = Leads \cup {<<cluster, v>>}
    <3>1. \A b, c \in Known : LeadsTo(b, c)' <=> LeadsTo(b, c) \/ (b = cluster /\ c = v)
      BY <1>1, <1>3 DEF LeadsTo
    <3> QED BY <1>2, <2>1, <3>1 DEF Leads, Known
  <2>6. Walk!Discover(cluster, v)
    BY <1>1, <1>2, <2>2, <2>3, <2>4, <2>5 DEF Walk!Discover
  <2> QED BY <1>2, <2>1, <2>6 DEF Walk!Next
<1>6. CASE ~ (v < TotalClusters)
  <2>1. UNCHANGED <<clsIdtoRead, clsHasRead>> /\ pc' \in {"pop", "bad", "throw"}
    BY <1>6 DEF FollowChain
  <2>2. Leads' = Leads
    <3>1. v \notin Known
      BY <1>4, <1>6, ReaderAssumption DEF Known
    <3> QED BY <1>1, <1>3, <3>1 DEF Leads, LeadsTo, Known
  <2>3. CASE pc' = "pop"
    BY <1>1, <2>1, <2>2, <2>3 DEF Walk!vars, Status, Waiting
  <2>4. CASE pc' \in {"bad", "throw"}
    BY <1>1, <2>1, <2>2, <2>4 DEF Walk!Next, Walk!GiveUp, Status, Waiting
  <2> QED BY <2>1, <2>3, <2>4
<1> QED BY <1>5, <1>6

LEMMA OthersEnd ==
  ASSUME IInv, Finish \/ PastFat \/ Exited
  PROVE  [Walk!Next]_(Walk!vars)
<1>1. UNCHANGED <<clsIdtoRead, clsHasRead, seen, chain>>
  BY DEF Finish, PastFat, Exited, vars
<1>2. Waiting' = Waiting /\ Leads' = Leads
  BY <1>1 DEF Waiting, Leads, LeadsTo, Known
<1>3. CASE Finish
  <2>1. Waiting = {}
    BY <1>3 DEF Finish, Waiting
  <2>2. Status = "walking" /\ Status' = "done"
    BY <1>3 DEF Finish, Status
  <2> QED BY <1>1, <1>2, <2>1, <2>2 DEF Walk!Next, Walk!Complete
<1>4. CASE PastFat
  <2>1. Status = "walking" /\ Status' = "stopped"
    BY <1>4 DEF PastFat, Status
  <2> QED BY <1>1, <1>2, <2>1 DEF Walk!Next, Walk!GiveUp
<1>5. CASE Exited
  BY <1>1, <1>2, <1>5 DEF Exited, vars, Status, Walk!vars
<1> QED BY <1>3, <1>4, <1>5

\* The walk of read.cpp:86-155 is an exploration: its stack and its marks do what
\* the abstract sets of read and known clusters do, for every image and size.
THEOREM ReaderExplores == Spec => Explores
<1>1. Init => Walk!Init
  <2> SUFFICES ASSUME Init PROVE Walk!Init
    OBVIOUS
  <2>1. Waiting = {RootCluster}
    BY DEF Init, Waiting
  <2>2. Leads = {}
    BY DEF Init, Leads, LeadsTo
  <2> QED BY <2>1, <2>2 DEF Init, Walk!Init, Status
<1>2. IInv /\ [Next]_vars => [Walk!Next]_(Walk!vars)
  <2> SUFFICES ASSUME IInv, [Next]_vars PROVE [Walk!Next]_(Walk!vars)
    OBVIOUS
  <2>1. CASE Pop
    BY <2>1, PopReads DEF Walk!Next
  <2>2. CASE Finish \/ PastFat \/ Exited
    BY <2>2, OthersEnd
  <2>3. CASE \E e \in Entry : ReadEntry(e)
    BY <2>3, ReadEntryDiscovers
  <2>4. CASE \E v \in Cluster \cup {BadCluster, EndMark} : FollowChain(v)
    BY <2>4, FollowChainDiscovers
  <2>5. CASE UNCHANGED vars
    BY <2>5 DEF vars, Walk!vars, Waiting, Leads, LeadsTo, Status, Known
  <2> QED BY <2>1, <2>2, <2>3, <2>4, <2>5 DEF Next
<1> QED BY <1>1, <1>2, Invariance, PTL DEF Spec, Explores, Walk!Spec

-----------------------------------------------------------------------------
(* The steps that are left *)

LEMMA UnreadCounted == IsFiniteSet(Unread) /\ Cardinality(Unread) \in Nat
<1>1. IsFiniteSet(Known)
  BY FS_Interval, ReaderAssumption DEF Known
<1>2. Unread \in SUBSET Known
  BY DEF Unread
<1>3. IsFiniteSet(Unread)
  BY <1>1, <1>2, FS_Subset
<1> QED BY <1>3, FS_CardinalityType

LEMMA MeasureNat == IInv => StepsLeft \in Nat
<1> SUFFICES ASSUME IInv PROVE StepsLeft \in Nat
  OBVIOUS
<1>1. InCluster \in Nat
  BY ReaderAssumption DEF InCluster, IInv, TypeOK
<1> QED BY <1>1, UnreadCounted, ReaderAssumption DEF StepsLeft

\* A step that reads no cluster anew is a step in the one in hand.
LEMMA SameUnread ==
  ASSUME IInv, IInv', clsHasRead' \ Waiting' = clsHasRead \ Waiting, InCluster' < InCluster
  PROVE  StepsLeft' < StepsLeft
<1>1. Unread' = Unread
  BY DEF Unread, Known
<1>2. InCluster \in Int /\ InCluster' \in Int
  BY ReaderAssumption DEF InCluster, IInv, TypeOK
<1> DEFINE n == (Slots + 2) * Cardinality(Unread)
<1>3. n \in Nat
  BY UnreadCounted, ReaderAssumption
<1>4. StepsLeft = n + InCluster /\ StepsLeft' = n + InCluster'
  BY <1>1 DEF StepsLeft
<1> QED BY <1>2, <1>3, <1>4

LEMMA PopRunsOut == IInv /\ IInv' /\ Pop => StepsLeft' < StepsLeft
<1> SUFFICES ASSUME IInv, IInv', Pop PROVE StepsLeft' < StepsLeft
  OBVIOUS
<1>1. cluster' \in Unread /\ Unread' = Unread \ {cluster'}
  BY PopReads DEF Walk!Read, Unread, Known
<1>2. Cardinality(Unread') = Cardinality(Unread) - 1
  BY <1>1, UnreadCounted, FS_RemoveElement
<1>3. InCluster = 1 /\ InCluster' = Slots + 2
  BY ReaderAssumption DEF Pop, InCluster
<1> DEFINE n == Cardinality(Unread)
<1>4. StepsLeft = (Slots + 2) * n + 1 /\ StepsLeft' = (Slots + 2) * (n - 1) + (Slots + 2)
  BY <1>2, <1>3 DEF StepsLeft
<1>5. n \in Nat
  BY UnreadCounted
<1> HIDE DEF n
<1> QED BY <1>4, <1>5, ReaderAssumption

LEMMA ReadEntryRunsOut ==
  ASSUME IInv, IInv', NEW e \in Entry, ReadEntry(e)
  PROVE  StepsLeft' < StepsLeft
<1>1. pc = "scan" /\ slot \in 0 .. (Slots - 1)
  BY ReaderAssumption DEF ReadEntry, IInv, TypeOK
<1>2. InCluster = Slots - slot + 2
  BY <1>1 DEF InCluster
<1>3. NextSlot \/ pc' \in {"pop", "throw"}
  BY ReaderAssumption DEF ReadEntry, Entry, Cluster
<1>4. InCluster' < InCluster
  BY <1>1, <1>2, <1>3, ReaderAssumption DEF NextSlot, InCluster
<1>5. clsHasRead' \ Waiting' = clsHasRead \ Waiting
  <2>1. \/ UNCHANGED <<clsIdtoRead, clsHasRead>>
        \/ e.kind = "dir" /\ e.first < TotalClusters /\ Visit(e.first)
    BY DEF ReadEntry
  <2>2. CASE UNCHANGED <<clsIdtoRead, clsHasRead>>
    BY <2>2 DEF Waiting
  <2>3. CASE e.kind = "dir" /\ e.first < TotalClusters /\ Visit(e.first)
    <3>1. ListStep(e.first)
      BY <2>3, ReaderAssumption DEF ListStep, Entry, Cluster
    <3> QED BY <3>1, VisitKeepsRead
  <2> QED BY <2>1, <2>2, <2>3
<1> QED BY <1>4, <1>5, SameUnread

LEMMA FollowChainRunsOut ==
  ASSUME IInv, IInv', NEW v \in Cluster \cup {BadCluster, EndMark}, FollowChain(v)
  PROVE  StepsLeft' < StepsLeft
<1>1. InCluster' < InCluster
  BY DEF FollowChain, InCluster
<1>2. ListStep(v)
  BY ReaderAssumption DEF FollowChain, ListStep, ListKept, Cluster, BadCluster, EndMark
<1> QED BY <1>1, <1>2, VisitKeepsRead, SameUnread

LEMMA EndRunsOut == IInv /\ IInv' /\ (Finish \/ PastFat) => StepsLeft' < StepsLeft
<1> SUFFICES ASSUME IInv, IInv', Finish \/ PastFat PROVE StepsLeft' < StepsLeft
  OBVIOUS
<1>1. pc \in {"pop", "chain"} /\ pc' \in {"done", "throw"} /\ UNCHANGED <<clsIdtoRead, clsHasRead>>
  BY DEF Finish, PastFat
<1>2. InCluster' < InCluster
  BY <1>1 DEF InCluster
<1>3. clsHasRead' \ Waiting' = clsHasRead \ Waiting
  BY <1>1 DEF Waiting
<1> QED BY <1>2, <1>3, SameUnread

\* The walk of read.cpp:90-155 takes at most (Slots + 2) * TotalClusters + 1 steps
\* on any image.  This is the safety half of its termination: fairness is needed
\* only for the steps to be taken.
THEOREM ReaderRunsOut ==
  /\ Init => StepsLeft = (Slots + 2) * TotalClusters + 1
  /\ Spec => StepsRunOut
<1>1. Init => StepsLeft = (Slots + 2) * TotalClusters + 1
  <2> SUFFICES ASSUME Init PROVE StepsLeft = (Slots + 2) * TotalClusters + 1
    OBVIOUS
  <2>1. Waiting = {RootCluster}
    BY DEF Init, Waiting
  <2>2. Unread = 0 .. (TotalClusters - 1)
    BY <2>1 DEF Init, Unread, Known
  <2>3. Cardinality(Unread) = TotalClusters
    BY <2>2, FS_Interval, ReaderAssumption
  <2> QED BY <2>3 DEF Init, StepsLeft, InCluster
<1>2. IInv /\ IInv' /\ [Next]_vars => [StepsLeft' \in Nat /\ StepsLeft' < StepsLeft]_vars
  <2> SUFFICES ASSUME IInv, IInv', Next, ~ UNCHANGED vars
               PROVE  StepsLeft' \in Nat /\ StepsLeft' < StepsLeft
    OBVIOUS
  <2>1. (StepsLeft \in Nat)'
    BY MeasureNat, PTL
  <2>2. CASE Pop
    BY <2>1, <2>2, PopRunsOut
  <2>3. CASE Finish \/ PastFat
    BY <2>1, <2>3, EndRunsOut
  <2>4. CASE \E e \in Entry : ReadEntry(e)
    BY <2>1, <2>4, ReadEntryRunsOut
  <2>5. CASE \E v \in Cluster \cup {BadCluster, EndMark} : FollowChain(v)
    BY <2>1, <2>5, FollowChainRunsOut
  <2> QED BY <2>1, <2>2, <2>3, <2>4, <2>5 DEF Next, Exited
<1> QED BY <1>1, <1>2, Invariance, PTL DEF Spec, StepsRunOut
=============================================================================
