----------------------------- MODULE FatxProofs -----------------------------
(***************************************************************************)
(* FATXLoadFromDisk never copies more than the file's size, whatever the   *)
(* disk holds and whichever reads fail; what it loads is the contents of   *)
(* the file's chain, and _FATXFindFile finds the file that the path names. *)
(*                                                                         *)
(* Chain and Directory are recursive functions: that they exist, and so    *)
(* have the equations they are written with, is shown by the least place   *)
(* at which no function satisfies them.                                    *)
(***************************************************************************)
EXTENDS Fatx, SequenceTheorems, WellFoundedInduction, TLAPS

\* LoadFATXCluster leaves a cluster's worth of units, read or old.
LEMMA LoadedType ==
  ASSUME TypeOK, NEW c \in Cluster, NEW k \in 0 .. ClusterSize
  PROVE  Loaded(c, k) \in [1 .. ClusterSize -> Unit]
BY FatxAssumption DEF TypeOK, Loaded, Unit

\* getNextClusterInChain answers with something the loops can go on with.
LEMMA NextInChainType ==
  ASSUME TypeOK, NEW c, NEW d \in NextInChain(c)
  PROVE  d \in Cluster \cup {End}
BY FatxAssumption DEF TypeOK, NextInChain, Table, Cluster

\* What is copied from a cluster is no more than it has, nor than is left.
LEMMA WrittenBound ==
  ASSUME TypeOK
  PROVE  /\ Written \in Nat /\ Written <= ClusterSize /\ Written <= fileSize
         /\ fileSize - Written \in Nat
BY FatxAssumption DEF TypeOK, Written

\* A part of a cluster as a sequence, and a sequence with it appended.
LEMMA AppendUnits ==
  ASSUME NEW b \in Seq(Unit), NEW n \in Nat, NEW g, \A i \in 1 .. n : g[i] \in Unit
  PROVE  /\ b \o [i \in 1 .. n |-> g[i]] \in Seq(Unit)
         /\ Len(b \o [i \in 1 .. n |-> g[i]]) = Len(b) + n
<1> DEFINE t == [i \in 1 .. n |-> g[i]]
<1>1. t \in Seq(Unit)
  OBVIOUS
<1>2. Len(t) = n
  BY <1>1
<1> QED
  BY <1>1, <1>2

\* The entries that the search may see have the types the disk's entries have.
LEMMA SeenType ==
  ASSUME TypeOK, clusterId \in Cluster, NEW k \in 0 .. ClusterSize, NEW es \in Seen(k),
         NEW i \in DOMAIN es
  PROVE  es[i] \in Entry
<1>1. es \in Seq(Entry)
  BY DEF TypeOK, Seen
<1> QED
  BY <1>1

-----------------------------------------------------------------------------
LEMMA InitInv == Init => FatxInv
<1> SUFFICES ASSUME Init PROVE FatxInv
  OBVIOUS
<1>1. disk.table \in Table /\ disk.dir \in [Cluster -> Seq(Entry)]
  BY FatxAssumption DEF Init
<1>2. depth \in 1 .. Len(path)
  <2>1. path \in Seq(STRING) /\ path # <<>>
    BY FatxAssumption DEF Init
  <2> QED
    BY <2>1 DEF Init
<1>3. clusterData \in [1 .. ClusterSize -> Unit]
  BY FatxAssumption DEF Init, OldMemory, Unit
<1>4. buffer \in Seq(Unit) /\ Len(buffer) = 0
  BY DEF Init
<1>5. TypeOK
  BY <1>1, <1>2, <1>3, <1>4 DEF Init, TypeOK
<1>6. Len(buffer) + fileSize = size /\ size = 0
  BY <1>4 DEF Init
<1> QED
  BY <1>5, <1>6 DEF FatxInv

LEMMA StepInv == FatxInv /\ [Next]_vars => FatxInv'
<1> SUFFICES ASSUME FatxInv, [Next]_vars PROVE FatxInv'
  OBVIOUS
<1> USE DEF FatxInv
<1>1. CASE OpenFails
  BY <1>1 DEF OpenFails, Return, TypeOK, input
<1>2. CASE Open
  <2>1. words' \in Table
    BY <1>2, FatxAssumption DEF Open, TypeOK
  <2>2. clusterId' \in Cluster
    BY <1>2, FatxAssumption DEF Open, Cluster
  <2> QED
    BY <1>2, <2>1, <2>2 DEF Open, TypeOK, input
<1>3. CASE FindName
  BY <1>3 DEF FindName, Return, TypeOK, input
<1>4. CASE FindInCluster
  <2>a. PICK k \in 0 .. ClusterSize : \E es \in Seen(k) :
          /\ readErr' = (readErr \/ k < ClusterSize)
          /\ \/ /\ \E i \in Hits(es) : TakeEntry(es[i])
                /\ clusterData' = OldMemory
             \/ /\ Hits(es) = {}
                /\ clusterData' = Loaded(clusterId, k)
                /\ clusterId' \in NextInChain(clusterId)
                /\ UNCHANGED <<pc, depth, first, size, fileSize, result>>
    BY <1>4 DEF FindInCluster
  <2>1. PICK es \in Seen(k) :
          /\ readErr' = (readErr \/ k < ClusterSize)
          /\ \/ /\ \E i \in Hits(es) : TakeEntry(es[i])
                /\ clusterData' = OldMemory
             \/ /\ Hits(es) = {}
                /\ clusterData' = Loaded(clusterId, k)
                /\ clusterId' \in NextInChain(clusterId)
                /\ UNCHANGED <<pc, depth, first, size, fileSize, result>>
    BY <2>a
  <2>2. clusterId \in Cluster
    BY <1>4 DEF FindInCluster, TypeOK
  <2>3. clusterData' \in [1 .. ClusterSize -> Unit] /\ readErr' \in BOOLEAN
    <3>1. OldMemory \in [1 .. ClusterSize -> Unit]
      BY FatxAssumption DEF OldMemory, Unit
    <3> QED
      BY <2>1, <2>2, <3>1, LoadedType DEF TypeOK
  <2>4. UNCHANGED <<input, words, buffer>> /\ pc = "find"
    BY <1>4 DEF FindInCluster
  <2>5. CASE Hits(es) = {} /\ clusterId' \in NextInChain(clusterId)
             /\ UNCHANGED <<pc, depth, first, size, fileSize, result>>
    <3>1. clusterId' \in Cluster \cup {End}
      BY <2>5, NextInChainType
    <3> QED
      BY <2>5, <3>1, <2>3, <2>4 DEF TypeOK, input
  <2>6. CASE \E i \in Hits(es) : TakeEntry(es[i])
    <3>1. PICK i \in Hits(es) : TakeEntry(es[i])
      BY <2>6
    <3>2. es[i] \in Entry
      BY <2>2, SeenType DEF Hits
    <3>3. es[i].first \in Cluster \cup {End} /\ es[i].size \in Nat
      BY <3>2 DEF Entry
    <3>4. CASE es[i].kind = "dir" /\ LookingForDirectory
      <4>1. /\ depth' = depth + 1 /\ clusterId' = es[i].first
            /\ UNCHANGED <<pc, first, size, fileSize, result>>
        BY <3>1, <3>4 DEF TakeEntry
      <4>2. depth' \in 1 .. Len(path')
        <5>1. path \in Seq(STRING)
          BY FatxAssumption DEF TypeOK
        <5> QED
          BY <5>1, <3>4, <4>1, <2>4 DEF LookingForDirectory, TypeOK, input
      <4> QED
        BY <4>1, <4>2, <3>3, <2>3, <2>4 DEF TypeOK, input
    <3>5. CASE es[i].kind = "file" /\ ~LookingForDirectory
      <4>1. /\ pc' = "load" /\ clusterId' = es[i].first
            /\ first' = es[i].first /\ size' = es[i].size /\ fileSize' = es[i].size
            /\ UNCHANGED <<depth, result>>
        BY <3>1, <3>5 DEF TakeEntry
      <4>2. Len(buffer) = 0
        <5>1. Len(buffer) \in Nat
          BY DEF TypeOK
        <5> QED
          BY <5>1, <2>4 DEF TypeOK
      <4> QED
        BY <4>1, <4>2, <3>3, <2>3, <2>4 DEF TypeOK, input
    <3>6. CASE ~(es[i].kind = "dir" /\ LookingForDirectory)
               /\ ~(es[i].kind = "file" /\ ~LookingForDirectory)
      <4>1. pc' = "done" /\ result' = FALSE /\ UNCHANGED <<depth, clusterId, first, size, fileSize>>
        BY <3>1, <3>6 DEF TakeEntry, Return
      <4> QED
        BY <4>1, <2>3, <2>4 DEF TypeOK, input
    <3> QED
      BY <3>4, <3>5, <3>6
  <2> QED
    BY <2>1, <2>5, <2>6
<1>5. CASE FindFails
  BY <1>5 DEF FindFails, Return, TypeOK, input
<1>6. CASE LoadCluster
  <2>1. clusterId \in Cluster
    BY <1>6 DEF LoadCluster, TypeOK
  <2>2. clusterData' \in [1 .. ClusterSize -> Unit] /\ readErr' \in BOOLEAN
    BY <1>6, <2>1, LoadedType DEF LoadCluster, TypeOK
  <2>3. clusterId' \in Cluster \cup {End}
    BY <1>6, NextInChainType DEF LoadCluster
  <2>4. \A i \in 1 .. Written : clusterData'[i] \in Unit
    BY <2>2, WrittenBound, FatxAssumption
  <2>5. /\ buffer' \in Seq(Unit)
        /\ Len(buffer') = Len(buffer) + Written
    BY <1>6, <2>4, WrittenBound, AppendUnits DEF LoadCluster, TypeOK
  <2>6. fileSize' = fileSize - Written /\ fileSize' \in Nat
    BY <1>6, WrittenBound DEF LoadCluster
  <2> QED
    BY <1>6, <2>2, <2>3, <2>5, <2>6, WrittenBound DEF LoadCluster, TypeOK, input
<1>7. CASE LoadDone
  BY <1>7 DEF LoadDone, Return, TypeOK, input
<1>8. CASE UNCHANGED vars
  BY <1>8 DEF vars, TypeOK
<1> QED
  BY <1>1, <1>2, <1>3, <1>4, <1>5, <1>6, <1>7, <1>8 DEF Next

\* FATXLoadFromDisk: the types, and copied and left to copy add up to the
\* file's size, on every disk.
THEOREM FatxInvariant == Spec => []FatxInv
BY InitInv, StepInv, PTL DEF Spec

\* FATXLoadFromDisk: no more is copied than the file's size, on every disk,
\* rings of clusters and unreadable sectors included.
THEOREM FatxStaysInBuffer == Spec => []StaysInBuffer
<1>1. FatxInv => StaysInBuffer
  <2> SUFFICES ASSUME FatxInv PROVE StaysInBuffer
    OBVIOUS
  <2>1. Len(buffer) \in Nat
    BY DEF FatxInv, TypeOK
  <2> QED
    BY <2>1 DEF FatxInv, TypeOK, StaysInBuffer
<1> QED
  BY <1>1, FatxInvariant, PTL

-----------------------------------------------------------------------------
(* Chains of clusters and the content of files *)

\* Sets of naturals have a least member: the induction of the lemmas below.
LEMMA Smallest ==
  ASSUME NEW S \in SUBSET Nat, S # {}
  PROVE  \E x \in S : \A y \in S : x <= y
<1>1. \E x \in S : \A y \in S : ~ (<<y, x>> \in OpToRel(<, Nat))
  BY WFMin, NatLessThanWellFounded, Zenon
<1>2. PICK x \in S : \A y \in S : ~ (<<y, x>> \in OpToRel(<, Nat))
  BY <1>1, Zenon
<1>3. ASSUME NEW y \in S, y < x PROVE FALSE
  <2>1. <<y, x>> \in {ss \in Nat \X Nat : ss[1] < ss[2]}
    BY <1>3
  <2>2. <<y, x>> \in OpToRel(<, Nat)
    BY <2>1, Zenon DEF OpToRel
  <2>3. QED
    BY <1>2, <2>2, Zenon
<1>4. QED
  BY <1>3

IsChain(t, c, f, m) == f = [n \in 0 .. m |-> IF n = 0 THEN c ELSE After(t, f[n - 1])]

\* A chain can be followed for any number of steps.
LEMMA ChainExists ==
  ASSUME NEW t, NEW c, NEW k \in Nat
  PROVE  \E f : IsChain(t, c, f, k)
<1> DEFINE S == {m \in Nat : ~ \E f : IsChain(t, c, f, m)}
<1>1. SUFFICES ASSUME S # {} PROVE FALSE
  OBVIOUS
<1>2. PICK m \in S : \A y \in S : m <= y
  <2>1. S \in SUBSET Nat
    OBVIOUS
  <2>2. QED
    BY <1>1, <2>1, Smallest
<1>3. CASE m = 0
  <2>1. IsChain(t, c, [n \in 0 .. 0 |-> c], 0)
    BY DEF IsChain
  <2>2. QED
    BY <1>2, <1>3, <2>1
<1>4. CASE m # 0
  <2>1. m \in Nat /\ m - 1 \in Nat /\ m - 1 \notin S
    <3>1. S \subseteq Nat
      OBVIOUS
    <3> HIDE DEF S
    <3>2. m \in Nat
      BY <3>1
    <3>3. QED
      BY <1>2, <1>4, <3>2
  <2>2. PICK f : IsChain(t, c, f, m - 1)
    BY <2>1
  <2> DEFINE g == [n \in 0 .. m |-> IF n = m THEN After(t, f[m - 1]) ELSE f[n]]
  <2>3. f = [n \in 0 .. m - 1 |-> IF n = 0 THEN c ELSE After(t, f[n - 1])]
    BY <2>2 DEF IsChain
  <2>4. ASSUME NEW n \in 0 .. m
        PROVE  g[n] = IF n = 0 THEN c ELSE After(t, g[n - 1])
    <3>1. CASE n = 0
      <4>1. g[n] = f[0] /\ f[0] = c
        BY <1>4, <2>1, <2>3, <3>1
      <4>2. QED
        BY <3>1, <4>1
    <3>2. CASE n = m /\ n # 0
      <4>1. n - 1 \in 0 .. m /\ n - 1 # m
        BY <2>1, <3>2
      <4>2. g[n - 1] = f[m - 1]
        BY <3>2, <4>1
      <4>3. g[n] = After(t, f[m - 1])
        BY <3>2
      <4>4. QED
        BY <3>2, <4>2, <4>3
    <3>3. CASE n # m /\ n # 0
      <4>1. n - 1 \in 0 .. m /\ n - 1 # m /\ n \in 0 .. m - 1
        BY <2>1, <3>3
      <4>2. g[n - 1] = f[n - 1] /\ g[n] = f[n]
        BY <3>3, <4>1
      <4>3. f[n] = After(t, f[n - 1])
        BY <2>3, <3>3, <4>1
      <4>4. QED
        BY <3>3, <4>2, <4>3
    <3>4. QED
      BY <3>1, <3>2, <3>3
  <2>5. g = [n \in 0 .. m |-> IF n = 0 THEN c ELSE After(t, g[n - 1])]
    <3>1. g = [n \in 0 .. m |-> g[n]]
      OBVIOUS
    <3> HIDE DEF g
    <3>2. QED
      BY <2>4, <3>1
  <2>6. QED
    <3> HIDE DEF g
    <3>1. IsChain(t, c, g, m)
      BY <2>5 DEF IsChain
    <3>2. QED
      BY <1>2, <3>1
<1>5. QED
  BY <1>3, <1>4

LEMMA ChainDef ==
  ASSUME NEW t, NEW c
  PROVE  Chain(t, c) = [n \in 0 .. N + 1 |-> IF n = 0 THEN c ELSE After(t, Chain(t, c)[n - 1])]
<1>1. N + 1 \in Nat
  BY FatxAssumption
<1>2. \E f : IsChain(t, c, f, N + 1)
  BY <1>1, ChainExists
<1>3. Chain(t, c) = CHOOSE f : IsChain(t, c, f, N + 1)
  BY DEF Chain, IsChain
<1>4. IsChain(t, c, Chain(t, c), N + 1)
  BY <1>2, <1>3, Zenon
<1>5. QED
  BY <1>4 DEF IsChain

\* What Chain says: the first cluster, and from each one the next.
LEMMA ChainFacts ==
  ASSUME NEW t, NEW c
  PROVE  /\ Chain(t, c)[0] = c
         /\ \A m \in 0 .. N : Chain(t, c)[m + 1] = After(t, Chain(t, c)[m])
<1>1. N \in Nat
  BY FatxAssumption
<1> DEFINE f == Chain(t, c)
<1>2. f = [n \in 0 .. N + 1 |-> IF n = 0 THEN c ELSE After(t, f[n - 1])]
  BY ChainDef
<1> HIDE DEF f
<1>3. f[0] = c
  BY <1>1, <1>2
<1>4. ASSUME NEW m \in 0 .. N PROVE f[m + 1] = After(t, f[m])
  <2>1. m + 1 \in 0 .. N + 1 /\ m + 1 # 0 /\ (m + 1) - 1 = m
    BY <1>1
  <2>2. f[m + 1] = After(t, f[(m + 1) - 1])
    BY <1>2, <2>1
  <2>3. QED
    BY <2>1, <2>2
<1>5. QED
  BY <1>3, <1>4 DEF f

\* A chain has one length.
LEMMA LengthUnique ==
  ASSUME NEW t, NEW c, NEW n \in 0 .. N, NEW k \in 0 .. N,
         HasLength(t, c, n), HasLength(t, c, k)
  PROVE  n = k
<1>1. N \in Nat
  BY FatxAssumption
<1>2. \A m \in 1 .. N : m # End
  BY DEF End
<1>3. CASE n < k
  BY <1>1, <1>2, <1>3 DEF HasLength
<1>4. CASE k < n
  BY <1>1, <1>2, <1>4 DEF HasLength
<1>5. QED
  BY <1>1, <1>3, <1>4

\* Where a unit of a file lies in its chain.
LEMMA UnitAddress ==
  ASSUME NEW m \in Nat, NEW i \in 1 .. ClusterSize
  PROVE  /\ (m * ClusterSize + i - 1) \div ClusterSize = m
         /\ (m * ClusterSize + i - 1) % ClusterSize = i - 1
<1>1. ClusterSize \in Nat \ {0}
  BY FatxAssumption
<1> DEFINE x == m * ClusterSize + i - 1
<1>2. x \in Nat
  BY <1>1
<1>3. QED
  BY <1>1, <1>2, SMTT(30)

LEMMA Concatenated ==
  ASSUME NEW T, NEW a \in Seq(T), NEW b \in Seq(T), NEW f,
         f = [i \in 1 .. Len(a) + Len(b) |-> IF i <= Len(a) THEN a[i] ELSE b[i - Len(a)]]
  PROVE  a \o b = f
<1>1. f \in Seq(T) /\ Len(f) = Len(a) + Len(b)
  <2>1. \A i \in 1 .. Len(a) + Len(b) : f[i] \in T
    OBVIOUS
  <2>2. QED
    BY <2>1
<1>2. a \o b \in Seq(T) /\ Len(a \o b) = Len(a) + Len(b)
  OBVIOUS
<1>3. \A i \in 1 .. Len(f) : (a \o b)[i] = f[i]
  BY <1>1
<1>4. QED
  BY <1>1, <1>2, <1>3, SeqEqual

\* A file's content is extended by the units of the next cluster of its chain.
LEMMA ContentGrows ==
  ASSUME NEW t, NEW c, NEW m \in Nat, NEW w \in 0 .. ClusterSize,
         Content(t, c, m * ClusterSize) \in Seq(Unit),
         \A i \in 1 .. w : <<Chain(t, c)[m], i>> \in Unit
  PROVE  Content(t, c, m * ClusterSize) \o [i \in 1 .. w |-> <<Chain(t, c)[m], i>>]
           = Content(t, c, m * ClusterSize + w)
<1> DEFINE b == m * ClusterSize
           U(i) == <<Chain(t, c)[(i - 1) \div ClusterSize], 1 + ((i - 1) % ClusterSize)>>
           g == [i \in 1 .. w |-> <<Chain(t, c)[m], i>>]
           new == Content(t, c, b) \o g
<1>1. b \in Nat /\ w \in Nat /\ ClusterSize \in Nat
  BY FatxAssumption
<1>2. ASSUME NEW i \in 1 .. w PROVE g[i] = U(b + i)
  <2>1. i \in 1 .. ClusterSize /\ i \in Int
    BY <1>1
  <2>2. (b + i) - 1 = b + i - 1
    BY <1>1, <2>1
  <2>3. QED
    BY <2>1, <2>2, UnitAddress
<1>3. Content(t, c, b) = [i \in 1 .. b |-> U(i)]
  BY DEF Content
<1>4. Content(t, c, b + w) = [i \in 1 .. b + w |-> U(i)]
  BY DEF Content
<1>5. g \in Seq(Unit) /\ Len(g) = w
  BY <1>1
<1>6. Len(Content(t, c, b)) = b /\ Content(t, c, b) \in Seq(Unit)
  BY <1>1, <1>3
<1> HIDE DEF b, U, g
<1>7. new = [i \in 1 .. b + w |-> IF i <= b THEN Content(t, c, b)[i] ELSE g[i - b]]
  BY <1>5, <1>6, Concatenated
<1>8. ASSUME NEW i \in 1 .. b + w
      PROVE  (IF i <= b THEN Content(t, c, b)[i] ELSE g[i - b]) = U(i)
  <2>1. CASE i <= b
    BY <1>1, <1>3, <2>1
  <2>2. CASE ~(i <= b)
    <3>1. i - b \in 1 .. w /\ b + (i - b) = i
      BY <1>1, <2>2
    <3>2. QED
      BY <1>2, <2>2, <3>1
  <2>3. QED
    BY <2>1, <2>2
<1> HIDE DEF new
<1>9. new = [i \in 1 .. b + w |-> U(i)]
  BY <1>7, <1>8
<1>10. QED
  BY <1>4, <1>9 DEF new, b, g

-----------------------------------------------------------------------------
(* What is loaded *)

LEMMA InitLoad == Init => LoadInv
  BY DEF Init, LoadInv, TableRead, CopiedSoFar, LoadsTheFile

\* A turn of FATXLoadFromDisk copies the next cluster of the chain.
LEMMA LoadClusterStep ==
  ASSUME FatxInv, FatxInv', LoadInv, LoadCluster, ~readErr', Sound(disk.table, first)
  PROVE  \E n \in 0 .. N : \E m \in 0 .. n :
           /\ HasLength(disk.table, first, n)
           /\ clusterId' = Chain(disk.table, first)[m]
           /\ Len(buffer') <= m * ClusterSize
           /\ fileSize' > 0 => Len(buffer') = m * ClusterSize
           /\ buffer' = Content(disk.table, first, Len(buffer'))
<1> DEFINE c == Chain(disk.table, first)
<1>0. N \in Nat /\ ClusterSize \in Nat \ {0}
  BY FatxAssumption
<1>1. PICK k \in 0 .. ClusterSize :
         clusterData' = Loaded(clusterId, k) /\ readErr' = (readErr \/ k < ClusterSize)
  BY DEF LoadCluster
<1>2. k = ClusterSize /\ ~readErr
  <2>1. ~readErr /\ ~(k < ClusterSize)
    BY <1>1, Zenon
  <2>2. QED
    BY <1>0, <2>1
<1>3. words = disk.table /\ pc = "load" /\ clusterId # End
  BY <1>2 DEF LoadInv, TableRead, LoadCluster
<1>4. PICK n \in 0 .. N : \E m \in 0 .. n :
         /\ HasLength(disk.table, first, n)
         /\ clusterId = c[m]
         /\ Len(buffer) <= m * ClusterSize
         /\ fileSize > 0 => Len(buffer) = m * ClusterSize
         /\ buffer = Content(disk.table, first, Len(buffer))
  BY <1>2, <1>3 DEF LoadInv, CopiedSoFar
<1>5. PICK m \in 0 .. n :
         /\ HasLength(disk.table, first, n)
         /\ clusterId = c[m]
         /\ Len(buffer) <= m * ClusterSize
         /\ fileSize > 0 => Len(buffer) = m * ClusterSize
         /\ buffer = Content(disk.table, first, Len(buffer))
  BY <1>4
<1>6. m + 1 \in 0 .. n /\ m \in 0 .. N /\ m \in Nat /\ clusterId \in 1 .. N
  BY <1>0, <1>3, <1>5 DEF HasLength
<1>7. clusterId' = c[m + 1]
  <2>1. clusterId' = words[clusterId]
    BY <1>0, <1>6 DEF LoadCluster, NextInChain
  <2>2. c[m + 1] = After(disk.table, clusterId)
    BY <1>5, <1>6, ChainFacts
  <2>3. QED
    BY <1>0, <1>3, <1>6, <2>1, <2>2 DEF After
<1>8. /\ buffer \in Seq(Unit) /\ fileSize \in Nat /\ Len(buffer) \in Nat
      /\ Written \in 0 .. ClusterSize /\ fileSize' = fileSize - Written
      /\ Len(buffer') = Len(buffer) + Written
  <2>1. Written \in Nat /\ Written <= ClusterSize /\ Written <= fileSize
    BY WrittenBound DEF FatxInv
  <2>2. \A i \in 1 .. Written : clusterData'[i] \in Unit
    BY <1>0, <2>1 DEF FatxInv, TypeOK
  <2>3. buffer' = buffer \o [i \in 1 .. Written |-> clusterData'[i]]
    BY DEF LoadCluster
  <2>4. buffer \in Seq(Unit) /\ fileSize \in Nat
    BY DEF FatxInv, TypeOK
  <2>5. Len(buffer') = Len(buffer) + Written
    BY <2>1, <2>2, <2>3, <2>4, AppendUnits
  <2>6. QED
    BY <1>0, <2>1, <2>4, <2>5 DEF LoadCluster
<1>9. CASE fileSize = 0
  <2>1. Written = 0
    BY <1>0, <1>9 DEF Written
  <2>a. fileSize' = 0
    BY <1>8, <1>9, <2>1
  <2>2. buffer' = buffer
    BY <1>8, <2>1 DEF LoadCluster
  <2>3. Len(buffer) <= (m + 1) * ClusterSize
    BY <1>0, <1>5, <1>6, <1>8
  <2>4. QED
    BY <1>5, <1>6, <1>7, <2>a, <2>2, <2>3
<1>10. CASE fileSize # 0
  <2>1. Len(buffer) = m * ClusterSize /\ m * ClusterSize \in Nat
    BY <1>0, <1>5, <1>6, <1>8, <1>10
  <2>2. \A i \in 1 .. Written : clusterData'[i] = <<c[m], i>>
    BY <1>0, <1>1, <1>2, <1>5, <1>8 DEF Loaded
  <2>3. \A i \in 1 .. Written : <<c[m], i>> \in Unit
    BY <1>0, <1>5, <1>6, <1>8 DEF Unit, Cluster
  <2>4. [i \in 1 .. Written |-> clusterData'[i]] = [i \in 1 .. Written |-> <<c[m], i>>]
    BY <2>2
  <2>5. buffer' = Content(disk.table, first, m * ClusterSize + Written)
    <3>1. Content(disk.table, first, m * ClusterSize) = buffer
      BY <1>5, <2>1
    <3>2. Content(disk.table, first, m * ClusterSize) \in Seq(Unit)
      BY <1>8, <3>1
    <3>3. Content(disk.table, first, m * ClusterSize) \o [i \in 1 .. Written |-> <<c[m], i>>]
            = Content(disk.table, first, m * ClusterSize + Written)
      BY <1>6, <1>8, <2>3, <3>2, ContentGrows
    <3>4. buffer' = buffer \o [i \in 1 .. Written |-> clusterData'[i]]
      BY DEF LoadCluster
    <3> HIDE DEF c
    <3>5. QED
      BY <2>4, <3>1, <3>3, <3>4
  <2>6. Len(buffer') = m * ClusterSize + Written
    BY <1>8, <2>1
  <2>7. fileSize' > 0 => Written = ClusterSize
    BY <1>0, <1>8 DEF Written
  <2>8. (m + 1) * ClusterSize = m * ClusterSize + ClusterSize
    BY <1>0, <1>6
  <2>9. Len(buffer') <= (m + 1) * ClusterSize /\ (fileSize' > 0 => Len(buffer') = (m + 1) * ClusterSize)
    BY <1>0, <1>8, <2>1, <2>6, <2>7, <2>8
  <2>10. QED
    BY <1>5, <1>6, <1>7, <2>5, <2>6, <2>9
<1>11. QED
  BY <1>9, <1>10

\* When the chain ends with units still to copy, it is too short for the file.
LEMMA ChainTooShort ==
  ASSUME NEW t, NEW c, NEW b, NEW left \in Nat, NEW s \in Nat,
         Len(b) \in Nat, Len(b) + left = s, left > 0,
         NEW n \in 0 .. N, NEW m \in 0 .. n, HasLength(t, c, n), Chain(t, c)[m] = End,
         Len(b) = m * ClusterSize,
         NEW k \in 0 .. N, HasLength(t, c, k)
  PROVE  s > k * ClusterSize
<1>0. N \in Nat /\ ClusterSize \in Nat \ {0}
  BY FatxAssumption
<1>1. m = n
  BY <1>0 DEF HasLength, End
<1>2. k = n /\ k = m
  BY <1>1, LengthUnique
<1>3. Len(b) = k * ClusterSize
  BY <1>2
<1>4. QED
  BY <1>3

LEMMA ContentNone ==
  ASSUME NEW t, NEW c
  PROVE  Content(t, c, 0) = <<>>
BY DEF Content

LEMMA NextLoad == FatxInv /\ FatxInv' /\ LoadInv /\ [Next]_vars => LoadInv'
<1> SUFFICES ASSUME FatxInv, FatxInv', LoadInv, [Next]_vars PROVE LoadInv'
  OBVIOUS
<1>a. ASSUME CopiedSoFar', pc' = "load" PROVE LoadsTheFile'
  <2>1. SUFFICES ASSUME clusterId' = End, fileSize' > 0, ~readErr', (Sound(disk.table, first))',
                        NEW k \in 0 .. N, (HasLength(disk.table, first, k))'
                 PROVE  size' > k * ClusterSize
    BY <1>a DEF LoadsTheFile
  <2>2. PICK n \in 0 .. N : \E m \in 0 .. n :
         /\ (HasLength(disk.table, first, n))'
         /\ clusterId' = (Chain(disk.table, first)[m])'
         /\ Len(buffer') <= m * ClusterSize
         /\ fileSize' > 0 => Len(buffer') = m * ClusterSize
         /\ buffer' = (Content(disk.table, first, Len(buffer)))'
    BY <1>a, <2>1 DEF CopiedSoFar
  <2>3. PICK m \in 0 .. n :
         /\ (HasLength(disk.table, first, n))'
         /\ clusterId' = (Chain(disk.table, first)[m])'
         /\ Len(buffer') <= m * ClusterSize
         /\ fileSize' > 0 => Len(buffer') = m * ClusterSize
         /\ buffer' = (Content(disk.table, first, Len(buffer)))'
    BY <2>2
  <2>4. Len(buffer') \in Nat /\ fileSize' \in Nat /\ size' \in Nat /\ Len(buffer') + fileSize' = size'
    BY DEF FatxInv, TypeOK
  <2>5. (Chain(disk.table, first)[m])' = End
    BY <2>1, <2>3
  <2>6. QED
    BY <2>1, <2>3, <2>4, <2>5, ChainTooShort
<1>1. CASE UNCHANGED vars
  BY <1>1 DEF vars, LoadInv, TableRead, CopiedSoFar, LoadsTheFile
<1>2. CASE OpenFails
  BY <1>2 DEF OpenFails, LoadInv, TableRead, CopiedSoFar, LoadsTheFile, Return, input
<1>3. CASE Open
  BY <1>3 DEF Open, LoadInv, TableRead, CopiedSoFar, LoadsTheFile, input
<1>4. CASE FindName \/ FindFails
  BY <1>4 DEF FindName, FindFails, LoadInv, TableRead, CopiedSoFar, LoadsTheFile, Return, input
<1>5. CASE FindInCluster
  <2>1. UNCHANGED <<disk, words, buffer>> /\ pc = "find"
    BY <1>5 DEF FindInCluster, input
  <2>2. readErr \in BOOLEAN /\ (readErr => readErr')
    <3>1. PICK k \in 0 .. ClusterSize : readErr' = (readErr \/ k < ClusterSize)
      BY <1>5 DEF FindInCluster
    <3>2. QED
      BY <3>1 DEF FatxInv, TypeOK
  <2>3. TableRead'
    BY <2>1, <2>2 DEF LoadInv, TableRead
  <2>4. \/ pc' = "find"
        \/ pc' = "done" /\ result' = FALSE
        \/ pc' = "load" /\ clusterId' = first' /\ fileSize' = size'
    BY <1>5, <2>1 DEF FindInCluster, TakeEntry, Return
  <2>5. CASE pc' # "load"
    BY <2>3, <2>4, <2>5 DEF LoadInv, CopiedSoFar, LoadsTheFile
  <2>6. CASE pc' = "load"
    <3>1. buffer = <<>> /\ buffer' = <<>>
      <4>1. Len(buffer) = 0 /\ buffer \in Seq(Unit)
        BY <2>1 DEF FatxInv, TypeOK
      <4>2. QED
        BY <2>1, <4>1
    <3>2. ClusterSize \in Nat /\ N \in Nat /\ fileSize' \in Nat
      BY FatxAssumption DEF FatxInv, TypeOK
    <3>3. CopiedSoFar'
      <4>1. SUFFICES ASSUME (Sound(disk.table, first))'
                     PROVE  (\E n \in 0 .. N : \E m \in 0 .. n :
                               /\ HasLength(disk.table, first, n)
                               /\ clusterId = Chain(disk.table, first)[m]
                               /\ Len(buffer) <= m * ClusterSize
                               /\ fileSize > 0 => Len(buffer) = m * ClusterSize
                               /\ buffer = Content(disk.table, first, Len(buffer)))'
        BY DEF CopiedSoFar
      <4>2. PICK n \in 0 .. N : (HasLength(disk.table, first, n))'
        BY <4>1 DEF Sound
      <4>3. 0 \in 0 .. n /\ 0 * ClusterSize = 0
        BY <3>2
      <4>4. clusterId' = (Chain(disk.table, first)[0])'
        BY <2>4, <2>6, ChainFacts
      <4>5. Len(buffer') = 0 /\ buffer' = (Content(disk.table, first, Len(buffer)))'
        BY <3>1, ContentNone
      <4>6. QED
        BY <4>2, <4>3, <4>4, <4>5
    <3>4. LoadsTheFile'
      BY <1>a, <2>6, <3>3
    <3>5. QED
      BY <2>3, <3>3, <3>4 DEF LoadInv
  <2>7. QED
    BY <2>5, <2>6
<1>6. CASE LoadCluster
  <2>1. UNCHANGED <<disk, words, first, size>> /\ pc = "load" /\ pc' = "load"
    BY <1>6 DEF LoadCluster, input
  <2>2. readErr \in BOOLEAN /\ (readErr => readErr')
    <3>1. PICK k \in 0 .. ClusterSize : readErr' = (readErr \/ k < ClusterSize)
      BY <1>6 DEF LoadCluster
    <3>2. QED
      BY <3>1 DEF FatxInv, TypeOK
  <2>3. TableRead'
    BY <2>1, <2>2 DEF LoadInv, TableRead
  <2>4. CopiedSoFar'
    BY <1>6, <2>1, LoadClusterStep DEF CopiedSoFar
  <2>5. LoadsTheFile'
    BY <1>a, <2>1, <2>4
  <2>6. QED
    BY <2>3, <2>4, <2>5 DEF LoadInv
<1>7. CASE LoadDone
  <2>1. /\ UNCHANGED <<disk, words, first, size, buffer, readErr>>
        /\ pc = "load" /\ clusterId = End /\ pc' = "done" /\ result' = (fileSize = 0)
    BY <1>7 DEF LoadDone, Return, input
  <2>2. TableRead' /\ CopiedSoFar'
    BY <2>1 DEF LoadInv, TableRead, CopiedSoFar
  <2>3. ASSUME result', ~readErr, Sound(disk.table, first)
        PROVE  buffer = Content(disk.table, first, size)
    <3>1. fileSize = 0
      BY <2>1, <2>3
    <3>2. PICK n \in 0 .. N : \E m \in 0 .. n :
            /\ HasLength(disk.table, first, n)
            /\ clusterId = Chain(disk.table, first)[m]
            /\ Len(buffer) <= m * ClusterSize
            /\ fileSize > 0 => Len(buffer) = m * ClusterSize
            /\ buffer = Content(disk.table, first, Len(buffer))
      BY <2>1, <2>3 DEF LoadInv, CopiedSoFar
    <3>3. Len(buffer) \in Nat /\ fileSize \in Nat /\ size \in Nat /\ Len(buffer) + fileSize = size
      BY DEF FatxInv, TypeOK
    <3>4. Len(buffer) = size
      BY <3>1, <3>3
    <3>5. QED
      BY <3>2, <3>4
  <2>4. LoadsTheFile'
    BY <2>1, <2>3 DEF LoadsTheFile
  <2>5. QED
    BY <2>2, <2>4 DEF LoadInv
<1>8. QED
  BY <1>1, <1>2, <1>3, <1>4, <1>5, <1>6, <1>7 DEF Next

\* LoadFATXFile: without read errors, what is reported as loaded is the file's
\* own data, and a file is refused only when its chain is too short for it.
THEOREM FatxLoadsTheFile == Spec => []LoadsTheFile
<1>1. LoadInv => LoadsTheFile
  BY DEF LoadInv
<1> QED
  BY <1>1, InitLoad, NextLoad, FatxInvariant, PTL DEF Spec

-----------------------------------------------------------------------------
(* What is found *)

\* A chain that has ended has ended for good.
LEMMA ChainEnds ==
  ASSUME NEW t, NEW c, NEW n \in 0 .. N, HasLength(t, c, n)
  PROVE  \A m \in n .. N : Chain(t, c)[m] = End
<1>0. N \in Nat /\ n \in Nat
  BY FatxAssumption
<1> DEFINE S == {m \in n .. N : Chain(t, c)[m] # End}
<1>1. SUFFICES ASSUME S # {} PROVE FALSE
  OBVIOUS
<1>2. S \in SUBSET Nat
  BY <1>0
<1>3. PICK m \in S : \A y \in S : m <= y
  BY <1>1, <1>2, Smallest
<1>4. m \in n .. N /\ Chain(t, c)[m] # End
  BY <1>3
<1>5. m # n
  BY <1>4 DEF HasLength
<1>6. m - 1 \in n .. N /\ m - 1 \in 0 .. N /\ ~(m <= m - 1)
  BY <1>0, <1>4, <1>5
<1>7. m - 1 \notin S
  BY <1>3, <1>6
<1>8. Chain(t, c)[m - 1] = End
  BY <1>6, <1>7
<1>9. Chain(t, c)[(m - 1) + 1] = After(t, End)
  BY <1>6, <1>8, ChainFacts
<1>10. (m - 1) + 1 = m /\ After(t, End) = End
  BY <1>0, <1>4 DEF After, End
<1>11. QED
  BY <1>4, <1>9, <1>10

\* Every cluster of a disk reads as a sequence of directory entries.
HoldsEntries(k) == \A d \in Cluster : k.dir[d] \in Seq(Entry)

\* The places of a directory are the entries of its clusters.
LEMMA PlacesFacts ==
  ASSUME NEW k, NEW c, NEW n \in 0 .. N, HasLength(k.table, c, n),
         HoldsEntries(k)
  PROVE  /\ \A p \in Places(k, c) :
              /\ p = <<p[1], p[2]>> /\ p[1] \in 0 .. n - 1 /\ p[2] \in Nat
              /\ p[2] \in DOMAIN k.dir[Chain(k.table, c)[p[1]]]
         /\ \A m \in 0 .. n - 1 : \A i \in DOMAIN k.dir[Chain(k.table, c)[m]] :
              <<m, i>> \in Places(k, c)
<1>0. N \in Nat
  BY FatxAssumption
<1>1. ASSUME NEW p \in Places(k, c)
      PROVE  /\ p = <<p[1], p[2]>> /\ p[1] \in 0 .. n - 1 /\ p[2] \in Nat
             /\ p[2] \in DOMAIN k.dir[Chain(k.table, c)[p[1]]]
  <2>1. PICK m \in 0 .. N : /\ Chain(k.table, c)[m] \in 1 .. N
                            /\ \E i \in DOMAIN k.dir[Chain(k.table, c)[m]] : p = <<m, i>>
    BY DEF Places
  <2>2. PICK i \in DOMAIN k.dir[Chain(k.table, c)[m]] : p = <<m, i>>
    BY <2>1
  <2>3. m \in 0 .. n - 1
    <3>1. Chain(k.table, c)[m] # End
      BY <1>0, <2>1 DEF End
    <3>2. m \notin n .. N
      BY <3>1, ChainEnds
    <3>3. QED
      BY <1>0, <3>2
  <2>4. i \in Nat
    <3>1. k.dir[Chain(k.table, c)[m]] \in Seq(Entry)
      BY <1>0, <2>1 DEF Cluster, HoldsEntries
    <3>2. QED
      BY <3>1
  <2>5. QED
    BY <2>2, <2>3, <2>4
<1>2. ASSUME NEW m \in 0 .. n - 1, NEW i \in DOMAIN k.dir[Chain(k.table, c)[m]]
      PROVE  <<m, i>> \in Places(k, c)
  <2>1. m \in 0 .. N /\ Chain(k.table, c)[m] \in 1 .. N
    BY <1>0 DEF HasLength
  <2>2. QED
    BY <2>1 DEF Places
<1>3. QED
  BY <1>1, <1>2

\* Entry i of the m-th cluster is the first that bears the name x, or ends the
\* directory that starts at c.
Decides(k, c, x, m, i) ==
  LET E(j) == k.dir[Chain(k.table, c)[j]] IN
  /\ i \in DOMAIN E(m)
  /\ Ends(E(m)[i]) \/ Bears(E(m)[i], x)
  /\ \A j \in 0 .. m - 1 : \A h \in DOMAIN E(j) : ~Ends(E(j)[h]) /\ ~Bears(E(j)[h], x)
  /\ \A h \in DOMAIN E(m) : h < i => ~Ends(E(m)[h]) /\ ~Bears(E(m)[h], x)

\* What follows: the directory's entry of that name is that one, or there is none.
Decided(k, c, x, m, i) ==
  Named(k, c, x) = IF Ends(k.dir[Chain(k.table, c)[m]][i]) THEN {} ELSE {<<m, i>>}

LEMMA FirstDecides ==
  ASSUME NEW k, NEW c, NEW x, NEW n \in 0 .. N, HasLength(k.table, c, n),
         HoldsEntries(k),
         NEW m \in 0 .. n - 1, NEW i, Decides(k, c, x, m, i)
  PROVE  Decided(k, c, x, m, i)
<1> DEFINE p == <<m, i>>
           E(q) == At(k, c, q)
<1>a. i \in DOMAIN k.dir[Chain(k.table, c)[m]]
  BY DEF Decides
<1> USE DEF Decides
<1>0. /\ N \in Nat /\ m \in Nat /\ p[1] = m /\ p[2] = i /\ p \in Places(k, c) /\ i \in Nat
      /\ E(p) = k.dir[Chain(k.table, c)[m]][i]
  <2>1. N \in Nat /\ m \in Nat /\ m \in 0 .. N /\ m < n
    BY FatxAssumption
  <2>2. Chain(k.table, c)[m] \in 0 .. N + 1
    BY <2>1 DEF HasLength
  <2>3. k.dir[Chain(k.table, c)[m]] \in Seq(Entry)
    BY <2>2 DEF Cluster, HoldsEntries
  <2>4. i \in Nat
    BY <1>a, <2>3
  <2>5. p \in Places(k, c)
    BY <1>a, PlacesFacts
  <2>6. QED
    BY <2>1, <2>4, <2>5 DEF At
<1>1. \A q \in Places(k, c) : Before(q, p) => ~Ends(E(q)) /\ ~Bears(E(q), x)
  <2>1. SUFFICES ASSUME NEW q \in Places(k, c), Before(q, p)
                 PROVE  ~Ends(E(q)) /\ ~Bears(E(q), x)
    OBVIOUS
  <2>2. /\ q = <<q[1], q[2]>> /\ q[1] \in 0 .. n - 1 /\ q[2] \in Nat
        /\ q[2] \in DOMAIN k.dir[Chain(k.table, c)[q[1]]]
    BY PlacesFacts
  <2>3. CASE q[1] < m
    <3>1. q[1] \in 0 .. m - 1
      BY <1>0, <2>2, <2>3
    <3>2. QED
      BY <2>2, <3>1 DEF At
  <2>4. CASE q[1] = m /\ q[2] < i
    BY <2>2, <2>4 DEF At
  <2>5. QED
    BY <1>0, <2>1, <2>3, <2>4 DEF Before
<1>2. \A q \in Places(k, c) : q = p \/ Before(q, p) \/ Before(p, q)
  <2>1. SUFFICES ASSUME NEW q \in Places(k, c) PROVE q = p \/ Before(q, p) \/ Before(p, q)
    OBVIOUS
  <2>2. q = <<q[1], q[2]>> /\ q[1] \in 0 .. n - 1 /\ q[2] \in Nat
    BY PlacesFacts
  <2>3. CASE q[1] = m /\ q[2] = i
    BY <2>2, <2>3
  <2>4. CASE ~(q[1] = m /\ q[2] = i)
    BY <1>0, <2>2, <2>4 DEF Before
  <2>5. QED
    BY <2>3, <2>4
<1>b. Ends(E(p)) \/ Bears(E(p), x)
  BY <1>0
<1> HIDE DEF Decides
<1>3. \A q \in Named(k, c, x) : q \in Places(k, c) /\ Bears(E(q), x)
  BY DEF Named
<1>4. \A q \in Named(k, c, x) : ~Before(p, q)
  BY <1>0, <1>b DEF Named
<1>5. \A q \in Named(k, c, x) : q = p
  BY <1>1, <1>2, <1>3, <1>4
<1>6. CASE Ends(E(p))
  <2>1. ~Bears(E(p), x)
    BY <1>6 DEF Ends, Bears
  <2>2. Named(k, c, x) = {}
    BY <1>3, <1>5, <2>1
  <2>3. Ends(k.dir[Chain(k.table, c)[m]][i])
    BY <1>0, <1>6
  <2>4. QED
    BY <2>2, <2>3 DEF Decided
<1>7. CASE ~Ends(E(p))
  <2>1. p \in Named(k, c, x)
    BY <1>0, <1>1, <1>7, <1>b DEF Named
  <2>2. Named(k, c, x) = {p}
    BY <1>5, <2>1
  <2>3. ~Ends(k.dir[Chain(k.table, c)[m]][i])
    BY <1>0, <1>7
  <2>4. QED
    BY <2>2, <2>3 DEF Decided
<1>8. QED
  BY <1>6, <1>7

\* When no entry bears it, the directory has no entry of that name.
LEMMA NobodyBears ==
  ASSUME NEW k, NEW c, NEW x, NEW n \in 0 .. N, HasLength(k.table, c, n),
         HoldsEntries(k),
         \A j \in 0 .. n - 1 : \A h \in DOMAIN k.dir[Chain(k.table, c)[j]] :
            ~Bears(k.dir[Chain(k.table, c)[j]][h], x)
  PROVE  Named(k, c, x) = {}
<1>1. \A p \in Places(k, c) : ~Bears(At(k, c, p), x)
  BY PlacesFacts DEF At
<1>2. QED
  BY <1>1 DEF Named

\* The directories on the way, as Directory computes them: by a function that
\* exists for every length.
Way(k, w, f, l) ==
  f = [d \in 1 .. l |->
         IF d = 1 THEN {1} ELSE {e.first : e \in EntriesOf(k, f[d - 1], w[d - 1], "dir")}]

LEMMA WayExists ==
  ASSUME NEW k, NEW w, NEW l \in Nat
  PROVE  \E f : Way(k, w, f, l)
<1> DEFINE S == {m \in Nat : ~ \E f : Way(k, w, f, m)}
           Following(C, x) == {e.first : e \in EntriesOf(k, C, x, "dir")}
<1>1. SUFFICES ASSUME S # {} PROVE FALSE
  OBVIOUS
<1>2. PICK m \in S : \A y \in S : m <= y
  <2>1. S \in SUBSET Nat
    OBVIOUS
  <2>2. QED
    BY <1>1, <2>1, Smallest
<1>3. CASE m = 0
  <2>1. Way(k, w, [d \in 1 .. 0 |-> {1}], 0)
    BY DEF Way
  <2>2. QED
    BY <1>2, <1>3, <2>1
<1>4. CASE m # 0
  <2>1. m \in Nat /\ m - 1 \in Nat /\ m - 1 \notin S
    <3>1. S \subseteq Nat
      OBVIOUS
    <3> HIDE DEF S
    <3>2. m \in Nat
      BY <3>1
    <3>3. QED
      BY <1>2, <1>4, <3>2
  <2>2. PICK f : Way(k, w, f, m - 1)
    BY <2>1
  <2> DEFINE g == [d \in 1 .. m |->
                     IF d = m THEN IF d = 1 THEN {1} ELSE Following(f[d - 1], w[d - 1]) ELSE f[d]]
  <2>3. f = [d \in 1 .. m - 1 |-> IF d = 1 THEN {1} ELSE Following(f[d - 1], w[d - 1])]
    BY <2>2 DEF Way
  <2> HIDE DEF Following
  <2>4. ASSUME NEW d \in 1 .. m
        PROVE  g[d] = IF d = 1 THEN {1} ELSE Following(g[d - 1], w[d - 1])
    <3>1. CASE d = 1
      <4>1. d # m => d \in 1 .. m - 1
        BY <2>1, <3>1
      <4>2. d # m => f[d] = {1}
        BY <2>3, <3>1, <4>1
      <4>3. QED
        BY <3>1, <4>2
    <3>2. CASE d # 1
      <4>1. d - 1 \in 1 .. m /\ d - 1 # m /\ (d # m => d \in 1 .. m - 1)
        BY <2>1, <3>2
      <4>2. g[d - 1] = f[d - 1]
        BY <4>1
      <4>3. d # m => f[d] = Following(f[d - 1], w[d - 1])
        BY <2>3, <3>2, <4>1
      <4>4. QED
        BY <3>2, <4>2, <4>3
    <3>3. QED
      BY <3>1, <3>2
  <2>5. g = [d \in 1 .. m |-> IF d = 1 THEN {1} ELSE Following(g[d - 1], w[d - 1])]
    <3>1. g = [d \in 1 .. m |-> g[d]]
      OBVIOUS
    <3> HIDE DEF g
    <3>2. QED
      BY <2>4, <3>1
  <2>6. QED
    <3> HIDE DEF g
    <3>1. Way(k, w, g, m)
      BY <2>5 DEF Way, Following
    <3>2. QED
      BY <1>2, <3>1
<1>5. QED
  BY <1>3, <1>4

LEMMA DirectoryFacts ==
  ASSUME NEW k, NEW w, Len(w) \in Nat
  PROVE  /\ Len(w) >= 1 => Directory(k, w)[1] = {1}
         /\ \A d \in 2 .. Len(w) :
              Directory(k, w)[d]
                = {e.first : e \in EntriesOf(k, Directory(k, w)[d - 1], w[d - 1], "dir")}
<1> DEFINE f == Directory(k, w)
           Following(C, x) == {e.first : e \in EntriesOf(k, C, x, "dir")}
<1>1. \E g : Way(k, w, g, Len(w))
  BY WayExists
<1>2. Directory(k, w) = CHOOSE g : Way(k, w, g, Len(w))
  BY DEF Directory, Way
<1>3. Way(k, w, Directory(k, w), Len(w))
  BY <1>1, <1>2, Zenon
<1>4. f = [d \in 1 .. Len(w) |-> IF d = 1 THEN {1} ELSE Following(f[d - 1], w[d - 1])]
  BY <1>3 DEF Way
<1> HIDE DEF f, Following
<1>5. Len(w) >= 1 => f[1] = {1}
  BY <1>4
<1>6. \A d \in 2 .. Len(w) : f[d] = Following(f[d - 1], w[d - 1])
  BY <1>4
<1>7. QED
  BY <1>5, <1>6 DEF f, Following

\* Once a directory is missing, so are those behind it, and the file.
LEMMA DirectoryLost ==
  ASSUME NEW k, NEW w, Len(w) \in Nat, NEW d \in 1 .. Len(w), Directory(k, w)[d] = {}
  PROVE  TheFile(k, w) = {}
<1> DEFINE S == {b \in d .. Len(w) : Directory(k, w)[b] # {}}
<1>1. S = {}
  <2>1. SUFFICES ASSUME S # {} PROVE FALSE
    OBVIOUS
  <2>2. S \in SUBSET Nat
    OBVIOUS
  <2>3. PICK b \in S : \A y \in S : b <= y
    BY <2>1, <2>2, Smallest
  <2>4. b \in d .. Len(w) /\ Directory(k, w)[b] # {}
    BY <2>3
  <2>5. b # d
    BY <2>4
  <2>6. b - 1 \in d .. Len(w) /\ ~(b <= b - 1) /\ b \in 2 .. Len(w)
    BY <2>4, <2>5
  <2>7. b - 1 \notin S
    BY <2>3, <2>6
  <2>8. Directory(k, w)[b - 1] = {}
    BY <2>6, <2>7
  <2>9. Directory(k, w)[b]
          = {e.first : e \in EntriesOf(k, Directory(k, w)[b - 1], w[b - 1], "dir")}
    BY <2>6, DirectoryFacts
  <2>10. EntriesOf(k, Directory(k, w)[b - 1], w[b - 1], "dir") = {}
    BY <2>8 DEF EntriesOf
  <2>11. QED
    BY <2>4, <2>9, <2>10
<1>2. Len(w) \in d .. Len(w)
  OBVIOUS
<1>3. Directory(k, w)[Len(w)] = {}
  BY <1>1, <1>2
<1>4. QED
  BY <1>3 DEF TheFile, EntriesOf

LEMMA EntriesOfOne ==
  ASSUME NEW k, NEW c, NEW x, NEW p, Named(k, c, x) = {p}, NEW kind
  PROVE  EntriesOf(k, {c}, x, kind) = IF At(k, c, p).kind = kind THEN {At(k, c, p)} ELSE {}
BY DEF EntriesOf

LEMMA EntriesOfNone ==
  ASSUME NEW k, NEW c, NEW x, Named(k, c, x) = {}, NEW kind
  PROVE  EntriesOf(k, {c}, x, kind) = {}
BY DEF EntriesOf

\* What a search that stops in directory c with nothing to go on with means:
\* no entry of that name and of the kind that was wanted.
LEMMA NothingFound ==
  ASSUME NEW k, NEW w, Len(w) \in Nat, NEW d \in 1 .. Len(w), NEW c,
         Directory(k, w)[d] = {c},
         EntriesOf(k, {c}, w[d], IF d < Len(w) THEN "dir" ELSE "file") = {}
  PROVE  TheFile(k, w) = {}
<1>1. CASE d < Len(w)
  <2>1. d + 1 \in 2 .. Len(w) /\ (d + 1) - 1 = d
    BY <1>1
  <2>2. Directory(k, w)[d + 1]
          = {e.first : e \in EntriesOf(k, Directory(k, w)[(d + 1) - 1], w[(d + 1) - 1], "dir")}
    BY <2>1, DirectoryFacts
  <2>3. EntriesOf(k, {c}, w[d], "dir") = {}
    BY <1>1
  <2>4. Directory(k, w)[d + 1] = {}
    BY <2>1, <2>2, <2>3
  <2>5. d + 1 \in 1 .. Len(w)
    BY <2>1
  <2>6. QED
    BY <2>4, <2>5, DirectoryLost
<1>2. CASE ~(d < Len(w))
  <2>1. d = Len(w)
    BY <1>2
  <2>2. QED
    BY <1>2, <2>1 DEF TheFile
<1>3. QED
  BY <1>1, <1>2

LEMMA StopsMeans ==
  ASSUME NEW e
  PROVE  Stops(e) <=> Ends(e) \/ Bears(e, path[depth])
BY DEF Stops, Ends, Bears

\* The entry at which the loop stops in the cluster it has read is the first
\* of the directory to bear the name or to end it.
LEMMA HitDecides ==
  ASSUME FatxInv, NEW c, NEW n \in 0 .. N, NEW m \in 0 .. n - 1, HasLength(disk.table, c, n),
         clusterId = Chain(disk.table, c)[m],
         PassedBy(c, m), NEW i, i \in Hits(disk.dir[clusterId])
  PROVE  /\ Stops(disk.dir[clusterId][i])
         /\ Named(disk, c, path[depth])
              = IF Ends(disk.dir[clusterId][i]) THEN {} ELSE {<<m, i>>}
         /\ At(disk, c, <<m, i>>) = disk.dir[clusterId][i]
<1>1. HoldsEntries(disk)
  BY DEF FatxInv, TypeOK, HoldsEntries
<1>2. /\ i \in DOMAIN disk.dir[clusterId] /\ Stops(disk.dir[clusterId][i])
      /\ \A h \in DOMAIN disk.dir[clusterId] : h < i => ~Stops(disk.dir[clusterId][h])
  BY DEF Hits
<1>3. Ends(disk.dir[clusterId][i]) \/ Bears(disk.dir[clusterId][i], path[depth])
  BY <1>2, StopsMeans
<1>4. \A j \in 0 .. m - 1 : \A h \in DOMAIN disk.dir[Chain(disk.table, c)[j]] :
         LET e == disk.dir[Chain(disk.table, c)[j]][h] IN ~Ends(e) /\ ~Bears(e, path[depth])
  BY StopsMeans DEF PassedBy
<1>5. \A h \in DOMAIN disk.dir[clusterId] : h < i =>
         LET e == disk.dir[clusterId][h] IN ~Ends(e) /\ ~Bears(e, path[depth])
  BY <1>2, StopsMeans
<1>6. At(disk, c, <<m, i>>) = disk.dir[clusterId][i]
  BY DEF At
<1>7. Named(disk, c, path[depth]) = IF Ends(disk.dir[clusterId][i]) THEN {} ELSE {<<m, i>>}
  <2>1. Decides(disk, c, path[depth], m, i)
    BY <1>2, <1>3, <1>4, <1>5 DEF Decides
  <2>2. Named(disk, c, path[depth])
          = IF Ends(disk.dir[Chain(disk.table, c)[m]][i]) THEN {} ELSE {<<m, i>>}
    <3>1. Decided(disk, c, path[depth], m, i)
      BY <1>1, <2>1, FirstDecides, Zenon
    <3>2. QED
      BY <3>1 DEF Decided
  <2>3. QED
    BY <2>2
<1>8. QED
  BY <1>2, <1>6, <1>7

\* Where the loop does not stop in a cluster, none of its entries would stop it.
LEMMA NoHits ==
  ASSUME FatxInv, clusterId \in Cluster, Hits(disk.dir[clusterId]) = {}
  PROVE  \A i \in DOMAIN disk.dir[clusterId] : ~Stops(disk.dir[clusterId][i])
<1> DEFINE es == disk.dir[clusterId]
           S == {i \in DOMAIN es : Stops(es[i])}
<1>1. es \in Seq(Entry)
  BY DEF FatxInv, TypeOK
<1>2. SUFFICES ASSUME S # {} PROVE FALSE
  OBVIOUS
<1>3. S \in SUBSET Nat
  BY <1>1
<1>4. PICK i \in S : \A j \in S : i <= j
  BY <1>2, <1>3, Smallest
<1>5. i \in DOMAIN es /\ Stops(es[i]) /\ i \in Nat
  BY <1>3, <1>4
<1>6. \A j \in DOMAIN es : j < i => ~Stops(es[j])
  <2>1. SUFFICES ASSUME NEW j \in DOMAIN es, j < i, Stops(es[j]) PROVE FALSE
    OBVIOUS
  <2>2. j \in S /\ j \in Nat
    BY <1>3, <2>1
  <2>3. QED
    BY <1>4, <1>5, <2>1, <2>2
<1>7. i \in Hits(es)
  BY <1>5, <1>6 DEF Hits
<1>8. QED
  BY <1>7

\* The search in the middle of a directory, or at its end.
LEMMA AtHand ==
  ASSUME FatxInv, SearchedSoFar, pc = "find", ~readErr, SoundPath(disk, path)
  PROVE  \E c \in Cluster \cup {End}, n \in 0 .. N, m \in 0 .. N :
           /\ m \in 0 .. n
           /\ Directory(disk, path)[depth] = {c}
           /\ HasLength(disk.table, c, n)
           /\ clusterId = Chain(disk.table, c)[m]
           /\ clusterId = End => m = n
           /\ clusterId # End => m \in 0 .. n - 1 /\ clusterId \in 1 .. N
           /\ PassedBy(c, m)
<1>0. N \in Nat
  BY FatxAssumption
<1>1. PICK c \in Cluster \cup {End} : \E n \in 0 .. N : \E m \in 0 .. n :
        /\ Directory(disk, path)[depth] = {c}
        /\ HasLength(disk.table, c, n)
        /\ clusterId = Chain(disk.table, c)[m]
        /\ PassedBy(c, m)
  BY DEF SearchedSoFar
<1>2. PICK n \in 0 .. N : \E m \in 0 .. n :
        /\ Directory(disk, path)[depth] = {c}
        /\ HasLength(disk.table, c, n)
        /\ clusterId = Chain(disk.table, c)[m]
        /\ PassedBy(c, m)
  BY <1>1
<1>3. PICK m \in 0 .. n :
        /\ Directory(disk, path)[depth] = {c}
        /\ HasLength(disk.table, c, n)
        /\ clusterId = Chain(disk.table, c)[m]
        /\ PassedBy(c, m)
  BY <1>2
<1>4. m \in 0 .. N /\ (m # n => m \in 0 .. n - 1)
  BY <1>0
<1>5. ASSUME clusterId = End, m # n PROVE FALSE
  <2>1. Chain(disk.table, c)[m] \in 1 .. N
    BY <1>3, <1>4, <1>5 DEF HasLength
  <2>2. Chain(disk.table, c)[m] = -1
    BY <1>3, <1>5 DEF End
  <2>3. QED
    BY <1>0, <2>1, <2>2
<1>6. clusterId # End => m \in 0 .. n - 1 /\ clusterId \in 1 .. N
  BY <1>0, <1>3, <1>4 DEF HasLength
<1>7. QED
  BY <1>3, <1>4, <1>5, <1>6

\* The types that the steps of the search need.
LEMMA FindTypes ==
  ASSUME FatxInv
  PROVE  /\ Len(path) \in Nat /\ Len(path) >= 1 /\ depth \in 1 .. Len(path)
         /\ N \in Nat /\ ClusterSize \in Nat /\ End \notin 1 .. N
<1>1. path \in Seq(STRING) /\ path # <<>>
  BY FatxAssumption DEF FatxInv, TypeOK
<1>2. Len(path) \in Nat /\ Len(path) >= 1
  BY <1>1
<1>3. depth \in 1 .. Len(path)
  BY DEF FatxInv, TypeOK
<1>4. QED
  BY <1>2, <1>3, FatxAssumption DEF End

\* The search begins in the root directory.
LEMMA RootAtHand ==
  ASSUME FatxInv, SoundPath(disk, path)
  PROVE  \E n \in 0 .. N : Directory(disk, path)[1] = {1} /\ HasLength(disk.table, 1, n)
<1>1. Directory(disk, path)[1] = {1} /\ 1 \in 1 .. Len(path)
  BY FindTypes, DirectoryFacts
<1>2. Sound(disk.table, 1)
  BY <1>1 DEF SoundPath
<1>3. QED
  BY <1>1, <1>2 DEF Sound

\* The loop stops at an entry: it is the one that the path goes on with, or
\* there is none.
LEMMA TakeStep ==
  ASSUME FatxInv, SearchedSoFar, pc = "find", clusterId # End, ~readErr, SoundPath(disk, path),
         NEW i, i \in Hits(disk.dir[clusterId])
  PROVE  LET e == disk.dir[clusterId][i] IN
         /\ e.kind = "dir" /\ LookingForDirectory =>
              \E n \in 0 .. N : /\ Directory(disk, path)[depth + 1] = {e.first}
                                /\ HasLength(disk.table, e.first, n)
         /\ e.kind = "file" /\ ~LookingForDirectory => e \in TheFile(disk, path)
         /\ e.kind # (IF LookingForDirectory THEN "dir" ELSE "file") => TheFile(disk, path) = {}
<1> DEFINE e == disk.dir[clusterId][i]
<1>0. Len(path) \in Nat /\ depth \in 1 .. Len(path)
  BY FindTypes
<1>1. PICK c \in Cluster \cup {End}, n \in 0 .. N, m \in 0 .. N :
           /\ m \in 0 .. n
           /\ Directory(disk, path)[depth] = {c}
           /\ HasLength(disk.table, c, n)
           /\ clusterId = Chain(disk.table, c)[m]
           /\ clusterId = End => m = n
           /\ clusterId # End => m \in 0 .. n - 1 /\ clusterId \in 1 .. N
           /\ PassedBy(c, m)
  BY AtHand
<1>2. /\ Stops(e)
      /\ Named(disk, c, path[depth]) = IF Ends(e) THEN {} ELSE {<<m, i>>}
      /\ At(disk, c, <<m, i>>) = e
  <2>1. m \in 0 .. n - 1
    BY <1>1
  <2>2. QED
    BY <1>1, <2>1, HitDecides
<1> HIDE DEF e
<1>3. \A kind \in {"dir", "file"} :
        EntriesOf(disk, {c}, path[depth], kind) = IF e.kind = kind THEN {e} ELSE {}
  <2>1. CASE Ends(e)
    <3>1. \A kind \in {"dir", "file"} : e.kind # kind
      BY <2>1 DEF Ends
    <3>2. QED
      BY <1>2, <2>1, <3>1, EntriesOfNone
  <2>2. CASE ~Ends(e)
    <3>1. Named(disk, c, path[depth]) = {<<m, i>>}
      BY <1>2, <2>2
    <3>2. \A kind :
            EntriesOf(disk, {c}, path[depth], kind)
              = IF At(disk, c, <<m, i>>).kind = kind THEN {At(disk, c, <<m, i>>)} ELSE {}
      BY <3>1, EntriesOfOne, Zenon
    <3>3. At(disk, c, <<m, i>>) = e
      BY <1>2
    <3>4. QED
      BY <3>2, <3>3, Zenon
  <2>3. QED
    BY <2>1, <2>2
<1>4. ASSUME e.kind = "dir", LookingForDirectory
      PROVE  \E l \in 0 .. N : /\ Directory(disk, path)[depth + 1] = {e.first}
                               /\ HasLength(disk.table, e.first, l)
  <2>1. depth + 1 \in 2 .. Len(path) /\ depth + 1 \in 1 .. Len(path) /\ (depth + 1) - 1 = depth
    BY <1>0, <1>4 DEF LookingForDirectory
  <2>2. Directory(disk, path)[depth + 1]
          = {x.first : x \in EntriesOf(disk, Directory(disk, path)[(depth + 1) - 1],
                                       path[(depth + 1) - 1], "dir")}
    BY <1>0, <2>1, DirectoryFacts
  <2>3. EntriesOf(disk, {c}, path[depth], "dir") = {e}
    BY <1>3, <1>4
  <2>4. Directory(disk, path)[depth + 1] = {e.first}
    BY <1>1, <2>1, <2>2, <2>3
  <2>5. Sound(disk.table, e.first)
    BY <2>1, <2>4 DEF SoundPath
  <2>6. QED
    BY <2>4, <2>5 DEF Sound
<1>5. ASSUME e.kind = "file", ~LookingForDirectory
      PROVE  e \in TheFile(disk, path)
  <2>1. depth = Len(path)
    BY <1>0, <1>5 DEF LookingForDirectory
  <2>2. EntriesOf(disk, {c}, path[depth], "file") = {e}
    BY <1>3, <1>5
  <2>3. QED
    BY <1>1, <2>1, <2>2 DEF TheFile
<1>6. ASSUME e.kind # (IF LookingForDirectory THEN "dir" ELSE "file")
      PROVE  TheFile(disk, path) = {}
  <2>1. EntriesOf(disk, {c}, path[depth], IF depth < Len(path) THEN "dir" ELSE "file") = {}
    BY <1>3, <1>6 DEF LookingForDirectory
  <2>2. QED
    BY <1>0, <1>1, <2>1, NothingFound
<1>7. QED
  BY <1>4, <1>5, <1>6 DEF e

\* The loop passes a cluster.
LEMMA PassStep ==
  ASSUME FatxInv, SearchedSoFar, pc = "find", clusterId # End, ~readErr, SoundPath(disk, path),
         words = disk.table, Hits(disk.dir[clusterId]) = {},
         NEW next, next \in NextInChain(clusterId)
  PROVE  \E c \in Cluster \cup {End} : \E n \in 0 .. N : \E m \in 0 .. n :
           /\ Directory(disk, path)[depth] = {c}
           /\ HasLength(disk.table, c, n)
           /\ next = Chain(disk.table, c)[m]
           /\ PassedBy(c, m)
<1>1. PICK c \in Cluster \cup {End}, n \in 0 .. N, m \in 0 .. N :
           /\ m \in 0 .. n
           /\ Directory(disk, path)[depth] = {c}
           /\ HasLength(disk.table, c, n)
           /\ clusterId = Chain(disk.table, c)[m]
           /\ clusterId = End => m = n
           /\ clusterId # End => m \in 0 .. n - 1 /\ clusterId \in 1 .. N
           /\ PassedBy(c, m)
  BY AtHand
<1>2. N \in Nat /\ m + 1 \in 0 .. n /\ clusterId \in 1 .. N /\ clusterId \in Cluster
  BY <1>1, FatxAssumption DEF Cluster
<1>3. next = Chain(disk.table, c)[m + 1]
  <2>1. next = disk.table[clusterId]
    BY <1>2 DEF NextInChain
  <2>2. Chain(disk.table, c)[m + 1] = After(disk.table, Chain(disk.table, c)[m])
    BY ChainFacts
  <2>3. QED
    BY <1>1, <1>2, <2>1, <2>2 DEF After
<1>4. PassedBy(c, m + 1)
  <2>1. SUFFICES ASSUME NEW j \in 0 .. (m + 1) - 1, NEW h \in DOMAIN disk.dir[Chain(disk.table, c)[j]]
                 PROVE  ~Stops(disk.dir[Chain(disk.table, c)[j]][h])
    BY DEF PassedBy
  <2>2. CASE j = m
    BY <1>1, <1>2, <2>2, NoHits
  <2>3. CASE j # m
    <3>1. j \in 0 .. m - 1
      BY <1>2, <2>3
    <3>2. QED
      BY <1>1, <3>1 DEF PassedBy
  <2>4. QED
    BY <2>2, <2>3
<1>5. QED
  BY <1>1, <1>2, <1>3, <1>4

\* A directory that has been searched to its end has no such entry.
LEMMA EndStep ==
  ASSUME FatxInv, SearchedSoFar, pc = "find", clusterId = End, ~readErr, SoundPath(disk, path)
  PROVE  TheFile(disk, path) = {}
<1>0. Len(path) \in Nat /\ depth \in 1 .. Len(path)
  BY FindTypes
<1>1. PICK c \in Cluster \cup {End}, n \in 0 .. N, m \in 0 .. N :
           /\ m \in 0 .. n
           /\ Directory(disk, path)[depth] = {c}
           /\ HasLength(disk.table, c, n)
           /\ clusterId = Chain(disk.table, c)[m]
           /\ clusterId = End => m = n
           /\ clusterId # End => m \in 0 .. n - 1 /\ clusterId \in 1 .. N
           /\ PassedBy(c, m)
  BY AtHand
<1>2. PassedBy(c, n)
  BY <1>1
<1>3. \A j \in 0 .. n - 1 : \A h \in DOMAIN disk.dir[Chain(disk.table, c)[j]] :
        ~Bears(disk.dir[Chain(disk.table, c)[j]][h], path[depth])
  BY <1>2, StopsMeans DEF PassedBy
<1>4. HoldsEntries(disk)
  BY DEF FatxInv, TypeOK, HoldsEntries
<1>5. Named(disk, c, path[depth]) = {}
  BY <1>1, <1>3, <1>4, NobodyBears
<1>6. EntriesOf(disk, {c}, path[depth], IF depth < Len(path) THEN "dir" ELSE "file") = {}
  BY <1>5, EntriesOfNone
<1>7. QED
  BY <1>0, <1>1, <1>6, NothingFound

LEMMA InitFind == Init => FindInv
  BY DEF Init, FindInv, TableRead, SearchedSoFar, FindsTheFile

LEMMA NextFind == FatxInv /\ FatxInv' /\ FindInv /\ [Next]_vars => FindInv'
<1> SUFFICES ASSUME FatxInv, FatxInv', FindInv, [Next]_vars PROVE FindInv'
  OBVIOUS
<1>0. SearchedSoFar /\ FindsTheFile /\ TableRead
  BY DEF FindInv
<1>a. \A c : (PassedBy(c, 0))'
  BY DEF PassedBy
<1>b. ASSUME TableRead', pc' \in {"find", "load", "done"}, pc' = "find" => SearchedSoFar', FindsTheFile'
      PROVE  FindInv'
  BY <1>b DEF FindInv, SearchedSoFar
<1>1. CASE UNCHANGED vars
  <2>1. \A c, m : (PassedBy(c, m))' <=> PassedBy(c, m)
    BY <1>1 DEF vars, input, PassedBy, Stops
  <2>2. SearchedSoFar'
    BY <1>0, <1>1, <2>1 DEF vars, input, SearchedSoFar
  <2>3. FindsTheFile' /\ TableRead'
    BY <1>0, <1>1 DEF vars, input, FindsTheFile, TableRead
  <2>4. QED
    BY <1>1, <2>2, <2>3 DEF vars, FindInv
<1>2. CASE OpenFails
  BY <1>2 DEF OpenFails, Return, FindInv, TableRead, SearchedSoFar, FindsTheFile
<1>3. CASE Open
  <2>1. /\ UNCHANGED <<disk, path>> /\ pc' = "find" /\ clusterId' = 1 /\ depth' = 1
        /\ (~readErr' => words' = disk.table)
    BY <1>3 DEF Open, input, FindInv
  <2>2. SearchedSoFar'
    <3>1. SUFFICES ASSUME SoundPath(disk, path)
                   PROVE  (\E c \in Cluster \cup {End} : \E n \in 0 .. N : \E m \in 0 .. n :
                             /\ Directory(disk, path)[depth] = {c}
                             /\ HasLength(disk.table, c, n)
                             /\ clusterId = Chain(disk.table, c)[m]
                             /\ PassedBy(c, m))'
      BY <2>1 DEF SearchedSoFar
    <3>2. PICK n \in 0 .. N : Directory(disk, path)[1] = {1} /\ HasLength(disk.table, 1, n)
      BY <3>1, RootAtHand
    <3>3. 1 \in Cluster /\ 0 \in 0 .. n
      BY FindTypes DEF Cluster
    <3>4. Chain(disk.table, 1)[0] = 1
      BY ChainFacts
    <3>5. QED
      BY <1>a, <2>1, <3>2, <3>3, <3>4
  <2>3. TableRead' /\ FindsTheFile'
    BY <2>1 DEF TableRead, FindsTheFile
  <2>4. QED
    BY <1>b, <2>1, <2>2, <2>3
<1>4. CASE FindName
  <2>1. /\ UNCHANGED <<disk, path, words, readErr>> /\ pc' = "done" /\ path[depth] \in TooLong
    BY <1>4 DEF FindName, Return, input
  <2>2. TableRead'
    BY <1>0, <2>1 DEF TableRead
  <2>3. FindsTheFile'
    BY <2>1, FindTypes DEF FindsTheFile
  <2>4. QED
    BY <1>b, <2>1, <2>2, <2>3
<1>5. CASE FindInCluster
  <2>0. /\ UNCHANGED <<disk, path, words>> /\ pc = "find" /\ clusterId # End
    BY <1>5 DEF FindInCluster, input
  <2>a. PICK k \in 0 .. ClusterSize : \E es \in Seen(k) :
          /\ readErr' = (readErr \/ k < ClusterSize)
          /\ \/ \E i \in Hits(es) : TakeEntry(es[i])
             \/ /\ Hits(es) = {}
                /\ clusterId' \in NextInChain(clusterId)
                /\ UNCHANGED <<pc, depth, first, size, fileSize, result>>
    BY <1>5 DEF FindInCluster
  <2>1. PICK es \in Seen(k) :
          /\ readErr' = (readErr \/ k < ClusterSize)
          /\ \/ \E i \in Hits(es) : TakeEntry(es[i])
             \/ /\ Hits(es) = {}
                /\ clusterId' \in NextInChain(clusterId)
                /\ UNCHANGED <<pc, depth, first, size, fileSize, result>>
    BY <2>a
  <2>2. readErr \in BOOLEAN /\ readErr' \in BOOLEAN
    BY DEF FatxInv, TypeOK
  <2>3. TableRead'
    BY <1>0, <2>0, <2>1, <2>2 DEF TableRead
  <2>4. ASSUME ~readErr' PROVE ~readErr /\ es = disk.dir[clusterId]
    <3>1. ~readErr /\ ~(k < ClusterSize)
      BY <2>1, <2>4, Zenon
    <3>2. k = ClusterSize
      BY <3>1, FindTypes
    <3>3. QED
      BY <3>1, <3>2 DEF Seen
  <2>5. CASE Hits(es) = {} /\ clusterId' \in NextInChain(clusterId)
             /\ UNCHANGED <<pc, depth, first, size, fileSize, result>>
    <3>1. ASSUME ~readErr', SoundPath(disk, path)
          PROVE  \E c \in Cluster \cup {End} : \E n \in 0 .. N : \E m \in 0 .. n :
                   /\ Directory(disk, path)[depth] = {c}
                   /\ HasLength(disk.table, c, n)
                   /\ clusterId' = Chain(disk.table, c)[m]
                   /\ PassedBy(c, m)
      <4>1. words = disk.table
        BY <1>0, <2>4, <3>1 DEF TableRead
      <4>2. QED
        BY <1>0, <2>0, <2>4, <2>5, <3>1, <4>1, PassStep
    <3>2. \A c, m : (PassedBy(c, m))' <=> PassedBy(c, m)
      BY <2>0, <2>5 DEF PassedBy, Stops
    <3>3. SearchedSoFar'
      BY <2>0, <2>5, <3>1, <3>2 DEF SearchedSoFar
    <3>4. FindsTheFile'
      BY <2>0, <2>5 DEF FindsTheFile
    <3>5. QED
      BY <1>b, <2>0, <2>3, <2>5, <3>3, <3>4
  <2>6. CASE \E i \in Hits(es) : TakeEntry(es[i])
    <3>1. PICK i \in Hits(es) : TakeEntry(es[i])
      BY <2>6
    <3> DEFINE e == es[i]
    <3>2. ASSUME ~readErr', SoundPath(disk, path)
          PROVE  /\ e.kind = "dir" /\ LookingForDirectory =>
                      \E n \in 0 .. N : /\ Directory(disk, path)[depth + 1] = {e.first}
                                        /\ HasLength(disk.table, e.first, n)
                 /\ e.kind = "file" /\ ~LookingForDirectory => e \in TheFile(disk, path)
                 /\ e.kind # (IF LookingForDirectory THEN "dir" ELSE "file") =>
                      TheFile(disk, path) = {}
      BY <1>0, <2>0, <2>4, <3>1, <3>2, TakeStep
    <3>3. e.first \in Cluster \cup {End}
      <4>1. e \in Entry
        <5>1. clusterId \in Cluster
          BY <2>0 DEF FatxInv, TypeOK
        <5>2. QED
          BY <3>1, <5>1, SeenType DEF FatxInv, Hits
      <4>2. QED
        BY <4>1 DEF Entry
    <3>a. TakeEntry(e)
      BY <3>1
    <3> HIDE DEF e
    <3>4. CASE e.kind = "dir" /\ LookingForDirectory
      <4>1. depth' = depth + 1 /\ clusterId' = e.first /\ pc' = "find"
        BY <2>0, <3>a, <3>4 DEF TakeEntry
      <4>2. SearchedSoFar'
        <5>1. SUFFICES ASSUME ~readErr', SoundPath(disk, path)
                       PROVE  (\E c \in Cluster \cup {End} : \E n \in 0 .. N : \E m \in 0 .. n :
                                 /\ Directory(disk, path)[depth] = {c}
                                 /\ HasLength(disk.table, c, n)
                                 /\ clusterId = Chain(disk.table, c)[m]
                                 /\ PassedBy(c, m))'
          BY <2>0 DEF SearchedSoFar
        <5>2. PICK n \in 0 .. N : /\ Directory(disk, path)[depth + 1] = {e.first}
                                  /\ HasLength(disk.table, e.first, n)
          BY <3>2, <3>4, <5>1
        <5>3. 0 \in 0 .. n
          BY FindTypes
        <5>4. Chain(disk.table, e.first)[0] = e.first
          BY ChainFacts
        <5>5. QED
          BY <1>a, <2>0, <3>3, <4>1, <5>2, <5>3, <5>4
      <4>3. FindsTheFile'
        BY <4>1 DEF FindsTheFile
      <4>4. QED
        BY <1>b, <2>3, <4>1, <4>2, <4>3
    <3>5. CASE e.kind = "file" /\ ~LookingForDirectory
      <4>1. pc' = "load" /\ first' = e.first /\ size' = e.size
        BY <3>a, <3>5 DEF TakeEntry
      <4>2. FindsTheFile'
        BY <2>0, <3>2, <3>5, <4>1 DEF FindsTheFile
      <4>3. QED
        BY <1>b, <2>3, <4>1, <4>2
    <3>6. CASE e.kind # (IF LookingForDirectory THEN "dir" ELSE "file")
      <4>1. pc' = "done"
        BY <3>a, <3>6 DEF TakeEntry, Return
      <4>2. FindsTheFile'
        BY <2>0, <3>2, <3>6, <4>1 DEF FindsTheFile
      <4>3. QED
        BY <1>b, <2>3, <4>1, <4>2
    <3>7. QED
      BY <3>4, <3>5, <3>6
  <2>7. QED
    BY <2>1, <2>5, <2>6
<1>6. CASE FindFails
  <2>1. /\ UNCHANGED <<disk, path, words, readErr>> /\ pc = "find" /\ pc' = "done"
        /\ clusterId = End
    BY <1>6 DEF FindFails, Return, input
  <2>2. TableRead'
    BY <1>0, <2>1 DEF TableRead
  <2>3. FindsTheFile'
    <3>1. ASSUME ~readErr, SoundPath(disk, path) PROVE TheFile(disk, path) = {}
      BY <1>0, <2>1, <3>1, EndStep
    <3>2. QED
      BY <2>1, <3>1 DEF FindsTheFile
  <2>4. QED
    BY <1>b, <2>1, <2>2, <2>3
<1>7. CASE LoadCluster
  <2>1. /\ UNCHANGED <<disk, path, words, first, size>> /\ pc = "load" /\ pc' = "load"
    BY <1>7 DEF LoadCluster, input
  <2>2. readErr \in BOOLEAN /\ (readErr => readErr')
    <3>1. PICK k \in 0 .. ClusterSize : readErr' = (readErr \/ k < ClusterSize)
      BY <1>7 DEF LoadCluster
    <3>2. QED
      BY <3>1 DEF FatxInv, TypeOK
  <2>3. TableRead'
    BY <1>0, <2>1, <2>2 DEF TableRead
  <2>4. FindsTheFile'
    BY <1>0, <2>1, <2>2 DEF FindsTheFile
  <2>5. QED
    BY <1>b, <2>1, <2>3, <2>4
<1>8. CASE LoadDone
  <2>1. /\ UNCHANGED <<disk, path, words, first, size, readErr>> /\ pc = "load" /\ pc' = "done"
        /\ result' = (fileSize = 0)
    BY <1>8 DEF LoadDone, Return, input
  <2>2. TableRead'
    BY <1>0, <2>1 DEF TableRead
  <2>3. ~result' => size' # 0
    <3>1. Len(buffer) \in Nat /\ fileSize \in Nat /\ Len(buffer) + fileSize = size
      BY DEF FatxInv, TypeOK
    <3>2. fileSize # 0 => size # 0
      BY <3>1
    <3>3. QED
      BY <2>1, <3>2
  <2>4. FindsTheFile'
    BY <2>1, <2>3 DEF FindsTheFile
  <2>5. QED
    BY <1>b, <2>1, <2>2, <2>4
<1>9. QED
  BY <1>1, <1>2, <1>3, <1>4, <1>5, <1>6, <1>7, <1>8 DEF Next

\* _FATXFindFile: without read errors, and when the directories on the way are
\* sound, the file that is loaded is the one the path names, and none is missed.
THEOREM FatxFindsTheFile == Spec => []FindsTheFile
<1>1. FindInv => FindsTheFile
  BY DEF FindInv
<1> QED
  BY <1>1, InitFind, NextFind, FatxInvariant, PTL DEF Spec

=============================================================================
