-------------------------- MODULE MemoryIdeProofs --------------------------
(***************************************************************************)
(* Proofs about the two services that every other part of the loader       *)
(* stands on, each by itself: the heap, for every number of entries, every *)
(* set of request sizes and every table that is large enough for them; and *)
(* the IDE driver, for every pair of drives, every width of its registers, *)
(* and any number of power cuts and faults.                                *)
(***************************************************************************)
EXTENDS MemoryManager, Ide, TLAPS

-----------------------------------------------------------------------------
(* THE HEAP *)

\* The number of clusters t_malloc looks for is one of the shapes t_free knows.
LEMMA SectorsShape ==
  ASSUME NEW q \in Nat
  PROVE  /\ Sectors(q) \in Nat
         /\ Sectors(q) > 0 => Sectors(q) \in {1, 4} \/ Sectors(q) >= 5
<1>1. Rounded(q) \in Nat
  BY DEF Rounded
<1>2. ASSUME NEW p \in Nat
      PROVE  /\ SectorsFor(p) \in Nat
             /\ SectorsFor(p) > 0 => SectorsFor(p) \in {1, 4} \/ SectorsFor(p) >= 5
  BY DEF SectorsFor, ClusterPages, MediumPages, LargePages
<1>3. QED
  BY <1>1, <1>2 DEF Sectors

\* malloc: the clusters it reserves cover the header and every byte the caller
\* asked for.
LEMMA RequestFits ==
  ASSUME NEW q \in Nat, q + 2 < 16777216, Sectors(q) > 0
  PROVE  HeaderPages + q + 1 <= Sectors(q) * ClusterPages
<1>1. Rounded(q) = q + 2
  BY DEF Rounded
<1>2. QED
  BY <1>1 DEF Sectors, SectorsFor, HeaderPages, ClusterPages, MediumPages, LargePages

\* No mark is the byte of a free entry, and the first byte of a block tells
\* which of the three kinds it is.
LEMMA MarkFacts ==
  ASSUME NEW n \in Nat, n \in {1, 4} \/ n >= 5, NEW i \in 0 .. n - 1
  PROVE  /\ Mark(n, i) \in 1 .. 255
         /\ Mark(n, i) = 170 => n = 1 /\ i = 0
         /\ Mark(n, i) = 254 => n = 4 /\ i = 0
         /\ Mark(n, i) = 187 => n >= 5 /\ (i = 0 \/ i = n - 1)
         /\ Mark(n, i) = 204 => n >= 5 /\ (i = 1 \/ i = n - 2)
         /\ n = 1 => Mark(n, 0) = 170
         /\ n >= 5 => /\ Mark(n, 0) = 187 /\ Mark(n, 1) = 204
                      /\ Mark(n, n - 2) = 204 /\ Mark(n, n - 1) = 187
                      /\ (i > 1 /\ i < n - 2 => Mark(n, i) = 255)
<1>1. CASE n = 1
  BY <1>1 DEF Mark
<1>2. CASE n = 4
  <2>1. i = 0 \/ i = 1 \/ i = 2 \/ i = 3
    BY <1>2
  <2>2. QED
    BY <1>2, <2>1 DEF Mark
<1>3. CASE n >= 5
  BY <1>3 DEF Mark
<1>4. QED
  BY <1>1, <1>2, <1>3

\* Facts about one marked block that every step below uses.
LEMMA BlockFacts ==
  ASSUME IInv, NEW b \in Marked
  PROVE  /\ b = <<b[1], b[2]>> /\ b[1] \in Entries /\ b[2] \in Nat \ {0}
         /\ b[2] \in {1, 4} \/ b[2] >= 5
         /\ b[1] + b[2] <= TableSize
         /\ Span(b) \subseteq Table
         /\ \A e \in Span(b) : /\ e - b[1] \in 0 .. b[2] - 1
                              /\ memsmall[e] = Mark(b[2], e - b[1])
                              /\ memsmall[e] # 0
<1>1. b \in Entries \X (1 .. TableSize)
  BY DEF IInv, HeapTypeOK, Marked
<1>2. /\ b = <<b[1], b[2]>> /\ b[1] \in Entries /\ b[2] \in 1 .. TableSize
  BY <1>1
<1>3. b[1] \in Int /\ b[1] >= 1 /\ b[2] \in Int /\ b[2] >= 1
  BY <1>2, SizesAssumption DEF Entries
<1>4. (b[2] \in {1, 4} \/ b[2] >= 5) /\ b[1] + b[2] <= TableSize
  BY DEF IInv, BlockShapes
<1>5. Span(b) \subseteq Table
  BY <1>3, <1>4, SizesAssumption DEF Span, Table
<1>6. ASSUME NEW e \in Span(b)
      PROVE  /\ e - b[1] \in 0 .. b[2] - 1
             /\ memsmall[e] = Mark(b[2], e - b[1])
             /\ memsmall[e] # 0
  <2>1. e - b[1] \in 0 .. b[2] - 1
    BY <1>3 DEF Span
  <2>2. memsmall[e] = Mark(b[2], e - b[1])
    BY DEF IInv, MarksIntact
  <2>3. Mark(b[2], e - b[1]) # 0
    BY DEF Mark
  <2>4. QED
    BY <2>1, <2>2, <2>3
<1>7. QED
  BY <1>2, <1>3, <1>4, <1>5, <1>6

\* t_free of a block's own pointer clears nothing outside the block, and
\* either every searched entry of it or, for five clusters, nothing.
LEMMA OwnFree ==
  ASSUME IInv, NEW b \in Marked
  PROVE  /\ Cleared(b[1]) \subseteq Span(b)
         /\ b[2] = 5 => Cleared(b[1]) = {}
         /\ b[2] # 5 => /\ Cleared(b[1]) # {}
                        /\ Span(b) \cap Entries \subseteq Cleared(b[1])
<1> DEFINE s == b[1]
           n == b[2]
<1>1. /\ s \in Nat \ {0} /\ n \in Nat \ {0} /\ s < NumEntries
      /\ n \in {1, 4} \/ n >= 5
      /\ s + n <= TableSize
  BY BlockFacts, SizesAssumption DEF Entries
<1>2. \A i \in 0 .. n - 1 : memsmall[s + i] = Mark(n, i)
  <2>1. TAKE i \in 0 .. n - 1
  <2>2. s + i \in Span(b) /\ (s + i) - s = i
    BY <1>1 DEF Span
  <2>3. QED
    BY <2>2, BlockFacts
<1>3. CASE n = 1
  <2>1. IsSmall(s)
    <3>1. memsmall[s + 0] = Mark(n, 0)
      BY <1>2, <1>3
    <3>2. QED
      BY <1>1, <1>3, <3>1 DEF IsSmall, Mark
  <2>2. Cleared(s) = {s}
    BY <2>1 DEF Cleared
  <2>3. QED
    BY <1>1, <1>3, <2>2 DEF Span
<1>4. CASE n = 4
  <2>1. /\ memsmall[s + 0] = 254 /\ memsmall[s + 1] = 220
        /\ memsmall[s + 2] = 186 /\ memsmall[s + 3] = 184
    BY <1>2, <1>4 DEF Mark
  <2>2. memsmall[s] = 254
    BY <1>1, <2>1
  <2>3. IsMedium(s) /\ ~IsSmall(s)
    BY <2>1, <2>2 DEF IsMedium, IsSmall, Word
  <2>4. Cleared(s) = s .. s + 3
    BY <2>3 DEF Cleared
  <2>5. QED
    BY <1>1, <1>4, <2>4 DEF Span
<1>5. CASE n = 5
  <2>1. memsmall[s + 0] = 187 /\ memsmall[s + 3] = 204
    BY <1>2, <1>5 DEF Mark
  <2>2. memsmall[s] = 187
    BY <1>1, <2>1
  <2>3. ~IsSmall(s) /\ ~IsMedium(s) /\ ~IsLarge(s)
    BY <2>1, <2>2 DEF IsSmall, IsMedium, IsLarge, Word
  <2>4. Cleared(s) = {}
    BY <2>3 DEF Cleared
  <2>5. QED
    BY <1>1, <1>5, <2>4
<1>6. CASE n > 5
  <2>1. /\ memsmall[s + 0] = 187 /\ memsmall[s + 1] = 204
        /\ memsmall[s + 2] = 255 /\ memsmall[s + 3] = 255
    BY <1>1, <1>2, <1>6 DEF Mark
  <2>2. memsmall[s] = 187
    BY <1>1, <2>1
  <2>3. IsLarge(s) /\ ~IsSmall(s) /\ ~IsMedium(s)
    BY <2>1, <2>2 DEF IsSmall, IsMedium, IsLarge, Word
  <2>4. Cleared(s) = s .. LoopEnd(s)
    BY <2>3 DEF Cleared
  <2>5. ASSUME NEW c \in s .. s + n - 3 PROVE ~EndPair(c)
    <3>1. c - s \in 0 .. n - 3 /\ (c - s) + 1 \in 0 .. n - 1
      BY <1>1, <1>6
    <3>2. /\ memsmall[s + (c - s)] = Mark(n, c - s)
          /\ memsmall[s + ((c - s) + 1)] = Mark(n, (c - s) + 1)
      BY <1>1, <1>2, <3>1
    <3>3. memsmall[c] = Mark(n, c - s) /\ memsmall[c + 1] = Mark(n, (c - s) + 1)
      BY <1>1, <3>2
    <3>4. ~(Mark(n, c - s) = 204 /\ Mark(n, (c - s) + 1) = 187)
      BY <1>1, <1>6, <3>1 DEF Mark
    <3>5. QED
      BY <3>3, <3>4 DEF EndPair
  <2>6. CASE s + n - 2 < NumEntries
    <3>1. EndPair(s + n - 2)
      <4>1. /\ memsmall[s + (n - 2)] = Mark(n, n - 2)
            /\ memsmall[s + (n - 1)] = Mark(n, n - 1)
        BY <1>1, <1>2, <1>6
      <4>2. Mark(n, n - 2) = 204 /\ Mark(n, n - 1) = 187
        BY <1>1, <1>6 DEF Mark
      <4>3. s + n - 2 = s + (n - 2) /\ (s + n - 2) + 1 = s + (n - 1)
        BY <1>1
      <4>4. QED
        BY <2>6, <4>1, <4>2, <4>3 DEF EndPair
    <3>2. s + n - 2 \in s .. NumEntries - 1
      BY <1>1, <1>6, <2>6, SizesAssumption
    <3>3. \A d \in s .. (s + n - 2) - 1 : ~EndPair(d)
      BY <1>1, <2>5
    <3>4. \A c \in s .. NumEntries - 1 :
             EndPair(c) /\ (\A d \in s .. c - 1 : ~EndPair(d)) => c = s + n - 2
      BY <1>1, <2>5, <3>1, <3>2
    <3>5. LoopEnd(s) = s + n - 2 + 1
      BY <3>1, <3>2, <3>3, <3>4 DEF LoopEnd
    <3>6. QED
      BY <1>1, <1>6, <2>4, <3>5 DEF Span
  <2>7. CASE s + n - 2 >= NumEntries
    <3>1. ~ \E c \in s .. NumEntries - 1 : EndPair(c)
      BY <1>1, <2>5, <2>7, SizesAssumption
    <3>2. LoopEnd(s) = NumEntries - 1
      BY <3>1 DEF LoopEnd
    <3>3. QED
      BY <1>1, <1>6, <2>4, <2>7, <3>2, SizesAssumption DEF Span, Entries
  <2>8. QED
    BY <1>1, <2>6, <2>7, SizesAssumption
<1>7. QED
  BY <1>1, <1>3, <1>4, <1>5, <1>6

\* A pointer at which no marked block starts, below the last entry, is not
\* recognised as a block by t_free.
LEMMA StaleFree ==
  ASSUME IInv, NEW s \in Entries, s < NumEntries - 1, \A b \in Marked : b[1] # s
  PROVE  Cleared(s) = {}
<1>1. s \in Nat /\ s >= 1 /\ s + 1 \in Entries
  BY SizesAssumption DEF Entries
<1>2. CASE memsmall[s] = 0
  BY <1>2 DEF Cleared, IsSmall, IsMedium, IsLarge, Word
<1>3. CASE memsmall[s] # 0
  <2>1. PICK b \in Marked : s \in Span(b)
    BY <1>3 DEF IInv, NothingElseMarked
  <2> DEFINE n == b[2]
             i == s - b[1]
  <2>2. /\ n \in Nat \ {0} /\ b[1] \in Nat /\ i \in 1 .. n - 1
        /\ n \in {1, 4} \/ n >= 5
        /\ memsmall[s] = Mark(n, i)
    <3>1. /\ n \in Nat \ {0} /\ b[1] \in Entries /\ i \in 0 .. n - 1
          /\ n \in {1, 4} \/ n >= 5
          /\ memsmall[s] = Mark(n, i)
      BY <2>1, BlockFacts
    <3>2. b[1] \in Nat /\ i # 0
      BY <1>1, <3>1 DEF Entries
    <3>3. QED
      BY <3>1, <3>2
  <2>3. memsmall[s] # 170 /\ memsmall[s] # 254
    BY <2>2 DEF Mark
  <2>4. memsmall[s] = 187 => s = b[1] + n - 1
    BY <1>1, <2>2 DEF Mark
  <2>5. ASSUME memsmall[s] = 187, memsmall[s + 1] = 204 PROVE FALSE
    <3>1. PICK c \in Marked : s + 1 \in Span(c)
      BY <1>1, <2>5 DEF IInv, NothingElseMarked
    <3>2. s + 1 \notin Span(b)
      BY <1>1, <2>2, <2>4, <2>5 DEF Span
    <3>3. s \notin Span(c)
      BY <2>1, <3>1, <3>2 DEF IInv, BlocksDisjoint
    <3>4. c[1] \in Nat /\ c[2] \in Nat
      BY BlockFacts DEF Entries
    <3>5. c[1] = s + 1
      BY <1>1, <3>1, <3>3, <3>4 DEF Span
    <3>6. memsmall[s + 1] = Mark(c[2], (s + 1) - c[1])
      BY <3>1, BlockFacts
    <3>7. memsmall[s + 1] = Mark(c[2], 0)
      BY <1>1, <3>5, <3>6
    <3>8. c[2] \in {1, 4} \/ c[2] >= 5
      BY BlockFacts
    <3>9. QED
      BY <2>5, <3>4, <3>7, <3>8 DEF Mark
  <2>6. ~IsSmall(s) /\ ~IsMedium(s) /\ ~IsLarge(s)
    BY <2>3, <2>5 DEF IsSmall, IsMedium, IsLarge, Word
  <2>7. QED
    BY <2>6 DEF Cleared
<1>4. QED
  BY <1>2, <1>3

LEMMA InitIInv == HeapInit => IInv
<1> SUFFICES ASSUME HeapInit PROVE IInv
  OBVIOUS
<1>1. Marked = {}
  BY DEF HeapInit, Marked
<1>2. HeapTypeOK
  BY SizesAssumption DEF HeapInit, HeapTypeOK, Table
<1>3. NothingElseMarked
  BY SizesAssumption DEF HeapInit, NothingElseMarked, Entries, Table
<1>4. QED
  BY <1>1, <1>2, <1>3 DEF HeapInit, IInv, BlockShapes, BlocksDisjoint, MarksIntact, OnlyFiveClustersLeak

\* t_malloc preserves the invariant: the run it found is free, so it meets no
\* block, and the pattern it writes is the one the new block must carry.
LEMMA MallocStep ==
  ASSUME IInv, NEW q \in Requests, Malloc(q)
  PROVE  /\ IInv'
         /\ \A b \in Marked : \A e \in Span(b) : memsmall'[e] = memsmall[e]
<1> DEFINE n == Sectors(q)
<1>1. PICK c \in Entries : /\ FirstFit(c, n)
                           /\ memsmall' = MarkBlock(c, n)
                           /\ held' = held \cup {<<c, n>>}
                           /\ stale' = stale \ {c}
  BY DEF Malloc
<1>2. n > 0 /\ leaked' = leaked /\ failed' = failed /\ intr' = TRUE
  BY DEF Malloc
<1>3. /\ n \in Nat \ {0} /\ (n \in {1, 4} \/ n >= 5)
      /\ c \in Nat /\ c >= 1 /\ c < NumEntries /\ c + n <= TableSize
  BY <1>2, SectorsShape, SizesAssumption DEF Entries
<1>4. Marked' = Marked \cup {<<c, n>>}
  BY <1>1, <1>2 DEF Marked
<1>5. Span(<<c, n>>) = c .. c + n - 1
  BY DEF Span
<1>6. ASSUME NEW b \in Marked PROVE Span(b) \cap (c .. c + n - 1) = {}
  BY <1>1, BlockFacts DEF FirstFit, FitsAt
<1>7. \A b \in Marked : \A e \in Span(b) : memsmall'[e] = memsmall[e]
  <2>1. TAKE b \in Marked
  <2>2. TAKE e \in Span(b)
  <2>3. e \in Table /\ e \notin c .. c + n - 1
    BY <1>6, BlockFacts
  <2>4. QED
    BY <1>1, <2>3 DEF MarkBlock
<1>8. \A e \in c .. c + n - 1 : memsmall'[e] = Mark(n, e - c)
  BY <1>1, <1>3, SizesAssumption DEF MarkBlock, Table
<1>9. HeapTypeOK'
  <2>1. memsmall' \in [Table -> 0 .. 255]
    <3>1. \A i : Mark(n, i) \in 0 .. 255
      BY DEF Mark
    <3>2. QED
      BY <1>1, <3>1 DEF MarkBlock, IInv, HeapTypeOK
  <2>2. <<c, n>> \in Entries \X (1 .. TableSize)
    BY <1>3, SizesAssumption
  <2>3. QED
    BY <1>1, <1>2, <2>1, <2>2 DEF IInv, HeapTypeOK
<1>10. BlockShapes'
  BY <1>3, <1>4 DEF IInv, BlockShapes
<1>11. BlocksDisjoint'
  <2>1. 0 \notin c .. c + n - 1
    BY <1>3
  <2>2. QED
    BY <1>4, <1>5, <1>6, <2>1 DEF IInv, BlocksDisjoint
<1>12. MarksIntact'
  <2>1. SUFFICES ASSUME NEW b \in Marked', NEW e \in Span(b)
                 PROVE  memsmall'[e] = Mark(b[2], e - b[1])
    BY DEF MarksIntact, Span
  <2>2. CASE b = <<c, n>>
    BY <1>5, <1>8, <2>2
  <2>3. CASE b \in Marked
    BY <1>7, <2>3 DEF IInv, MarksIntact
  <2>4. QED
    BY <1>4, <2>2, <2>3
<1>13. NothingElseMarked'
  <2>1. SUFFICES ASSUME NEW e \in Entries, memsmall'[e] # 0
                 PROVE  \E b \in Marked' : e \in Span(b)
    BY DEF NothingElseMarked, Span
  <2>2. CASE e \in c .. c + n - 1
    BY <1>4, <1>5, <2>2
  <2>3. CASE e \notin c .. c + n - 1
    <3>1. e \in Table
      BY <1>3, SizesAssumption DEF Entries, Table
    <3>2. memsmall[e] # 0
      BY <1>1, <2>1, <2>3, <3>1 DEF MarkBlock
    <3>3. QED
      BY <1>4, <3>2 DEF IInv, NothingElseMarked
  <2>4. QED
    BY <2>2, <2>3
<1>14. OnlyFiveClustersLeak'
  BY <1>2 DEF IInv, OnlyFiveClustersLeak
<1>15. QED
  BY <1>7, <1>9, <1>10, <1>11, <1>12, <1>13, <1>14 DEF IInv

\* free by the owner preserves the invariant: what t_free clears lies inside
\* the block, so every other block keeps its marks.
LEMMA FreeStep ==
  ASSUME IInv, NEW b \in held, Free(b)
  PROVE  /\ IInv'
         /\ \A a \in Marked \cap Marked' :
              \A e \in Span(a) : memsmall'[e] = memsmall[e]
<1> DEFINE C == Cleared(b[1])
<1>1. /\ memsmall' = [e \in Table |-> IF e \in C THEN 0 ELSE memsmall[e]]
      /\ held' = held \ {b}
      /\ leaked' = IF C = {} THEN leaked \cup {b} ELSE leaked
      /\ stale' = stale \cup {b[1]} /\ intr' = TRUE /\ failed' = failed
  BY DEF Free, TFree
<1>2. b \in Marked
  BY DEF Marked
<1>3. /\ C \subseteq Span(b)
      /\ b[2] = 5 => C = {}
      /\ b[2] # 5 => C # {} /\ Span(b) \cap Entries \subseteq C
  BY <1>2, OwnFree
<1>4. Marked' \subseteq Marked /\ Marked \ {b} \subseteq Marked'
  BY <1>1, <1>2 DEF Marked
<1>5. b[2] = 5 => Marked' = Marked /\ b \in leaked'
  BY <1>1, <1>2, <1>3 DEF Marked
<1>6. ASSUME NEW a \in Marked', NEW e \in Span(a)
      PROVE  memsmall'[e] = memsmall[e] \/ (a = b /\ C # {})
  <2>1. e \in Table
    BY <1>4, BlockFacts
  <2>2. CASE a # b
    <3>1. e \notin C
      BY <1>2, <1>3, <1>4, <2>2 DEF IInv, BlocksDisjoint
    <3>2. QED
      BY <1>1, <2>1, <3>1
  <2>3. CASE a = b
    BY <1>1, <2>1, <2>3
  <2>4. QED
    BY <2>2, <2>3
<1>7. b \in leaked => b[2] = 5
  BY DEF IInv, OnlyFiveClustersLeak
<1>8. C # {} => b \notin Marked'
  BY <1>1, <1>3, <1>7 DEF Marked
<1>9. \A a \in Marked' : \A e \in Span(a) : memsmall'[e] = memsmall[e]
  BY <1>6, <1>8
<1>10. HeapTypeOK'
  <2>1. b \in Entries \X (1 .. TableSize) /\ b[1] \in Entries
    BY DEF IInv, HeapTypeOK
  <2>2. memsmall' \in [Table -> 0 .. 255]
    BY <1>1 DEF IInv, HeapTypeOK
  <2>3. QED
    BY <1>1, <2>1, <2>2 DEF IInv, HeapTypeOK
<1>11. BlockShapes'
  BY <1>4 DEF IInv, BlockShapes
<1>12. BlocksDisjoint'
  BY <1>4 DEF IInv, BlocksDisjoint
<1>13. MarksIntact'
  <2>1. SUFFICES ASSUME NEW a \in Marked', NEW e \in Span(a)
                 PROVE  memsmall'[e] = Mark(a[2], e - a[1])
    BY DEF MarksIntact, Span
  <2>2. QED
    BY <1>4, <1>9 DEF IInv, MarksIntact
<1>14. NothingElseMarked'
  <2>1. SUFFICES ASSUME NEW e \in Entries, memsmall'[e] # 0
                 PROVE  \E a \in Marked' : e \in Span(a)
    BY DEF NothingElseMarked, Span
  <2>2. e \in Table
    BY SizesAssumption DEF Entries, Table
  <2>3. e \notin C /\ memsmall[e] # 0
    BY <1>1, <2>1, <2>2
  <2>4. PICK a \in Marked : e \in Span(a)
    BY <2>3 DEF IInv, NothingElseMarked
  <2>5. a = b => b[2] = 5
    BY <1>3, <2>3, <2>4
  <2>6. QED
    BY <1>4, <1>5, <2>4, <2>5
<1>15. OnlyFiveClustersLeak'
  BY <1>1, <1>3 DEF IInv, OnlyFiveClustersLeak
<1>16. QED
  BY <1>9, <1>10, <1>11, <1>12, <1>13, <1>14, <1>15 DEF IInv

\* A step that leaves the table and the marked blocks alone.
LEMMA QuietStep ==
  ASSUME IInv, memsmall' = memsmall, held' = held, leaked' = leaked,
         stale' = stale, failed' \in 0 .. MaxFailed, intr' \in BOOLEAN
  PROVE  /\ IInv'
         /\ \A a \in Marked \cap Marked' :
              \A e \in Span(a) : memsmall'[e] = memsmall[e]
  BY DEF IInv, HeapTypeOK, BlockShapes, BlocksDisjoint, MarksIntact,
         NothingElseMarked, OnlyFiveClustersLeak, Marked, Span

LEMMA FreeStaleStep ==
  ASSUME IInv, NEW s \in stale, FreeStale(s)
  PROVE  memsmall' = memsmall
<1>1. Cleared(s) = {}
  BY StaleFree DEF FreeStale, IInv, HeapTypeOK
<1>2. memsmall' = [e \in Table |-> memsmall[e]]
  BY <1>1 DEF FreeStale, TFree
<1>3. QED
  BY <1>2 DEF IInv, HeapTypeOK

LEMMA NextStep ==
  ASSUME IInv, [HeapNext]_heapVars
  PROVE  /\ IInv'
         /\ \A a \in Marked \cap Marked' :
              \A e \in Span(a) : memsmall'[e] = memsmall[e]
<1>1. ASSUME NEW q \in Requests, Malloc(q)
      PROVE  /\ IInv'
             /\ \A a \in Marked \cap Marked' :
                  \A e \in Span(a) : memsmall'[e] = memsmall[e]
  BY <1>1, MallocStep
<1>2. ASSUME NEW q \in Requests, MallocFails(q)
      PROVE  /\ IInv'
             /\ \A a \in Marked \cap Marked' :
                  \A e \in Span(a) : memsmall'[e] = memsmall[e]
  <2>1. failed' \in 0 .. MaxFailed
    BY <1>2, SizesAssumption DEF MallocFails, IInv, HeapTypeOK
  <2>2. QED
    BY <1>2, <2>1, QuietStep DEF MallocFails
<1>3. ASSUME NEW b \in held, Free(b)
      PROVE  /\ IInv'
             /\ \A a \in Marked \cap Marked' :
                  \A e \in Span(a) : memsmall'[e] = memsmall[e]
  BY <1>3, FreeStep
<1>4. ASSUME NEW s \in stale, FreeStale(s)
      PROVE  /\ IInv'
             /\ \A a \in Marked \cap Marked' :
                  \A e \in Span(a) : memsmall'[e] = memsmall[e]
  BY <1>4, FreeStaleStep, QuietStep DEF FreeStale, IInv, HeapTypeOK
<1>5. CASE FreeFailed
  <2>1. failed' \in 0 .. MaxFailed
    BY <1>5, SizesAssumption DEF FreeFailed, IInv, HeapTypeOK
  <2>2. QED
    BY <1>5, <2>1, QuietStep DEF FreeFailed
<1>6. CASE FreeNull
  BY <1>6, QuietStep DEF FreeNull, IInv, HeapTypeOK
<1>7. CASE UNCHANGED heapVars
  BY <1>7, QuietStep DEF heapVars, IInv, HeapTypeOK
<1>8. QED
  BY <1>1, <1>2, <1>3, <1>4, <1>5, <1>6, <1>7 DEF HeapNext

\* The inductive invariant holds throughout: the byte table of t_malloc and
\* t_free always describes a set of disjoint, well-formed blocks.
THEOREM HeapInvariant == HeapSpec => []IInv
<1>1. HeapInit => IInv
  BY InitIInv
<1>2. IInv /\ [HeapNext]_heapVars => IInv'
  BY NextStep
<1>3. QED
  BY <1>1, <1>2, PTL DEF HeapSpec

\* t_malloc never gives a cluster to two blocks, nor the table's own.
THEOREM HeapBlocksDisjoint == HeapSpec => []BlocksDisjoint
<1>1. IInv => BlocksDisjoint
  BY DEF IInv
<1>2. QED
  BY <1>1, HeapInvariant, PTL

\* Every marked block carries the pattern its free looks for.
THEOREM HeapMarksIntact == HeapSpec => []MarksIntact
<1>1. IInv => MarksIntact
  BY DEF IInv
<1>2. QED
  BY <1>1, HeapInvariant, PTL

\* The only entries free loses are those of blocks of five clusters.
THEOREM HeapLeaks == HeapSpec => []NothingElseLost
<1>1. IInv => NothingElseLost
  BY DEF IInv, NothingElseLost
<1>2. QED
  BY <1>1, HeapInvariant, PTL

\* The marks of a block change only when its owner frees it, double frees of
\* older pointers included.
THEOREM HeapOnlyOwnerUnmarks == HeapSpec => OnlyOwnerUnmarks
<1>1. IInv /\ [HeapNext]_heapVars
        => [\A b \in Marked \cap Marked' :
              \A e \in Span(b) : memsmall'[e] = memsmall[e]]_heapVars
  BY NextStep
<1>2. QED
  BY <1>1, HeapInvariant, PTL DEF HeapSpec, OnlyOwnerUnmarks

\* The block malloc returns is a new one and covers the request.
THEOREM HeapRequestCovered == HeapSpec => RequestCovered
<1> DEFINE Covered == \A q \in Requests :
                        Malloc(q) /\ q + 2 < 16777216
                          => \E b \in held' \ held :
                               HeaderPages + q + 1 <= b[2] * ClusterPages
<1>1. IInv /\ [HeapNext]_heapVars => [Covered]_heapVars
  <2>1. SUFFICES ASSUME IInv, NEW q \in Requests, Malloc(q), q + 2 < 16777216
                 PROVE  \E b \in held' \ held :
                          HeaderPages + q + 1 <= b[2] * ClusterPages
    OBVIOUS
  <2>2. PICK c \in Entries : /\ FirstFit(c, Sectors(q))
                             /\ held' = held \cup {<<c, Sectors(q)>>}
    BY <2>1 DEF Malloc
  <2>3. q \in Nat /\ Sectors(q) \in Nat /\ Sectors(q) > 0 /\ c \in Nat
    BY <2>1, SectorsShape, SizesAssumption DEF Malloc, Entries
  <2>4. memsmall[c] = 0
    BY <2>2, <2>3 DEF FirstFit, FitsAt
  <2>5. <<c, Sectors(q)>> \notin held
    <3>1. SUFFICES ASSUME <<c, Sectors(q)>> \in held PROVE FALSE
      OBVIOUS
    <3>2. <<c, Sectors(q)>> \in Marked
      BY <3>1 DEF Marked
    <3>3. c \in Span(<<c, Sectors(q)>>)
      BY <2>3 DEF Span
    <3>4. memsmall[c] # 0
      BY <2>1, <3>2, <3>3, BlockFacts
    <3>5. QED
      BY <2>4, <3>4
  <2>6. HeaderPages + q + 1 <= Sectors(q) * ClusterPages
    BY <2>1, <2>3, RequestFits
  <2>7. QED
    BY <2>2, <2>5, <2>6
<1>2. QED
  BY <1>1, HeapInvariant, PTL DEF HeapSpec, RequestCovered


-----------------------------------------------------------------------------
(* THE IDE DRIVER *)

-----------------------------------------------------------------------------
(* Addresses *)

\* Division with remainder.
LEMMA DivMod ==
  ASSUME NEW n \in Nat, NEW w \in Nat \ {0}
  PROVE  n \div w \in Nat /\ n % w \in 0 .. w - 1 /\ n = w * (n \div w) + (n % w)
  OBVIOUS

LEMMA ProductLess ==
  ASSUME NEW a \in Nat, NEW b \in Nat \ {0}, NEW n \in Nat, n < a * b
  PROVE  n \div b < a
  OBVIOUS

LEMMA DivDiv ==
  ASSUME NEW n \in Nat, NEW a \in Nat \ {0}, NEW b \in Nat \ {0}
  PROVE  (n \div a) \div b = n \div (a * b)
  OBVIOUS

\* Three parts of a number make the number again.
LEMMA ThreeParts ==
  ASSUME NEW n \in Nat, NEW a \in Nat \ {0}, NEW b \in Nat \ {0}
  PROVE  n = (n % a) + a * ((n \div a) % b) + (a * b) * (n \div (a * b))
<1>1. PICK q \in Nat, r \in Nat : q = n \div a /\ r = n % a /\ n = a * q + r
  BY DivMod
<1>2. PICK u \in Nat, v \in Nat : u = q \div b /\ v = q % b /\ q = b * u + v
  BY DivMod
<1>3. u = n \div (a * b)
  BY <1>1, <1>2, DivDiv
<1>4. n = r + a * v + (a * b) * u
  <2>1. n = a * (b * u + v) + r
    BY <1>1, <1>2
  <2>2. a * (b * u + v) = (a * b) * u + a * v
    OBVIOUS
  <2>3. (a * b) * u \in Nat /\ a * v \in Nat
    OBVIOUS
  <2>4. QED
    BY <2>1, <2>2, <2>3
<1>5. QED
  BY <1>1, <1>2, <1>3, <1>4, Zenon

LEMMA SmallMod ==
  ASSUME NEW n \in Nat, NEW w \in Nat, n < w
  PROVE  n % w = n
  OBVIOUS

LEMMA ProductMonotone ==
  ASSUME NEW a \in Nat, NEW b \in Nat, NEW c \in Nat, NEW d \in Nat, a <= c, b <= d
  PROVE  a * b <= c * d
<1>1. a * b <= c * b
  OBVIOUS
<1>2. c * b <= c * d
  OBVIOUS
<1>3. QED
  BY <1>1, <1>2

LEMMA ByteFacts ==
  /\ Byte2 \in Nat \ {0} /\ Byte3 \in Nat \ {0} /\ Byte4 \in Nat \ {0}
  /\ Lba48Block \in Nat \ {0}
  BY IdeAssumption DEF Byte2, Byte3, Byte4, Lba48Block

\* BootIdeReadSector: whichever way of addressing it takes, the registers lead
\* to the block that was asked for.
LEMMA TaskFileAddresses ==
  ASSUME NEW g \in DriveType, Addressable(g),
         NEW i, i.lba = g.lba,
         NEW block \in Nat, block < Size(g)
  PROVE  Addressed(TaskFile(block, i, g), g) = block
<1> USE ByteFacts
<1>0. /\ Byte \in Nat \ {0} /\ Byte2 \in Nat \ {0} /\ Byte3 \in Nat \ {0}
      /\ Nibble \in Nat \ {0} /\ Byte3 = Byte * Byte2
  BY IdeAssumption DEF Byte3
<1>1. block = (block % Byte) + Byte * ((block \div Byte) % Byte2) + Byte3 * (block \div Byte3)
  <2>1. block = (block % Byte) + Byte * ((block \div Byte) % Byte2)
                  + (Byte * Byte2) * (block \div (Byte * Byte2))
    BY <1>0, ThreeParts, Zenon
  <2>2. QED
    BY <2>1, <1>0, Zenon
<1>2. block \div 1 = block
  OBVIOUS
<1>3. CASE NeedsLba48(block)
  <2>1. block < Byte * Byte3
    <3>1. g.lba = TRUE => block < Byte4
      BY DEF Addressable, Size, DriveType
    <3>2. CASE ~g.lba
      <4>1. PICK c \in Nat, h \in Nat, k \in Nat :
              c <= Byte2 /\ h <= Nibble /\ k <= Byte - 1 /\ block < (c * h) * k
        <5>1. /\ g.cylinders \in Nat /\ g.heads \in Nat /\ g.spt \in Nat
              /\ g.cylinders <= Byte2 /\ g.heads <= Nibble /\ g.spt <= Byte - 1
          BY <3>2, <1>0 DEF Addressable, DriveType
        <5>2. block < (g.cylinders * g.heads) * g.spt
          BY <3>2 DEF Size
        <5>3. QED
          BY <5>1, <5>2
      <4>2. c * h \in Nat /\ c * h <= Byte2 * Nibble
        BY <4>1, <1>0, ProductMonotone
      <4>3. (c * h) * k <= (Byte2 * Nibble) * Byte
        <5>1. Byte2 * Nibble \in Nat /\ k <= Byte
          BY <4>1, <1>0
        <5>2. QED
          BY <4>2, <5>1, <1>0, ProductMonotone
      <4>4. (Byte2 * Nibble) * Byte = Byte3 * Nibble
        BY <1>0
      <4>5. block < Lba48Block
        BY <4>1, <4>2, <4>3, <4>4, <1>0 DEF Lba48Block
      <4>6. QED
        BY <4>5, <1>3 DEF NeedsLba48
    <3>3. QED
      BY <3>1, <3>2 DEF Byte4, DriveType
  <2>2. block \div Byte3 < Byte
    BY <2>1, <1>0, ProductLess
  <2>3. (block \div Byte3) % Byte = block \div Byte3
    <3>1. block \div Byte3 \in Nat
      BY <1>0, DivMod
    <3>2. QED
      BY <2>2, <3>1, <1>0, SmallMod
  <2>4. QED
    BY <1>1, <1>2, <1>3, <2>3 DEF TaskFile, Addressed, Part
<1>4. CASE ~NeedsLba48(block) /\ g.lba
  <2>1. block < Nibble * Byte3
    BY <1>0, <1>4 DEF NeedsLba48, Lba48Block
  <2>2. block \div Byte3 < Nibble
    BY <2>1, <1>0, ProductLess
  <2>3. (block \div Byte3) % Nibble = block \div Byte3
    <3>1. block \div Byte3 \in Nat
      BY <1>0, DivMod
    <3>2. QED
      BY <2>2, <3>1, <1>0, SmallMod
  <2>4. QED
    BY <1>1, <1>2, <1>4, <2>3 DEF TaskFile, Addressed, Part
<1>5. CASE ~NeedsLba48(block) /\ ~g.lba
  <2>1. PICK c \in Nat, h \in Nat \ {0}, k \in Nat \ {0} :
          /\ c = g.cylinders /\ h = g.heads /\ k = g.spt
          /\ c <= Byte2 /\ h <= Nibble /\ k <= Byte - 1
          /\ block < (c * h) * k
    BY <1>0, <1>5 DEF Addressable, Size, DriveType
  <2>2. /\ c <= Byte2 /\ h <= Nibble /\ k <= Byte - 1
        /\ c = g.cylinders /\ h = g.heads /\ k = g.spt
    BY <2>1
  <2>3. PICK t \in Nat, r \in Nat :
          t = block \div k /\ r = block % k /\ r < k /\ block = k * t + r
    <3>1. /\ block \div k \in Nat /\ block % k \in 0 .. k - 1
          /\ block = k * (block \div k) + (block % k)
      BY DivMod, Zenon
    <3>2. block % k \in Nat /\ block % k < k
      BY <3>1
    <3>3. QED
      BY <3>1, <3>2, Zenon
  <2>4. t < c * h
    <3>1. c * h \in Nat /\ block < (c * h) * k
      BY <2>1
    <3>2. QED
      BY <2>3, <3>1, ProductLess
  <2>5. PICK u \in Nat, v \in Nat : u = t \div h /\ v = t % h /\ v < h /\ t = h * u + v
    <3>1. /\ t \div h \in Nat /\ t % h \in 0 .. h - 1
          /\ t = h * (t \div h) + (t % h)
      BY DivMod, Zenon
    <3>2. t % h \in Nat /\ t % h < h
      BY <3>1
    <3>3. QED
      BY <3>1, <3>2, Zenon
  <2>6. u < c
    BY <2>4, <2>5, ProductLess
  <2>7. u = (block \div k) \div h /\ v = (block \div k) % h /\ r < k /\ v < h /\ r = block % k
    BY <2>3, <2>5, Zenon
  <2>8. u < Byte2 /\ v < Nibble /\ 1 + r < Byte
    BY <2>2, <2>6, <2>7, <1>0
  <2>9. u % Byte2 = u /\ v % Nibble = v /\ (1 + r) % Byte = 1 + r
    BY <2>8, <1>0, SmallMod
  <2>10. Addressed(TaskFile(block, i, g), g) = (u * h + v) * k + (1 + r) - 1
    BY <1>5, <2>2, <2>7, <2>9 DEF TaskFile, Addressed
  <2>11. block = (u * h + v) * k + r
    <3>1. h * u = u * h /\ k * t = t * k
      OBVIOUS
    <3>2. t = h * u + v /\ block = k * t + r
      BY <2>3, <2>5, Zenon
    <3>3. QED
      BY <3>1, <3>2, Zenon
  <2>12. (u * h + v) * k \in Nat
    <3>1. u * h + v \in Nat
      OBVIOUS
    <3>2. QED
      BY <3>1
  <2>13. QED
    BY <2>10, <2>11, <2>12
<1>6. QED
  BY <1>3, <1>4, <1>5

-----------------------------------------------------------------------------
(* The invariant *)

LEMMA BusFacts ==
  ASSUME TypeOK, NEW d \in Drives
  PROVE  bus[d] \in DriveType /\ (bus[d].kind = "hdd" => Addressable(bus[d]))
  BY IdeAssumption DEF TypeOK

LEMMA Bounds == MaxCuts \in Nat /\ MaxFaults \in Nat
  BY IdeAssumption

LEMMA StartFacts ==
  /\ Started.info \in [Drives -> InfoType] /\ \A d \in Drives : ~Started.info[d].exists
  /\ Started.items \in [Drives -> {"none", "lock", "unlock"}]
  /\ NoRead \in [drive : Drives, block : Nat, got : Int] /\ NoRead.got = NoRead.block
  BY DEF Started, InfoType, NoInfo, NoRead, Drives

LEMMA FaultTyped ==
  ASSUME IdeInv, Works \/ Fault
  PROVE  faults' \in 0 .. MaxFaults /\ faulty' \in BOOLEAN /\ (faulty => faulty')
<1>1. faults' \in 0 .. MaxFaults
  BY Bounds DEF IdeInv, TypeOK, Works, Fault
<1>2. faulty' \in BOOLEAN /\ (faulty => faulty')
  BY Zenon DEF IdeInv, TypeOK, Works, Fault
<1>3. QED
  BY <1>1, <1>2

LEMMA InitIdeInv == Init => IdeInv
<1> SUFFICES ASSUME Init PROVE IdeInv
  OBVIOUS
<1>1. TypeOK
  <2>1. \A d \in Drives : dev[d] \in DevType
    <3>1. /\ [user |-> Factory, master |-> Factory, enabled |-> FALSE, locked |-> FALSE] \in DevType
          /\ \A p \in Drives \cup {Foreign} :
               [user |-> p, master |-> Factory, enabled |-> TRUE, locked |-> TRUE] \in DevType
      BY DEF DevType, Drives, Factory, Foreign
    <3>2. QED
      BY <3>1 DEF Init
  <2>2. dev \in [Drives -> DevType]
    BY <2>1 DEF Init
  <2>3. cuts \in 0 .. MaxCuts /\ faults \in 0 .. MaxFaults /\ drive \in Drives
    BY Bounds DEF Init, Drives
  <2>4. faulty \in BOOLEAN /\ eepromGood \in BOOLEAN
    BY Zenon DEF Init
  <2>5. Confirm_Result \in 0 .. 1
    BY DEF Init
  <2>6. QED
    BY <2>2, <2>3, <2>4, <2>5, StartFacts DEF Init, TypeOK
<1>2. LockOrder /\ OpenSoFar /\ LockIsRecoverable /\ ReadsRequestedBlock
  BY StartFacts DEF Init, LockOrder, Security, OpenSoFar, Booting, LockIsRecoverable,
                    ReadsRequestedBlock, Drives
<1>3. InfoFits
  BY StartFacts DEF Init, InfoFits
<1>4. QED
  BY <1>1, <1>2, <1>3 DEF IdeInv

\* A start of the program, with drives that have kept their passwords and are
\* no more open than before.
LEMMA RestartStep ==
  ASSUME IdeInv, NEW after \in [Drives -> DevType], Restart(after),
         \A d \in Drives : /\ after[d].user = dev[d].user /\ after[d].master = dev[d].master
                           /\ after[d].enabled = dev[d].enabled
  PROVE  IdeInv'
<1>1. TypeOK'
  <2>1. cuts' \in 0 .. MaxCuts /\ faults' \in 0 .. MaxFaults /\ drive' \in Drives
    BY Bounds DEF IdeInv, TypeOK, Restart, Drives
  <2>2. faulty' \in BOOLEAN /\ eepromGood' \in BOOLEAN
    BY Zenon DEF IdeInv, TypeOK, Restart
  <2>3. Confirm_Result' \in 0 .. 1
    BY DEF Restart
  <2>4. QED
    BY <2>1, <2>2, <2>3, StartFacts DEF IdeInv, TypeOK, Restart
<1>2. LockOrder' /\ OpenSoFar' /\ ReadsRequestedBlock'
  BY StartFacts DEF Restart, LockOrder, Security, OpenSoFar, Booting, ReadsRequestedBlock, Drives
<1>3. InfoFits'
  BY StartFacts DEF Restart, InfoFits
<1>4. LockIsRecoverable'
  BY DEF IdeInv, TypeOK, Restart, LockIsRecoverable
<1>5. QED
  BY <1>1, <1>2, <1>3, <1>4 DEF IdeInv

LEMMA PowerCutStep == IdeInv /\ PowerCut => IdeInv'
<1> SUFFICES ASSUME IdeInv, PowerCut PROVE IdeInv'
  OBVIOUS
<1> DEFINE after == [d \in Drives |-> [dev[d] EXCEPT !.locked = dev[d].enabled]]
<1>1. after \in [Drives -> DevType]
  BY DEF IdeInv, TypeOK, DevType
<1>2. \A d \in Drives : /\ after[d].user = dev[d].user /\ after[d].master = dev[d].master
                        /\ after[d].enabled = dev[d].enabled
  BY DEF IdeInv, TypeOK, DevType
<1>3. Restart(after)
  BY DEF PowerCut
<1>4. QED
  BY <1>1, <1>2, <1>3, RestartStep

LEMMA RebootStep == IdeInv /\ Reboot => IdeInv'
  BY RestartStep DEF Reboot, IdeInv, TypeOK

\* The drive can be read only when what the driver knows suits its addressing.
LEMMA ReadSectorStep ==
  ASSUME IdeInv, NEW d \in Drives, NEW block \in 0 .. Size(bus[d]) - 1, ReadSector(d, block)
  PROVE  IdeInv'
<1> DEFINE got == Addressed(TaskFile(block, info[d], bus[d]), bus[d])
<1>1. CASE UNCHANGED read
  <2>1. TypeOK'
    BY <1>1, FaultTyped DEF ReadSector, IdeInv, TypeOK
  <2>2. QED
    BY <1>1, <2>1, FaultTyped DEF ReadSector, IdeInv, TypeOK, LockOrder, Security, OpenSoFar,
           Booting, InfoFits, LockIsRecoverable, ReadsRequestedBlock
<1>2. CASE ~dev[d].locked /\ read' = [drive |-> d, block |-> block, got |-> got]
  <2>1. bus[d] \in DriveType /\ bus[d].kind = "hdd" /\ info[d].lba = bus[d].lba
    BY <1>2, BusFacts DEF ReadSector, IdeInv, InfoFits
  <2>2. block \in Nat /\ block < Size(bus[d])
    BY DEF ReadSector
  <2>3. got = block
    BY <2>1, <2>2, BusFacts, TaskFileAddresses DEF IdeInv
  <2> HIDE DEF got
  <2>4. read' \in [drive : Drives, block : Nat, got : Int] /\ read'.got = read'.block
    BY <1>2, <2>2, <2>3
  <2>5. TypeOK'
    BY <2>4, FaultTyped DEF ReadSector, IdeInv, TypeOK
  <2>6. QED
    BY <2>4, <2>5, FaultTyped DEF ReadSector, IdeInv, TypeOK, LockOrder, Security, OpenSoFar,
           Booting, InfoFits, LockIsRecoverable, ReadsRequestedBlock
<1>3. QED
  BY <1>1, <1>2 DEF ReadSector

\* HDDMenuInit gives every drive an item of the menu.
LEMMA ItemTyped ==
  ASSUME NEW i
  PROVE  ItemFor(i) \in {"none", "lock", "unlock"}
  BY DEF ItemFor

LEMMA DriveDoneTyped ==
  ASSUME IdeInv, NEW i \in InfoType, DriveDone(drive, i)
  PROVE  /\ info' = [info EXCEPT ![drive] = i] /\ info' \in [Drives -> InfoType]
         /\ items' \in [Drives -> {"none", "lock", "unlock"}]
         /\ drive' \in Drives
         /\ \/ drive = 1 /\ drive' = 2 /\ at' = "init"
            \/ drive = 2 /\ drive' = 1 /\ at' = "menu"
  BY ItemTyped DEF IdeInv, TypeOK, DriveDone, Drives

\* What the driver knows of a drive after it has asked it.
LEMMA KnownFacts ==
  ASSUME IdeInv
  PROVE  LET i == [Known(drive) EXCEPT !.lba = bus[drive].lba /\ ~MustUnlock(drive)]
         IN /\ Known(drive) \in InfoType /\ i \in InfoType
            /\ Known(drive).exists /\ i.exists
            /\ bus[drive].kind \in {"none", "hdd", "atapi"}
            /\ Known(drive).atapi = (bus[drive].kind = "atapi") /\ i.atapi = (bus[drive].kind = "atapi")
            /\ i.lba = (bus[drive].lba /\ ~MustUnlock(drive))
            /\ MustUnlock(drive) = (bus[drive].kind = "hdd" /\ dev[drive].locked)
            /\ bus[drive].lba \in BOOLEAN
<1>1. bus[drive] \in DriveType /\ dev[drive] \in DevType
  BY BusFacts DEF IdeInv, TypeOK
<1>2. QED
  BY <1>1 DEF Known, MustUnlock, InfoType, DriveType, DevType

LEMMA DriveInitStep == IdeInv /\ DriveInit => IdeInv'
<1> SUFFICES ASSUME IdeInv, DriveInit PROVE IdeInv'
  OBVIOUS
<1> DEFINE i == [Known(drive) EXCEPT !.lba = bus[drive].lba /\ ~MustUnlock(drive)]
<1>0. /\ at = "init" /\ caller' = "boot"
      /\ UNCHANGED <<bus, dev, eepromGood, Confirm_Result, read, cuts, lockedHere, lostMaster>>
      /\ drive \in Drives
  BY DEF DriveInit, IdeInv, TypeOK
<1> DEFINE Moved == \/ drive = 1 /\ drive' = 2 /\ at' = "init"
                    \/ drive = 2 /\ drive' = 1 /\ at' = "menu"
<1>1. LockIsRecoverable' /\ ReadsRequestedBlock'
  BY <1>0 DEF IdeInv, LockIsRecoverable, ReadsRequestedBlock
<1>2. CASE DriveDone(drive, NoInfo) /\ (Fault \/ (bus[drive].kind = "none" /\ Works))
  <2>1. NoInfo \in InfoType /\ ~NoInfo.exists
    BY DEF NoInfo, InfoType
  <2>2. Moved /\ info' = [info EXCEPT ![drive] = NoInfo]
    BY <1>2, <2>1, DriveDoneTyped
  <2>3. TypeOK'
    BY <1>0, <1>2, <2>1, DriveDoneTyped, FaultTyped DEF IdeInv, TypeOK
  <2>4. OpenSoFar'
    BY <1>0, <1>2, <2>2 DEF IdeInv, OpenSoFar, Booting, Drives, Fault, Works
  <2>5. InfoFits'
    BY <1>0, <2>1, <2>2 DEF IdeInv, TypeOK, InfoFits
  <2>6. LockOrder'
    BY <2>2 DEF LockOrder, Security
  <2>7. QED
    BY <1>1, <2>3, <2>4, <2>5, <2>6 DEF IdeInv
<1>3. CASE /\ Works /\ MustUnlock(drive) /\ eepromGood
           /\ info' = [info EXCEPT ![drive] = Known(drive)]
           /\ at' = "user" /\ UNCHANGED <<drive, items>>
  <2>1. TypeOK'
    BY <1>0, <1>3, KnownFacts, FaultTyped DEF IdeInv, TypeOK
  <2>2. OpenSoFar'
    BY <1>0, <1>3 DEF IdeInv, OpenSoFar, Booting, Works
  <2>3. InfoFits'
    BY <1>0, <1>3, KnownFacts DEF IdeInv, TypeOK, InfoFits
  <2>4. LockOrder'
    BY <1>0, <1>3 DEF LockOrder, Security
  <2>5. QED
    BY <1>1, <2>1, <2>2, <2>3, <2>4 DEF IdeInv
<1>4. CASE /\ Works /\ bus[drive].kind # "none" /\ ~(MustUnlock(drive) /\ eepromGood)
           /\ DriveDone(drive, i)
  <2>1. /\ i \in InfoType /\ i.exists /\ i.atapi = (bus[drive].kind = "atapi")
        /\ i.lba = (bus[drive].lba /\ ~MustUnlock(drive))
        /\ bus[drive].kind # "atapi" => bus[drive].kind \in {"none", "hdd"}
        /\ MustUnlock(drive) <=> (bus[drive].kind = "hdd" /\ dev[drive].locked)
        /\ bus[drive].lba \in BOOLEAN
    BY KnownFacts
  <2> HIDE DEF i
  <2>2. Moved /\ info' = [info EXCEPT ![drive] = i]
    BY <1>4, <2>1, DriveDoneTyped
  <2>3. TypeOK'
    BY <1>0, <1>4, <2>1, DriveDoneTyped, FaultTyped DEF IdeInv, TypeOK
  <2>4. OpenSoFar'
    <3> SUFFICES ASSUME ~faulty', eepromGood', NEW d \in Drives,
                        bus[d].kind = "hdd", dev[d].user = Key(d), Booting' => d < drive'
                 PROVE  ~dev[d].locked
      BY <1>0 DEF OpenSoFar
    <3>1. CASE d = drive
      BY <1>0, <1>4, <2>1, <3>1
    <3>2. CASE d # drive
      <4>1. d < drive
        BY <2>2, <3>2 DEF Booting, Drives
      <4>2. ~faulty /\ eepromGood
        BY <1>0, <1>4 DEF Works
      <4>3. QED
        BY <4>1, <4>2 DEF IdeInv, OpenSoFar
    <3>3. QED
      BY <3>1, <3>2
  <2>5. InfoFits'
    <3>1. info'[drive] = i
      BY <1>0, <2>2 DEF IdeInv, TypeOK
    <3>2. \A d \in Drives \ {drive} : info'[d] = info[d]
      BY <2>2 DEF IdeInv, TypeOK
    <3>3. QED
      BY <1>0, <1>4, <2>1, <3>1, <3>2 DEF IdeInv, InfoFits
  <2>6. LockOrder'
    BY <2>2 DEF LockOrder, Security
  <2>7. QED
    BY <1>1, <2>3, <2>4, <2>5, <2>6 DEF IdeInv
<1>5. QED
  BY <1>2, <1>3, <1>4 DEF DriveInit

\* What DriveSecurityChange sends, and which commands a drive obeys.
LEMMA SentFacts ==
  ASSUME IdeInv, at \in Security
  PROVE  /\ Sent.master = (at = "master")
         /\ Sent.pw = IF at = "master" THEN Gentoox ELSE Key(drive)
         /\ Sent.pw \in 0 .. 4
         /\ at = "master" => Command = "set"
         /\ Command = "set" <=> caller = "lock"
         /\ Command = "unlock" <=> caller = "boot"
         /\ Command = "disable" <=> caller = "unlock"
  BY DEF IdeInv, TypeOK, LockOrder, Security, Sent, Block, Command, Key, Gentoox, Drives

\* DriveSecurityChange has ended for drive d, whose security may have changed,
\* with the key in hand: the others are as they were.
LEMMA ReturnStep ==
  ASSUME IdeInv, at \in Security, NEW fails \in BOOLEAN, SecurityReturn(fails),
         dev' \in [Drives -> DevType], \A d \in Drives \ {drive} : dev'[d] = dev[d],
         UNCHANGED <<bus, eepromGood, caller, read, Confirm_Result, cuts>>,
         Works \/ Fault, lockedHere' \subseteq Drives, lostMaster' \subseteq Drives,
         ~faulty' => (bus[drive].kind = "hdd" /\ dev'[drive].user = Key(drive) => ~dev'[drive].locked),
         LockIsRecoverable'
  PROVE  IdeInv'
<1> USE DEF Security
<1>1. CASE caller = "boot"
  <2> DEFINE i == [info[drive] EXCEPT !.lba = bus[drive].lba]
  <2>1. i \in InfoType /\ i.exists = info[drive].exists /\ i.atapi = info[drive].atapi
        /\ i.lba = bus[drive].lba
    BY BusFacts DEF IdeInv, TypeOK, InfoType, DriveType
  <2>2. DriveDone(drive, i)
    BY <1>1 DEF SecurityReturn
  <2> HIDE DEF i
  <2>3. /\ info' = [info EXCEPT ![drive] = i] /\ at' \in {"init", "menu"}
        /\ \/ drive = 1 /\ drive' = 2 /\ at' = "init"
           \/ drive = 2 /\ drive' = 1 /\ at' = "menu"
    BY <2>1, <2>2, DriveDoneTyped
  <2>4. TypeOK'
    BY <2>1, <2>2, DriveDoneTyped, FaultTyped DEF IdeInv, TypeOK
  <2>5. LockOrder'
    BY <2>3 DEF LockOrder
  <2>6. OpenSoFar'
    BY <1>1, <2>3, FaultTyped DEF IdeInv, TypeOK, OpenSoFar, Booting, Drives
  <2>7. InfoFits'
    BY <2>1, <2>3 DEF IdeInv, TypeOK, InfoFits, LockOrder
  <2>8. QED
    BY <2>4, <2>5, <2>6, <2>7 DEF IdeInv, ReadsRequestedBlock
<1>2. CASE caller # "boot"
  <2>1. at' \in {"hung", "menu"} /\ UNCHANGED <<drive, info, items>>
    BY <1>2 DEF SecurityReturn
  <2>2. TypeOK'
    BY <2>1, FaultTyped DEF IdeInv, TypeOK
  <2>3. LockOrder'
    BY <2>1 DEF LockOrder
  <2>4. OpenSoFar'
    BY <1>2, <2>1, FaultTyped DEF IdeInv, TypeOK, OpenSoFar, Booting, Drives, LockOrder
  <2>5. InfoFits'
    BY <1>2, <2>1 DEF IdeInv, InfoFits, LockOrder
  <2>6. QED
    BY <2>2, <2>3, <2>4, <2>5 DEF IdeInv, ReadsRequestedBlock
<1>3. QED
  BY <1>1, <1>2

LEMMA SendMasterStep == IdeInv /\ SendMaster => IdeInv'
<1> SUFFICES ASSUME IdeInv, SendMaster PROVE IdeInv'
  OBVIOUS
<1>0. /\ at = "master" /\ at \in Security /\ caller = "lock" /\ drive \in Drives
      /\ UNCHANGED <<bus, eepromGood, Confirm_Result, caller, read, cuts>>
      /\ dev \in [Drives -> DevType]
  BY DEF SendMaster, Security, IdeInv, LockOrder, TypeOK
<1>1. CASE /\ Works \/ Fault
           /\ SecurityReturn(TRUE)
           /\ UNCHANGED <<dev, lockedHere, lostMaster>>
  <2>1. LockIsRecoverable'
    BY <1>1 DEF IdeInv, LockIsRecoverable
  <2>2. lockedHere' \subseteq Drives /\ lostMaster' \subseteq Drives
    BY <1>1 DEF IdeInv, TypeOK
  <2>3. ~faulty' => (bus[drive].kind = "hdd" /\ dev'[drive].user = Key(drive) => ~dev'[drive].locked)
    BY <1>0, <1>1, FaultTyped DEF IdeInv, OpenSoFar, Booting, LockOrder
  <2>4. QED
    BY <1>0, <1>1, <2>1, <2>2, <2>3, ReturnStep
<1>2. CASE /\ Takes /\ at' = "user"
           /\ \/ /\ Works /\ dev' = Obeyed(drive, Command, Sent)
                 /\ lostMaster' = lostMaster \ {drive}
              \/ Fault /\ lostMaster' = lostMaster \cup {drive} /\ UNCHANGED dev
           /\ lockedHere' = (IF SetsUser THEN lockedHere \cup {drive} ELSE lockedHere)
           /\ UNCHANGED <<drive, info, items>>
  <2>1. Command = "set" /\ Sent.master /\ Sent.pw = Gentoox /\ ~SetsUser
    BY <1>0, SentFacts DEF SetsUser
  <2>2. \/ dev' = [dev EXCEPT ![drive].master = Gentoox] /\ lostMaster' = lostMaster \ {drive}
        \/ dev' = dev /\ lostMaster' = lostMaster \cup {drive}
    BY <1>2, <2>1 DEF Obeyed
  <2>3. /\ dev' \in [Drives -> DevType] /\ lostMaster' \subseteq Drives /\ lockedHere' = lockedHere
        /\ dev'[drive].master = Gentoox \/ drive \in lostMaster'
        /\ \A d \in Drives :
             /\ dev'[d].user = dev[d].user /\ dev'[d].enabled = dev[d].enabled
             /\ dev'[d].locked = dev[d].locked
             /\ d # drive => /\ dev'[d].master = dev[d].master
                             /\ d \in lostMaster' <=> d \in lostMaster
    BY <1>0, <1>2, <2>1, <2>2 DEF DevType, Gentoox, IdeInv, TypeOK
  <2>4. TypeOK'
    BY <1>0, <1>2, <2>3, FaultTyped DEF IdeInv, TypeOK
  <2>5. LockOrder' /\ LockIsRecoverable'
    BY <1>0, <1>2, <2>3 DEF IdeInv, TypeOK, LockOrder, Security, LockIsRecoverable
  <2>6. OpenSoFar'
    BY <1>0, <1>2, <2>3, FaultTyped DEF IdeInv, OpenSoFar, Booting
  <2>7. InfoFits'
    BY <1>0, <1>2, <2>3 DEF IdeInv, InfoFits
  <2>8. QED
    BY <1>0, <2>4, <2>5, <2>6, <2>7 DEF IdeInv, ReadsRequestedBlock
<1>3. QED
  BY <1>1, <1>2 DEF SendMaster

LEMMA SendUserStep == IdeInv /\ SendUser => IdeInv'
<1> SUFFICES ASSUME IdeInv, SendUser PROVE IdeInv'
  OBVIOUS
<1>0. /\ at = "user" /\ at \in Security /\ drive \in Drives
      /\ UNCHANGED <<bus, eepromGood, Confirm_Result, caller, read, cuts, lostMaster>>
      /\ dev \in [Drives -> DevType]
  BY DEF SendUser, Security, IdeInv, TypeOK
<1>1. ~Sent.master /\ Sent.pw = Key(drive) /\ Sent.pw \in 0 .. 4
  BY <1>0, SentFacts
<1>2. CASE /\ Fault \/ (~Takes /\ Works)
           /\ SecurityReturn(TRUE)
           /\ UNCHANGED <<dev, lockedHere>>
  <2>1. LockIsRecoverable'
    BY <1>0, <1>2 DEF IdeInv, LockIsRecoverable
  <2>2. lockedHere' \subseteq Drives /\ lostMaster' \subseteq Drives
    BY <1>0, <1>2 DEF IdeInv, TypeOK
  <2>3. ~faulty' => (bus[drive].kind = "hdd" /\ dev'[drive].user = Key(drive) => ~dev'[drive].locked)
    <3>1. CASE caller # "boot"
      BY <1>0, <1>2, <3>1, FaultTyped DEF IdeInv, OpenSoFar, Booting, LockOrder
    <3>2. CASE caller = "boot" /\ ~Takes
      BY <1>0, <1>1, <1>2, <3>2, SentFacts DEF Takes, Obeys, Compared
    <3>3. CASE Fault
      BY <3>3 DEF Fault
    <3>4. QED
      BY <1>2, <3>1, <3>2, <3>3
  <2>4. QED
    BY <1>0, <1>2, <2>1, <2>2, <2>3, ReturnStep
<1>3. CASE /\ Takes
           /\ dev' = Obeyed(drive, Command, Sent)
           /\ lockedHere' = (IF SetsUser THEN lockedHere \cup {drive}
                             ELSE IF Command = "disable" THEN lockedHere \ {drive} ELSE lockedHere)
           /\ \/ Works /\ SecurityReturn(FALSE)
              \/ Fault /\ SecurityReturn(TRUE)
  <2>1. dev[drive] \in DevType
    BY <1>0
  <2>2. CASE caller = "lock"
    <3>1. /\ dev' = [dev EXCEPT ![drive].user = Key(drive), ![drive].enabled = TRUE]
          /\ lockedHere' = lockedHere \cup {drive} /\ ~dev[drive].locked
      BY <1>0, <1>1, <1>3, <2>2, SentFacts DEF SetsUser, Obeyed, Takes, Obeys
    <3>2. /\ dev' \in [Drives -> DevType] /\ dev'[drive].user = Key(drive) /\ dev'[drive].enabled
          /\ dev'[drive].master = dev[drive].master /\ ~dev'[drive].locked
          /\ \A d \in Drives \ {drive} : dev'[d] = dev[d]
      BY <1>0, <1>1, <2>1, <3>1 DEF DevType
    <3>3. LockIsRecoverable'
      BY <1>0, <2>2, <3>1, <3>2 DEF IdeInv, TypeOK, LockIsRecoverable, LockOrder
    <3>4. lockedHere' \subseteq Drives /\ lostMaster' \subseteq Drives
      BY <1>0, <3>1 DEF IdeInv, TypeOK
    <3>5. QED
      BY <1>0, <1>3, <3>2, <3>3, <3>4, ReturnStep
  <2>3. CASE caller = "unlock"
    <3>1. /\ dev' = [dev EXCEPT ![drive].enabled = FALSE, ![drive].user = Factory]
          /\ lockedHere' = lockedHere \ {drive}
      BY <1>0, <1>1, <1>3, <2>3, SentFacts DEF SetsUser, Obeyed
    <3>2. /\ dev' \in [Drives -> DevType] /\ dev'[drive].user = Factory
          /\ \A d \in Drives \ {drive} : dev'[d] = dev[d]
      <4>1. [dev[drive] EXCEPT !.enabled = FALSE, !.user = Factory] \in DevType
        <5>1. [dev[drive] EXCEPT !.enabled = FALSE] \in DevType
          BY <2>1 DEF DevType
        <5>2. Factory \in 0 .. 4
          BY DEF Factory
        <5>3. QED
          BY <5>1, <5>2 DEF DevType
      <4>2. dev' = [dev EXCEPT ![drive] = [dev[drive] EXCEPT !.enabled = FALSE, !.user = Factory]]
        BY <1>0, <3>1
      <4>3. [dev[drive] EXCEPT !.enabled = FALSE, !.user = Factory].user = Factory
        BY <2>1 DEF DevType
      <4>4. QED
        BY <1>0, <4>1, <4>2, <4>3
    <3>3. LockIsRecoverable'
      BY <1>0, <3>1, <3>2 DEF IdeInv, TypeOK, LockIsRecoverable
    <3>4. lockedHere' \subseteq Drives /\ lostMaster' \subseteq Drives
      BY <1>0, <3>1 DEF IdeInv, TypeOK
    <3>5. dev'[drive].user # Key(drive)
      BY <1>0, <3>2 DEF Factory, Key, Drives
    <3>6. QED
      BY <1>0, <1>3, <3>2, <3>3, <3>4, <3>5, ReturnStep
  <2>4. CASE caller = "boot"
    <3>1. dev' = [dev EXCEPT ![drive].locked = FALSE] /\ lockedHere' = lockedHere
      BY <1>0, <1>1, <1>3, <2>4, SentFacts DEF SetsUser, Obeyed
    <3>2. /\ dev' \in [Drives -> DevType] /\ ~dev'[drive].locked
          /\ \A d \in Drives \ {drive} : dev'[d] = dev[d]
          /\ \A d \in Drives : /\ dev'[d].user = dev[d].user /\ dev'[d].master = dev[d].master
                                /\ dev'[d].enabled = dev[d].enabled
      BY <1>0, <2>1, <3>1 DEF DevType
    <3>3. LockIsRecoverable'
      BY <1>0, <3>1, <3>2 DEF IdeInv, TypeOK, LockIsRecoverable
    <3>4. lockedHere' \subseteq Drives /\ lostMaster' \subseteq Drives
      BY <1>0, <3>1 DEF IdeInv, TypeOK
    <3>5. QED
      BY <1>0, <1>3, <3>2, <3>3, <3>4, ReturnStep
  <2>5. QED
    BY <2>2, <2>3, <2>4 DEF IdeInv, TypeOK
<1>4. QED
  BY <1>2, <1>3 DEF SendUser

LEMMA ChooseItemStep ==
  ASSUME IdeInv, NEW d \in Drives, ChooseItem(d)
  PROVE  IdeInv'
<1>1. TypeOK'
  BY StartFacts DEF IdeInv, TypeOK, ChooseItem, ghosts
<1>2. caller' \in {"lock", "unlock"}
  BY DEF IdeInv, TypeOK, ChooseItem
<1>3. LockOrder' /\ OpenSoFar' /\ InfoFits' /\ LockIsRecoverable'
  BY <1>2 DEF IdeInv, ChooseItem, ghosts, LockOrder, Security, OpenSoFar, Booting, InfoFits,
              LockIsRecoverable
<1>4. ReadsRequestedBlock'
  BY StartFacts DEF ChooseItem, ReadsRequestedBlock
<1>5. QED
  BY <1>1, <1>3, <1>4 DEF IdeInv

LEMMA AnswerStep ==
  ASSUME IdeInv, NEW button \in {"yes", "no", "back"}, Answer(button)
  PROVE  IdeInv'
<1>1. /\ at = "confirm" /\ at' \in {"menu", "master", "user"} /\ Confirm_Result' \in 0 .. 1
      /\ UNCHANGED <<bus, dev, eepromGood, info, items, drive, caller, read, cuts, faults, ghosts>>
      /\ at' \in Security => eepromGood
      /\ at' = "master" => caller = "lock"
      /\ at' = "user" => caller # "lock"
  BY DEF IdeInv, TypeOK, Answer, Security
<1>2. TypeOK'
  BY <1>1 DEF IdeInv, TypeOK, ghosts
<1>3. LockOrder' /\ OpenSoFar' /\ InfoFits' /\ LockIsRecoverable' /\ ReadsRequestedBlock'
  BY <1>1 DEF IdeInv, ghosts, LockOrder, Security, OpenSoFar, Booting, InfoFits,
              LockIsRecoverable, ReadsRequestedBlock
<1>4. QED
  BY <1>2, <1>3 DEF IdeInv

-----------------------------------------------------------------------------
(* Theorems *)

LEMMA StepIdeInv == IdeInv /\ [Next]_vars => IdeInv'
<1> SUFFICES ASSUME IdeInv, [Next]_vars PROVE IdeInv'
  OBVIOUS
<1>1. CASE PowerCut \/ Reboot
  BY <1>1, PowerCutStep, RebootStep
<1>2. CASE DriveInit \/ SendMaster \/ SendUser
  BY <1>2, DriveInitStep, SendMasterStep, SendUserStep
<1>3. CASE \E d \in Drives : ChooseItem(d)
  BY <1>3, ChooseItemStep
<1>4. CASE \E button \in {"yes", "no", "back"} : Answer(button)
  BY <1>4, AnswerStep
<1>5. CASE \E d \in Drives : \E block \in 0 .. Size(bus[d]) - 1 : ReadSector(d, block)
  BY <1>5, ReadSectorStep
<1>6. CASE UNCHANGED vars
  BY <1>6 DEF vars, ghosts, IdeInv, TypeOK, LockOrder, Security, OpenSoFar, Booting, InfoFits,
              LockIsRecoverable, ReadsRequestedBlock
<1>7. QED
  BY <1>1, <1>2, <1>3, <1>4, <1>5, <1>6 DEF Next

LEMMA IdeInvariant == Spec => []IdeInv
  BY InitIdeInv, StepIdeInv, PTL DEF Spec

\* DriveSecurityChange: after any sequence of commands, faults and power cuts,
\* a drive that this program has locked has the console's own password as its
\* user password and the published one as its master password, unless that one
\* was lost on the way.
THEOREM LocksAreRecoverable == Spec => []LockIsRecoverable
<1>1. IdeInv => LockIsRecoverable
  BY DEF IdeInv
<1>2. QED
  BY <1>1, IdeInvariant, PTL

\* BootIdeDriveInit: a start in which no command fails leaves no drive locked
\* whose password is this console's, and the menu keeps it so.
THEOREM DrivesOpenAtBoot == Spec => []OpensAtBoot
<1>1. IdeInv => OpensAtBoot
  BY DEF IdeInv, OpenSoFar, OpensAtBoot, Booting
<1>2. QED
  BY <1>1, IdeInvariant, PTL

\* BootIdeReadSector: with 48-bit, 28-bit and cylinder, head and sector
\* addresses the drive delivers the block asked for, for all widths of the
\* registers and every geometry they can express.
THEOREM ReadsAreExact == Spec => []ReadsRequestedBlock
<1>1. IdeInv => ReadsRequestedBlock
  BY DEF IdeInv
<1>2. QED
  BY <1>1, IdeInvariant, PTL
=============================================================================
