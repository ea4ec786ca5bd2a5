--------------------------- MODULE MemoryManager ---------------------------
(***************************************************************************)
(* The heap of the loader (lib/misc/BootLibrary.c): a cluster table with   *)
(* one byte per 16 KB cluster, a first-fit search over it, and the malloc  *)
(* and free wrappers that put an eight-byte header in front of every       *)
(* pointer and bracket the work with cli/sti.                              *)
(*                                                                         *)
(* The bytes of the table are kept exactly, because t_free recognises a    *)
(* block only by them.  The contents of the clusters are left out.         *)
(***************************************************************************)
EXTENDS Integers

CONSTANTS
  NumEntries,  \* entries the searches start from: 0x400 in the code
  TableSize,   \* bytes the table occupies: 0x4000 in the code
  Requests,    \* sizes the callers pass to malloc, in whole 256-byte pages
  MaxFailed    \* bound: how many failed requests are outstanding at a time

(***************************************************************************)
(* Sizes are counted in pages of 256 bytes: malloc rounds to that grain,   *)
(* (size+0x200)&0xffffff00, in unsigned 32-bit arithmetic, so a request    *)
(* of q whole pages and a remainder asks t_malloc for (q+2) % 2^24 pages.  *)
(* SectorsFor is the number of clusters t_malloc looks for; 0 is a refusal.*)
(***************************************************************************)
ClusterPages == 64        \* 0x4000 bytes
MediumPages  == 256       \* 0x10000 bytes
LargePages   == 20480     \* 5 MB
HeaderPages  == 1         \* the caller's pointer is 0x100 into the block

\* Plausible bug: one page added instead of two, which forgets the header.
BugRounded(q) == (q + 1) % 16777216

Rounded(q) == (q + 2) % 16777216

SectorsFor(pages) ==
  IF pages <= ClusterPages     THEN 1
  ELSE IF pages <= MediumPages THEN 4
  ELSE IF pages <= LargePages  THEN (pages \div ClusterPages) + 1
  ELSE 0

Sectors(q) == SectorsFor(Rounded(q))

ASSUME SizesAssumption ==
  /\ NumEntries \in Nat /\ NumEntries > 1
  /\ TableSize \in Nat /\ NumEntries <= TableSize
  /\ MaxFailed \in Nat
  /\ Requests \subseteq Nat
  /\ \A r \in Requests : NumEntries + Sectors(r) <= TableSize

(***************************************************************************)
(* The byte that t_malloc writes at position i of a block of n clusters.   *)
(* 64 KB blocks are marked by the word 0xB8BADCFE, stored low byte first.  *)
(***************************************************************************)
Mark(n, i) ==
  IF n = 1 THEN 170                                          \* AA
  ELSE IF n = 4
    THEN IF i = 0 THEN 254 ELSE IF i = 1 THEN 220
         ELSE IF i = 2 THEN 186 ELSE 184                     \* FE DC BA B8
  ELSE IF i \in {0, n - 1} THEN 187                          \* BB
  ELSE IF i \in {1, n - 2} THEN 204                          \* CC
  ELSE 255                                                   \* FF

VARIABLES
  memsmall,  \* the table
  held,      \* ghost: blocks <<start, clusters>> some caller owns
  leaked,    \* ghost: blocks their owner gave back and t_free left marked
  stale,     \* ghost: starts that were handed out and given back once
  failed,    \* ghost: callers that got the pointer of a failed request
  intr       \* the processor's interrupt flag

heapVars == <<memsmall, held, leaked, stale, failed, intr>>

Table   == 0 .. TableSize - 1
Entries == 1 .. NumEntries - 1
Marked  == held \cup leaked

Span(b) == b[1] .. b[1] + b[2] - 1

HeapTypeOK ==
  /\ memsmall \in [Table -> 0 .. 255]
  /\ held \subseteq Entries \X (1 .. TableSize)
  /\ leaked \subseteq Entries \X (1 .. TableSize)
  /\ stale \subseteq Entries
  /\ failed \in 0 .. MaxFailed
  /\ intr \in BOOLEAN

\* MemoryManagementInitialization: every entry free but the table's own cluster.
HeapInit ==
  /\ memsmall = [e \in Table |-> IF e = 0 THEN 255 ELSE 0]
  /\ held = {}
  /\ leaked = {}
  /\ stale = {}
  /\ failed = 0
  /\ intr \in BOOLEAN

-----------------------------------------------------------------------------
(* t_malloc *)

\* Plausible bug: the last cluster of a run is not looked at.
BugFitsAt(c, n) == \A e \in c .. c + (IF n = 1 THEN 0 ELSE n - 2) : memsmall[e] = 0

\* The run test of the three searches.  It reads past NumEntries.
FitsAt(c, n) == \A e \in c .. c + n - 1 : memsmall[e] = 0

FirstFit(c, n) ==
  /\ c \in Entries
  /\ FitsAt(c, n)
  /\ \A d \in 1 .. c - 1 : ~FitsAt(d, n)

MarkBlock(s, n) ==
  [e \in Table |-> IF e \in s .. s + n - 1 THEN Mark(n, e - s) ELSE memsmall[e]]

Malloc(q) ==
  LET n == Sectors(q) IN
  /\ n > 0
  /\ \E c \in Entries :
       /\ FirstFit(c, n)
       /\ memsmall' = MarkBlock(c, n)
       /\ held' = held \cup {<<c, n>>}
       /\ stale' = stale \ {c}
  /\ intr' = TRUE
  /\ UNCHANGED <<leaked, failed>>

\* t_malloc returns 0 and malloc turns it into the address 0x100, whose
\* header it writes below; the caller takes it for memory.
MallocFails(q) ==
  LET n == Sectors(q) IN
  /\ n = 0 \/ \A c \in Entries : ~FitsAt(c, n)
  /\ failed < MaxFailed
  /\ failed' = failed + 1
  /\ intr' = TRUE
  /\ UNCHANGED <<memsmall, held, leaked, stale>>

-----------------------------------------------------------------------------
(* t_free *)

Word(s) == <<memsmall[s], memsmall[s + 1], memsmall[s + 2], memsmall[s + 3]>>

IsSmall(s)  == memsmall[s] = 170
IsMedium(s) == Word(s) = <<254, 220, 186, 184>>
IsLarge(s)  == Word(s) = <<187, 204, 255, 255>>

\* Where the clearing loop of a large block stops: the first 0xCC 0xBB pair
\* below NumEntries, or the end of the searched entries.
EndPair(c) == c < NumEntries /\ memsmall[c] = 204 /\ memsmall[c + 1] = 187

\* Plausible bug: the second byte of the end pair is left marked.
BugLoopEnd(s) ==
  IF \E c \in s .. NumEntries - 1 : EndPair(c)
  THEN CHOOSE c \in s .. NumEntries - 1 :
         EndPair(c) /\ \A d \in s .. c - 1 : ~EndPair(d)
  ELSE NumEntries - 1

LoopEnd(s) ==
  IF \E c \in s .. NumEntries - 1 : EndPair(c)
  THEN (CHOOSE c \in s .. NumEntries - 1 :
          EndPair(c) /\ \A d \in s .. c - 1 : ~EndPair(d)) + 1
  ELSE NumEntries - 1

\* Plausible bug: the clearing loop does not return at the end pair.
BugCleared(s) ==
  IF IsSmall(s)       THEN {s}
  ELSE IF IsMedium(s) THEN s .. s + 3
  ELSE IF IsLarge(s)  THEN s .. NumEntries - 1
  ELSE {}

\* The entries t_free(s) clears.
Cleared(s) ==
  IF IsSmall(s)       THEN {s}
  ELSE IF IsMedium(s) THEN s .. s + 3
  ELSE IF IsLarge(s)  THEN s .. LoopEnd(s)
  ELSE {}

TFree(s) ==
  memsmall' = [e \in Table |-> IF e \in Cleared(s) THEN 0 ELSE memsmall[e]]

\* free by the owner of a block.
Free(b) ==
  /\ b \in held
  /\ TFree(b[1])
  /\ held' = held \ {b}
  /\ leaked' = IF Cleared(b[1]) = {} THEN leaked \cup {b} ELSE leaked
  /\ stale' = stale \cup {b[1]}
  /\ intr' = TRUE
  /\ UNCHANGED failed

\* A second free of a pointer whose block was given back and that no block
\* starts at now (networktools/webboot frees its header twice).  The last
\* entry is left out: there the comparison reads what a block that ran past
\* the table left behind, and takes the end of a block for the start of one.
FreeStale(s) ==
  /\ s \in stale
  /\ s < NumEntries - 1
  /\ \A b \in Marked : b[1] # s
  /\ TFree(s)
  /\ intr' = TRUE
  /\ UNCHANGED <<held, leaked, stale, failed>>

\* free of the pointer a failed request got: t_free(0) computes an index
\* beyond the table and the table is not touched.
FreeFailed ==
  /\ failed > 0
  /\ failed' = failed - 1
  /\ intr' = TRUE
  /\ UNCHANGED <<memsmall, held, leaked, stale>>

\* free(NULL) returns between cli and sti.
FreeNull ==
  /\ intr' = FALSE
  /\ UNCHANGED <<memsmall, held, leaked, stale, failed>>

HeapNext ==
  \/ \E r \in Requests : Malloc(r)
  \/ \E r \in Requests : MallocFails(r)
  \/ \E b \in held : Free(b)
  \/ \E s \in stale : FreeStale(s)
  \/ FreeFailed
  \/ FreeNull

HeapSpec == HeapInit /\ [][HeapNext]_heapVars

-----------------------------------------------------------------------------
(* Properties *)

\* t_malloc: no cluster is ever part of two blocks, and none is the cluster
\* that holds the table, whatever the order of allocations and frees.
BlocksDisjoint ==
  /\ \A a, b \in Marked : a # b => Span(a) \cap Span(b) = {}
  /\ \A b \in Marked : 0 \notin Span(b)

\* t_malloc, t_free: the table always describes the blocks: every marked
\* block carries the byte pattern its free will look for.
MarksIntact ==
  \A b \in Marked : \A e \in Span(b) : memsmall[e] = Mark(b[2], e - b[1])

\* t_free: the only blocks it fails to recognise are those of five clusters,
\* whose pattern BB CC FF CC BB lacks the second FF of the word it compares
\* with; every other block is given back.
OnlyFiveClustersLeak == \A b \in leaked : b[2] = 5

\* t_free: every entry below NumEntries that is not free belongs to a block.
\* (Beyond them a large block that ran past the end leaves marks behind.)
NothingElseMarked ==
  \A e \in Entries : memsmall[e] # 0 => \E b \in Marked : e \in Span(b)

\* t_malloc, t_free: whatever the order of allocations, frees and double frees,
\* the only entries that are neither free nor part of a block somebody holds
\* are those of freed blocks of five clusters.
NothingElseLost == OnlyFiveClustersLeak /\ NothingElseMarked

\* The blocks t_malloc makes: one, four or at least five clusters, and never
\* beyond the bytes of the table.
BlockShapes ==
  \A b \in Marked : (b[2] \in {1, 4} \/ b[2] >= 5) /\ b[1] + b[2] <= TableSize

\* The inductive invariant of the allocator.
IInv ==
  /\ HeapTypeOK
  /\ BlockShapes
  /\ BlocksDisjoint
  /\ MarksIntact
  /\ NothingElseMarked
  /\ OnlyFiveClustersLeak

\* boot/Memorymap.txt gives the heap 0x1000000 bytes and places the running
\* loader right behind them: a block must end inside the heap.
BlocksInsideRegion == \A b \in held : b[1] + b[2] <= NumEntries

\* malloc: the block that serves a request has room for the header in front of
\* the caller's pointer and for every byte asked for (less than q+1 pages), so
\* a caller that stays inside its request never writes into another block.
\* Requests of almost 2^32 bytes, whose rounding wraps, are left out.
RequestCovered ==
  [][\A q \in Requests :
        Malloc(q) /\ q + 2 < 16777216
          => \E b \in held' \ held :
               HeaderPages + q + 1 <= b[2] * ClusterPages]_heapVars

\* free: a block's marks are changed by nobody but its owner's free; in
\* particular a second free of an old pointer that lies inside somebody
\* else's block leaves that block alone.
OnlyOwnerUnmarks ==
  [][\A b \in Marked \cap Marked' :
        \A e \in Span(b) : memsmall'[e] = memsmall[e]]_heapVars
=============================================================================
