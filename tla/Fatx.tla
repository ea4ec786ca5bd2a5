-------------------------------- MODULE Fatx --------------------------------
(***************************************************************************)
(* Loading a file from a FATX partition (fs/fatx/BootFATX.c): open the     *)
(* partition and read its cluster chain table, walk the directories along  *)
(* the path, and copy the file's clusters into a buffer of its size.       *)
(*                                                                         *)
(* The disk may hold anything: chains that end early, run into free or     *)
(* foreign clusters or form a ring, and entries of any kind.  Reads may    *)
(* fail.  Names that differ only in case are one name.  Sizes are below    *)
(* 2^31: from there on the code's int fileSize is negative.                *)
(***************************************************************************)
EXTENDS Integers, Sequences

CONSTANTS
  N,            \* clusters of the partition, numbered from 1
  ClusterSize,  \* units of data in a cluster
  Paths,        \* file names: the names between the slashes
  TooLong,      \* names of more than FATX_FILENAME_MAX characters
  Disks,        \* the disks: chain table and directory entries
  Junk          \* what the table in memory may be when it cannot be read

End  == -1      \* getNextClusterInChain's answer for both end markers
Wild == N + 1   \* a number that is no cluster of the partition

Cluster == 0 .. N + 1                 \* what LoadFATXCluster may be asked for
Table   == [0 .. N -> Cluster \cup {End}]
Unit    == (Cluster \cup {End}) \X (1 .. ClusterSize)   \* End: old memory

\* A directory entry; first and size matter for files and directories only.
Entry ==
  [kind : {"file", "dir", "deleted", "last", "invalid"}, name : STRING,
   first : Cluster \cup {End}, size : Nat]

ASSUME FatxAssumption ==
  /\ N \in Nat /\ ClusterSize \in Nat \ {0}
  /\ Paths \subseteq Seq(STRING) \ {<<>>} /\ Junk \subseteq Table
  /\ \A k \in Disks :
       /\ k.table \in Table
       /\ k.dir \in [Cluster -> Seq(Entry)]

VARIABLES
  disk,
  path,       \* the file name to load
  words,      \* clusterChainMap
  pc,         \* "open", "find", "load" or "done"
  depth,      \* which name of path is looked for
  clusterId,
  clusterData,
  first, size,            \* fileinfo->clusterId, fileinfo->fileSize
  fileSize, buffer,       \* what is left to copy, and what was copied
  result,                 \* what LoadFATXFile returns
  readErr                 \* ghost: a read has failed, or there is no partition

input == <<disk, path>>
vars  == <<disk, path, words, pc, depth, clusterId, clusterData, first, size,
           fileSize, buffer, result, readErr>>

TypeOK ==
  /\ disk.table \in Table /\ disk.dir \in [Cluster -> Seq(Entry)]
  /\ path \in Paths /\ words \in Table
  /\ pc \in {"open", "find", "load", "done"}
  /\ depth \in 1 .. Len(path)
  /\ clusterId \in Cluster \cup {End} /\ first \in Cluster \cup {End}
  /\ clusterData \in [1 .. ClusterSize -> Unit]
  /\ size \in Nat /\ fileSize \in Nat /\ buffer \in Seq(Unit)
  /\ result \in BOOLEAN /\ readErr \in BOOLEAN

\* A cluster buffer on the stack, as a function finds it on entry.
OldMemory == [i \in 1 .. ClusterSize |-> <<End, i>>]

Init ==
  /\ disk \in Disks /\ path \in Paths /\ words = disk.table
  /\ pc = "open" /\ depth = 1 /\ clusterId = End
  /\ clusterData = OldMemory
  /\ first = End /\ size = 0 /\ fileSize = 0 /\ buffer = <<>>
  /\ result = FALSE /\ readErr = FALSE

Return(r) == pc' = "done" /\ result' = r

-----------------------------------------------------------------------------
(* OpenFATXPartition *)

\* The header cannot be read or has no magic: no partition.
OpenFails ==
  /\ pc = "open"
  /\ Return(FALSE) /\ readErr' = TRUE
  /\ UNCHANGED <<input, words, depth, clusterId, clusterData, first, size,
                 fileSize, buffer>>

\* A table that cannot be read is reported on the screen and used.
Open ==
  /\ pc = "open"
  /\ \/ words' = disk.table /\ UNCHANGED readErr
     \/ words' \in Junk /\ readErr' = TRUE
  /\ pc' = "find" /\ clusterId' = 1
  /\ UNCHANGED <<input, depth, clusterData, first, size, fileSize, buffer, result>>

\* Plausible bug: the table is indexed as if it had no entry 0.
BugNextInChain(c) == IF c \in 1 .. N THEN {words[c - 1]} ELSE Cluster \cup {End}

\* getNextClusterInChain: complains about numbers that are no clusters, and
\* returns them.  For those the entry is read from beyond the table.
NextInChain(c) == IF c \in 0 .. N THEN {words[c]} ELSE Cluster \cup {End}

\* LoadFATXCluster, FATXRawRead: the sectors before one that cannot be read.
Loaded(c, k) ==
  [i \in 1 .. ClusterSize |-> IF i <= k THEN <<c, i>> ELSE clusterData[i]]

-----------------------------------------------------------------------------
(* _FATXFindFile *)

\* Plausible bug: an entry of the wrong kind is passed over.
BugStops(e) ==
  \/ e.kind \in {"last", "invalid"}
  \/ /\ e.kind = (IF depth < Len(path) THEN "dir" ELSE "file")
     /\ e.name = path[depth]

\* The entry at which the loop over a directory's cluster stops, if any.
Stops(e) ==
  e.kind \in {"last", "invalid"} \/ (e.kind \in {"file", "dir"} /\ e.name = path[depth])

Hits(es) == {i \in DOMAIN es : Stops(es[i]) /\ \A j \in DOMAIN es : j < i => ~Stops(es[j])}

\* Entries that the loop may see: the cluster's, or, after a failed read,
\* those that some cluster has left on the stack.
Seen(k) ==
  IF k = ClusterSize THEN {disk.dir[clusterId]} ELSE {disk.dir[c] : c \in Cluster}

LookingForDirectory == depth < Len(path)

\* What is done with the entry e at which the loop stopped: the call returns,
\* or another one, with a buffer of its own, goes on.
TakeEntry(e) ==
  IF e.kind = "dir" /\ LookingForDirectory
    THEN /\ depth' = depth + 1 /\ clusterId' = e.first
         /\ UNCHANGED <<pc, first, size, fileSize, result>>
  ELSE IF e.kind = "file" /\ ~LookingForDirectory
    THEN /\ pc' = "load" /\ clusterId' = e.first
         /\ first' = e.first /\ size' = e.size /\ fileSize' = e.size
         /\ UNCHANGED <<depth, result>>
  ELSE Return(FALSE) /\ UNCHANGED <<depth, clusterId, first, size, fileSize>>

\* A name that no entry can have.
FindName ==
  /\ pc = "find" /\ path[depth] \in TooLong
  /\ Return(FALSE)
  /\ UNCHANGED <<input, words, depth, clusterId, clusterData, first, size,
                 fileSize, buffer, readErr>>

FindInCluster ==
  /\ pc = "find" /\ path[depth] \notin TooLong /\ clusterId # End
  /\ \E k \in 0 .. ClusterSize : \E es \in Seen(k) :
       /\ readErr' = (readErr \/ k < ClusterSize)
       /\ \/ /\ \E i \in Hits(es) : TakeEntry(es[i])
             /\ clusterData' = OldMemory
          \/ /\ Hits(es) = {}
             /\ clusterData' = Loaded(clusterId, k)
             /\ clusterId' \in NextInChain(clusterId)
             /\ UNCHANGED <<pc, depth, first, size, fileSize, result>>
  /\ UNCHANGED <<input, words, buffer>>

FindFails ==
  /\ pc = "find" /\ path[depth] \notin TooLong /\ clusterId = End
  /\ Return(FALSE)
  /\ UNCHANGED <<input, words, depth, clusterId, clusterData, first, size,
                 fileSize, buffer, readErr>>

-----------------------------------------------------------------------------
(* FATXLoadFromDisk *)

\* Plausible bug: always a whole cluster.
BugWritten == ClusterSize

Written == IF fileSize <= ClusterSize THEN fileSize ELSE ClusterSize

LoadCluster ==
  /\ pc = "load" /\ clusterId # End
  /\ \E k \in 0 .. ClusterSize :
       /\ clusterData' = Loaded(clusterId, k)
       /\ readErr' = (readErr \/ k < ClusterSize)
  /\ buffer' = buffer \o [i \in 1 .. Written |-> clusterData'[i]]
  /\ fileSize' = fileSize - Written
  /\ clusterId' \in NextInChain(clusterId)
  /\ UNCHANGED <<input, words, pc, depth, first, size, result>>

\* Plausible bug: what was copied is not compared with the size.
BugLoadDone ==
  /\ pc = "load" /\ clusterId = End
  /\ Return(TRUE)
  /\ UNCHANGED <<input, words, depth, clusterId, clusterData, first, size,
                 fileSize, buffer, readErr>>

LoadDone ==
  /\ pc = "load" /\ clusterId = End
  /\ Return(fileSize = 0)
  /\ UNCHANGED <<input, words, depth, clusterId, clusterData, first, size,
                 fileSize, buffer, readErr>>

Next == OpenFails \/ Open \/ FindName \/ FindInCluster \/ FindFails \/ LoadCluster \/ LoadDone

Spec == Init /\ [][Next]_vars /\ WF_vars(Next)

-----------------------------------------------------------------------------
(* What a disk holds, read off its tables without walking them *)

\* The n-th cluster after c in the chain.
After(t, c) == IF c \in 0 .. N THEN t[c] ELSE End

Chain(t, c) ==
  LET f[n \in 0 .. N + 1] == IF n = 0 THEN c ELSE After(t, f[n - 1]) IN f

\* The chain from c has n clusters, all of them of the partition.
HasLength(t, c, n) == Chain(t, c)[n] = End /\ \A m \in 0 .. n - 1 : Chain(t, c)[m] \in 1 .. N
Sound(t, c)        == \E n \in 0 .. N : HasLength(t, c, n)

\* The first s units of the file whose first cluster is c.
Content(t, c, s) ==
  [i \in 1 .. s |-> <<Chain(t, c)[(i - 1) \div ClusterSize], 1 + ((i - 1) % ClusterSize)>>]

\* Places <<n, i>> in the directory that starts at cluster c of the disk k:
\* entry i of the n-th cluster.
Places(k, c) ==
  UNION {{<<n, i>> : i \in DOMAIN k.dir[Chain(k.table, c)[n]]} :
           n \in {m \in 0 .. N : Chain(k.table, c)[m] \in 1 .. N}}

At(k, c, p) == k.dir[Chain(k.table, c)[p[1]]][p[2]]

Before(p, q) == p[1] < q[1] \/ (p[1] = q[1] /\ p[2] < q[2])

Ends(e)     == e.kind \in {"last", "invalid"}
Bears(e, x) == e.kind \in {"file", "dir"} /\ e.name = x

\* The entries of that name that the directory has: the first one, if any, and
\* if the directory does not end before it.
Named(k, c, x) ==
  {p \in Places(k, c) :
     /\ Bears(At(k, c, p), x)
     /\ \A q \in Places(k, c) : Before(q, p) => ~Ends(At(k, c, q)) /\ ~Bears(At(k, c, q), x)}

\* The entries of a kind among them, for the directories that start in C.
EntriesOf(k, C, x, kind) ==
  UNION {{At(k, c, p) : p \in {q \in Named(k, c, x) : At(k, c, q).kind = kind}} : c \in C}

\* The directories on the way: the first cluster of each, if it is there.
Directory(k, w) ==
  LET f[d \in 1 .. Len(w)] ==
        IF d = 1 THEN {1} ELSE {e.first : e \in EntriesOf(k, f[d - 1], w[d - 1], "dir")}
  IN f

\* The file's entry.
TheFile(k, w) == EntriesOf(k, Directory(k, w)[Len(w)], w[Len(w)], "file")

SoundPath(k, w) == \A d \in 1 .. Len(w) : \A c \in Directory(k, w)[d] : Sound(k.table, c)

-----------------------------------------------------------------------------
(* Properties *)

\* FATXLoadFromDisk: on any disk, a ring of clusters or a chain longer than
\* the file included, no more is copied than the buffer of the file's size
\* can take.
StaysInBuffer == Len(buffer) <= size

\* What makes it inductive: copied and left to copy add up to the size, and
\* nothing has been copied while the file is looked for.
FatxInv ==
  /\ TypeOK
  /\ Len(buffer) + fileSize = size
  /\ pc \in {"open", "find"} => size = 0

\* _FATXFindFile: when the directories on the way are sound and could be read,
\* the file that is loaded is the one the path names, and a file that is there
\* is found.
FindsTheFile ==
  LET Sane == /\ ~readErr /\ SoundPath(disk, path)
              /\ \A d \in 1 .. Len(path) : path[d] \notin TooLong
  IN /\ pc = "load" /\ Sane => \E e \in TheFile(disk, path) : e.first = first /\ e.size = size
     /\ pc = "done" /\ size = 0 /\ ~result /\ Sane => TheFile(disk, path) = {}

\* LoadFATXFile, "check we actually found enough data": without read errors
\* success means the file's own data, all of it, and failure that its chain
\* has too few clusters for its size.
LoadsTheFile ==
  LET Sane == ~readErr /\ Sound(disk.table, first)
  IN /\ pc = "done" /\ result /\ Sane => buffer = Content(disk.table, first, size)
     /\ pc = "load" /\ clusterId = End /\ fileSize > 0 /\ Sane =>
          \A n \in 0 .. N : HasLength(disk.table, first, n) => size > n * ClusterSize

\* The table in use, until a read fails.
TableRead == ~readErr => words = disk.table

\* What makes LoadsTheFile inductive: some clusters of a sound chain have been
\* copied, in order, and all of their units while the file is not complete.
CopiedSoFar ==
  pc = "load" /\ ~readErr /\ Sound(disk.table, first) =>
    \E n \in 0 .. N : \E m \in 0 .. n :
      /\ HasLength(disk.table, first, n)
      /\ clusterId = Chain(disk.table, first)[m]
      /\ Len(buffer) <= m * ClusterSize
      /\ fileSize > 0 => Len(buffer) = m * ClusterSize
      /\ buffer = Content(disk.table, first, Len(buffer))

LoadInv == TableRead /\ CopiedSoFar /\ LoadsTheFile

\* Nothing stops the search in the first m clusters from c.
PassedBy(c, m) ==
  \A j \in 0 .. m - 1 : \A i \in DOMAIN disk.dir[Chain(disk.table, c)[j]] :
    ~Stops(disk.dir[Chain(disk.table, c)[j]][i])

\* What makes FindsTheFile inductive: the search is in some cluster of the
\* directory that the names before depth lead to, and would not have stopped at
\* an entry of the clusters before it.
SearchedSoFar ==
  pc = "find" /\ ~readErr /\ SoundPath(disk, path) =>
    \E c \in Cluster \cup {End} : \E n \in 0 .. N : \E m \in 0 .. n :
      /\ Directory(disk, path)[depth] = {c}
      /\ HasLength(disk.table, c, n)
      /\ clusterId = Chain(disk.table, c)[m]
      /\ PassedBy(c, m)

FindInv ==
  /\ TableRead
  /\ pc = "open" => depth = 1
  /\ SearchedSoFar
  /\ FindsTheFile

\* The loops of _FATXFindFile and FATXLoadFromDisk end, whatever cannot be
\* read, when the table in use leads from every cluster to an end marker and
\* no entry leads outside it.
OrderlyTable ==
  /\ \A c \in 0 .. N : \E n \in 0 .. N + 1 : Chain(words, c)[n] = End
  /\ \A c \in 0 .. N : words[c] # Wild
  /\ \A c \in Cluster : \A i \in DOMAIN disk.dir[c] : disk.dir[c][i].first # Wild

Terminates == []OrderlyTable => <>(pc = "done")
=============================================================================
