--------------------------- MODULE BootMenuProofs ---------------------------
(***************************************************************************)
(* Proofs about linuxboot.cfg and the menus, for every file, every set of  *)
(* drives and discs, and windows, menus and time-outs of every size.       *)
(*                                                                         *)
(* The first half is about ParseConfig: what it has after n lines is what  *)
(* the sections say up to line n, by induction over n.  Entries is a       *)
(* recursive function; that it exists, and so has the equations it is      *)
(* written with, is shown by the least length at which no function         *)
(* satisfies them.  The second half is the inductive invariant BootInv of  *)
(* the menus and the loaders, and what follows from it.                    *)
(***************************************************************************)
EXTENDS BootMenu, FiniteSetTheorems, SequenceTheorems, WellFoundedInduction, TLAPS

-----------------------------------------------------------------------------
(* Sets of numbers *)

\* Sets of naturals have a least member: the induction of the lemmas below.
LEMMA Smallest ==
  ASSUME NEW S \in SUBSET Nat, S # {}
  PROVE  \E x \in S : \A y \in S : x <= y
<1>1. \E x \in S : \A y \in S : ~ (<<y, x>> \in OpToRel(<, Nat))
  BY WFMin, NatLessThanWellFounded, Zenon
<1>2. PICK x \in S : \A y \in S : ~ (<<y, x>> \in OpToRel(<, Nat))
  BY <1>1, Zenon
<1>3. ASSUME NEW y \in S, y < x PROVE FALSE
  <2>1. <<y, x>> \in {ss \in Nat \X Nat : ss[1] < ss[2]}
    BY <1>3
  <2>2. <<y, x>> \in OpToRel(<, Nat)
    BY <2>1, Zenon DEF OpToRel
  <2>3. QED
    BY <1>2, <2>2, Zenon
<1>4. QED
  BY <1>3

LEMMA MaxIs ==
  ASSUME NEW S \in SUBSET Int, NEW m \in S, \A x \in S : x <= m
  PROVE  Max(S) = m
<1>1. \A z \in S : (\A y \in S : z >= y) <=> z = m
  OBVIOUS
<1>2. QED
  BY <1>1 DEF Max

LEMMA MinIs ==
  ASSUME NEW S \in SUBSET Nat, S # {}
  PROVE  Min(S) \in S
<1>1. \E x \in S : \A y \in S : x <= y
  BY Smallest
<1>2. QED
  BY <1>1 DEF Min

LEMMA MinOfTwo ==
  ASSUME NEW a \in Int, NEW b \in Int
  PROVE  Min({a, b}) = IF a <= b THEN a ELSE b
<1>1. CASE a <= b
  <2>1. \A z \in {a, b} : (\A y \in {a, b} : z <= y) <=> z = a
    BY <1>1
  <2>2. QED
    BY <1>1, <2>1 DEF Min
<1>2. CASE ~(a <= b)
  <2>1. \A z \in {a, b} : (\A y \in {a, b} : z <= y) <=> z = b
    BY <1>2
  <2>2. QED
    BY <1>2, <2>1 DEF Min
<1>3. QED
  BY <1>1, <1>2

-----------------------------------------------------------------------------
(* Sections *)

LEMMA LineFacts ==
  ASSUME NEW lines, ConfigFile(lines), NEW n \in 1 .. Len(lines)
  PROVE  /\ Len(lines) \in Nat
         /\ lines[n].key \in {"title", "append"} => lines[n].val \in Seq(Nat)
         /\ lines[n].key = "title" => lines[n].val # <<>>
<1>1. Len(lines) \in Nat /\ DOMAIN lines = 1 .. Len(lines)
  BY DEF ConfigFile
<1>2. n \in DOMAIN lines
  BY <1>1
<1>3. QED
  BY <1>1, <1>2, Zenon DEF ConfigFile

\* The section that line n belongs to; before the first line, the first one.
Current(lines, n) == IF TitlesUpTo(lines, n) = 0 THEN 1 ELSE TitlesUpTo(lines, n)

\* A further line raises the number of titles by one if it is a title.
LEMMA TitleCount ==
  ASSUME NEW lines, ConfigFile(lines), NEW n \in 0 .. Len(lines)
  PROVE  /\ TitlesUpTo(lines, n) \in Nat
         /\ n = 0 => TitlesUpTo(lines, n) = 0
         /\ n > 0 => TitlesUpTo(lines, n)
                       = TitlesUpTo(lines, n - 1) + (IF lines[n].key = "title" THEN 1 ELSE 0)
         /\ \A i \in 0 .. n : TitlesUpTo(lines, i) <= TitlesUpTo(lines, n)
<1> DEFINE T(i) == {j \in Positions(lines, "title") : j <= i}
<1>1. Len(lines) \in Nat
  BY DEF ConfigFile
<1>2. \A i \in Int : T(i) \subseteq 1 .. Len(lines)
  BY DEF Positions
<1>3. ASSUME NEW i \in Int PROVE IsFiniteSet(T(i)) /\ Cardinality(T(i)) \in Nat
  <2>1. T(i) \subseteq 1 .. Len(lines) /\ IsFiniteSet(1 .. Len(lines))
    BY <1>1, <1>2, FS_Interval
  <2> HIDE DEF T
  <2>2. IsFiniteSet(T(i))
    BY <2>1, FS_Subset
  <2>3. QED
    BY <2>2, FS_CardinalityType
<1>4. TitlesUpTo(lines, n) \in Nat /\ n \in Int /\ n - 1 \in Int /\ \A i \in 0 .. n : i \in Int
  BY <1>1, <1>3 DEF TitlesUpTo
<1>5. n = 0 => TitlesUpTo(lines, n) = 0
  <2>1. T(0) = {}
    BY <1>1 DEF Positions
  <2>2. QED
    BY <2>1, FS_EmptySet DEF TitlesUpTo
<1>6. ASSUME n > 0
      PROVE  TitlesUpTo(lines, n)
               = TitlesUpTo(lines, n - 1) + (IF lines[n].key = "title" THEN 1 ELSE 0)
  <2>1. CASE lines[n].key = "title"
    <3>1. T(n) = T(n - 1) \cup {n} /\ n \notin T(n - 1)
      BY <1>1, <1>6, <2>1 DEF Positions
    <3>2. Cardinality(T(n)) = Cardinality(T(n - 1)) + 1
      <4>1. IsFiniteSet(T(n - 1))
        BY <1>3, <1>4
      <4> HIDE DEF T
      <4>2. QED
        BY <3>1, <4>1, FS_AddElement
    <3>3. QED
      BY <2>1, <3>2 DEF TitlesUpTo
  <2>2. CASE lines[n].key # "title"
    <3>1. T(n) = T(n - 1)
      BY <1>1, <1>6, <2>2 DEF Positions
    <3>2. Cardinality(T(n - 1)) \in Nat
      BY <1>3, <1>4
    <3>3. TitlesUpTo(lines, n) = TitlesUpTo(lines, n - 1) /\ TitlesUpTo(lines, n - 1) \in Nat
      BY <3>1, <3>2 DEF TitlesUpTo
    <3>4. QED
      BY <2>2, <3>3
  <2>3. QED
    BY <2>1, <2>2
<1>7. ASSUME NEW i \in 0 .. n PROVE TitlesUpTo(lines, i) <= TitlesUpTo(lines, n)
  <2>1. T(i) \subseteq T(n) /\ IsFiniteSet(T(n))
    <3>1. T(i) \subseteq T(n)
      BY <1>1 DEF Positions
    <3>2. IsFiniteSet(T(n))
      BY <1>3, <1>4
    <3>3. QED
      BY <3>1, <3>2
  <2>2. Cardinality(T(i)) <= Cardinality(T(n))
    <3> HIDE DEF T
    <3>1. QED
      BY <2>1, FS_Subset
  <2>3. QED
    BY <2>2 DEF TitlesUpTo
<1>8. QED
  BY <1>4, <1>5, <1>6, <1>7

\* Sections follow one another: the section of a line is that of the line
\* before, or the next.
LEMMA CurrentFacts ==
  ASSUME NEW lines, ConfigFile(lines), NEW n \in 0 .. Len(lines)
  PROVE  /\ Current(lines, n) \in Nat \ {0}
         /\ n = 0 => Current(lines, n) = 1
         /\ n > 0 => Current(lines, n)
              = IF lines[n].key = "title" /\ TitlesUpTo(lines, n - 1) > 0
                THEN Current(lines, n - 1) + 1 ELSE Current(lines, n - 1)
         /\ \A i \in 0 .. n : Current(lines, i) <= Current(lines, n)
<1>1. Len(lines) \in Nat
  BY DEF ConfigFile
<1>2. \A i \in 0 .. n : i \in 0 .. Len(lines)
  BY <1>1
<1>3. \A i \in 0 .. n : TitlesUpTo(lines, i) \in Nat /\ TitlesUpTo(lines, i) <= TitlesUpTo(lines, n)
  BY <1>2, TitleCount
<1>4. n > 0 => n - 1 \in 0 .. n
  OBVIOUS
<1>5. /\ n = 0 => TitlesUpTo(lines, n) = 0
      /\ n > 0 => TitlesUpTo(lines, n)
                    = TitlesUpTo(lines, n - 1) + (IF lines[n].key = "title" THEN 1 ELSE 0)
  BY TitleCount
<1>6. QED
  BY <1>3, <1>4, <1>5 DEF Current

LEMMA SectionIs ==
  ASSUME NEW lines, ConfigFile(lines), NEW k \in Nat \ {0}
  PROVE  Section(lines, k) = {i \in 1 .. Len(lines) : Current(lines, i) = k}
<1>1. ASSUME NEW i \in 1 .. Len(lines)
      PROVE  (TitlesUpTo(lines, i) = k \/ (k = 1 /\ TitlesUpTo(lines, i) = 0))
               <=> Current(lines, i) = k
  <2>1. TitlesUpTo(lines, i) \in Nat
    BY TitleCount DEF ConfigFile
  <2>2. QED
    BY <2>1 DEF Current
<1>2. QED
  BY <1>1 DEF Section

\* The last section is that of the last line.
LEMMA SectionCountIs ==
  ASSUME NEW lines, ConfigFile(lines)
  PROVE  SectionCount(lines) = Current(lines, Len(lines))
<1>1. Len(lines) \in Nat
  BY DEF ConfigFile
<1>2. {j \in Positions(lines, "title") : j <= Len(lines)} = Positions(lines, "title")
  BY <1>1 DEF Positions
<1>3. TitlesUpTo(lines, Len(lines)) = Cardinality(Positions(lines, "title"))
  BY <1>2 DEF TitlesUpTo
<1>4. IsFiniteSet(Positions(lines, "title"))
  <2>1. Positions(lines, "title") \subseteq 1 .. Len(lines)
    BY DEF Positions
  <2>2. IsFiniteSet(1 .. Len(lines))
    BY <1>1, FS_Interval
  <2>3. QED
    BY <2>1, <2>2, FS_Subset
<1>5. Cardinality(Positions(lines, "title")) = 0 <=> Positions(lines, "title") = {}
  BY <1>4, FS_EmptySet
<1>6. QED
  BY <1>3, <1>5 DEF SectionCount, Current

-----------------------------------------------------------------------------
(* What a section says up to line n *)

SaysAt(lines, n, k, key) == {i \in 1 .. n : lines[i].key = key /\ Current(lines, i) = k}

SaysTo(lines, n, k, key, other) ==
  IF SaysAt(lines, n, k, key) = {} THEN other ELSE lines[Max(SaysAt(lines, n, k, key))].val

\* At the end of the file that is what the section says.
LEMMA SaysAll ==
  ASSUME NEW lines, ConfigFile(lines), NEW k \in Nat \ {0}, NEW key, NEW other
  PROVE  SaysTo(lines, Len(lines), k, key, other) = Says(lines, k, key, other)
<1>1. {i \in Section(lines, k) : lines[i].key = key} = SaysAt(lines, Len(lines), k, key)
  BY SectionIs DEF SaysAt
<1>2. QED
  BY <1>1 DEF Says, SaysTo

\* One more line: its value when it has the keyword and is of the section.
LEMMA SaysStep ==
  ASSUME NEW lines, ConfigFile(lines), NEW n \in 1 .. Len(lines), NEW k, NEW key, NEW other
  PROVE  SaysTo(lines, n, k, key, other)
           = IF lines[n].key = key /\ Current(lines, n) = k THEN lines[n].val
             ELSE SaysTo(lines, n - 1, k, key, other)
<1>1. CASE lines[n].key = key /\ Current(lines, n) = k
  <2>1. /\ SaysAt(lines, n, k, key) \in SUBSET Int /\ n \in SaysAt(lines, n, k, key)
        /\ \A i \in SaysAt(lines, n, k, key) : i <= n
    BY <1>1 DEF SaysAt
  <2>2. Max(SaysAt(lines, n, k, key)) = n
    BY <2>1, MaxIs
  <2>3. QED
    BY <1>1, <2>1, <2>2 DEF SaysTo
<1>2. CASE ~(lines[n].key = key /\ Current(lines, n) = k)
  <2>1. SaysAt(lines, n, k, key) = SaysAt(lines, n - 1, k, key)
    BY <1>2 DEF SaysAt
  <2>2. QED
    BY <1>2, <2>1 DEF SaysTo
<1>3. QED
  BY <1>1, <1>2

\* A section that has not begun says nothing.
LEMMA SaysNothing ==
  ASSUME NEW lines, ConfigFile(lines), NEW n \in 0 .. Len(lines), NEW k \in Nat,
         n = 0 \/ k > Current(lines, n), NEW key, NEW other
  PROVE  SaysAt(lines, n, k, key) = {} /\ SaysTo(lines, n, k, key, other) = other
<1>1. \A i \in 1 .. n : Current(lines, i) \in Nat /\ Current(lines, i) <= Current(lines, n)
  <2>1. \A i \in 1 .. n : i \in 0 .. Len(lines) /\ i \in 0 .. n
    BY DEF ConfigFile
  <2>2. QED
    BY <2>1, CurrentFacts
<1>2. Current(lines, n) \in Nat
  BY CurrentFacts
<1>3. SaysAt(lines, n, k, key) = {}
  BY <1>1, <1>2 DEF SaysAt
<1>4. QED
  BY <1>3 DEF SaysTo

\* Where a section has at most one command line, its lines are no more before.
LEMMA AppendOnce ==
  ASSUME NEW lines, ConfigFile(lines), NEW n \in 1 .. Len(lines), NEW k \in Nat \ {0},
         OneAppend(lines, k), lines[n].key = "append", Current(lines, n) = k
  PROVE  SaysAt(lines, n - 1, k, "append") = {}
<1>1. SUFFICES ASSUME NEW i \in SaysAt(lines, n - 1, k, "append") PROVE FALSE
  OBVIOUS
<1> DEFINE A == {j \in Section(lines, k) : lines[j].key = "append"}
<1>2. i \in A /\ n \in A /\ i # n /\ A \subseteq 1 .. Len(lines) /\ Len(lines) \in Nat
  <2>1. Section(lines, k) = {j \in 1 .. Len(lines) : Current(lines, j) = k}
    BY SectionIs
  <2>2. QED
    BY <2>1, LineFacts DEF SaysAt
<1>3. Cardinality(A) <= 1
  BY DEF OneAppend
<1> HIDE DEF A
<1>4. IsFiniteSet(A)
  <2>1. IsFiniteSet(1 .. Len(lines))
    BY <1>2, FS_Interval
  <2>2. QED
    BY <1>2, <2>1, FS_Subset
<1>5. Cardinality({i, n}) = 2
  <2>1. IsFiniteSet({n}) /\ Cardinality({n}) = 1
    BY FS_Singleton
  <2>2. Cardinality({n} \cup {i}) = Cardinality({n}) + 1
    <3>1. i \notin {n}
      BY <1>2
    <3>2. QED
      BY <2>1, <3>1, FS_AddElement
  <2>3. Cardinality({i, n}) = Cardinality({n} \cup {i})
    <3>1. {i, n} = {n} \cup {i}
      OBVIOUS
    <3>2. QED
      BY <3>1
  <2>4. Cardinality({i, n}) = 1 + 1
    BY <2>1, <2>2, <2>3, Zenon
  <2>5. QED
    BY <2>4
<1>6. Cardinality({i, n}) <= Cardinality(A) /\ Cardinality(A) \in Nat
  <2>1. {i, n} \subseteq A
    BY <1>2
  <2>2. QED
    BY <1>4, <2>1, FS_Subset, FS_CardinalityType
<1>7. QED
  BY <1>3, <1>5, <1>6

-----------------------------------------------------------------------------
(* One line of ParseConfig *)

Values(lines)    == {NoFile} \cup {lines[i].val : i \in 1 .. Len(lines)}
EntryType(lines) == [title : Seq(Nat), kernel : Values(lines), initrd : Values(lines),
                     append : Seq(Nat)]

\* Entry e has what section k says up to line n.
EntryAt(lines, n, k, e) ==
  /\ e.title = SaysTo(lines, n, k, "title", <<>>)
  /\ e.kernel = SaysTo(lines, n, k, "kernel", NoFile)
  /\ e.initrd = SaysTo(lines, n, k, "initrd", NoFile)
  /\ OneAppend(lines, k) => e.append = SaysTo(lines, n, k, "append", <<>>)
  /\ SaysAt(lines, n, k, "append") = {} => e.append = <<>>

ParsedTo(lines, n, es) ==
  /\ es \in Seq(EntryType(lines)) /\ Len(es) = Current(lines, n)
  /\ es[Len(es)].title = <<>> <=> TitlesUpTo(lines, n) = 0
  /\ \A k \in 1 .. Len(es) : EntryAt(lines, n, k, es[k])

LEMMA CopyOverFacts ==
  ASSUME NEW old \in Seq(Nat), NEW new \in Seq(Nat)
  PROVE  /\ CopyOver(old, new) \in Seq(Nat)
         /\ old = <<>> => CopyOver(old, new) = new
<1>1. SubSeq(old, Len(new) + 1, Len(old)) \in Seq(Nat)
  BY SubSeqProperties
<1>2. CopyOver(old, new) \in Seq(Nat)
  BY <1>1 DEF CopyOver
<1>3. ASSUME old = <<>> PROVE CopyOver(old, new) = new
  <2>1. SubSeq(old, Len(new) + 1, Len(old)) = <<>>
    BY <1>3
  <2>2. new \o <<>> = new
    OBVIOUS
  <2>3. QED
    BY <2>1, <2>2, Zenon DEF CopyOver
<1>4. QED
  BY <1>2, <1>3

\* A line changes at most the entry of its own section, and there one field.
LEMMA EntryStep ==
  ASSUME NEW lines, ConfigFile(lines), NEW n \in 1 .. Len(lines), NEW k \in Nat \ {0},
         NEW e, NEW f, e.append \in Seq(Nat), EntryAt(lines, n - 1, k, e),
         f.title = IF lines[n].key = "title" /\ Current(lines, n) = k
                   THEN lines[n].val ELSE e.title,
         f.kernel = IF lines[n].key = "kernel" /\ Current(lines, n) = k
                    THEN lines[n].val ELSE e.kernel,
         f.initrd = IF lines[n].key = "initrd" /\ Current(lines, n) = k
                    THEN lines[n].val ELSE e.initrd,
         f.append = IF lines[n].key = "append" /\ Current(lines, n) = k
                    THEN CopyOver(e.append, lines[n].val) ELSE e.append
  PROVE  EntryAt(lines, n, k, f)
<1>1. f.title = SaysTo(lines, n, k, "title", <<>>)
  BY SaysStep DEF EntryAt
<1>2. f.kernel = SaysTo(lines, n, k, "kernel", NoFile)
  BY SaysStep DEF EntryAt
<1>3. f.initrd = SaysTo(lines, n, k, "initrd", NoFile)
  BY SaysStep DEF EntryAt
<1>4. CASE lines[n].key = "append" /\ Current(lines, n) = k
  <2>1. lines[n].val \in Seq(Nat)
    BY <1>4, LineFacts
  <2>2. ASSUME OneAppend(lines, k) PROVE f.append = SaysTo(lines, n, k, "append", <<>>)
    <3>1. SaysAt(lines, n - 1, k, "append") = {}
      BY <1>4, <2>2, AppendOnce
    <3>2. e.append = <<>>
      BY <3>1 DEF EntryAt
    <3>3. f.append = lines[n].val
      BY <1>4, <2>1, <3>2, CopyOverFacts
    <3>4. QED
      BY <1>4, <3>3, SaysStep
  <2>3. n \in SaysAt(lines, n, k, "append")
    BY <1>4 DEF SaysAt
  <2>4. QED
    BY <1>1, <1>2, <1>3, <2>2, <2>3 DEF EntryAt
<1>5. CASE ~(lines[n].key = "append" /\ Current(lines, n) = k)
  <2>1. f.append = e.append
    BY <1>5
  <2>2. SaysTo(lines, n, k, "append", <<>>) = SaysTo(lines, n - 1, k, "append", <<>>)
    BY <1>5, SaysStep
  <2>3. SaysAt(lines, n - 1, k, "append") \subseteq SaysAt(lines, n, k, "append")
    BY DEF SaysAt
  <2>4. QED
    BY <1>1, <1>2, <1>3, <2>1, <2>2, <2>3 DEF EntryAt
<1>6. QED
  BY <1>4, <1>5

\* A section that has not begun is a new entry.
LEMMA NewEntryFits ==
  ASSUME NEW lines, ConfigFile(lines), NEW n \in 0 .. Len(lines), NEW k \in Nat,
         n = 0 \/ k > Current(lines, n)
  PROVE  EntryAt(lines, n, k, NewEntry)
<1>1. \A key, other : SaysAt(lines, n, k, key) = {} /\ SaysTo(lines, n, k, key, other) = other
  BY SaysNothing
<1>2. QED
  BY <1>1 DEF EntryAt, NewEntry

\* The entry that a line changes, and what it is before.
Place(es, l) == IF l.key = "title" /\ es[Len(es)].title # <<>> THEN Len(es) + 1 ELSE Len(es)
Was(es, l)   == IF Place(es, l) = Len(es) THEN es[Len(es)] ELSE NewEntry

\* What a line does to the entries, field by field: only the last of those
\* there are now is another one, or new.
LEMMA HandleFacts ==
  ASSUME NEW lines, ConfigFile(lines), NEW n \in 1 .. Len(lines),
         NEW es \in Seq(EntryType(lines)), es # <<>>
  PROVE  LET l   == lines[n]
             new == HandleConfigLine(es, l)
             c   == Place(es, l)
             e   == Was(es, l)
         IN /\ new \in Seq(EntryType(lines)) /\ Len(new) = c
            /\ \A k \in 1 .. c - 1 : new[k] = es[k]
            /\ new[c].title  = IF l.key = "title" THEN l.val ELSE e.title
            /\ new[c].kernel = IF l.key = "kernel" THEN l.val ELSE e.kernel
            /\ new[c].initrd = IF l.key = "initrd" THEN l.val ELSE e.initrd
            /\ new[c].append = IF l.key = "append" THEN CopyOver(e.append, l.val) ELSE e.append
<1> DEFINE v == lines[n].val
           m == Len(es)
           E == EntryType(lines)
           new == HandleConfigLine(es, lines[n])
<1>1. /\ m \in Nat \ {0} /\ es[m] \in E /\ DOMAIN es = 1 .. m
      /\ es[m] = [title |-> es[m].title, kernel |-> es[m].kernel,
                  initrd |-> es[m].initrd, append |-> es[m].append]
  <2>1. m \in Nat \ {0} /\ DOMAIN es = 1 .. m
    OBVIOUS
  <2>2. es[m] \in E
    BY <2>1
  <2>3. QED
    BY <2>1, <2>2 DEF EntryType
<1>2. v \in Values(lines)
  BY DEF Values
<1>3. ASSUME NEW r \in E, NEW s, s = [es EXCEPT ![m] = r]
      PROVE  /\ s \in Seq(E) /\ Len(s) = m /\ s[m] = r
             /\ \A k \in 1 .. m - 1 : s[k] = es[k]
  <2>1. m \in 1 .. Len(es) /\ es \in Seq(E) /\ Len(es) = m
    BY <1>1
  <2> HIDE DEF E, m
  <2>2. /\ s \in Seq(E) /\ Len(s) = Len(es)
        /\ \A j \in 1 .. Len(es) : s[j] = IF j = m THEN r ELSE es[j]
    BY <1>3, <2>1, ExceptSeq
  <2>3. QED
    BY <1>1, <2>1, <2>2
<1>4. CASE lines[n].key = "title"
  <2>1. v \in Seq(Nat) /\ new = HandleTitle(es, v)
    BY <1>4, LineFacts DEF HandleConfigLine
  <2>2. CASE es[m].title = <<>>
    <3> DEFINE r == [title |-> v, kernel |-> es[m].kernel,
                     initrd |-> es[m].initrd, append |-> es[m].append]
    <3>1. [es[m] EXCEPT !.title = v] = r
      BY <1>1
    <3>2. new = [es EXCEPT ![m] = r]
      BY <2>1, <2>2, <3>1 DEF HandleTitle, Last
    <3>3. r \in E
      BY <1>1, <2>1 DEF EntryType
    <3>4. /\ new \in Seq(E) /\ Len(new) = m /\ new[m] = r
          /\ \A k \in 1 .. m - 1 : new[k] = es[k]
      <4> HIDE DEF r, m, E, new
      <4>1. QED
        BY <1>3, <3>2, <3>3, ZenonT(60)
    <3>5. Place(es, lines[n]) = m /\ Was(es, lines[n]) = es[m]
      BY <2>2 DEF Place, Was
    <3>6. QED
      BY <1>1, <1>4, <3>4, <3>5
  <2>3. CASE es[m].title # <<>>
    <3> DEFINE r == [title |-> v, kernel |-> NoFile, initrd |-> NoFile, append |-> <<>>]
    <3>1. new = Append(es, r)
      BY <2>1, <2>3 DEF HandleTitle, Last, NewEntry
    <3>2. r \in E
      BY <2>1 DEF EntryType, Values
    <3>3. /\ new \in Seq(E) /\ Len(new) = m + 1 /\ new[m + 1] = r
          /\ \A k \in 1 .. (m + 1) - 1 : new[k] = es[k]
      <4>1. es \in Seq(E) /\ (m + 1) - 1 = m /\ m = Len(es)
        BY <1>1
      <4> HIDE DEF r, E, m
      <4>2. QED
        BY <4>1, <3>1, <3>2, AppendProperties
    <3>4. m + 1 # m
      <4>1. m \in Nat
        BY <1>1
      <4> HIDE DEF m
      <4>2. QED
        BY <4>1
    <3>5. Place(es, lines[n]) = m + 1 /\ Was(es, lines[n]) = NewEntry
      BY <1>4, <2>3, <3>4 DEF Place, Was
    <3>6. QED
      BY <1>4, <3>3, <3>5 DEF NewEntry
  <2>4. QED
    BY <2>2, <2>3
<1>5. CASE lines[n].key = "kernel"
  <2> DEFINE r == [title |-> es[m].title, kernel |-> v,
                   initrd |-> es[m].initrd, append |-> es[m].append]
  <2>1. new = [es EXCEPT ![m].kernel = v]
    BY <1>5 DEF HandleConfigLine
  <2>2. [es[m] EXCEPT !.kernel = v] = r
    BY <1>1
  <2>3. new = [es EXCEPT ![m] = r]
    BY <2>1, <2>2
  <2>4. r \in E
    BY <1>1, <1>2 DEF EntryType
  <2>5. /\ new \in Seq(E) /\ Len(new) = m /\ new[m] = r
        /\ \A k \in 1 .. m - 1 : new[k] = es[k]
    <3> HIDE DEF r, m, E, new
    <3>1. QED
      BY <1>3, <2>3, <2>4, ZenonT(60)
  <2>6. Place(es, lines[n]) = m /\ Was(es, lines[n]) = es[m]
    BY <1>5 DEF Place, Was
  <2>7. QED
    BY <1>1, <1>5, <2>5, <2>6
<1>6. CASE lines[n].key = "initrd"
  <2> DEFINE r == [title |-> es[m].title, kernel |-> es[m].kernel,
                   initrd |-> v, append |-> es[m].append]
  <2>1. new = [es EXCEPT ![m].initrd = v]
    BY <1>6 DEF HandleConfigLine
  <2>2. [es[m] EXCEPT !.initrd = v] = r
    BY <1>1
  <2>3. new = [es EXCEPT ![m] = r]
    BY <2>1, <2>2
  <2>4. r \in E
    BY <1>1, <1>2 DEF EntryType
  <2>5. /\ new \in Seq(E) /\ Len(new) = m /\ new[m] = r
        /\ \A k \in 1 .. m - 1 : new[k] = es[k]
    <3> HIDE DEF r, m, E, new
    <3>1. QED
      BY <1>3, <2>3, <2>4, ZenonT(60)
  <2>6. Place(es, lines[n]) = m /\ Was(es, lines[n]) = es[m]
    BY <1>6 DEF Place, Was
  <2>7. QED
    BY <1>1, <1>6, <2>5, <2>6
<1>7. CASE lines[n].key = "append"
  <2> DEFINE r == [title |-> es[m].title, kernel |-> es[m].kernel,
                   initrd |-> es[m].initrd, append |-> CopyOver(es[m].append, v)]
  <2>1. new = [es EXCEPT ![m].append = CopyOver(es[m].append, v)]
    BY <1>7 DEF HandleConfigLine
  <2>2. [es[m] EXCEPT !.append = CopyOver(es[m].append, v)] = r
    BY <1>1
  <2>3. new = [es EXCEPT ![m] = r]
    BY <2>1, <2>2
  <2>4. r \in E
    <3>1. v \in Seq(Nat) /\ es[m].append \in Seq(Nat)
      BY <1>1, <1>7, LineFacts DEF EntryType
    <3>2. CopyOver(es[m].append, v) \in Seq(Nat)
      BY <3>1, CopyOverFacts
    <3>3. QED
      BY <1>1, <3>2 DEF EntryType
  <2>5. /\ new \in Seq(E) /\ Len(new) = m /\ new[m] = r
        /\ \A k \in 1 .. m - 1 : new[k] = es[k]
    <3> HIDE DEF r, m, E, new
    <3>1. QED
      BY <1>3, <2>3, <2>4, ZenonT(60)
  <2>6. Place(es, lines[n]) = m /\ Was(es, lines[n]) = es[m]
    BY <1>7 DEF Place, Was
  <2>7. QED
    BY <1>1, <1>7, <2>5, <2>6
<1>8. CASE lines[n].key \notin {"title", "kernel", "initrd", "append"}
  <2>1. new = es
    BY <1>8 DEF HandleConfigLine
  <2>2. Place(es, lines[n]) = m /\ Was(es, lines[n]) = es[m]
    BY <1>8 DEF Place, Was
  <2>3. QED
    BY <1>1, <1>8, <2>1, <2>2
<1>9. QED
  BY <1>4, <1>5, <1>6, <1>7, <1>8

LEMMA ParsedStep ==
  ASSUME NEW lines, ConfigFile(lines), NEW n \in 1 .. Len(lines), NEW es,
         ParsedTo(lines, n - 1, es)
  PROVE  ParsedTo(lines, n, HandleConfigLine(es, lines[n]))
<1> DEFINE c == Current(lines, n)
           m == Len(es)
           l == lines[n]
           new == HandleConfigLine(es, l)
           e(k) == IF k <= m THEN es[k] ELSE NewEntry
<1>1. n - 1 \in 0 .. Len(lines) /\ n \in 0 .. Len(lines)
  BY LineFacts
<1>2. es \in Seq(EntryType(lines)) /\ m = Current(lines, n - 1) /\ m \in Nat \ {0} /\ es # <<>>
  <2>1. es \in Seq(EntryType(lines)) /\ m = Current(lines, n - 1)
    BY DEF ParsedTo
  <2>2. m \in Nat \ {0}
    BY <1>1, <2>1, CurrentFacts
  <2>3. QED
    BY <2>1, <2>2
<1>3. c = IF l.key = "title" /\ es[m].title # <<>> THEN m + 1 ELSE m
  <2>1. TitlesUpTo(lines, n - 1) \in Nat
    BY <1>1, TitleCount
  <2>2. es[m].title = <<>> <=> TitlesUpTo(lines, n - 1) = 0
    BY DEF ParsedTo
  <2>3. c = IF l.key = "title" /\ TitlesUpTo(lines, n - 1) > 0
            THEN Current(lines, n - 1) + 1 ELSE Current(lines, n - 1)
    BY <1>1, CurrentFacts
  <2>4. QED
    BY <1>2, <2>1, <2>2, <2>3
<1>4. /\ new \in Seq(EntryType(lines)) /\ Len(new) = c
      /\ \A k \in 1 .. c - 1 : new[k] = es[k]
      /\ new[c].title  = IF l.key = "title" THEN l.val ELSE e(c).title
      /\ new[c].kernel = IF l.key = "kernel" THEN l.val ELSE e(c).kernel
      /\ new[c].initrd = IF l.key = "initrd" THEN l.val ELSE e(c).initrd
      /\ new[c].append = IF l.key = "append" THEN CopyOver(e(c).append, l.val) ELSE e(c).append
  <2>1. c = Place(es, l)
    BY <1>3 DEF Place
  <2>2. e(c) = Was(es, l)
    BY <1>2, <1>3, <2>1 DEF Was
  <2> HIDE DEF e, c
  <2>3. QED
    BY <1>2, <2>1, <2>2, HandleFacts
<1>5. ASSUME NEW k \in 1 .. c
      PROVE  e(k).append \in Seq(Nat) /\ EntryAt(lines, n - 1, k, e(k))
  <2>1. CASE k <= m
    <3>1. k \in 1 .. m
      BY <1>2, <1>3, <2>1
    <3>2. es[k] \in EntryType(lines)
      BY <1>2, <3>1
    <3>3. EntryAt(lines, n - 1, k, es[k])
      BY <3>1 DEF ParsedTo
    <3>4. QED
      BY <2>1, <3>2, <3>3 DEF EntryType
  <2>2. CASE ~(k <= m)
    <3>1. k > Current(lines, n - 1) /\ k \in Nat
      BY <1>2, <1>3, <2>2
    <3>2. EntryAt(lines, n - 1, k, NewEntry)
      BY <1>1, <3>1, NewEntryFits
    <3>3. NewEntry.append \in Seq(Nat)
      BY DEF NewEntry
    <3>4. QED
      BY <2>2, <3>2, <3>3
  <2>3. QED
    BY <2>1, <2>2
<1>6. ASSUME NEW k \in 1 .. c PROVE EntryAt(lines, n, k, new[k])
  <2>1. CASE k = c
    <3>1. k \in Nat \ {0} /\ Current(lines, n) = k
      BY <1>2, <1>3, <2>1
    <3> HIDE DEF e, new
    <3>2. QED
      BY <1>4, <1>5, <2>1, <3>1, EntryStep
  <2>2. CASE k # c
    <3>1. k \in Nat \ {0} /\ Current(lines, n) # k /\ k <= m /\ k \in 1 .. c - 1
      BY <1>2, <1>3, <2>2
    <3>2. new[k] = es[k] /\ e(k) = es[k]
      BY <1>4, <3>1
    <3>3. es[k].append \in Seq(Nat) /\ EntryAt(lines, n - 1, k, es[k])
      BY <1>5, <3>2
    <3> HIDE DEF e, new, c, m
    <3>4. QED
      BY <3>1, <3>2, <3>3, EntryStep
  <2>3. QED
    BY <2>1, <2>2
<1>7. new[Len(new)].title = <<>> <=> TitlesUpTo(lines, n) = 0
  <2>1. /\ TitlesUpTo(lines, n - 1) \in Nat
        /\ TitlesUpTo(lines, n) = TitlesUpTo(lines, n - 1) + (IF l.key = "title" THEN 1 ELSE 0)
        /\ es[m].title = <<>> <=> TitlesUpTo(lines, n - 1) = 0
    BY <1>1, TitleCount DEF ParsedTo
  <2>2. CASE l.key = "title"
    <3>1. l.val # <<>>
      BY <2>2, LineFacts
    <3>2. QED
      BY <1>4, <2>1, <2>2, <3>1
  <2>3. CASE l.key # "title"
    <3>1. c = m /\ e(c) = es[m]
      BY <1>2, <1>3, <2>3
    <3>2. new[Len(new)].title = es[m].title
      BY <1>4, <2>3, <3>1
    <3>3. QED
      BY <2>1, <2>3, <3>2
  <2>4. QED
    BY <2>2, <2>3
<1>8. QED
  <2> HIDE DEF new
  <2>1. Len(new) = Current(lines, n) /\ new \in Seq(EntryType(lines))
    BY <1>4
  <2>2. ParsedTo(lines, n, new)
    BY <1>6, <1>7, <2>1 DEF ParsedTo
  <2>3. QED
    BY <2>2 DEF new

-----------------------------------------------------------------------------
(* All lines of ParseConfig *)

IsEntries(lines, f, m) ==
  f = [n \in 0 .. m |-> IF n = 0 THEN <<NewEntry>> ELSE HandleConfigLine(f[n - 1], lines[n])]

\* The entries after any number of lines.
LEMMA EntriesExist ==
  ASSUME NEW lines, NEW k \in Nat
  PROVE  \E f : IsEntries(lines, f, k)
<1> DEFINE S == {m \in Nat : ~ \E f : IsEntries(lines, f, m)}
<1>1. SUFFICES ASSUME S # {} PROVE FALSE
  OBVIOUS
<1>2. PICK m \in S : \A y \in S : m <= y
  <2>1. S \in SUBSET Nat
    OBVIOUS
  <2>2. QED
    BY <1>1, <2>1, Smallest
<1>3. CASE m = 0
  <2>1. IsEntries(lines, [n \in 0 .. 0 |-> <<NewEntry>>], 0)
    BY DEF IsEntries
  <2>2. QED
    BY <1>2, <1>3, <2>1
<1>4. CASE m # 0
  <2>1. m \in Nat /\ m - 1 \in Nat /\ m - 1 \notin S
    <3>1. S \subseteq Nat
      OBVIOUS
    <3> HIDE DEF S
    <3>2. m \in Nat
      BY <3>1
    <3>3. QED
      BY <1>2, <1>4, <3>2
  <2>2. PICK f : IsEntries(lines, f, m - 1)
    BY <2>1
  <2> DEFINE g == [n \in 0 .. m |-> IF n = m THEN HandleConfigLine(f[m - 1], lines[m]) ELSE f[n]]
  <2>3. f = [n \in 0 .. m - 1 |-> IF n = 0 THEN <<NewEntry>>
                                  ELSE HandleConfigLine(f[n - 1], lines[n])]
    BY <2>2 DEF IsEntries
  <2>4. ASSUME NEW n \in 0 .. m
        PROVE  g[n] = IF n = 0 THEN <<NewEntry>> ELSE HandleConfigLine(g[n - 1], lines[n])
    <3>1. CASE n = 0
      <4>1. g[n] = f[0] /\ f[0] = <<NewEntry>>
        BY <1>4, <2>1, <2>3, <3>1
      <4>2. QED
        BY <3>1, <4>1
    <3>2. CASE n = m /\ n # 0
      <4>1. n - 1 \in 0 .. m /\ n - 1 # m
        BY <2>1, <3>2
      <4>2. g[n - 1] = f[m - 1]
        BY <3>2, <4>1
      <4>3. g[n] = HandleConfigLine(f[m - 1], lines[n])
        BY <3>2
      <4>4. QED
        BY <3>2, <4>2, <4>3
    <3>3. CASE n # m /\ n # 0
      <4>1. n - 1 \in 0 .. m /\ n - 1 # m /\ n \in 0 .. m - 1
        BY <2>1, <3>3
      <4>2. g[n - 1] = f[n - 1] /\ g[n] = f[n]
        BY <3>3, <4>1
      <4>3. f[n] = HandleConfigLine(f[n - 1], lines[n])
        BY <2>3, <3>3, <4>1
      <4>4. QED
        BY <3>3, <4>2, <4>3
    <3>4. QED
      BY <3>1, <3>2, <3>3
  <2>5. g = [n \in 0 .. m |-> IF n = 0 THEN <<NewEntry>> ELSE HandleConfigLine(g[n - 1], lines[n])]
    <3>1. g = [n \in 0 .. m |-> g[n]]
      OBVIOUS
    <3> HIDE DEF g
    <3>2. QED
      BY <2>4, <3>1
  <2>6. QED
    <3> HIDE DEF g
    <3>1. IsEntries(lines, g, m)
      BY <2>5 DEF IsEntries
    <3>2. QED
      BY <1>2, <3>1
<1>5. QED
  BY <1>3, <1>4

\* Before the first line there is a new entry.
LEMMA ParsedStart ==
  ASSUME NEW lines, ConfigFile(lines)
  PROVE  ParsedTo(lines, 0, <<NewEntry>>)
<1>1. 0 \in 0 .. Len(lines)
  BY DEF ConfigFile
<1>2. Current(lines, 0) = 1 /\ TitlesUpTo(lines, 0) = 0
  BY <1>1, CurrentFacts, TitleCount
<1>3. EntryAt(lines, 0, 1, NewEntry)
  BY <1>1, NewEntryFits
<1>4. NewEntry \in EntryType(lines) /\ NewEntry.title = <<>>
  BY DEF NewEntry, EntryType, Values
<1>5. <<NewEntry>> \in Seq(EntryType(lines)) /\ Len(<<NewEntry>>) = 1 /\ <<NewEntry>>[1] = NewEntry
  BY <1>4
<1>6. QED
  BY <1>2, <1>3, <1>4, <1>5 DEF ParsedTo

\* ParseConfig has an entry for every section, and in it what the section says.
LEMMA ParsedAll ==
  ASSUME NEW lines, ConfigFile(lines)
  PROVE  ParsedTo(lines, Len(lines), Entries(lines))
<1>1. Len(lines) \in Nat
  BY DEF ConfigFile
<1> DEFINE f == CHOOSE f : IsEntries(lines, f, Len(lines))
<1>2. IsEntries(lines, f, Len(lines))
  BY <1>1, EntriesExist, Zenon
<1>3. Entries(lines) = f[Len(lines)]
  BY DEF Entries, IsEntries
<1> HIDE DEF f
<1>4. /\ f[0] = <<NewEntry>>
      /\ \A n \in 1 .. Len(lines) : f[n] = HandleConfigLine(f[n - 1], lines[n])
  <2>1. f = [n \in 0 .. Len(lines) |-> IF n = 0 THEN <<NewEntry>>
                                       ELSE HandleConfigLine(f[n - 1], lines[n])]
    BY <1>2 DEF IsEntries
  <2>2. ASSUME NEW n \in 0 .. Len(lines)
        PROVE  f[n] = IF n = 0 THEN <<NewEntry>> ELSE HandleConfigLine(f[n - 1], lines[n])
    BY <2>1
  <2>3. QED
    BY <1>1, <2>2
<1> DEFINE S == {n \in 0 .. Len(lines) : ~ParsedTo(lines, n, f[n])}
<1>5. S = {}
  <2>1. SUFFICES ASSUME S # {} PROVE FALSE
    OBVIOUS
  <2>2. PICK n \in S : \A y \in S : n <= y
    <3>1. S \in SUBSET Nat
      BY <1>1
    <3>2. QED
      BY <2>1, <3>1, Smallest
  <2>3. n # 0
    BY <1>4, ParsedStart
  <2>4. n \in 1 .. Len(lines) /\ n - 1 \notin S /\ n - 1 \in 0 .. Len(lines)
    <3>1. n \in 0 .. Len(lines)
      OBVIOUS
    <3>2. n \in 1 .. Len(lines) /\ n - 1 \in 0 .. Len(lines) /\ ~(n <= n - 1)
      BY <1>1, <2>3, <3>1
    <3> HIDE DEF S
    <3>3. QED
      BY <2>2, <3>2
  <2>5. ParsedTo(lines, n - 1, f[n - 1])
    BY <2>4
  <2>6. ParsedTo(lines, n, f[n])
    BY <1>4, <2>4, <2>5, ParsedStep
  <2>7. QED
    BY <2>2, <2>6
<1>6. QED
  BY <1>1, <1>3, <1>5

\* ParseConfig: going through linuxboot.cfg line by line finds an entry for
\* every section, with the files, the command line and the default that the
\* section's own lines say.
THEOREM ParseConfigFacts ==
  ASSUME NEW lines, ConfigFile(lines)
  PROVE  LET p == ParseConfig(lines)
             n == Len(p.entries)
         IN /\ n \in Nat \ {0} /\ n = SectionCount(lines)
            /\ p.isDefault \in 0 .. n
            /\ SectionDefault(lines) = IF p.isDefault = 0 THEN 1 ELSE p.isDefault
            /\ \A k \in 1 .. n :
                 /\ p.entries[k].kernel = Says(lines, k, "kernel", NoFile)
                 /\ p.entries[k].initrd = Says(lines, k, "initrd", NoFile)
                 /\ OneAppend(lines, k) => p.entries[k].append = Says(lines, k, "append", <<>>)
<1> DEFINE es == Entries(lines)
           titles == [i \in DOMAIN es |-> es[i].title]
<1>1. ParsedTo(lines, Len(lines), es)
  BY ParsedAll
<1>2. es \in Seq(EntryType(lines)) /\ Len(es) = SectionCount(lines) /\ Len(es) \in Nat \ {0}
  <2>1. es \in Seq(EntryType(lines)) /\ Len(es) = Current(lines, Len(lines))
    BY <1>1 DEF ParsedTo
  <2>2. Len(lines) \in 0 .. Len(lines)
    BY DEF ConfigFile
  <2>3. QED
    BY <2>1, <2>2, SectionCountIs, CurrentFacts
<1>3. ASSUME NEW k \in 1 .. Len(es)
      PROVE  /\ es[k].title = Says(lines, k, "title", <<>>)
             /\ es[k].kernel = Says(lines, k, "kernel", NoFile)
             /\ es[k].initrd = Says(lines, k, "initrd", NoFile)
             /\ OneAppend(lines, k) => es[k].append = Says(lines, k, "append", <<>>)
  <2>1. EntryAt(lines, Len(lines), k, es[k]) /\ k \in Nat \ {0}
    BY <1>1, <1>2 DEF ParsedTo
  <2>2. QED
    BY <2>1, SaysAll DEF EntryAt
<1>4. titles = [k \in 1 .. SectionCount(lines) |-> Says(lines, k, "title", <<>>)]
  <2>1. DOMAIN es = 1 .. Len(es)
    BY <1>2
  <2> HIDE DEF es
  <2>2. QED
    BY <1>2, <1>3, <2>1
<1>5. DefaultIn(lines, titles) \in 0 .. Len(es)
  <2>1. DOMAIN titles = 1 .. Len(es)
    BY <1>2
  <2> HIDE DEF titles, es
  <2> DEFINE Fits == {i \in DOMAIN titles :
                        IsPrefix(lines[Max(Positions(lines, "default"))].val, titles[i])}
  <2>2. CASE Positions(lines, "default") = {} \/ Fits = {}
    BY <1>2, <2>2 DEF DefaultIn
  <2>3. CASE Positions(lines, "default") # {} /\ Fits # {}
    <3>1. DefaultIn(lines, titles) = Min(Fits)
      BY <2>3 DEF DefaultIn
    <3>2. Fits \subseteq 1 .. Len(es)
      BY <2>1
    <3>3. Min(Fits) \in Fits
      <4>1. Fits \in SUBSET Nat
        BY <1>2, <3>2
      <4> HIDE DEF Fits
      <4>2. QED
        BY <2>3, <4>1, MinIs
    <3>4. QED
      BY <1>2, <3>1, <3>2, <3>3
  <2>4. QED
    BY <2>2, <2>3
<1>6. ParseConfig(lines).entries = es /\ ParseConfig(lines).isDefault = DefaultIn(lines, titles)
  BY DEF ParseConfig
<1>7. SectionDefault(lines) = IF DefaultIn(lines, titles) = 0 THEN 1 ELSE DefaultIn(lines, titles)
  <2> HIDE DEF titles
  <2>1. QED
    BY <1>4 DEF SectionDefault
<1>8. QED
  <2> HIDE DEF titles, es
  <2>1. QED
    BY <1>2, <1>3, <1>5, <1>6, <1>7

-----------------------------------------------------------------------------
(* Icons and windows *)

LEMMA MediumFacts ==
  ASSUME NEW m \in Media
  PROVE  m.parsed = ParseConfig(m.lines) /\ ConfigFile(m.lines)
<1>1. m = Medium(m.lines, m.files) /\ ConfigFile(m.lines)
  BY BootAssumption
<1>2. Medium(m.lines, m.files).parsed = ParseConfig(m.lines)
  BY DEF Medium
<1>3. QED
  BY <1>1, <1>2, Zenon

IconType == [kind : {"cd", "web", "net", "advanced"}]
            \cup [kind : {"fatx", "native"}, medium : Media]

LEMMA IconsOfType ==
  ASSUME NEW kind \in {"fatx", "native"}, NEW media \in Seq(Media)
  PROVE  IconsOf(kind, media) \in Seq(IconType)
<1>1. Len(media) \in Nat /\ DOMAIN media = 1 .. Len(media)
  OBVIOUS
<1>2. \A i \in 1 .. Len(media) : [kind |-> kind, medium |-> media[i]] \in IconType
  BY DEF IconType
<1>3. IconsOf(kind, media) = [i \in 1 .. Len(media) |-> [kind |-> kind, medium |-> media[i]]]
  BY <1>1 DEF IconsOf
<1> HIDE DEF IconType
<1>4. QED
  BY <1>1, <1>2, <1>3

\* IconMenuInit finds icons; three are always there.
LEMMA IconsType ==
  ASSUME NEW c \in Consoles
  PROVE  /\ CdIcons(c) \in Seq(IconType) /\ FatXIcons(c) \in Seq(IconType)
         /\ NativeIcons(c) \in Seq(IconType) /\ Booters(c) \in Seq(IconType)
         /\ FirstSelected(c) \in 1 .. Len(Booters(c)) + 1
<1>1. c[1] \in DriveType /\ c[2] \in DriveType
  BY BootAssumption DEF Drives
<1>2. ASSUME NEW d \in DriveType
      PROVE  /\ CdIcon(d) \in Seq(IconType)
             /\ d.kind = "hdd" => d.fatx \in Seq(Media) /\ d.parts \in Seq(Media)
  <2>1. [kind |-> "cd"] \in IconType
    BY DEF IconType
  <2>2. CdIcon(d) \in Seq(IconType)
    <3> HIDE DEF IconType
    <3>1. QED
      BY <2>1 DEF CdIcon
  <2>3. ASSUME d.kind = "hdd" PROVE d.fatx \in Seq(Media) /\ d.parts \in Seq(Media)
    <3>1. d \notin [kind : {"atapi", "none"}]
      BY <2>3
    <3>2. d \in [kind : {"hdd"}, mbr : BOOLEAN, fatx : Seq(Media), parts : Seq(Media)]
      BY <3>1 DEF DriveType
    <3>3. QED
      BY <3>2
  <2>4. QED
    BY <2>2, <2>3
<1>3. CdIcons(c) \in Seq(IconType)
  BY <1>1, <1>2 DEF CdIcons
<1>4. FatXIcons(c) \in Seq(IconType)
  BY <1>1, <1>2, IconsOfType DEF FatXIcons
<1>5. ASSUME NEW d \in DriveType PROVE IconsOf("native", NativeMedia(d)) \in Seq(IconType)
  <2>1. NativeMedia(d) \in Seq(Media)
    BY <1>2 DEF NativeMedia
  <2>2. QED
    BY <2>1, IconsOfType
<1>6. NativeIcons(c) \in Seq(IconType)
  BY <1>1, <1>5 DEF NativeIcons
<1>7. Booters(c) \in Seq(IconType)
  BY <1>3, <1>4, <1>6 DEF Booters
<1>8. FirstSelected(c) \in 1 .. Len(Booters(c)) + 1
  <2> DEFINE f == FatXIcons(c)
             n == NativeIcons(c)
             d == CdIcons(c)
  <2>1. Len(Booters(c)) = (Len(d) + Len(f)) + Len(n) \/ Len(Booters(c)) = Len(d) + (Len(f) + Len(n))
    BY <1>3, <1>4, <1>6 DEF Booters
  <2>2. Len(d) \in Nat /\ Len(f) \in Nat /\ Len(n) \in Nat
    BY <1>3, <1>4, <1>6
  <2>3. f \o n # <<>> => Len(f) + Len(n) > 0
    <3>1. f \o n \in Seq(IconType) /\ Len(f \o n) = Len(f) + Len(n)
      BY <1>4, <1>6, ConcatProperties
    <3>2. f \o n # <<>> => Len(f \o n) > 0
      BY <3>1, EmptySeq
    <3>3. QED
      BY <3>1, <3>2
  <2> HIDE DEF f, n, d
  <2>4. QED
    BY <2>1, <2>2, <2>3 DEF FirstSelected, f, n
<1>9. QED
  BY <1>3, <1>4, <1>6, <1>7, <1>8

LEMMA AllIcons ==
  ASSUME console \in Consoles
  PROVE  /\ Icons \in Seq(IconType) /\ Len(Icons) = Len(Booters(console)) + 3
         /\ Len(Icons) \in Nat \ {0}
<1>1. Booters(console) \in Seq(IconType)
  BY IconsType
<1> DEFINE s == <<[kind |-> "web"], [kind |-> "net"], [kind |-> "advanced"]>>
<1>2. s \in Seq(IconType) /\ Len(s) = 3
  BY DEF IconType
<1>3. Icons = Booters(console) \o s
  BY DEF Icons
<1> HIDE DEF s
<1>4. Icons \in Seq(IconType) /\ Len(Icons) = Len(Booters(console)) + Len(s)
  BY <1>1, <1>2, <1>3, ConcatProperties
<1>5. QED
  BY <1>1, <1>2, <1>4

\* Moving stays among the entries, and keeps a visible selection visible.
LEMMA MoveFacts ==
  ASSUME NEW n \in Nat, NEW size \in Nat \ {0}, NEW a \in 1 .. n, NEW b \in 1 .. n, NEW w,
         w \in {MoveOn([first |-> a, sel |-> b], n, size), MoveBack([first |-> a, sel |-> b])}
  PROVE  /\ w.sel \in 1 .. n /\ w.first \in 1 .. n
         /\ b \in a .. a + size - 1 => w.sel \in w.first .. w.first + size - 1
<1>1. Min({a + size - 1, n}) = IF a + size - 1 <= n THEN a + size - 1 ELSE n
  BY MinOfTwo
<1>2. CASE w = MoveOn([first |-> a, sel |-> b], n, size)
  <2>1. CASE b = n
    BY <1>2, <2>1 DEF MoveOn
  <2>2. CASE b # n /\ b = Min({a + size - 1, n})
    <3>1. w = [sel |-> b + 1, first |-> a + 1] /\ b = a + size - 1
      BY <1>1, <1>2, <2>2 DEF MoveOn
    <3>2. QED
      BY <2>2, <3>1
  <2>3. CASE b # n /\ b # Min({a + size - 1, n})
    <3>1. w = [sel |-> b + 1, first |-> a] /\ b # a + size - 1
      BY <1>1, <1>2, <2>3 DEF MoveOn
    <3>2. QED
      BY <2>3, <3>1
  <2>4. QED
    BY <2>1, <2>2, <2>3
<1>3. CASE w = MoveBack([first |-> a, sel |-> b])
  BY <1>3 DEF MoveBack
<1>4. QED
  BY <1>2, <1>3

-----------------------------------------------------------------------------
(* The open menus *)

\* Menus of which those of a boot menu have n items.
MenusOf(n) == {ms \in Seq(MenuType) : \A i \in DOMAIN ms : ms[i].kind = "boot" => ms[i].items = n}

LEMMA NoMenus ==
  ASSUME NEW n
  PROVE  <<>> \in MenusOf(n)
BY DEF MenusOf

LEMMA MenuSet ==
  ASSUME NEW n, NEW ms \in MenusOf(n), ms # <<>>, NEW r \in MenuType,
         r.kind = ms[1].kind, r.items = ms[1].items
  PROVE  /\ [ms EXCEPT ![1] = r] \in MenusOf(n) /\ [ms EXCEPT ![1] = r] # <<>>
         /\ Len([ms EXCEPT ![1] = r]) = Len(ms)
         /\ \A i \in 1 .. Len(ms) : [ms EXCEPT ![1] = r][i] = IF i = 1 THEN r ELSE ms[i]
<1> DEFINE s == [ms EXCEPT ![1] = r]
<1>1. ms \in Seq(MenuType) /\ Len(ms) \in Nat \ {0} /\ 1 \in 1 .. Len(ms)
  BY DEF MenusOf
<1>2. /\ s \in Seq(MenuType) /\ Len(s) = Len(ms)
      /\ \A i \in 1 .. Len(ms) : s[i] = IF i = 1 THEN r ELSE ms[i]
  BY <1>1, ExceptSeq
<1> HIDE DEF s
<1>3. s # <<>>
  BY <1>1, <1>2
<1>4. \A i \in 1 .. Len(ms) : ms[i].kind = "boot" => ms[i].items = n
  BY <1>1 DEF MenusOf
<1>5. \A i \in DOMAIN s : s[i].kind = "boot" => s[i].items = n
  BY <1>1, <1>2, <1>4
<1>6. s \in MenusOf(n)
  BY <1>2, <1>5 DEF MenusOf
<1>7. QED
  BY <1>2, <1>3, <1>6 DEF s

\* A menu with its window moved.
Windowed(m, a, b) == [m EXCEPT !.first = a, !.sel = b]

LEMMA MenuMoved ==
  ASSUME NEW m \in MenuType, NEW a \in 1 .. m.items, NEW b \in 1 .. m.items
  PROVE  /\ Windowed(m, a, b) \in MenuType /\ Windowed(m, a, b).kind = m.kind
         /\ Windowed(m, a, b).items = m.items /\ Windowed(m, a, b).first = a
         /\ Windowed(m, a, b).sel = b
<1> DEFINE T == [kind : {"boot", "web", "advanced", "tools"}, items : Nat \ {0},
                 first : Nat \ {0}, sel : Nat \ {0}, clock : 1 .. TimeWait + 1]
           r == Windowed(m, a, b)
<1>1. m \in T /\ m.items \in Nat
  BY DEF MenuType
<1>2. a \in Nat \ {0} /\ b \in Nat \ {0} /\ a <= m.items /\ b <= m.items
  BY <1>1
<1>3. /\ r \in T /\ r.kind = m.kind /\ r.items = m.items
      /\ r.first = a /\ r.sel = b
  BY <1>1, <1>2 DEF Windowed
<1> HIDE DEF r
<1>4. r \in MenuType
  BY <1>2, <1>3 DEF MenuType
<1>5. QED
  BY <1>3, <1>4 DEF r

LEMMA MenuPush ==
  ASSUME NEW n, NEW ms \in MenusOf(n), NEW r \in MenuType, r.kind = "boot" => r.items = n
  PROVE  /\ <<r>> \o ms \in MenusOf(n) /\ <<r>> \o ms # <<>>
         /\ Len(<<r>> \o ms) = Len(ms) + 1
<1> DEFINE s == <<r>> \o ms
<1>1. ms \in Seq(MenuType) /\ Len(ms) \in Nat /\ <<r>> \in Seq(MenuType)
      /\ Len(<<r>>) = 1 /\ <<r>>[1] = r
  BY DEF MenusOf
<1>2. /\ s \in Seq(MenuType) /\ Len(s) = Len(ms) + 1
      /\ \A i \in 1 .. Len(ms) + 1 : s[i] = IF i = 1 THEN r ELSE ms[i - 1]
  <2>1. /\ s \in Seq(MenuType) /\ Len(s) = Len(<<r>>) + Len(ms)
        /\ \A i \in 1 .. Len(<<r>>) + Len(ms) :
             s[i] = IF i <= Len(<<r>>) THEN <<r>>[i] ELSE ms[i - Len(<<r>>)]
    BY <1>1, ConcatProperties
  <2> HIDE DEF s
  <2>2. QED
    BY <1>1, <2>1
<1> HIDE DEF s
<1>3. \A i \in 1 .. Len(ms) : ms[i].kind = "boot" => ms[i].items = n
  BY <1>1 DEF MenusOf
<1>4. \A i \in DOMAIN s : s[i].kind = "boot" => s[i].items = n
  BY <1>1, <1>2, <1>3
<1>5. s \in MenusOf(n) /\ s # <<>>
  BY <1>1, <1>2, <1>4 DEF MenusOf
<1>6. QED
  BY <1>2, <1>5 DEF s

LEMMA MenuPop ==
  ASSUME NEW n, NEW ms \in MenusOf(n), ms # <<>>
  PROVE  /\ Tail(ms) \in MenusOf(n) /\ Len(Tail(ms)) = Len(ms) - 1
         /\ Tail(ms) = <<>> <=> Len(ms) = 1
<1>1. ms \in Seq(MenuType) /\ Len(ms) \in Nat \ {0}
  BY DEF MenusOf
<1>2. /\ Tail(ms) \in Seq(MenuType) /\ Len(Tail(ms)) = Len(ms) - 1
      /\ \A i \in 1 .. Len(Tail(ms)) : Tail(ms)[i] = ms[i + 1]
  BY <1>1, HeadTailProperties
<1>3. \A i \in 1 .. Len(ms) : ms[i].kind = "boot" => ms[i].items = n
  BY <1>1 DEF MenusOf
<1> DEFINE s == Tail(ms)
<1> HIDE DEF s
<1>4. s \in Seq(MenuType) /\ Len(s) = Len(ms) - 1 /\ \A i \in 1 .. Len(s) : s[i] = ms[i + 1]
  BY <1>2 DEF s
<1>5. \A i \in DOMAIN s : s[i].kind = "boot" => s[i].items = n
  <2>1. DOMAIN s = 1 .. Len(s) /\ \A i \in 1 .. Len(s) : i + 1 \in 1 .. Len(ms)
    BY <1>1, <1>4
  <2>2. QED
    BY <1>3, <1>4, <2>1
<1>6. s \in MenusOf(n) /\ (s = <<>> <=> Len(s) = 0)
  BY <1>4, <1>5 DEF MenusOf
<1>7. QED
  BY <1>1, <1>4, <1>6 DEF s

\* The open menu, while one runs.
LEMMA MenuFacts ==
  ASSUME NEW n, menus \in MenusOf(n), menus # <<>>
  PROVE  /\ Len(menus) \in Nat \ {0} /\ menu = menus[1] /\ menu \in MenuType
         /\ menu.kind = "boot" => menu.items = n
<1>1. menus \in Seq(MenuType) /\ Len(menus) \in Nat \ {0} /\ 1 \in DOMAIN menus
  BY DEF MenusOf
<1>2. menu = menus[1]
  BY <1>1 DEF menu
<1>3. QED
  BY <1>1, <1>2 DEF MenusOf

-----------------------------------------------------------------------------
(* The inductive invariant *)

Items == Len(config.medium.parsed.entries)

\* The invariant but for the typing of what a step may leave alone.
LEMMA Restored ==
  ASSUME TypeOK', MenusFit', SteeredOff', menus' \in MenusOf(Items'), BootsChosenEntry',
         at' = "loading" => config'.entry = meant' /\ meant' \in 1 .. Items'
  PROVE  BootInv'
<1>1. EntryFits'
  BY DEF EntryFits, MenusOf, Items
<1>2. QED
  BY <1>1 DEF BootInv

LEMMA OpenMenus ==
  ASSUME BootInv
  PROVE  menus \in MenusOf(Items) /\ config.medium \in Media /\ Items \in Nat \ {0}
<1>1. menus \in MenusOf(Items)
  BY DEF BootInv, TypeOK, EntryFits, MenusOf, Items
<1>2. config.medium \in Media
  BY DEF BootInv, TypeOK
<1>3. Items \in Nat \ {0}
  BY <1>2, MediumFacts, ParseConfigFacts DEF Items
<1>4. QED
  BY <1>1, <1>2, <1>3

LEMMA IconsSame ==
  ASSUME UNCHANGED console
  PROVE  Icons' = Icons
BY DEF Icons

LEMMA InitInv == Init => BootInv
<1> SUFFICES ASSUME Init PROVE BootInv
  OBVIOUS
<1> USE DEF Init
<1>1. FirstSelected(console) \in 1 .. Len(Icons) /\ 1 \in 1 .. Len(Icons)
  <2>1. /\ FirstSelected(console) \in 1 .. Len(Booters(console)) + 1
        /\ Booters(console) \in Seq(IconType)
    BY IconsType
  <2>2. Len(Icons) = Len(Booters(console)) + 3
    BY AllIcons
  <2>3. Len(Booters(console)) \in Nat
    BY <2>1
  <2>4. QED
    BY <2>1, <2>2, <2>3
<1>2. NoConfig \in [kind : {"none", "cd", "fatx", "native"}, medium : Media, entry : Nat \ {0}]
  BY BootAssumption DEF NoConfig
<1>3. TimeWait \in Nat \ {0} /\ menus \in Seq(MenuType)
  BY BootAssumption
<1>4. TypeOK
  <2>1. 1 \in 0 .. TimeWait + 1 /\ 1 \in 1 .. TimeWait + 1
    BY <1>3
  <2>2. at \in Choosing
    BY DEF Choosing
  <2>3. config \in [kind : {"none", "cd", "fatx", "native"}, medium : Media, entry : Nat \ {0}]
    BY <1>2
  <2>4. temp \in 0 .. TimeWait + 1 /\ clock \in 1 .. TimeWait + 1 /\ meant \in Nat \ {0}
    BY <2>1
  <2>5. selected \in 1 .. Len(Icons) /\ firstVisible \in 1 .. Len(Icons)
    BY <1>1
  <2>6. QED
    BY <1>3, <2>2, <2>3, <2>4, <2>5 DEF TypeOK
<1>5. EntryFits /\ MenusFit /\ SteeredOff /\ BootsChosenEntry
  BY DEF EntryFits, MenusFit, SteeredOff, BootsChosenEntry
<1>6. QED
  BY <1>4, <1>5 DEF BootInv

LEMMA TickStep ==
  ASSUME BootInv, Tick
  PROVE  BootInv'
<1> USE DEF Tick
<1>1. menus \in MenusOf(Items) /\ TimeWait \in Nat \ {0} /\ TypeOK
  BY OpenMenus, BootAssumption DEF BootInv
<1>2. ASSUME NEW t \in 1 .. TimeWait + 1 PROVE Later(t) \in 1 .. TimeWait + 1
  BY <1>1 DEF Later
<1>3. menus' \in MenusOf(Items) /\ (menus' = <<>> <=> menus = <<>>)
  <2>1. CASE at = "text"
    <3> DEFINE r == [menus[1] EXCEPT !.clock = Later(menus[1].clock)]
    <3>1. menus # <<>>
      BY <2>1 DEF BootInv, MenusFit
    <3>2. menus[1] \in MenuType
      BY <1>1, <3>1, MenuFacts
    <3>3. r \in MenuType /\ r.kind = menus[1].kind /\ r.items = menus[1].items
      BY <1>2, <3>2 DEF MenuType
    <3>4. menus' = [menus EXCEPT ![1] = r]
      BY <2>1
    <3> HIDE DEF r
    <3>5. [menus EXCEPT ![1] = r] \in MenusOf(Items) /\ [menus EXCEPT ![1] = r] # <<>>
      BY <1>1, <3>1, <3>3, MenuSet
    <3>6. QED
      BY <3>1, <3>4, <3>5
  <2>2. CASE at # "text"
    BY <1>1, <2>2
  <2>3. QED
    BY <2>1, <2>2
<1>4. Items' = Items
  BY DEF Items
<1>5. TypeOK'
  <2>1. clock' \in 1 .. TimeWait + 1 /\ menus' \in Seq(MenuType)
    BY <1>1, <1>2, <1>3 DEF TypeOK, MenusOf
  <2>2. QED
    BY <1>1, <2>1, IconsSame DEF TypeOK, icons, ghosts
<1>6. MenusFit' /\ SteeredOff' /\ BootsChosenEntry'
  BY <1>3 DEF BootInv, MenusFit, SteeredOff, BootsChosenEntry, ghosts
<1>7. at' # "loading"
  OBVIOUS
<1>8. QED
  BY <1>3, <1>4, <1>5, <1>6, <1>7, Restored

ConfigType == [kind : {"none", "cd", "fatx", "native"}, medium : Media, entry : Nat \ {0}]

\* Another entry of the same medium.
LEMMA EntrySet ==
  ASSUME config \in ConfigType, NEW e \in Nat \ {0}, config' = [config EXCEPT !.entry = e]
  PROVE  /\ config' \in ConfigType /\ config'.medium = config.medium
         /\ config'.entry = e /\ Items' = Items
<1>1. config' \in ConfigType /\ config'.medium = config.medium /\ config'.entry = e
  BY DEF ConfigType
<1>2. QED
  BY <1>1 DEF Items

\* OpenText on the menus.
LEMMA OpenFacts ==
  ASSUME menus \in MenusOf(Items), NEW kind \in {"boot", "web", "advanced", "tools"},
         NEW items \in Nat \ {0}, NEW sel \in 1 .. items, NEW timeout,
         kind = "boot" => items = Items, OpenText(kind, items, sel, timeout)
  PROVE  menus' \in MenusOf(Items) /\ menus' # <<>> /\ Len(menus') = Len(menus) + 1
<1> DEFINE r == [kind |-> kind, items |-> items, first |-> 1, sel |-> sel, clock |-> 1]
<1>1. r \in MenuType /\ r.kind = kind /\ r.items = items
  <2>1. 1 \in 1 .. TimeWait + 1
    BY BootAssumption
  <2>2. QED
    BY <2>1 DEF MenuType
<1>2. menus' = <<r>> \o menus
  BY DEF OpenText
<1> HIDE DEF r
<1>3. QED
  BY <1>1, <1>2, MenuPush

LEMMA DrawBootMenuStep ==
  ASSUME BootInv, DrawBootMenu
  PROVE  BootInv'
<1> DEFINE p == config.medium.parsed
           ls == config.medium.lines
           e == IF Items = 1 THEN 1 ELSE DefaultEntry(p)
<1>1. /\ menus \in MenusOf(Items) /\ config \in ConfigType /\ TypeOK /\ Items \in Nat \ {0}
      /\ TimeWait \in Nat \ {0}
  BY OpenMenus, BootAssumption DEF BootInv, TypeOK, ConfigType
<1>2. e \in 1 .. Items /\ (Items = 1 \/ timedOut => e = SectionDefault(ls))
  <2>1. p = ParseConfig(ls) /\ ConfigFile(ls)
    BY OpenMenus, MediumFacts
  <2>2. Items = Len(ParseConfig(ls).entries) /\ p.isDefault = ParseConfig(ls).isDefault
    BY <2>1 DEF Items
  <2> HIDE DEF ls, p
  <2>3. /\ p.isDefault \in 0 .. Items
        /\ SectionDefault(ls) = IF p.isDefault = 0 THEN 1 ELSE p.isDefault
    BY <2>1, <2>2, ParseConfigFacts
  <2>4. QED
    BY <1>1, <2>3 DEF DefaultEntry
<1>3. /\ config' = [config EXCEPT !.entry = e]
      /\ \/ /\ Items = 1 \/ timedOut
            /\ at' = "loading" /\ meant' = SectionDefault(ls) /\ UNCHANGED <<temp, menus>>
         \/ OpenText("boot", Items, e, 0) /\ at' = "text" /\ UNCHANGED meant
  BY DEF DrawBootMenu, Items
<1> HIDE DEF p, e, ls
<1>4. config' \in ConfigType /\ config'.entry = e /\ Items' = Items
  BY <1>1, <1>2, <1>3, EntrySet
<1>5. /\ menus' \in MenusOf(Items) /\ (at' = "text" => menus' # <<>>)
      /\ at' \in {"loading", "text"}
      /\ temp' \in {temp, 0}
      /\ meant' \in {meant, e} /\ (at' = "loading" => meant' = e)
  <2>1. CASE /\ Items = 1 \/ timedOut
             /\ at' = "loading" /\ meant' = SectionDefault(ls) /\ UNCHANGED <<temp, menus>>
    BY <1>1, <1>2, <2>1
  <2>2. CASE OpenText("boot", Items, e, 0) /\ at' = "text" /\ UNCHANGED meant
    <3>1. temp' = 0
      BY <2>2 DEF OpenText
    <3>2. QED
      BY <1>1, <1>2, <2>2, <3>1, OpenFacts
  <2>3. QED
    BY <1>3, <2>1, <2>2
<1>6. UNCHANGED <<console, disc, tray, icons, clock, timedOut, mem, auto, steered, touched, unread>>
  BY DEF DrawBootMenu
<1>7. TypeOK'
  <2>1. menus' \in Seq(MenuType) /\ temp' \in 0 .. TimeWait + 1 /\ meant' \in Nat \ {0}
    BY <1>1, <1>2, <1>5 DEF TypeOK, MenusOf
  <2>2. Icons' = Icons /\ UNCHANGED <<selected, firstVisible>>
    BY <1>6, IconsSame DEF icons
  <2>3. QED
    BY <1>1, <1>4, <1>5, <1>6, <2>1, <2>2 DEF TypeOK, ConfigType
<1>8. MenusFit' /\ SteeredOff' /\ BootsChosenEntry'
  BY <1>5 DEF MenusFit, SteeredOff, BootsChosenEntry, Choosing
<1>9. QED
  BY <1>2, <1>4, <1>5, <1>7, <1>8, Restored

\* Choosing an icon with the time-out at t, when none was open.
LEMMA ChooseFacts ==
  ASSUME menus = <<>>, config \in ConfigType, NEW icon \in IconType, NEW t \in 0 .. TimeWait + 1,
         Choose(icon, t)
  PROVE  /\ menus' \in MenusOf(Items') /\ config' \in ConfigType /\ temp' \in 0 .. TimeWait + 1
         /\ at' \in {"cdcheck", "net", "drawing", "text"}
         /\ at' = "text" => menus' # <<>>
         /\ at' # "text" => menus' = <<>> /\ temp' = t
<1>1. menus \in MenusOf(Items) /\ menus \in MenusOf(Items')
  BY NoMenus
<1>2. TimeWait \in Nat \ {0} /\ OtherItems \in Nat \ {0}
  BY BootAssumption
<1>3. CASE /\ icon.kind \in {"cd", "net"}
           /\ at' = IF icon.kind = "cd" THEN "cdcheck" ELSE "net"
           /\ temp' = t /\ UNCHANGED <<config, menus>>
  BY <1>1, <1>3
<1>4. CASE /\ icon.kind \in {"fatx", "native"}
           /\ CallDrawBootMenu(icon.kind, icon.medium)
           /\ temp' = t /\ UNCHANGED menus
  <2>1. icon.medium \in Media /\ icon.kind \in {"fatx", "native"}
    BY <1>4 DEF IconType
  <2>2. config' = [kind |-> icon.kind, medium |-> icon.medium, entry |-> 1] /\ at' = "drawing"
    BY <1>4 DEF CallDrawBootMenu
  <2>3. config' \in ConfigType
    BY <2>1, <2>2 DEF ConfigType
  <2>4. QED
    BY <1>1, <1>4, <2>2, <2>3
<1>5. CASE /\ icon.kind \in {"web", "advanced"}
           /\ OpenText(icon.kind, OtherItems, 1, IF icon.kind = "web" THEN 1 ELSE 0)
           /\ at' = "text"
           /\ UNCHANGED config
  <2>1. Items' = Items
    BY <1>5 DEF Items
  <2>2. temp' \in {0, 1}
    BY <1>5 DEF OpenText
  <2>3. 1 \in 1 .. OtherItems
    BY <1>2
  <2>4. menus' \in MenusOf(Items) /\ menus' # <<>>
    BY <1>1, <1>2, <1>5, <2>3, OpenFacts
  <2>5. QED
    BY <1>2, <1>5, <2>1, <2>2, <2>4
<1>6. QED
  BY <1>3, <1>4, <1>5 DEF Choose

\* One turn of the icon menu: where the selection goes, and the time-out.
LEMMA IconTurnFacts ==
  ASSUME BootInv, NEW pad \in Pads, NEW press \in BOOLEAN, IconTurn(pad, press),
         NEW t, t = IF pad # "none" \/ temp = 0 THEN 0 ELSE clock
  PROVE  /\ t \in 0 .. TimeWait + 1 /\ Expired(t) \in BOOLEAN /\ menus = <<>>
         /\ selected' \in 1 .. Len(Icons) /\ firstVisible' \in 1 .. Len(Icons)
         /\ steered' => t = 0
         /\ \/ Choose(Icons[selected'], t) /\ auto' = Expired(t)
            \/ at' = at /\ temp' = t /\ UNCHANGED <<config, menus, auto>>
<1> DEFINE w == Moved(pad)
<1>1. /\ temp \in 0 .. TimeWait + 1 /\ clock \in 1 .. TimeWait + 1 /\ TimeWait \in Nat \ {0}
      /\ selected \in 1 .. Len(Icons) /\ firstVisible \in 1 .. Len(Icons)
  BY BootAssumption DEF BootInv, TypeOK
<1>2. t \in 0 .. TimeWait + 1 /\ Expired(t) \in BOOLEAN
  BY <1>1 DEF Expired
<1>3. at = "icons" /\ menus = <<>>
  BY DEF IconTurn, BootInv, MenusFit, Choosing
<1>4. w.sel \in 1 .. Len(Icons) /\ w.first \in 1 .. Len(Icons)
  <2>1. Len(Icons) \in Nat /\ Bays \in Nat \ {0}
    BY AllIcons, BootAssumption DEF BootInv, TypeOK
  <2>2. CASE pad = "right"
    <3>1. w = MoveOn([first |-> firstVisible, sel |-> selected], Len(Icons), Bays)
      BY <2>2 DEF Moved
    <3> HIDE DEF w
    <3>2. QED
      BY <1>1, <2>1, <3>1, MoveFacts
  <2>3. CASE pad = "left"
    <3>1. w = MoveBack([first |-> firstVisible, sel |-> selected])
      BY <2>3 DEF Moved
    <3> HIDE DEF w
    <3>2. QED
      BY <1>1, <2>1, <3>1, MoveFacts
  <2>4. CASE pad \notin {"left", "right"}
    BY <1>1, <2>4 DEF Moved
  <2>5. QED
    BY <2>2, <2>3, <2>4
<1>5. /\ selected' = w.sel /\ firstVisible' = w.first
      /\ \/ Choose(Icons[w.sel], t) /\ auto' = Expired(t)
         \/ at' = at /\ temp' = t /\ UNCHANGED <<config, menus, auto>>
  BY DEF IconTurn
<1>6. steered' => t = 0
  <2>1. steered => temp = 0
    BY <1>3 DEF BootInv, SteeredOff, Choosing
  <2>2. steered' = (steered \/ pad # "none")
    BY DEF IconTurn
  <2>3. QED
    BY <2>1, <2>2
<1> HIDE DEF w
<1>7. QED
  BY <1>2, <1>3, <1>4, <1>5, <1>6

LEMMA IconTurnStep ==
  ASSUME BootInv, NEW pad \in Pads, NEW press \in BOOLEAN, IconTurn(pad, press)
  PROVE  BootInv'
<1> DEFINE t == IF pad # "none" \/ temp = 0 THEN 0 ELSE clock
<1>1. /\ t \in 0 .. TimeWait + 1 /\ Expired(t) \in BOOLEAN /\ menus = <<>>
      /\ selected' \in 1 .. Len(Icons) /\ firstVisible' \in 1 .. Len(Icons)
      /\ steered' => t = 0
      /\ \/ Choose(Icons[selected'], t) /\ auto' = Expired(t)
         \/ at' = at /\ temp' = t /\ UNCHANGED <<config, menus, auto>>
  BY IconTurnFacts
<1>2. /\ at = "icons"
      /\ timedOut' = (timedOut \/ Expired(t))
      /\ steered' = (steered \/ pad # "none") /\ touched' = (touched \/ pad # "none" \/ press)
      /\ UNCHANGED <<console, disc, tray, clock, mem, meant, unread>>
  BY DEF IconTurn
<1> HIDE DEF t
<1>3. TypeOK /\ config \in ConfigType /\ TimeWait \in Nat \ {0}
  BY BootAssumption DEF BootInv, TypeOK, ConfigType
<1>4. Icons' = Icons
  BY <1>2, IconsSame
<1>5. /\ menus' \in MenusOf(Items') /\ config' \in ConfigType /\ temp' \in 0 .. TimeWait + 1
      /\ at' \in {"icons", "cdcheck", "net", "drawing", "text"} /\ auto' \in BOOLEAN
      /\ at' = "text" => menus' # <<>>
      /\ at' # "text" => menus' = <<>> /\ temp' = t
  <2>1. CASE Choose(Icons[selected'], t) /\ auto' = Expired(t)
    <3>1. Icons[selected'] \in IconType
      <4>1. Icons \in Seq(IconType)
        BY <1>3, AllIcons DEF TypeOK
      <4>2. QED
        BY <1>1, <4>1, ElementOfSeq
    <3>2. QED
      BY <1>1, <1>3, <2>1, <3>1, ChooseFacts
  <2>2. CASE at' = at /\ temp' = t /\ UNCHANGED <<config, menus, auto>>
    <3>1. menus' = <<>> /\ auto' \in BOOLEAN
      BY <1>1, <1>3, <2>2 DEF TypeOK
    <3>2. QED
      BY <1>1, <1>2, <1>3, <2>2, <3>1, NoMenus
  <2>3. QED
    BY <1>1, <2>1, <2>2
<1>6. TypeOK'
  <2>1. menus' \in Seq(MenuType)
    BY <1>5 DEF MenusOf
  <2>2. selected' \in 1 .. Len(Icons') /\ firstVisible' \in 1 .. Len(Icons')
    BY <1>1, <1>4
  <2>3. timedOut' \in BOOLEAN /\ steered' \in BOOLEAN /\ touched' \in BOOLEAN
    BY <1>1, <1>2, <1>3 DEF TypeOK
  <2>4. QED
    BY <1>2, <1>3, <1>5, <2>1, <2>2, <2>3 DEF TypeOK, Choosing, Gone, ConfigType
<1>7. MenusFit' /\ SteeredOff' /\ BootsChosenEntry'
  BY <1>1, <1>5 DEF MenusFit, SteeredOff, BootsChosenEntry, Choosing
<1>8. QED
  BY <1>5, <1>6, <1>7, Restored

\* Up and down in a text menu.
LEMMA TextMoveFacts ==
  ASSUME menus \in MenusOf(Items), menus # <<>>, NEW in, TextMove(in)
  PROVE  /\ menus' \in MenusOf(Items) /\ menus' # <<>> /\ Len(menus') = Len(menus)
         /\ Shown(menus[1], Rows) => Shown(menus'[1], Rows)
         /\ \A i \in 2 .. Len(menus) : menus'[i] = menus[i]
<1>1. menu = menus[1] /\ menu \in MenuType /\ Len(menus) \in Nat \ {0}
  BY MenuFacts
<1>2. menu.sel \in 1 .. menu.items /\ menu.first \in 1 .. menu.items /\ menu.items \in Nat
      /\ Rows \in Nat \ {0}
  BY <1>1, BootAssumption DEF MenuType
<1>3. PICK w \in {MoveOn([first |-> menu.first, sel |-> menu.sel], menu.items, Rows),
                  MoveBack([first |-> menu.first, sel |-> menu.sel])} :
        menus' = [menus EXCEPT ![1].first = w.first, ![1].sel = w.sel]
  BY DEF TextMove
<1>4. /\ w.sel \in 1 .. menu.items /\ w.first \in 1 .. menu.items
      /\ menu.sel \in menu.first .. menu.first + Rows - 1
           => w.sel \in w.first .. w.first + Rows - 1
  BY <1>2, MoveFacts
<1> DEFINE r == Windowed(menu, w.first, w.sel)
<1>5. /\ r \in MenuType /\ r.kind = menu.kind /\ r.items = menu.items
      /\ r.first = w.first /\ r.sel = w.sel
  BY <1>1, <1>4, MenuMoved
<1>6. menus' = [menus EXCEPT ![1] = r]
  BY <1>1, <1>3 DEF Windowed
<1> HIDE DEF r
<1>7. /\ [menus EXCEPT ![1] = r] \in MenusOf(Items) /\ [menus EXCEPT ![1] = r] # <<>>
      /\ Len([menus EXCEPT ![1] = r]) = Len(menus)
      /\ \A i \in 1 .. Len(menus) : [menus EXCEPT ![1] = r][i] = IF i = 1 THEN r ELSE menus[i]
  BY <1>1, <1>5, MenuSet
<1>8. /\ menus' \in MenusOf(Items) /\ menus' # <<>> /\ Len(menus') = Len(menus)
      /\ \A i \in 1 .. Len(menus) : menus'[i] = IF i = 1 THEN r ELSE menus[i]
  BY <1>6, <1>7
<1>9. menus'[1] = r /\ \A i \in 2 .. Len(menus) : menus'[i] = menus[i]
  BY <1>1, <1>8
<1>10. QED
  BY <1>1, <1>4, <1>5, <1>8, <1>9 DEF Shown

\* What the function of an item, A or the time-out, leads to.
LEMMA TextChooseFacts ==
  ASSUME menus \in MenusOf(Items), menus # <<>>, config \in ConfigType, meant \in Nat \ {0},
         NEW in, TextChoose(in)
  PROVE  /\ menus' \in MenusOf(Items) /\ menus' # <<>>
         /\ Len(menus') = Len(menus) => menus' = menus
         /\ config' \in ConfigType /\ Items' = Items
         /\ at' \in {"text", "hung", "net", "loading"} /\ temp' \in {0, 1}
         /\ meant' \in Nat \ {0}
         /\ at' = "loading" => config'.entry = meant' /\ meant' \in 1 .. Items
<1>1. /\ menu \in MenuType /\ Len(menus) \in Nat \ {0}
      /\ menu.kind = "boot" => menu.items = Items
  BY MenuFacts
<1>2. OtherItems \in Nat \ {0} /\ 1 \in 1 .. OtherItems
  BY BootAssumption
<1>3. ASSUME NEW kind \in {"web", "tools"}, NEW timeout \in {0, 1},
             DrawChildTextMenu(kind, timeout), UNCHANGED <<config, meant>>
      PROVE  /\ menus' \in MenusOf(Items) /\ menus' # <<>> /\ Len(menus') # Len(menus)
             /\ at' \in {"text", "hung"} /\ temp' \in {0, 1}
  <2>1. OpenText(kind, OtherItems, 1, timeout) /\ at' \in {"text", "hung"}
    BY <1>3 DEF DrawChildTextMenu
  <2>2. menus' \in MenusOf(Items) /\ menus' # <<>> /\ Len(menus') = Len(menus) + 1
    BY <1>2, <2>1, OpenFacts
  <2>3. temp' = timeout
    BY <2>1 DEF OpenText
  <2>4. QED
    BY <1>1, <2>1, <2>2, <2>3
<1>4. UNCHANGED config => Items' = Items
  BY DEF Items
<1>5. CASE menu.kind = "boot" /\ BootItem
  <2>1. menu.sel \in 1 .. Items
    BY <1>1, <1>5 DEF MenuType
  <2>2. /\ at' = "loading" /\ config' = [config EXCEPT !.entry = menu.sel]
        /\ meant' = menu.sel /\ temp' = 0 /\ UNCHANGED menus
    BY <1>5 DEF BootItem
  <2>3. config' \in ConfigType /\ config'.entry = menu.sel /\ Items' = Items
    BY <2>1, <2>2, EntrySet
  <2>4. QED
    BY <2>1, <2>2, <2>3
<1>6. CASE menu.kind = "web" /\ WebItem /\ UNCHANGED <<config, meant>>
  <2>1. CASE DrawChildTextMenu("web", 1)
    BY <1>3, <1>4, <1>6, <2>1
  <2>2. CASE at' \in {"net", "text"} /\ temp' = 0 /\ UNCHANGED menus
    BY <1>4, <1>6, <2>2
  <2>3. QED
    BY <1>6, <2>1, <2>2 DEF WebItem
<1>7. CASE menu.kind = "advanced" /\ DrawChildTextMenu("tools", 0) /\ UNCHANGED <<config, meant>>
  BY <1>3, <1>4, <1>7
<1>8. CASE menu.kind = "tools" /\ ToolItem /\ UNCHANGED <<config, meant>>
  BY <1>4, <1>8 DEF ToolItem
<1>9. QED
  BY <1>5, <1>6, <1>7, <1>8 DEF TextChoose

LEMMA TextTurnFacts ==
  ASSUME BootInv, NEW in, TextTurn(in)
  PROVE  /\ menus' \in MenusOf(Items) /\ config' \in ConfigType /\ Items' = Items
         /\ at' \in {"text", "hung", "net", "loading", "icons"}
         /\ at' = "text" => menus' # <<>>
         /\ at' = "icons" => menus' = <<>> /\ temp' = 0
         /\ temp' \in 0 .. TimeWait + 1 /\ meant' \in Nat \ {0}
         /\ at' = "loading" => config'.entry = meant' /\ meant' \in 1 .. Items
<1>1. /\ menus \in MenusOf(Items) /\ config \in ConfigType /\ meant \in Nat \ {0}
      /\ temp \in 0 .. TimeWait + 1 /\ TimeWait \in Nat \ {0} /\ 1 \in 0 .. TimeWait + 1
  BY OpenMenus, BootAssumption DEF BootInv, TypeOK, ConfigType
<1>2. at = "text" /\ menus # <<>>
  BY DEF TextTurn, BootInv, MenusFit
<1>3. menu \in MenuType
  BY <1>1, <1>2, MenuFacts
<1>4. UNCHANGED config => Items' = Items
  BY DEF Items
<1>5. CASE TextMove(in)
  <2>1. temp' = 0 /\ UNCHANGED <<at, config, meant>>
    BY <1>5 DEF TextMove
  <2>2. menus' \in MenusOf(Items) /\ menus' # <<>>
    BY <1>1, <1>2, <1>5, TextMoveFacts
  <2>3. QED
    BY <1>1, <1>2, <1>4, <2>1, <2>2
<1>6. CASE TextChoose(in)
  <2>1. /\ menus' \in MenusOf(Items) /\ menus' # <<>> /\ config' \in ConfigType /\ Items' = Items
        /\ at' \in {"text", "hung", "net", "loading"} /\ temp' \in {0, 1}
        /\ meant' \in Nat \ {0}
        /\ at' = "loading" => config'.entry = meant' /\ meant' \in 1 .. Items
    BY <1>1, <1>2, <1>6, TextChooseFacts
  <2>2. QED
    BY <1>1, <2>1
<1>7. CASE TextSide(in)
  BY <1>1, <1>2, <1>4, <1>7 DEF TextSide, SideFunction
<1>8. CASE TextBack(in)
  <2>1. /\ temp' = 0 /\ menus' = Tail(menus) /\ at' = IF Len(menus) = 1 THEN "icons" ELSE "text"
        /\ UNCHANGED <<config, meant>>
    BY <1>8 DEF TextBack
  <2>2. Tail(menus) \in MenusOf(Items) /\ (Tail(menus) = <<>> <=> Len(menus) = 1)
    BY <1>1, <1>2, MenuPop
  <2>3. QED
    BY <1>1, <1>4, <2>1, <2>2
<1>9. CASE TextIdle(in)
  <2>1. temp' \in 0 .. TimeWait + 1
    BY <1>1, <1>3, <1>9 DEF TextIdle, MenuType
  <2>2. QED
    BY <1>1, <1>2, <1>4, <1>9, <2>1 DEF TextIdle
<1>10. QED
  BY <1>5, <1>6, <1>7, <1>8, <1>9 DEF TextTurn

LEMMA TextTurnStep ==
  ASSUME BootInv, NEW in, TextTurn(in)
  PROVE  BootInv'
<1>1. /\ menus' \in MenusOf(Items) /\ config' \in ConfigType /\ Items' = Items
      /\ at' \in {"text", "hung", "net", "loading", "icons"}
      /\ at' = "text" => menus' # <<>>
      /\ at' = "icons" => menus' = <<>> /\ temp' = 0
      /\ temp' \in 0 .. TimeWait + 1 /\ meant' \in Nat \ {0}
      /\ at' = "loading" => config'.entry = meant' /\ meant' \in 1 .. Items
  BY TextTurnFacts
<1>2. /\ touched' = (touched \/ in # "none")
      /\ UNCHANGED <<console, disc, tray, icons, clock, timedOut, mem, auto, steered, unread>>
  BY DEF TextTurn
<1>3. TypeOK /\ UNCHANGED <<selected, firstVisible>> /\ Icons' = Icons
  BY <1>2, IconsSame DEF BootInv, icons
<1>4. TypeOK'
  <2>1. menus' \in Seq(MenuType)
    BY <1>1 DEF MenusOf
  <2>2. touched' \in BOOLEAN
    BY <1>2, <1>3 DEF TypeOK
  <2>3. at' \in Choosing \cup {"text", "drawing", "loading"} \cup Gone
    BY <1>1 DEF Choosing, Gone
  <2>4. QED
    BY <1>1, <1>2, <1>3, <2>1, <2>2, <2>3 DEF TypeOK, ConfigType
<1>5. MenusFit' /\ SteeredOff' /\ BootsChosenEntry'
  BY <1>1 DEF MenusFit, SteeredOff, BootsChosenEntry, Choosing
<1>6. QED
  BY <1>1, <1>4, <1>5, Restored

\* A step of the search for a boot disc, before a medium is chosen.
LEMMA DiscStep ==
  ASSUME BootInv, at \in Choosing, at' \in Choosing \cup {"drawing"}, config' \in ConfigType,
         tray' \in {"closed", "open"}, clock' \in 1 .. TimeWait + 1, touched' \in BOOLEAN,
         UNCHANGED <<console, disc, icons, temp, timedOut, menus, mem, auto, steered, meant, unread>>
  PROVE  BootInv'
<1>1. menus' = <<>> /\ menus' \in MenusOf(Items')
  BY NoMenus DEF BootInv, MenusFit
<1>2. TypeOK /\ UNCHANGED <<selected, firstVisible>> /\ Icons' = Icons
  BY IconsSame DEF BootInv, icons
<1>3. TypeOK'
  BY <1>2 DEF TypeOK, ConfigType
<1>4. at' \notin {"text", "loading", "linux"}
  BY DEF Choosing
<1>5. MenusFit' /\ SteeredOff' /\ BootsChosenEntry'
  BY <1>1, <1>4 DEF BootInv, MenusFit, SteeredOff, BootsChosenEntry
<1>6. QED
  BY <1>1, <1>3, <1>4, <1>5, Restored

\* Before a medium is chosen, what the other lemmas ask for.
LEMMA ChoosingFacts ==
  ASSUME BootInv
  PROVE  /\ TypeOK /\ config \in ConfigType /\ disc \in Media /\ TimeWait \in Nat \ {0}
         /\ TimeWait + 1 \in 1 .. TimeWait + 1
         /\ tray \in {"closed", "open"} /\ clock \in 1 .. TimeWait + 1 /\ touched \in BOOLEAN
BY BootAssumption DEF BootInv, TypeOK, ConfigType

LEMMA DiscFoundFacts ==
  ASSUME BootInv, DiscFound
  PROVE  config' \in ConfigType /\ at' = "drawing" /\ UNCHANGED <<tray, clock>>
<1>1. config' = [kind |-> "cd", medium |-> disc, entry |-> 1] /\ at' = "drawing"
      /\ UNCHANGED <<tray, clock>>
  BY DEF DiscFound, CallDrawBootMenu
<1>2. config' \in ConfigType
  BY <1>1, ChoosingFacts DEF ConfigType
<1>3. QED
  BY <1>1, <1>2

LEMMA CdStep ==
  ASSUME BootInv, CdCheck \/ CdClose \/ CdRetry
  PROVE  BootInv'
<1>1. at \in Choosing
  BY DEF CdCheck, CdClose, CdRetry, Choosing
<1>2. UNCHANGED <<console, disc, icons, temp, timedOut, menus, mem, auto, steered, meant, unread>>
  BY DEF CdCheck, CdClose, CdRetry, ghosts
<1>3. /\ at' \in Choosing \cup {"drawing"} /\ config' \in ConfigType
      /\ tray' \in {"closed", "open"} /\ clock' \in 1 .. TimeWait + 1 /\ touched' \in BOOLEAN
  <2>1. CASE CdCheck \/ CdRetry
    <3>1. UNCHANGED touched
      BY <2>1 DEF CdCheck, CdRetry, ghosts
    <3>2. \/ DiscFound
          \/ /\ at' \in {"cdopen", "icons"} /\ tray' \in {"open", tray}
             /\ clock' \in {clock, TimeWait + 1} /\ UNCHANGED config
      BY <2>1 DEF CdCheck, CdRetry
    <3>3. CASE DiscFound
      BY <3>1, <3>3, DiscFoundFacts, ChoosingFacts
    <3>4. CASE /\ at' \in {"cdopen", "icons"} /\ tray' \in {"open", tray}
               /\ clock' \in {clock, TimeWait + 1} /\ UNCHANGED config
      <4>1. at' \in Choosing
        BY <3>4 DEF Choosing
      <4>2. QED
        BY <3>1, <3>4, <4>1, ChoosingFacts
    <3>5. QED
      BY <3>2, <3>3, <3>4
  <2>2. CASE CdClose
    BY <2>2, ChoosingFacts DEF CdClose, Choosing
  <2>3. QED
    BY <2>1, <2>2
<1>4. QED
  BY <1>1, <1>2, <1>3, DiscStep

LEMMA SwapDiscStep ==
  ASSUME BootInv, SwapDisc
  PROVE  BootInv'
<1>1. /\ disc' \in Discs /\ UNCHANGED <<console, tray, icons, temp, clock, timedOut, at, config,
                                        menus, mem, ghosts>>
  BY DEF SwapDisc
<1>2. TypeOK /\ UNCHANGED <<selected, firstVisible>> /\ Icons' = Icons
  BY <1>1, IconsSame DEF BootInv, icons
<1>3. TypeOK'
  BY <1>1, <1>2 DEF TypeOK, ghosts
<1>4. MenusFit' /\ SteeredOff' /\ EntryFits' /\ BootsChosenEntry'
  BY <1>1 DEF BootInv, MenusFit, SteeredOff, EntryFits, BootsChosenEntry, ghosts
<1>5. QED
  BY <1>3, <1>4 DEF BootInv

\* What is being loaded is what the section says.
LEMMA EntryFacts ==
  ASSUME BootInv, at = "loading"
  PROVE  LET ls == config.medium.lines IN
         /\ Entry.kernel = Says(ls, meant, "kernel", NoFile)
         /\ Entry.initrd = Says(ls, meant, "initrd", NoFile)
         /\ OneAppend(ls, meant) => Entry.append = Says(ls, meant, "append", <<>>)
<1> DEFINE ls == config.medium.lines
           p == config.medium.parsed
<1>1. config.medium \in Media /\ config.entry = meant /\ meant \in 1 .. Len(p.entries)
  BY OpenMenus DEF BootInv, EntryFits
<1>2. p = ParseConfig(ls) /\ ConfigFile(ls) /\ Entry = p.entries[meant]
  BY <1>1, MediumFacts DEF Entry
<1> HIDE DEF ls, p
<1>3. QED
  BY <1>1, <1>2, ParseConfigFacts DEF ls

\* A loader starts what it was asked for, when the files are there.
LEMMA Loaded ==
  ASSUME FilesThere, StartLoaded
  PROVE  /\ at' = "linux" /\ mem'.kernel = Entry.kernel /\ mem'.initrd = Entry.initrd
         /\ mem'.append = Entry.append
<1>1. /\ at' = "linux"
      /\ mem' = [kernel |-> Load(Entry.kernel),
                 initrd |-> IF Entry.initrd = NoFile THEN NoFile ELSE Load(Entry.initrd),
                 append |-> Entry.append]
  BY DEF StartLoaded, Start
<1>2. Load(Entry.kernel) = Entry.kernel
      /\ (Entry.initrd # NoFile => Load(Entry.initrd) = Entry.initrd)
  BY DEF FilesThere, Load
<1>3. QED
  BY <1>1, <1>2

LEMMA BootMenuEntryStep ==
  ASSUME BootInv, BootMenuEntry
  PROVE  BootInv'
<1>1. /\ at = "loading"
      /\ LoadKernelNative \/ LoadKernelFatX \/ LoadKernelCdrom
      /\ UNCHANGED <<console, disc, tray, icons, temp, clock, timedOut, config, menus, auto, steered,
                     touched, meant>>
  BY DEF BootMenuEntry
<1>2. /\ at' \in {"linux", "hung"} /\ unread' \in BOOLEAN
      /\ at' = "linux" /\ ~unread' => FilesThere /\ StartLoaded
  <2>1. unread \in BOOLEAN /\ FilesThere \in BOOLEAN
    BY DEF BootInv, TypeOK, FilesThere, Has
  <2>2. StartLoaded => at' = "linux"
    BY DEF StartLoaded, Start
  <2>3. Start("garbage", "garbage") => at' = "linux"
    BY DEF Start
  <2>4. Hang => at' = "hung"
    BY DEF Hang
  <2>5. CASE LoadKernelNative
    BY <2>1, <2>2, <2>4, <2>5 DEF LoadKernelNative
  <2>6. CASE LoadKernelFatX
    BY <2>1, <2>2, <2>3, <2>4, <2>6 DEF LoadKernelFatX
  <2>7. CASE LoadKernelCdrom
    BY <2>1, <2>2, <2>4, <2>7 DEF LoadKernelCdrom
  <2>8. QED
    BY <1>1, <2>5, <2>6, <2>7
<1>3. BootsChosenEntry'
  <2> DEFINE ls == config.medium.lines
  <2>1. SUFFICES ASSUME at' = "linux", ~unread'
                 PROVE  /\ mem'.kernel = Says(ls, meant, "kernel", NoFile)
                        /\ mem'.initrd = Says(ls, meant, "initrd", NoFile)
                        /\ OneAppend(ls, meant) => mem'.append = Says(ls, meant, "append", <<>>)
    BY <1>1 DEF BootsChosenEntry
  <2>2. /\ mem'.kernel = Entry.kernel /\ mem'.initrd = Entry.initrd /\ mem'.append = Entry.append
    BY <1>2, <2>1, Loaded
  <2>3. /\ Entry.kernel = Says(ls, meant, "kernel", NoFile)
        /\ Entry.initrd = Says(ls, meant, "initrd", NoFile)
        /\ OneAppend(ls, meant) => Entry.append = Says(ls, meant, "append", <<>>)
    BY <1>1, EntryFacts
  <2> HIDE DEF ls
  <2>4. QED
    BY <2>2, <2>3
<1>4. TypeOK /\ UNCHANGED <<selected, firstVisible>> /\ Icons' = Icons
  BY <1>1, IconsSame DEF BootInv, icons
<1>5. TypeOK'
  BY <1>1, <1>2, <1>4 DEF TypeOK, Gone
<1>6. MenusFit' /\ SteeredOff' /\ EntryFits'
  BY <1>1, <1>2 DEF BootInv, MenusFit, SteeredOff, EntryFits, Choosing
<1>7. QED
  BY <1>3, <1>5, <1>6 DEF BootInv

LEMMA StepInv == BootInv /\ [Next]_vars => BootInv'
<1> SUFFICES ASSUME BootInv, [Next]_vars PROVE BootInv'
  OBVIOUS
<1>1. CASE Tick
  BY <1>1, TickStep
<1>2. ASSUME NEW pad \in Pads, NEW press \in BOOLEAN, IconTurn(pad, press) PROVE BootInv'
  BY <1>2, IconTurnStep
<1>3. ASSUME NEW in \in TextInputs, TextTurn(in) PROVE BootInv'
  BY <1>3, TextTurnStep
<1>4. CASE CdCheck \/ CdClose \/ CdRetry
  BY <1>4, CdStep
<1>5. CASE SwapDisc
  BY <1>5, SwapDiscStep
<1>6. CASE DrawBootMenu
  BY <1>6, DrawBootMenuStep
<1>7. CASE BootMenuEntry
  BY <1>7, BootMenuEntryStep
<1>8. CASE UNCHANGED vars
  <2>1. /\ UNCHANGED <<console, disc, tray, selected, firstVisible, temp, clock, timedOut, at>>
        /\ UNCHANGED <<config, menus, mem, auto, steered, touched, meant, unread>>
    BY <1>8 DEF vars, icons, ghosts
  <2>2. Icons' = Icons
    BY <2>1, IconsSame
  <2>3. TypeOK'
    BY <2>1, <2>2 DEF BootInv, TypeOK
  <2>4. MenusFit' /\ SteeredOff' /\ EntryFits' /\ BootsChosenEntry'
    BY <2>1 DEF BootInv, MenusFit, SteeredOff, EntryFits, BootsChosenEntry
  <2>5. QED
    BY <2>3, <2>4 DEF BootInv
<1>9. QED
  BY <1>1, <1>2, <1>3, <1>4, <1>5, <1>6, <1>7, <1>8 DEF Next

\* IconMenu, TextMenu, DrawBootMenu, the loaders: selections stay in their
\* menus, a boot menu has an item for every entry of the file it shows, the
\* entry that is loaded is the section meant, and moving the icons has ended
\* the time-out; from which follows what Linux is started with.
THEOREM BootInvariant == Spec => []BootInv
BY InitInv, StepInv, PTL DEF Spec

\* ParseConfig, DrawBootMenu, BootMenuEntry and the loaders: kernel, initrd
\* and command line of the Linux that is started are those of the section
\* chosen, or of the default section when nobody chose, in every linuxboot.cfg.
THEOREM ChosenEntryBoots == Spec => []BootsChosenEntry
<1>1. BootInv => BootsChosenEntry
  BY DEF BootInv
<1>2. QED
  BY <1>1, BootInvariant, PTL

-----------------------------------------------------------------------------
(* What a step may not do *)

LEMMA SteeredStep ==
  ASSUME BootInv, [Next]_vars, steered', at = "icons", at' # "icons"
  PROVE  ~auto'
<1>1. PICK pad \in Pads, press \in BOOLEAN : IconTurn(pad, press)
  BY DEF Next, vars, Tick, TextTurn, CdCheck, SwapDisc, CdClose, CdRetry, DrawBootMenu,
         BootMenuEntry
<1> DEFINE t == IF pad # "none" \/ temp = 0 THEN 0 ELSE clock
<1>2. /\ steered' => t = 0
      /\ \/ Choose(Icons[selected'], t) /\ auto' = Expired(t)
         \/ at' = at /\ temp' = t /\ UNCHANGED <<config, menus, auto>>
  BY <1>1, IconTurnFacts
<1> HIDE DEF t
<1>3. ~Expired(0)
  BY BootAssumption DEF Expired
<1>4. QED
  BY <1>2, <1>3

\* The window with the icons follows the selection.
LEMMA IconTurnShown ==
  ASSUME BootInv, NEW pad \in Pads, NEW press \in BOOLEAN, IconTurn(pad, press),
         Shown([first |-> firstVisible, sel |-> selected], Bays)
  PROVE  Shown([first |-> firstVisible, sel |-> selected], Bays)'
<1> DEFINE w == Moved(pad)
<1>1. /\ selected \in 1 .. Len(Icons) /\ firstVisible \in 1 .. Len(Icons)
      /\ Len(Icons) \in Nat /\ Bays \in Nat \ {0}
  BY AllIcons, BootAssumption DEF BootInv, TypeOK
<1>2. selected \in firstVisible .. firstVisible + Bays - 1
  BY DEF Shown
<1>3. w.sel \in w.first .. w.first + Bays - 1
  <2>1. CASE pad \in {"left", "right"}
    <3>1. w \in {MoveOn([first |-> firstVisible, sel |-> selected], Len(Icons), Bays),
                 MoveBack([first |-> firstVisible, sel |-> selected])}
      BY <2>1 DEF Moved
    <3> HIDE DEF w
    <3>2. QED
      BY <1>1, <1>2, <3>1, MoveFacts
  <2>2. CASE pad \notin {"left", "right"}
    BY <1>2, <2>2 DEF Moved
  <2>3. QED
    BY <2>1, <2>2
<1>4. selected' = w.sel /\ firstVisible' = w.first
  BY DEF IconTurn
<1> HIDE DEF w
<1>5. QED
  BY <1>3, <1>4 DEF Shown

\* The windows of the open menus.
MenusShown ==
  Len(menus) = Len(menus') =>
    \A i \in DOMAIN menus : Shown(menus[i], Rows) => Shown(menus'[i], Rows)

LEMMA TextTurnShown ==
  ASSUME BootInv, NEW in, TextTurn(in), Len(menus) = Len(menus'), NEW i \in DOMAIN menus,
         Shown(menus[i], Rows)
  PROVE  Shown(menus'[i], Rows)
<1>1. menus \in MenusOf(Items) /\ menus # <<>> /\ config \in ConfigType /\ meant \in Nat \ {0}
  BY OpenMenus DEF BootInv, TypeOK, ConfigType, TextTurn, MenusFit
<1>2. Len(menus) \in Nat \ {0} /\ i \in 1 .. Len(menus)
  BY <1>1 DEF MenusOf
<1>3. CASE TextMove(in)
  <2>1. /\ Shown(menus[1], Rows) => Shown(menus'[1], Rows)
        /\ \A j \in 2 .. Len(menus) : menus'[j] = menus[j]
    BY <1>1, <1>3, TextMoveFacts
  <2>2. i = 1 \/ i \in 2 .. Len(menus)
    BY <1>2
  <2>3. QED
    BY <2>1, <2>2
<1>4. CASE TextChoose(in)
  <2>1. menus' = menus
    BY <1>1, <1>4, TextChooseFacts
  <2>2. QED
    BY <2>1
<1>5. CASE TextBack(in)
  <2>1. menus' = Tail(menus)
    BY <1>5 DEF TextBack
  <2>2. Len(Tail(menus)) = Len(menus) - 1
    BY <1>1, MenuPop
  <2>3. QED
    BY <1>2, <2>1, <2>2
<1>6. CASE TextSide(in) \/ TextIdle(in)
  BY <1>6 DEF TextSide, TextIdle
<1>7. QED
  BY <1>3, <1>4, <1>5, <1>6 DEF TextTurn

LEMMA TickShown ==
  ASSUME BootInv, Tick, NEW i \in DOMAIN menus, Shown(menus[i], Rows)
  PROVE  Shown(menus'[i], Rows)
<1>1. CASE at = "text"
  <2> DEFINE r == [menus[1] EXCEPT !.clock = Later(menus[1].clock)]
  <2>1. menus \in MenusOf(Items) /\ menus # <<>>
    BY <1>1, OpenMenus DEF BootInv, MenusFit
  <2>2. menus[1] \in MenuType /\ Len(menus) \in Nat /\ i \in 1 .. Len(menus)
    BY <2>1, MenuFacts DEF MenusOf
  <2>3. menus' = [menus EXCEPT ![1] = r]
    BY <1>1 DEF Tick
  <2>4. /\ r \in MenuType /\ r.kind = menus[1].kind /\ r.items = menus[1].items
        /\ r.first = menus[1].first /\ r.sel = menus[1].sel
    <3>1. Later(menus[1].clock) \in 1 .. TimeWait + 1
      BY <2>2, BootAssumption DEF Later, MenuType
    <3>2. QED
      BY <2>2, <3>1 DEF MenuType
  <2> HIDE DEF r
  <2>5. \A j \in 1 .. Len(menus) : [menus EXCEPT ![1] = r][j] = IF j = 1 THEN r ELSE menus[j]
    BY <2>1, <2>4, MenuSet
  <2>6. menus'[i] = IF i = 1 THEN r ELSE menus[i]
    BY <2>2, <2>3, <2>5
  <2>7. QED
    BY <2>4, <2>6 DEF Shown
<1>2. CASE at # "text"
  BY <1>2 DEF Tick
<1>3. QED
  BY <1>1, <1>2

LEMMA ShownStep ==
  ASSUME BootInv, [Next]_vars
  PROVE  /\ Shown([first |-> firstVisible, sel |-> selected], Bays) =>
              Shown([first |-> firstVisible, sel |-> selected], Bays)'
         /\ MenusShown
<1>1. CASE Tick
  BY <1>1, TickShown DEF Tick, icons, MenusShown
<1>2. ASSUME NEW pad \in Pads, NEW press \in BOOLEAN, IconTurn(pad, press)
      PROVE  /\ Shown([first |-> firstVisible, sel |-> selected], Bays) =>
                  Shown([first |-> firstVisible, sel |-> selected], Bays)'
             /\ MenusShown
  <2>1. menus = <<>>
    BY <1>2 DEF BootInv, MenusFit, IconTurn, Choosing
  <2>2. MenusShown
    BY <2>1 DEF MenusShown
  <2>3. QED
    BY <1>2, <2>2, IconTurnShown
<1>3. ASSUME NEW in \in TextInputs, TextTurn(in)
      PROVE  /\ Shown([first |-> firstVisible, sel |-> selected], Bays) =>
                  Shown([first |-> firstVisible, sel |-> selected], Bays)'
             /\ MenusShown
  <2>1. UNCHANGED icons
    BY <1>3 DEF TextTurn
  <2>2. MenusShown
    BY <1>3, TextTurnShown DEF MenusShown
  <2>3. QED
    BY <2>1, <2>2 DEF icons
<1>4. CASE DrawBootMenu
  <2>1. menus = <<>> /\ UNCHANGED icons
    BY <1>4 DEF BootInv, MenusFit, DrawBootMenu
  <2>2. QED
    BY <2>1 DEF icons, MenusShown
<1>5. CASE CdCheck \/ SwapDisc \/ CdClose \/ CdRetry \/ BootMenuEntry \/ UNCHANGED vars
  <2>1. UNCHANGED <<icons, menus>>
    BY <1>5 DEF CdCheck, SwapDisc, CdClose, CdRetry, BootMenuEntry, vars
  <2>2. QED
    BY <2>1 DEF icons, MenusShown
<1>6. QED
  BY <1>1, <1>2, <1>3, <1>4, <1>5 DEF Next

\* IconMenu: once the icons have been moved by hand, none is ever chosen by
\* time, whatever the text menus between have done with the shared time-out.
THEOREM SteeredByHand == Spec => SteeredStaysManual
<1>1. BootInv /\ [Next]_vars => [steered' /\ at = "icons" /\ at' # "icons" => ~auto']_vars
  BY SteeredStep
<1>2. QED
  BY <1>1, BootInvariant, PTL DEF Spec, SteeredStaysManual

\* IconMenu, TextMenu: a selection that is on the screen stays on it, however
\* many icons or items there are and however many fit.
THEOREM SelectionShown == Spec => SelectionStaysShown
<1>1. BootInv /\ [Next]_vars =>
        [/\ Shown([first |-> firstVisible, sel |-> selected], Bays) =>
              Shown([first |-> firstVisible, sel |-> selected], Bays)'
         /\ Len(menus) = Len(menus') =>
              \A i \in DOMAIN menus : Shown(menus[i], Rows) => Shown(menus'[i], Rows)]_vars
  BY ShownStep DEF MenusShown
<1>2. QED
  BY <1>1, BootInvariant, PTL DEF Spec, SelectionStaysShown
=============================================================================
