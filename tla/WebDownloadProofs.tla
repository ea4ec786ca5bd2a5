-------------------------- MODULE WebDownloadProofs --------------------------
(***************************************************************************)
(* Proofs about the HTTP client, for any files and any way in which their  *)
(* responses are cut into segments, cut short or reset.                    *)
(***************************************************************************)
EXTENDS WebDownload, SequenceTheorems, WellFoundedInduction, TLAPS

Chars == {"h", "r", "n"} \cup STRING
Text  == Seq(Chars)

LEMMA BodyType == \A f \in Files : Body[f] \in Text /\ Len(Body[f]) \in Nat
<1>1. Body \in [Files -> Seq(STRING)] /\ STRING \subseteq Chars
  BY DownloadAssumption DEF Chars
<1>2. ASSUME NEW f \in Files PROVE Body[f] \in Text /\ Len(Body[f]) \in Nat
  <2>1. Body[f] \in Seq(STRING)
    BY <1>1
  <2>2. Body[f] \in Text
    BY <1>1, <2>1, SeqMonotonic DEF Text
  <2>3. QED
    BY <2>2, LenProperties DEF Text
<1>3. QED
  BY <1>2

LEMMA HeaderFacts ==
  /\ Header \in Text /\ Len(Header) = 5
  /\ Header[1] = "h" /\ Header[2] = "r" /\ Header[3] = "n" /\ Header[4] = "r" /\ Header[5] = "n"
<1>1. /\ <<"h">> \in Text /\ Len(<<"h">>) = 1 /\ <<"h">>[1] = "h"
  BY DEF Text, Chars
<1>2. /\ Terminator \in Text /\ Len(Terminator) = 4
      /\ Terminator[1] = "r" /\ Terminator[2] = "n" /\ Terminator[3] = "r" /\ Terminator[4] = "n"
  BY DEF Text, Chars, Terminator
<1>3. /\ Header \in Text /\ Len(Header) = 1 + 4
      /\ \A i \in 1 .. 1 + 4 : Header[i] = IF i <= 1 THEN <<"h">>[i] ELSE Terminator[i - 1]
  <2>1. /\ Header \in Text /\ Len(Header) = Len(<<"h">>) + Len(Terminator)
        /\ \A i \in 1 .. Len(<<"h">>) + Len(Terminator) :
             Header[i] = IF i <= Len(<<"h">>) THEN <<"h">>[i] ELSE Terminator[i - Len(<<"h">>)]
    BY <1>1, <1>2, ConcatProperties DEF Text, Header
  <2>2. QED
    BY <1>1, <1>2, <2>1
<1>4. QED
  BY <1>1, <1>2, <1>3

LEMMA EmptyText == <<>> \in Text /\ Len(<<>>) = 0
  BY EmptySeq DEF Text

\* A response is the header, and the body unless it answers a HEAD request.
LEMMA ResponseFacts ==
  ASSUME file \in Files
  PROVE  /\ Response \in Text
         /\ head => Response = Header /\ Len(Response) = 5
         /\ ~head => Len(Response) = 5 + Len(Body[file])
         /\ Len(Response) \in Nat
         /\ \A i \in 1 .. 5 : Response[i] = Header[i]
         /\ ~head => \A i \in 6 .. Len(Response) : Response[i] = Body[file][i - 5]
<1>1. CASE head
  <2>1. Response = Header
    BY <1>1, HeaderFacts, EmptyText, ConcatEmptySeq DEF Response, Text
  <2>2. QED
    BY <1>1, <2>1, HeaderFacts
<1>2. CASE ~head
  <2>1. Response = Header \o Body[file]
    BY <1>2 DEF Response
  <2>2. Body[file] \in Text /\ Len(Body[file]) \in Nat
    BY BodyType
  <2>3. /\ Response \in Text /\ Len(Response) = Len(Header) + Len(Body[file])
        /\ \A i \in 1 .. Len(Header) + Len(Body[file]) :
             Response[i] = IF i <= Len(Header) THEN Header[i] ELSE Body[file][i - Len(Header)]
    <3>1. Header \in Seq(Chars) /\ Body[file] \in Seq(Chars)
      BY <2>2, HeaderFacts DEF Text
    <3>2. QED
      BY <2>1, <3>1, ConcatProperties, Zenon DEF Text
  <2>4. QED
    BY <1>2, <2>2, <2>3, HeaderFacts
<1>3. QED
  BY <1>1, <1>2

-----------------------------------------------------------------------------
(* A segment *)

LEMMA PartFacts ==
  ASSUME NEW x \in Text, NEW m \in Nat \ {0}, NEW n \in Nat, n <= Len(x)
  PROVE  /\ SubSeq(x, m, n) \in Text
         /\ Len(SubSeq(x, m, n)) = IF m <= n THEN n - m + 1 ELSE 0
         /\ \A i \in 1 .. n - m + 1 : SubSeq(x, m, n)[i] = x[m + i - 1]
  BY DEF Text

Segment(k) == SubSeq(Response, sent + 1, sent + k)

LEMMA SegmentFacts ==
  ASSUME file \in Files, sent \in Nat, NEW k \in Nat \ {0}, sent + k <= Len(Response)
  PROVE  /\ Segment(k) \in Text /\ Len(Segment(k)) = k
         /\ \A i \in 1 .. k : Segment(k)[i] = Response[sent + i]
<1>1. Response \in Text /\ sent + 1 \in Nat \ {0} /\ sent + k \in Nat
  BY ResponseFacts
<1>2. /\ Segment(k) \in Text
      /\ Len(Segment(k)) = IF sent + 1 <= sent + k THEN (sent + k) - (sent + 1) + 1 ELSE 0
      /\ \A i \in 1 .. (sent + k) - (sent + 1) + 1 : Segment(k)[i] = Response[(sent + 1) + i - 1]
  BY <1>1, PartFacts DEF Segment
<1>3. QED
  BY <1>2

\* What comes after the header, in a segment, is of the body.
LEMMA SegmentTail ==
  ASSUME file \in Files, ~head, sent \in Nat, NEW k \in Nat \ {0}, sent + k <= Len(Response),
         NEW j \in 0 .. k, sent + j >= 5
  PROVE  SubSeq(Segment(k), 1 + j, k) = SubSeq(Body[file], sent + j - 4, sent + k - 5)
<1>1. /\ Segment(k) \in Text /\ Len(Segment(k)) = k
      /\ \A i \in 1 .. k : Segment(k)[i] = Response[sent + i]
  BY SegmentFacts
<1>2. /\ Body[file] \in Text /\ Len(Body[file]) \in Nat /\ Len(Response) = 5 + Len(Body[file])
      /\ \A i \in 6 .. Len(Response) : Response[i] = Body[file][i - 5]
  BY BodyType, ResponseFacts
<1> DEFINE B == Body[file]
           s == Segment(k)
           m == sent + j - 4
           n == sent + k - 5
<1>3. /\ m \in Nat \ {0} /\ n \in Nat /\ n <= Len(B) /\ B \in Text
      /\ 1 + j \in Nat \ {0} /\ k <= Len(s) /\ s \in Text
  BY <1>1, <1>2
<1> HIDE DEF B, s, m, n
<1>4. /\ SubSeq(s, 1 + j, k) \in Text
      /\ Len(SubSeq(s, 1 + j, k)) = IF 1 + j <= k THEN k - (1 + j) + 1 ELSE 0
      /\ \A i \in 1 .. k - (1 + j) + 1 : SubSeq(s, 1 + j, k)[i] = s[(1 + j) + i - 1]
  BY <1>3, PartFacts
<1>5. /\ SubSeq(B, m, n) \in Text
      /\ Len(SubSeq(B, m, n)) = IF m <= n THEN n - m + 1 ELSE 0
      /\ \A i \in 1 .. n - m + 1 : SubSeq(B, m, n)[i] = B[m + i - 1]
  BY <1>3, PartFacts
<1>6. Len(SubSeq(s, 1 + j, k)) = k - j /\ Len(SubSeq(B, m, n)) = k - j
  BY <1>4, <1>5 DEF m, n
<1>7. ASSUME NEW i \in 1 .. k - j
      PROVE  SubSeq(s, 1 + j, k)[i] = SubSeq(B, m, n)[i]
  <2>1. SubSeq(s, 1 + j, k)[i] = s[j + i] /\ j + i \in 1 .. k
    BY <1>4
  <2>2. s[j + i] = Response[sent + (j + i)]
    BY <1>1, <2>1 DEF s
  <2>3. sent + (j + i) \in 6 .. Len(Response)
    BY <1>2
  <2>4. Response[sent + (j + i)] = B[sent + (j + i) - 5]
    BY <1>2, <2>3 DEF B
  <2>5. i \in 1 .. n - m + 1 /\ m + i - 1 = sent + (j + i) - 5
    BY DEF m, n
  <2>6. QED
    BY <1>5, <2>1, <2>2, <2>4, <2>5
<1>8. SubSeq(s, 1 + j, k) = SubSeq(B, m, n)
  BY <1>4, <1>5, <1>6, <1>7, SeqEqual DEF Text
<1>9. QED
  BY <1>8 DEF s, B, m, n

\* No header ends before the fifth character of a response.
LEMMA EndsLate ==
  ASSUME file \in Files, sent \in Nat, NEW k \in Nat \ {0}, sent + k <= Len(Response),
         NEW j \in EndsAt(Segment(k))
  PROVE  j \in 4 .. k /\ sent + j >= 5
<1>1. /\ Segment(k) \in Text /\ Len(Segment(k)) = k
      /\ \A i \in 1 .. k : Segment(k)[i] = Response[sent + i]
  BY SegmentFacts
<1>2. j \in 4 .. k /\ SubSeq(Segment(k), j - 3, j) = Terminator
  BY <1>1 DEF EndsAt
<1>3. j - 3 \in Nat \ {0} /\ j \in Nat /\ j <= Len(Segment(k)) /\ j - 3 \in 1 .. k
  BY <1>1, <1>2
<1>4. \A i \in 1 .. j - (j - 3) + 1 : SubSeq(Segment(k), j - 3, j)[i] = Segment(k)[(j - 3) + i - 1]
  BY <1>1, <1>3, PartFacts
<1>5. Terminator[1] = Segment(k)[j - 3]
  BY <1>2, <1>3, <1>4
<1>6. Response[sent + (j - 3)] = "r"
  BY <1>1, <1>3, <1>5 DEF Terminator
<1>7. Response[1] = "h"
  BY ResponseFacts, HeaderFacts
<1>8. sent + (j - 3) # 1
  BY <1>6, <1>7
<1>9. QED
  BY <1>2, <1>8

\* A segment with the whole end of the header in it has it where it is.
LEMMA EndsInTime ==
  ASSUME file \in Files, NEW k \in Nat \ {0}, sent \in {0, 1}, sent + k <= Len(Response),
         sent + k >= 5
  PROVE  5 - sent \in EndsAt(Segment(k))
<1>1. /\ Segment(k) \in Text /\ Len(Segment(k)) = k
      /\ \A i \in 1 .. k : Segment(k)[i] = Response[sent + i]
  BY SegmentFacts
<1> DEFINE j == 5 - sent
           t == SubSeq(Segment(k), j - 3, j)
<1>2. /\ j \in 4 .. k /\ j - 3 \in Nat \ {0} /\ j \in Nat /\ j <= Len(Segment(k))
  <2>1. Len(Segment(k)) = k
    BY <1>1
  <2>2. j \in {4, 5} /\ j <= k
    OBVIOUS
  <2> HIDE DEF j
  <2>3. QED
    BY <2>1, <2>2
<1> HIDE DEF j
<1>3. /\ t \in Text /\ Len(t) = IF j - 3 <= j THEN j - (j - 3) + 1 ELSE 0
      /\ \A i \in 1 .. j - (j - 3) + 1 : t[i] = Segment(k)[(j - 3) + i - 1]
  BY <1>1, <1>2, PartFacts
<1> HIDE DEF t
<1>4. Len(t) = 4
  BY <1>2, <1>3
<1>5. ASSUME NEW i \in 1 .. 4 PROVE t[i] = Terminator[i]
  <2>1. i \in 1 .. j - (j - 3) + 1 /\ (j - 3) + i - 1 \in 1 .. k /\ sent + ((j - 3) + i - 1) = i + 1
    BY <1>2 DEF j
  <2>2. t[i] = Response[i + 1]
    BY <1>1, <1>3, <2>1
  <2>3. Response[i + 1] = Header[i + 1]
    BY ResponseFacts
  <2>4. QED
    BY <2>2, <2>3, HeaderFacts DEF Terminator
<1>6. Terminator \in Text /\ Len(Terminator) = 4
  BY DEF Terminator, Chars, Text
<1>7. t = Terminator
  BY <1>3, <1>4, <1>5, <1>6, SeqEqual DEF Text
<1>8. QED
  BY <1>1, <1>2, <1>7 DEF EndsAt, t, j

LEMMA Smallest ==
  ASSUME NEW S \in SUBSET Nat, S # {}
  PROVE  \E x \in S : \A y \in S : x <= y
<1>1. \E x \in S : \A y \in S : ~ (<<y, x>> \in OpToRel(<, Nat))
  BY WFMin, NatLessThanWellFounded, Zenon
<1>2. PICK x \in S : \A y \in S : ~ (<<y, x>> \in OpToRel(<, Nat))
  BY <1>1, Zenon
<1>3. ASSUME NEW y \in S, y < x PROVE FALSE
  <2>1. <<y, x>> \in {ss \in Nat \X Nat : ss[1] < ss[2]}
    BY <1>3
  <2>2. <<y, x>> \in OpToRel(<, Nat)
    BY <2>1, Zenon DEF OpToRel
  <2>3. QED
    BY <1>2, <2>2, Zenon
<1>4. QED
  BY <1>3

\* What of a segment is stored: nothing before the end of the header, and then
\* the part of the body that is in it, from the first end that is in a segment.
LEMMA StoredPart ==
  ASSUME file \in Files, ~head, sent \in Nat, NEW k \in Nat \ {0}, sent + k <= Len(Response),
         eoh => sent >= 5
  PROVE  /\ ~eoh /\ EndsAt(Segment(k)) = {} => BodyIn(Segment(k)) = <<>>
         /\ eoh => BodyIn(Segment(k)) = SubSeq(Body[file], sent - 4, sent + k - 5)
         /\ ~eoh /\ EndsAt(Segment(k)) # {} =>
              \E j \in EndsAt(Segment(k)) :
                /\ \A l \in EndsAt(Segment(k)) : j <= l
                /\ BodyIn(Segment(k)) = SubSeq(Body[file], sent + j - 4, sent + k - 5)
<1>1. Segment(k) \in Text /\ Len(Segment(k)) = k
  BY SegmentFacts
<1>2. ASSUME eoh PROVE BodyIn(Segment(k)) = SubSeq(Body[file], sent - 4, sent + k - 5)
  <2>1. BodyIn(Segment(k)) = Segment(k)
    BY <1>2 DEF BodyIn
  <2>2. SubSeq(Segment(k), 1, k) = SubSeq(Body[file], sent - 4, sent + k - 5)
    <3>1. 0 \in 0 .. k /\ sent + 0 >= 5 /\ 1 + 0 = 1 /\ sent + 0 = sent
      BY <1>2
    <3>2. SubSeq(Segment(k), 1 + 0, k) = SubSeq(Body[file], sent + 0 - 4, sent + k - 5)
      BY <3>1, SegmentTail
    <3>3. QED
      BY <3>1, <3>2
  <2>3. SubSeq(Segment(k), 1, k) = Segment(k)
    BY <1>1, SubSeqFull DEF Text
  <2>4. QED
    BY <2>1, <2>2, <2>3
<1>3. ASSUME ~eoh, EndsAt(Segment(k)) # {}
      PROVE  \E j \in EndsAt(Segment(k)) :
               /\ \A l \in EndsAt(Segment(k)) : j <= l
               /\ BodyIn(Segment(k)) = SubSeq(Body[file], sent + j - 4, sent + k - 5)
  <2> DEFINE j == CHOOSE j \in EndsAt(Segment(k)) : \A l \in EndsAt(Segment(k)) : j <= l
  <2>1. EndsAt(Segment(k)) \in SUBSET Nat
    BY <1>1 DEF EndsAt
  <2>2. \E x \in EndsAt(Segment(k)) : \A l \in EndsAt(Segment(k)) : x <= l
    BY <1>3, <2>1, Smallest
  <2>3. j \in EndsAt(Segment(k)) /\ \A l \in EndsAt(Segment(k)) : j <= l
    BY <2>2
  <2>4. BodyIn(Segment(k)) = SubSeq(Segment(k), 1 + j, k)
    BY <1>1, <1>3 DEF BodyIn
  <2> HIDE DEF j
  <2>5. j \in 0 .. k /\ sent + j >= 5
    BY <2>3, EndsLate
  <2>6. SubSeq(Segment(k), 1 + j, k) = SubSeq(Body[file], sent + j - 4, sent + k - 5)
    BY <2>5, SegmentTail
  <2>7. QED
    BY <2>3, <2>4, <2>6
<1>4. ~eoh /\ EndsAt(Segment(k)) = {} => BodyIn(Segment(k)) = <<>>
  BY DEF BodyIn
<1>5. QED
  BY <1>2, <1>3, <1>4

-----------------------------------------------------------------------------
(* The heap *)

Pointers == {"GET", "HEAD", "header", "append"}
Heap     == [used : SUBSET Clusters, ptr : [Pointers -> Nat]]

LEMMA LeastFree ==
  ASSUME NEW U \in SUBSET Clusters, NEW n \in Clusters \ U, \A t \in Clusters \ U : n <= t
  PROVE  FirstFree(U) = n
<1>1. \A s \in Clusters \ U : (\A t \in Clusters \ U : s <= t) => s = n
  BY DEF Clusters
<1>2. QED
  BY <1>1 DEF FirstFree

LEMMA AllocFacts ==
  ASSUME NEW h \in Heap, NEW p \in Pointers, NEW n \in Clusters \ h.used,
         \A t \in Clusters \ h.used : n <= t
  PROVE  /\ Alloc(h, p) \in Heap /\ Alloc(h, p).used = h.used \cup {n}
         /\ Alloc(h, p).ptr[p] = n
         /\ \A q \in Pointers \ {p} : Alloc(h, p).ptr[q] = h.ptr[q]
<1>1. FirstFree(h.used) = n
  BY LeastFree DEF Heap
<1>2. Alloc(h, p) = [used |-> h.used \cup {n}, ptr |-> [h.ptr EXCEPT ![p] = n]]
  BY <1>1 DEF Alloc
<1>3. n \in Nat
  BY DEF Clusters
<1>4. QED
  BY <1>2, <1>3 DEF Heap

LEMMA ReleaseFacts ==
  ASSUME NEW h \in Heap, NEW p \in Pointers
  PROVE  /\ Release(h, p) \in Heap /\ Release(h, p).used = h.used \ {h.ptr[p]}
         /\ Release(h, p).ptr = h.ptr
  BY DEF Heap, Release

\* The three buffers where every request has them.
Placed(h) == h.ptr["GET"] = 1 /\ h.ptr["HEAD"] = 2 /\ h.ptr["header"] = 3

LEMMA FirstBlocksFacts ==
  /\ FirstBlocks \in Heap /\ Placed(FirstBlocks) /\ FirstBlocks.used = {1, 2, 3}
  /\ FirstBlocks.ptr["append"] = NULL
<1> DEFINE h0 == [used |-> {}, ptr |-> [p \in Pointers |-> NULL]]
           h1 == Alloc(h0, "GET")
           h2 == Alloc(h1, "HEAD")
           h3 == Alloc(h2, "header")
<1>1. /\ h0 \in Heap /\ h0.used = {} /\ \A p \in Pointers : h0.ptr[p] = NULL
      /\ FirstBlocks = h3
  BY DEF Heap, NULL, FirstBlocks, Pointers
<1>2. "GET" \in Pointers /\ "HEAD" \in Pointers /\ "header" \in Pointers /\ "append" \in Pointers
  BY DEF Pointers
<1> HIDE DEF h0
<1>3. /\ h1 \in Heap /\ h1.used = {1} /\ h1.ptr["GET"] = 1 /\ h1.ptr["append"] = NULL
  <2>1. 1 \in Clusters \ h0.used /\ \A t \in Clusters \ h0.used : 1 <= t
    BY <1>1 DEF Clusters
  <2>2. QED
    BY <1>1, <1>2, <2>1, AllocFacts
<1> HIDE DEF h1
<1>4. /\ h2 \in Heap /\ h2.used = {1, 2} /\ h2.ptr["GET"] = 1 /\ h2.ptr["HEAD"] = 2
      /\ h2.ptr["append"] = NULL
  <2>1. 2 \in Clusters \ h1.used /\ \A t \in Clusters \ h1.used : 2 <= t
    BY <1>3 DEF Clusters
  <2>2. QED
    BY <1>2, <1>3, <2>1, AllocFacts
<1> HIDE DEF h2
<1>5. /\ h3 \in Heap /\ h3.used = {1, 2, 3} /\ Placed(h3) /\ h3.ptr["append"] = NULL
  <2>1. 3 \in Clusters \ h2.used /\ \A t \in Clusters \ h2.used : 3 <= t
    BY <1>4 DEF Clusters
  <2>2. QED
    BY <1>2, <1>4, <2>1, AllocFacts DEF Placed
<1>6. QED
  BY <1>1, <1>5

\* Whether processHeader had freed the header buffer or not, the buffers of
\* the next request are where those of this one were.
LEMMA RenewedFacts ==
  ASSUME NEW h \in Heap, Placed(h), h.used \in {{1, 2}, {1, 2, 3}}
  PROVE  /\ Renewed(h) \in Heap /\ Placed(Renewed(h)) /\ Renewed(h).used = {1, 2, 3}
         /\ Renewed(h).ptr["append"] = h.ptr["append"]
<1> DEFINE h1 == Release(h, "GET")
           h2 == Release(h1, "HEAD")
           h3 == Alloc(h2, "GET")
           h4 == Alloc(h3, "HEAD")
           h5 == Release(h4, "header")
           h6 == Alloc(h5, "header")
<1>1. "GET" \in Pointers /\ "HEAD" \in Pointers /\ "header" \in Pointers /\ "append" \in Pointers
  BY DEF Pointers
<1>2. h1 \in Heap /\ h1.used \in {{2}, {2, 3}} /\ h1.ptr = h.ptr
  <2>1. h1 \in Heap /\ h1.used = h.used \ {1} /\ h1.ptr = h.ptr
    BY <1>1, ReleaseFacts DEF Placed
  <2>2. h.used \ {1} \in {{2}, {2, 3}}
    OBVIOUS
  <2>3. QED
    BY <2>1, <2>2
<1> HIDE DEF h1
<1>3. h2 \in Heap /\ h2.used \in {{}, {3}} /\ h2.ptr = h.ptr
  <2>1. h2 \in Heap /\ h2.used = h1.used \ {h1.ptr["HEAD"]} /\ h2.ptr = h1.ptr
    BY <1>1, <1>2, ReleaseFacts
  <2>2. h1.used \ {2} \in {{}, {3}} /\ h1.ptr["HEAD"] = 2
    BY <1>2 DEF Placed
  <2>3. QED
    BY <1>2, <2>1, <2>2
<1> HIDE DEF h2
<1>4. /\ h3 \in Heap /\ h3.used \in {{1}, {1, 3}} /\ h3.ptr["GET"] = 1
      /\ h3.ptr["header"] = 3 /\ h3.ptr["append"] = h.ptr["append"]
  <2>1. 1 \in Clusters \ h2.used /\ \A t \in Clusters \ h2.used : 1 <= t
    BY <1>3 DEF Clusters
  <2>2. QED
    BY <1>1, <1>3, <2>1, AllocFacts DEF Placed
<1> HIDE DEF h3
<1>5. /\ h4 \in Heap /\ h4.used \in {{1, 2}, {1, 2, 3}} /\ h4.ptr["GET"] = 1
      /\ h4.ptr["HEAD"] = 2 /\ h4.ptr["header"] = 3 /\ h4.ptr["append"] = h.ptr["append"]
  <2>1. 2 \in Clusters \ h3.used /\ \A t \in Clusters \ h3.used : 2 <= t
    BY <1>4 DEF Clusters
  <2>2. QED
    BY <1>1, <1>4, <2>1, AllocFacts
<1> HIDE DEF h4
<1>6. h5 \in Heap /\ h5.used = {1, 2} /\ h5.ptr = h4.ptr
  <2>1. h5 \in Heap /\ h5.used = h4.used \ {h4.ptr["header"]} /\ h5.ptr = h4.ptr
    BY <1>1, <1>5, ReleaseFacts
  <2>2. h4.used \ {3} = {1, 2}
    BY <1>5
  <2>3. QED
    BY <1>5, <2>1, <2>2
<1> HIDE DEF h5
<1>7. /\ h6 \in Heap /\ h6.used = {1, 2, 3} /\ Placed(h6)
      /\ h6.ptr["append"] = h.ptr["append"]
  <2>1. 3 \in Clusters \ h5.used /\ \A t \in Clusters \ h5.used : 3 <= t
    BY <1>6 DEF Clusters
  <2>2. QED
    BY <1>1, <1>5, <1>6, <2>1, AllocFacts DEF Placed
<1>8. Renewed(h) = h6
  BY DEF Renewed, h1, h2, h3, h4, h5
<1>9. QED
  BY <1>7, <1>8

-----------------------------------------------------------------------------
(* Data that comes in *)

LEMMA PartsAre ==
  ASSUME NEW f \in Files
  PROVE  /\ <<>> \in Parts(Body[f])
         /\ Body[f] \in Parts(Body[f]) /\ SubSeq(Body[f], 1, Len(Body[f])) = Body[f]
         /\ \A i \in 1 .. Len(Body[f]) + 1, n \in 0 .. Len(Body[f]) :
              SubSeq(Body[f], i, n) \in Parts(Body[f])
<1>1. Body[f] \in Text /\ Len(Body[f]) \in Nat
  BY BodyType
<1>2. SubSeq(Body[f], 1, Len(Body[f])) = Body[f]
  BY <1>1, SubSeqFull DEF Text
<1>3. \A i \in 1 .. Len(Body[f]) + 1, n \in 0 .. Len(Body[f]) : SubSeq(Body[f], i, n) \in Parts(Body[f])
  BY <1>1 DEF Parts
<1>4. SubSeq(Body[f], 1, 0) = <<>>
  BY <1>1, SubSeqEmpty
<1>5. 1 \in 1 .. Len(Body[f]) + 1 /\ 0 \in 0 .. Len(Body[f]) /\ Len(Body[f]) \in 0 .. Len(Body[f])
  BY <1>1
<1>6. QED
  BY <1>2, <1>3, <1>4, <1>5

\* Parts are text, and no longer than the whole.
LEMMA PartsFit ==
  ASSUME NEW f \in Files, NEW x \in Parts(Body[f])
  PROVE  x \in Text /\ Len(x) \in Nat /\ Len(x) <= Len(Body[f])
<1>1. Body[f] \in Text /\ Len(Body[f]) \in Nat
  BY BodyType
<1>2. PICK i \in 1 .. Len(Body[f]) + 1, n \in 0 .. Len(Body[f]) : x = SubSeq(Body[f], i, n)
  BY DEF Parts
<1>3. /\ x \in Text /\ Len(x) = IF i <= n THEN n - i + 1 ELSE 0
  BY <1>1, <1>2, PartFacts
<1>4. QED
  BY <1>1, <1>3

\* Two neighbouring parts of a file make one.
LEMMA Joined ==
  ASSUME NEW f \in Files, NEW i \in Nat \ {0}, NEW m \in Nat, NEW n \in Nat,
         i <= m + 1, m <= n, n <= Len(Body[f])
  PROVE  SubSeq(Body[f], i, m) \o SubSeq(Body[f], m + 1, n) = SubSeq(Body[f], i, n)
<1>1. Body[f] \in Text /\ Len(Body[f]) \in Nat
  BY BodyType
<1>2. i \in 1 .. Len(Body[f]) + 1 /\ m \in i - 1 .. Len(Body[f]) /\ n \in m .. Len(Body[f])
  BY <1>1
<1>3. QED
  BY <1>1, <1>2, ConcatAdjacentSubSeq DEF Text

LEMMA BufferType ==
  ASSUME DownloadInv
  PROVE  file \in Files /\ Buffer \in Text
<1>1. file \in Files /\ OnlyBodyBytes
  BY DEF DownloadInv, TypeOK
<1>2. "append" \in Files
  BY DEF Files
<1>3. CASE file = "append"
  BY <1>1, <1>2, <1>3, PartsFit DEF OnlyBodyBytes, Buffer
<1>4. CASE file # "append"
  BY <1>1, <1>4, PartsFit DEF OnlyBodyBytes, Buffer
<1>5. QED
  BY <1>1, <1>3, <1>4

LEMMA RecvReads ==
  ASSUME DownloadInv, Recv
  PROVE  /\ conn = "open"
         /\ \E k \in Nat \ {0} :
              /\ sent + k <= Len(Response) /\ sent' = sent + k
              /\ eoh' = (eoh \/ (~head /\ EndsAt(Segment(k)) # {}))
              /\ Buffer' = Buffer \o (IF head THEN <<>> ELSE BodyIn(Segment(k)))
              /\ split' = (split \/ (~head /\ 1 < sent' /\ sent' < 5))
         /\ file = "append" => UNCHANGED tempBuf
         /\ file # "append" => UNCHANGED appendLine
         /\ UNCHANGED <<file, head, conn, contLen, kernel, initrdSize, heap, old, cut>>
<1>1. PICK k \in 1 .. MaxSeg :
        LET s == SubSeq(Response, sent + 1, sent + k)
            part == IF head THEN <<>> ELSE BodyIn(s)
        IN /\ sent + k <= Len(Response)
           /\ sent' = sent + k
           /\ eoh' = (eoh \/ (~head /\ EndsAt(s) # {}))
           /\ IF file = "append"
              THEN appendLine' = appendLine \o part /\ UNCHANGED tempBuf
              ELSE tempBuf' = tempBuf \o part /\ UNCHANGED appendLine
           /\ split' = (split \/ (~head /\ Len(Header) - 4 < sent' /\ sent' < Len(Header)))
  BY DEF Recv
<1>2. k \in Nat \ {0} /\ Len(Header) - 4 = 1 /\ Len(Header) = 5
  BY DownloadAssumption, HeaderFacts
<1>3. /\ conn = "open"
      /\ UNCHANGED <<file, head, conn, contLen, kernel, initrdSize, heap, old, cut>>
  BY DEF Recv
<1>4. Buffer' = Buffer \o (IF head THEN <<>> ELSE BodyIn(Segment(k)))
  BY <1>1, <1>3 DEF Buffer, Segment
<1>5. /\ sent + k <= Len(Response) /\ sent' = sent + k
      /\ eoh' = (eoh \/ (~head /\ EndsAt(Segment(k)) # {}))
      /\ split' = (split \/ (~head /\ 1 < sent' /\ sent' < 5))
      /\ file = "append" => UNCHANGED tempBuf
      /\ file # "append" => UNCHANGED appendLine
  BY <1>1, <1>2 DEF Segment
<1>6. QED
  BY <1>2, <1>3, <1>4, <1>5

LEMMA Unfolded ==
  DownloadInv <=>
    TypeOK /\ OnlyBodyBytes /\ StartsEmpty /\ Received /\ Arrived /\ HeapSame /\ LengthKnown
           /\ ConnAtHand
  BY DEF DownloadInv

LEMMA RecvReceives ==
  ASSUME DownloadInv, Recv
  PROVE  Received' /\ (head \/ ~eoh' => Buffer' = <<>>) /\ eoh' \in BOOLEAN /\ split' \in BOOLEAN
<1>1. /\ TypeOK /\ StartsEmpty /\ Received /\ file \in Files /\ Buffer \in Text
      /\ sent \in Nat /\ head \in BOOLEAN /\ eoh \in BOOLEAN /\ split \in BOOLEAN
  BY BufferType DEF DownloadInv, TypeOK
<1>2. conn = "open" /\ UNCHANGED <<file, head, conn>>
  BY RecvReads
<1>3. PICK k \in Nat \ {0} :
        /\ sent + k <= Len(Response) /\ sent' = sent + k
        /\ eoh' = (eoh \/ (~head /\ EndsAt(Segment(k)) # {}))
        /\ Buffer' = Buffer \o (IF head THEN <<>> ELSE BodyIn(Segment(k)))
        /\ split' = (split \/ (~head /\ 1 < sent' /\ sent' < 5))
  BY RecvReads
<1>4. Response' = Response
  BY <1>2 DEF Response
<1>5. (eoh \/ (~head /\ EndsAt(Segment(k)) # {})) \in BOOLEAN
      /\ (split \/ (~head /\ 1 < sent' /\ sent' < 5)) \in BOOLEAN
  BY <1>1
<1>6. /\ eoh' \in BOOLEAN /\ split' \in BOOLEAN
      /\ eoh' <=> (eoh \/ (~head /\ EndsAt(Segment(k)) # {}))
      /\ split' <=> (split \/ (~head /\ 1 < sent' /\ sent' < 5))
  BY <1>3, <1>5
<1>7. /\ head \/ ~eoh => Buffer = <<>>
      /\ head => ~eoh
  BY <1>1 DEF StartsEmpty
<1>8. /\ sent <= Len(Response)
      /\ eoh => sent >= 5 /\ \E i \in 1 .. sent - 4 :
                   Buffer = SubSeq(Body[file], i, sent - 5) /\ (~split => i = 1)
      /\ ~head /\ ~eoh /\ ~split => sent <= 1
  <2>1. sent - Len(Header) + 1 = sent - 4 /\ sent - Len(Header) = sent - 5
        /\ Len(Header) - 4 = 1 /\ Len(Header) = 5
    BY <1>1, HeaderFacts
  <2>2. QED
    BY <1>1, <1>2, <2>1 DEF Received
<1>9. Len(Response) \in Nat /\ (~head => Len(Response) = 5 + Len(Body[file]))
      /\ Len(Body[file]) \in Nat
  BY <1>1, ResponseFacts, BodyType
<1>10. head \/ ~eoh' => Buffer' = <<>>
  <2>1. <<>> \o <<>> = <<>>
    BY EmptyText, ConcatEmptySeq DEF Text
  <2>2. CASE head
    BY <1>3, <1>7, <2>1, <2>2
  <2>3. CASE ~head /\ ~eoh'
    <3>1. BodyIn(Segment(k)) = <<>>
      BY <1>1, <1>3, <1>6, <1>8, <2>3, StoredPart
    <3>2. QED
      BY <1>3, <1>6, <1>7, <2>1, <2>3, <3>1
  <2>4. QED
    BY <2>2, <2>3
<1>11. ASSUME eoh'
       PROVE  sent' >= 5 /\ \E i \in 1 .. sent' - 4 :
                Buffer' = SubSeq(Body[file], i, sent' - 5) /\ (~split' => i = 1)
  <2>1. ~head
    BY <1>6, <1>7, <1>11
  <2>2. Buffer' = Buffer \o BodyIn(Segment(k))
    BY <1>3, <2>1
  <2>3. CASE eoh
    <3>1. PICK i \in 1 .. sent - 4 : Buffer = SubSeq(Body[file], i, sent - 5) /\ (~split => i = 1)
      BY <1>8, <2>3
    <3>2. BodyIn(Segment(k)) = SubSeq(Body[file], sent - 4, sent + k - 5)
      BY <1>1, <1>3, <1>8, <2>1, <2>3, StoredPart
    <3>3. /\ i \in Nat \ {0} /\ sent - 5 \in Nat /\ sent + k - 5 \in Nat
          /\ i <= (sent - 5) + 1 /\ sent - 5 <= sent + k - 5 /\ sent + k - 5 <= Len(Body[file])
          /\ (sent - 5) + 1 = sent - 4
      BY <1>1, <1>3, <1>8, <1>9, <2>1, <2>3
    <3>4. SubSeq(Body[file], i, sent - 5) \o SubSeq(Body[file], (sent - 5) + 1, sent + k - 5)
            = SubSeq(Body[file], i, sent + k - 5)
      BY <1>1, <3>3, Joined
    <3>5. Buffer' = SubSeq(Body[file], i, sent' - 5)
      <4>1. Buffer' = SubSeq(Body[file], i, sent - 5) \o SubSeq(Body[file], sent - 4, sent + k - 5)
        BY <2>2, <3>1, <3>2, Zenon
      <4>2. Buffer' = SubSeq(Body[file], i, sent + k - 5)
        BY <3>3, <3>4, <4>1, Zenon
      <4>3. sent' - 5 = sent + k - 5
        BY <1>1, <1>3
      <4>4. QED
        BY <4>2, <4>3, Zenon
    <3>6. i \in 1 .. sent' - 4 /\ sent' >= 5 /\ (~split' => i = 1)
      BY <1>1, <1>3, <1>6, <1>8, <2>3, <3>1
    <3>7. QED
      BY <3>5, <3>6
  <2>4. CASE ~eoh
    <3>1. EndsAt(Segment(k)) # {}
      BY <1>6, <1>11, <2>4
    <3>2. PICK j \in EndsAt(Segment(k)) :
            /\ \A l \in EndsAt(Segment(k)) : j <= l
            /\ BodyIn(Segment(k)) = SubSeq(Body[file], sent + j - 4, sent + k - 5)
      BY <1>1, <1>3, <2>1, <2>4, <3>1, StoredPart
    <3>3. j \in 4 .. k /\ sent + j >= 5
      BY <1>1, <1>3, EndsLate
    <3>4. BodyIn(Segment(k)) \in Text
      <4>1. sent + j - 4 \in Nat \ {0} /\ sent + k - 5 \in Nat /\ sent + k - 5 <= Len(Body[file])
        BY <1>1, <1>3, <1>9, <2>1, <3>3
      <4>2. QED
        BY <1>1, <3>2, <4>1, BodyType, PartFacts
    <3>5. Buffer' = BodyIn(Segment(k))
      BY <1>7, <2>2, <2>4, <3>4, ConcatEmptySeq DEF Text
    <3>6. Buffer' = SubSeq(Body[file], sent + j - 4, sent' - 5)
      <4>1. Buffer' = SubSeq(Body[file], sent + j - 4, sent + k - 5)
        BY <3>2, <3>5, Zenon
      <4>2. sent' - 5 = sent + k - 5
        BY <1>1, <1>3
      <4>3. QED
        BY <4>1, <4>2, Zenon
    <3>7. sent + j - 4 \in 1 .. sent' - 4 /\ sent' >= 5
      BY <1>1, <1>3, <3>3
    <3>8. ASSUME ~split' PROVE sent + j - 4 = 1
      <4>1. sent \in {0, 1}
        BY <1>1, <1>6, <1>8, <2>1, <2>4, <3>8
      <4>2. 5 - sent \in EndsAt(Segment(k))
        BY <1>1, <1>3, <3>7, <4>1, EndsInTime
      <4>3. QED
        BY <3>2, <3>3, <4>1, <4>2
    <3>9. QED
      BY <3>6, <3>7, <3>8
  <2>5. QED
    BY <2>3, <2>4
<1>12. ASSUME ~head, ~eoh', ~split' PROVE sent' <= 1
  <2>1. sent \in {0, 1} /\ EndsAt(Segment(k)) = {}
    BY <1>1, <1>6, <1>8, <1>12
  <2>2. ~(sent + k >= 5)
    BY <1>1, <1>3, <2>1, EndsInTime
  <2>3. QED
    BY <1>3, <1>6, <1>12, <2>1, <2>2
<1>13. Received'
  <2>1. /\ sent' - Len(Header)' + 1 = sent' - 4 /\ sent' - Len(Header)' = sent' - 5
        /\ Len(Header)' - 4 = 1 /\ Len(Header)' = 5 /\ sent' <= Len(Response')
    <3>1. Len(Header)' = 5
      BY HeaderFacts DEF Header
    <3>2. QED
      BY <1>1, <1>3, <1>4, <3>1
  <2>2. QED
    BY <1>2, <1>11, <1>12, <2>1 DEF Received
<1>14. QED
  BY <1>6, <1>10, <1>13

LEMMA Within ==
  ASSUME NEW n \in Nat, NEW b \in Nat, n <= 5 + b, n >= 5
  PROVE  n - 5 \in 0 .. b /\ \A i \in 1 .. n - 5 + 1 : i \in 1 .. b + 1
  OBVIOUS

LEMMA RecvStep ==
  ASSUME DownloadInv, Recv
  PROVE  DownloadInv'
<1>1. /\ TypeOK /\ OnlyBodyBytes /\ StartsEmpty /\ Received /\ Arrived /\ HeapSame /\ LengthKnown
      /\ ConnAtHand /\ file \in Files
  BY Unfolded DEF TypeOK
<1>2. /\ conn = "open"
      /\ file = "append" => UNCHANGED tempBuf
      /\ file # "append" => UNCHANGED appendLine
      /\ UNCHANGED <<file, head, conn, contLen, kernel, initrdSize, heap, old, cut>>
  BY RecvReads
<1>3. Received' /\ (head \/ ~eoh' => Buffer' = <<>>) /\ eoh' \in BOOLEAN /\ split' \in BOOLEAN
  BY RecvReceives
<1>4. PICK k \in Nat \ {0} :
        /\ sent' = sent + k
        /\ eoh' = (eoh \/ (~head /\ EndsAt(Segment(k)) # {}))
        /\ split' = (split \/ (~head /\ 1 < sent' /\ sent' < 5))
  BY RecvReads
<1>5. TypeOK'
  BY <1>1, <1>2, <1>3, <1>4 DEF TypeOK
<1>6. StartsEmpty'
  <2>1. head => ~eoh'
    BY <1>1, <1>4 DEF StartsEmpty
  <2>2. QED
    BY <1>1, <1>2, <1>3, <2>1 DEF StartsEmpty
<1>7. Buffer' \in Parts(Body[file])
  <2>1. CASE ~eoh'
    BY <1>1, <1>3, <2>1, PartsAre
  <2>2. CASE eoh'
    <3>1. /\ Len(Header)' = 5 /\ Len(Header') = 5 /\ Response' = Response
          /\ Len(Response) = 5 + Len(Body[file]) /\ Len(Body[file]) \in Nat
      <4>1. ~head
        BY <1>2, <1>3, <1>6, <2>2 DEF StartsEmpty
      <4>2. QED
        BY <1>1, <1>2, <4>1, HeaderFacts, ResponseFacts, BodyType DEF Header, Response
    <3>2. /\ sent' <= Len(Response') /\ sent' >= Len(Header')
          /\ \E i \in 1 .. sent' - Len(Header') + 1 : Buffer' = SubSeq(Body[file], i, sent' - Len(Header'))
      BY <1>2, <1>3, <2>2 DEF Received
    <3>3. PICK i \in 1 .. sent' - Len(Header') + 1 : Buffer' = SubSeq(Body[file], i, sent' - Len(Header'))
      BY <3>2
    <3>4. i \in 1 .. Len(Body[file]) + 1 /\ sent' - Len(Header') \in 0 .. Len(Body[file])
      <4>1. sent' \in Nat
        BY <1>5 DEF TypeOK
      <4>2. sent' <= 5 + Len(Body[file]) /\ sent' >= 5
        BY <3>1, <3>2
      <4>3. /\ Len(Body[file]) \in Nat /\ sent' - Len(Header') = sent' - 5
            /\ i \in 1 .. sent' - 5 + 1
        BY <3>1, <3>3
      <4>4. sent' - 5 \in 0 .. Len(Body[file]) /\ i \in 1 .. Len(Body[file]) + 1
        BY <4>1, <4>2, <4>3, Within, Zenon
      <4>5. QED
        BY <4>3, <4>4
    <3>5. QED
      BY <1>1, <3>3, <3>4, PartsAre
  <2>3. QED
    BY <2>1, <2>2
<1>8. OnlyBodyBytes'
  BY <1>1, <1>2, <1>7 DEF OnlyBodyBytes, Buffer
<1>9. Arrived'
  BY <1>1, <1>2, <1>3, <1>4 DEF Arrived, Whole, TypeOK
<1>10. HeapSame' /\ LengthKnown' /\ ConnAtHand'
  BY <1>1, <1>2 DEF HeapSame, LengthKnown, ConnAtHand
<1>11. QED
  BY <1>3, <1>5, <1>6, <1>8, <1>9, <1>10 DEF DownloadInv

LEMMA ConnectedStep ==
  ASSUME DownloadInv, Connected
  PROVE  DownloadInv'
<1>1. /\ TypeOK /\ OnlyBodyBytes /\ StartsEmpty /\ Received /\ Arrived /\ HeapSame /\ LengthKnown
      /\ ConnAtHand /\ file \in Files
  BY Unfolded DEF TypeOK
<1>2. /\ conn = "connecting" /\ conn' = "open" /\ sent' = 0
      /\ UNCHANGED <<file, head, eoh, contLen, tempBuf, appendLine, kernel, initrdSize, heap, old,
                     split, cut>>
  BY DEF Connected, data
<1>3. TypeOK' /\ OnlyBodyBytes' /\ StartsEmpty'
  BY <1>1, <1>2 DEF TypeOK, OnlyBodyBytes, StartsEmpty, Buffer
<1>4. Received'
  <2>1. Response' = Response /\ Len(Response) \in Nat /\ Len(Header)' = 5 /\ ~eoh'
    BY <1>1, <1>2, ResponseFacts, HeaderFacts DEF Response, Header, StartsEmpty
  <2>2. sent' <= Len(Response)' /\ sent' <= Len(Header)' - 4
    BY <1>2, <2>1
  <2>3. QED
    BY <2>1, <2>2 DEF Received
<1>5. Arrived' /\ HeapSame' /\ LengthKnown' /\ ConnAtHand'
  BY <1>1, <1>2 DEF Arrived, Whole, HeapSame, LengthKnown, ConnAtHand, Final
<1>6. QED
  BY <1>3, <1>4, <1>5 DEF DownloadInv

-----------------------------------------------------------------------------
(* The server closes the connection *)

LEMMA ClosedFacts ==
  ASSUME DownloadInv, Closed
  PROVE  /\ conn = "open" /\ UNCHANGED <<sent, split>> /\ cut' \in BOOLEAN
         /\ ~cut' => ~cut /\ sent = Len(Response)
<1>1. TypeOK /\ Received /\ file \in Files /\ cut \in BOOLEAN /\ sent \in Nat
  BY DEF DownloadInv, TypeOK
<1>2. conn = "open" /\ cut' = (cut \/ sent < Len(Response)) /\ UNCHANGED <<sent, split>>
  BY DEF Closed
<1>3. sent <= Len(Response) /\ Len(Response) \in Nat
  BY <1>1, <1>2, ResponseFacts DEF Received
<1>4. (cut \/ sent < Len(Response)) \in BOOLEAN
  BY <1>1
<1>5. cut' \in BOOLEAN /\ (cut' <=> cut \/ sent < Len(Response))
  BY <1>2, <1>4
<1>6. ~cut' => ~cut /\ sent = Len(Response)
  BY <1>1, <1>3, <1>5
<1>7. QED
  BY <1>2, <1>5, <1>6

\* A body that came to its end, from a header whose end was seen, is whole.
LEMMA CameWhole ==
  ASSUME DownloadInv, Closed, ~head, ~cut', ~split
  PROVE  Buffer = Body[file]
<1>1. TypeOK /\ Received /\ file \in Files /\ sent \in Nat
  BY DEF DownloadInv, TypeOK
<1>2. conn = "open" /\ sent = Len(Response)
  BY ClosedFacts
<1>3. Len(Response) = 5 + Len(Body[file]) /\ Len(Body[file]) \in Nat /\ Len(Header) = 5
  BY <1>1, ResponseFacts, BodyType, HeaderFacts
<1>4. eoh
  BY <1>1, <1>2, <1>3 DEF Received
<1>5. Buffer = SubSeq(Body[file], 1, sent - Len(Header))
  BY <1>1, <1>2, <1>4 DEF Received
<1>6. sent - Len(Header) = Len(Body[file])
  BY <1>2, <1>3
<1>7. QED
  BY <1>1, <1>5, <1>6, PartsAre

LEMMA ReconnectFacts ==
  ASSUME DownloadInv, conn = "open", Reconnect
  PROVE  conn' \in {"connecting", "crashed"} /\ old' \in 0 .. Pcbs /\ ConnAtHand'
<1>1. old \in 0 .. Pcbs /\ old < Pcbs /\ Pcbs \in Nat
  BY DownloadAssumption DEF DownloadInv, TypeOK, ConnAtHand, Final
<1>2. old' = old + 1 /\ conn' = IF old + 1 < Pcbs THEN "connecting" ELSE "crashed"
  BY DEF Reconnect
<1>3. QED
  BY <1>1, <1>2 DEF ConnAtHand, Final

\* processHeader has freed the header buffer or not; the append line gets the
\* first cluster behind the requests.
LEMMA AppendAllocatedFacts ==
  ASSUME NEW h \in Heap, Placed(h), h.used \in {{1, 2}, {1, 2, 3}}, h.ptr["append"] = NULL, NEW n
  PROVE  LET r == AppendAllocated(h, n)
         IN /\ r \in Heap /\ Placed(r)
            /\ n = Unknown => r.ptr["append"] = Low /\ r.used = h.used
            /\ n # Unknown => \/ r.ptr["append"] = 3 /\ r.used = {1, 2, 3}
                              \/ r.ptr["append"] = 4 /\ r.used = {1, 2, 3, 4}
<1> DEFINE r == AppendAllocated(h, n)
<1>1. "GET" \in Pointers /\ "HEAD" \in Pointers /\ "header" \in Pointers /\ "append" \in Pointers
  BY DEF Pointers
<1>2. CASE n = Unknown
  <2>1. r = [h EXCEPT !.ptr["append"] = Low]
    BY <1>2 DEF AppendAllocated
  <2>2. r \in Heap /\ r.used = h.used /\ r.ptr = [h.ptr EXCEPT !["append"] = Low]
    BY <2>1 DEF Heap, Low
  <2> HIDE DEF r
  <2>3. r.ptr["append"] = Low /\ Placed(r)
    BY <1>1, <2>2 DEF Heap, Placed
  <2>4. QED
    BY <1>2, <2>2, <2>3 DEF r
<1>3. CASE n # Unknown /\ h.used = {1, 2}
  <2>1. 3 \in Clusters \ h.used /\ \A t \in Clusters \ h.used : 3 <= t
    BY <1>3 DEF Clusters
  <2>2. /\ Alloc(h, "append") \in Heap /\ Alloc(h, "append").used = h.used \cup {3}
        /\ Alloc(h, "append").ptr["append"] = 3
        /\ \A q \in Pointers \ {"append"} : Alloc(h, "append").ptr[q] = h.ptr[q]
    BY <1>1, <2>1, AllocFacts
  <2>3. r = Alloc(h, "append") /\ h.used \cup {3} = {1, 2, 3}
    BY <1>3 DEF AppendAllocated
  <2> HIDE DEF r
  <2>4. r \in Heap /\ Placed(r) /\ r.ptr["append"] = 3 /\ r.used = {1, 2, 3}
    BY <1>1, <2>2, <2>3 DEF Placed
  <2>5. QED
    BY <1>3, <2>4 DEF r
<1>4. CASE n # Unknown /\ h.used = {1, 2, 3}
  <2>1. 4 \in Clusters \ h.used /\ \A t \in Clusters \ h.used : 4 <= t
    BY <1>4 DEF Clusters
  <2>2. /\ Alloc(h, "append") \in Heap /\ Alloc(h, "append").used = h.used \cup {4}
        /\ Alloc(h, "append").ptr["append"] = 4
        /\ \A q \in Pointers \ {"append"} : Alloc(h, "append").ptr[q] = h.ptr[q]
    BY <1>1, <2>1, AllocFacts
  <2>3. r = Alloc(h, "append") /\ h.used \cup {4} = {1, 2, 3, 4}
    BY <1>4 DEF AppendAllocated
  <2> HIDE DEF r
  <2>4. r \in Heap /\ Placed(r) /\ r.ptr["append"] = 4 /\ r.used = {1, 2, 3, 4}
    BY <1>1, <2>2, <2>3 DEF Placed
  <2>5. QED
    BY <1>4, <2>4 DEF r
<1>5. QED
  BY <1>2, <1>3, <1>4

LEMMA HeapAs ==
  /\ Heap = [used : SUBSET Clusters, ptr : [{"GET", "HEAD", "header", "append"} -> Nat]]
  /\ \A h : Placed(h) <=> h.ptr["GET"] = 1 /\ h.ptr["HEAD"] = 2 /\ h.ptr["header"] = 3
  BY DEF Heap, Pointers, Placed

LEMMA CloseHeadStep ==
  ASSUME DownloadInv, CloseHead
  PROVE  DownloadInv'
<1>1. /\ TypeOK /\ OnlyBodyBytes /\ StartsEmpty /\ Received /\ Arrived /\ HeapSame /\ LengthKnown
      /\ ConnAtHand /\ file \in Files
  BY Unfolded DEF TypeOK
<1>2. /\ Closed /\ head /\ head' = FALSE /\ Reconnect
      /\ UNCHANGED <<file, eoh, tempBuf, appendLine, kernel, initrdSize>>
  BY DEF CloseHead, data
<1>3. /\ conn = "open" /\ UNCHANGED <<sent, split>> /\ cut' \in BOOLEAN
      /\ ~cut' => ~cut /\ sent = Len(Response)
      /\ conn' \in {"connecting", "crashed"} /\ old' \in 0 .. Pcbs /\ ConnAtHand'
  BY <1>2, ClosedFacts, ReconnectFacts
<1>4. PICK found \in BOOLEAN, n \in LengthSeen :
        /\ contLen' = IF found THEN n ELSE contLen
        /\ heap' = IF file = "append"
                   THEN AppendAllocated(IF found THEN Release(heap, "header") ELSE heap, contLen')
                   ELSE IF found THEN Release(heap, "header") ELSE heap
  BY DEF CloseHead
<1>5. file # "bios" /\ contLen = Unknown
  BY <1>1, <1>2 DEF Arrived, LengthKnown
<1> DEFINE h == IF found THEN Release(heap, "header") ELSE heap
<1>6. /\ heap \in Heap /\ Placed(heap) /\ heap.used = {1, 2, 3} /\ heap.ptr["append"] = NULL
  BY <1>1, <1>2, <1>5, HeapAs DEF HeapSame
<1>7. /\ h \in Heap /\ Placed(h) /\ h.used \in {{1, 2}, {1, 2, 3}} /\ h.ptr["append"] = NULL
  <2>1. CASE found
    <3>1. h \in Heap /\ h.used = heap.used \ {heap.ptr["header"]} /\ h.ptr = heap.ptr
      BY <1>6, <2>1, ReleaseFacts DEF Pointers
    <3>2. heap.ptr["header"] = 3 /\ heap.used \ {3} = {1, 2}
      BY <1>6 DEF Placed
    <3>3. QED
      BY <1>6, <3>1, <3>2 DEF Placed
  <2>2. CASE ~found
    BY <1>6, <2>2
  <2>3. QED
    BY <2>1, <2>2
<1>8. heap' = IF file = "append" THEN AppendAllocated(h, contLen') ELSE h
  BY <1>4
<1> HIDE DEF h
<1>9. ASSUME file = "append"
      PROVE  /\ HeapSame' /\ heap'.used \subseteq Clusters
             /\ ~cut' /\ heap'.ptr["append"] \in Clusters => contLen' = Len(Body["append"])
  <2>1. /\ heap' \in Heap /\ Placed(heap')
        /\ contLen' = Unknown => heap'.ptr["append"] = Low /\ heap'.used = h.used
        /\ contLen' # Unknown => \/ heap'.ptr["append"] = 3 /\ heap'.used = {1, 2, 3}
                                 \/ heap'.ptr["append"] = 4 /\ heap'.used = {1, 2, 3, 4}
    <3> DEFINE m == contLen'
    <3> HIDE DEF m
    <3>1. heap' = AppendAllocated(h, m)
      BY <1>8, <1>9 DEF m
    <3>2. /\ heap' \in Heap /\ Placed(heap')
          /\ m = Unknown => heap'.ptr["append"] = Low /\ heap'.used = h.used
          /\ m # Unknown => \/ heap'.ptr["append"] = 3 /\ heap'.used = {1, 2, 3}
                            \/ heap'.ptr["append"] = 4 /\ heap'.used = {1, 2, 3, 4}
      BY <1>7, <3>1, AppendAllocatedFacts
    <3>3. QED
      BY <3>2 DEF m
  <2>2. HeapSame'
    BY <1>2, <1>3, <1>7, <1>9, <2>1, HeapAs DEF HeapSame, NULL, Low
  <2>3. heap'.used \subseteq Clusters
    BY <2>1 DEF Heap
  <2>4. ~cut' /\ heap'.ptr["append"] \in Clusters => contLen' = Len(Body["append"])
    <3>1. ~cut' => LengthSeen = {Len(Body[file])}
      BY <1>3 DEF LengthSeen
    <3>2. heap'.ptr["append"] \in Clusters => contLen' # Unknown
      BY <2>1 DEF Clusters, Low
    <3>3. QED
      BY <1>4, <1>5, <1>9, <3>1, <3>2
  <2>5. QED
    BY <2>2, <2>3, <2>4
<1>10. ASSUME file # "append" PROVE HeapSame' /\ heap'.used \subseteq Clusters
  <2>1. heap' = h
    BY <1>8, <1>10
  <2>2. HeapSame'
    BY <1>2, <1>3, <1>7, <1>10, <2>1, HeapAs DEF HeapSame, NULL, Low
  <2>3. QED
    BY <1>7, <1>10, <2>1, <2>2 DEF Heap
<1>11. /\ HeapSame' /\ heap'.used \subseteq Clusters /\ LengthKnown'
  BY <1>2, <1>9, <1>10 DEF LengthKnown
<1>12. contLen' \in Nat \cup {Unknown}
  <2>1. \A f \in Files : Len(Body[f]) \in Nat
    BY BodyType
  <2>2. LengthSeen \subseteq Nat
    BY <1>1, <2>1 DEF LengthSeen
  <2>3. QED
    BY <1>4, <1>5, <2>2
<1>13. TypeOK' /\ OnlyBodyBytes' /\ StartsEmpty' /\ Received'
  BY <1>1, <1>2, <1>3, <1>11, <1>12 DEF TypeOK, Final, OnlyBodyBytes, StartsEmpty, Buffer, Received
<1>14. Arrived'
  BY <1>1, <1>2, <1>3, <1>5 DEF Arrived, Whole
<1>15. QED
  BY <1>3, <1>11, <1>13, <1>14 DEF DownloadInv

LEMMA NextFileFacts ==
  ASSUME DownloadInv, conn = "open", file \in {"kernel", "initrd"},
         NEW f \in {"initrd", "append"}, NextFile(f)
  PROVE  /\ file' = f /\ head' = TRUE /\ contLen' = Unknown /\ eoh' = FALSE
         /\ conn' \in {"connecting", "crashed"} /\ old' \in 0 .. Pcbs /\ ConnAtHand'
         /\ HeapSame' /\ LengthKnown' /\ heap'.used \subseteq Clusters
<1>1. /\ file' = f /\ head' = TRUE /\ contLen' = Unknown /\ eoh' = FALSE
      /\ heap' = Renewed(heap) /\ Reconnect
  BY DEF NextFile
<1>2. conn' \in {"connecting", "crashed"} /\ old' \in 0 .. Pcbs /\ ConnAtHand'
  BY <1>1, ReconnectFacts
<1>3. /\ heap \in Heap /\ Placed(heap) /\ heap.used \in {{1, 2}, {1, 2, 3}} /\ heap.ptr["append"] = NULL
  BY HeapAs DEF DownloadInv, HeapSame, NULL
<1>4. /\ Renewed(heap) \in Heap /\ Placed(Renewed(heap)) /\ Renewed(heap).used = {1, 2, 3}
      /\ Renewed(heap).ptr["append"] = NULL
  BY <1>3, RenewedFacts
<1>5. HeapSame'
  BY <1>1, <1>2, <1>4, HeapAs DEF HeapSame, NULL, Low
<1>6. LengthKnown'
  BY <1>1, <1>4 DEF LengthKnown, NULL, Clusters
<1>7. heap'.used \subseteq Clusters
  BY <1>1, <1>4 DEF Heap
<1>8. QED
  BY <1>1, <1>2, <1>5, <1>6, <1>7

LEMMA CloseKernelStep ==
  ASSUME DownloadInv, CloseKernel
  PROVE  DownloadInv'
<1>1. /\ TypeOK /\ OnlyBodyBytes /\ StartsEmpty /\ Arrived /\ file \in Files
  BY Unfolded DEF TypeOK
<1>2. /\ Closed /\ ~head /\ file = "kernel" /\ kernel' = tempBuf /\ tempBuf' = <<>>
      /\ NextFile("initrd") /\ UNCHANGED <<appendLine, initrdSize>>
  BY DEF CloseKernel
<1>3. /\ conn = "open" /\ UNCHANGED <<sent, split>> /\ cut' \in BOOLEAN
  BY <1>2, ClosedFacts
<1>4. /\ file' = "initrd" /\ head' = TRUE /\ contLen' = Unknown /\ eoh' = FALSE
      /\ conn' \in {"connecting", "crashed"} /\ old' \in 0 .. Pcbs /\ ConnAtHand'
      /\ HeapSame' /\ LengthKnown' /\ heap'.used \subseteq Clusters
  BY <1>2, <1>3, NextFileFacts
<1>5. ~cut' /\ ~split => kernel' = Body["kernel"]
  BY <1>2, CameWhole DEF Buffer
<1>6. TypeOK'
  BY <1>1, <1>2, <1>3, <1>4 DEF TypeOK, Files, Final
<1>7. OnlyBodyBytes' /\ StartsEmpty' /\ Received'
  <2>1. <<>> \in Parts(Body["initrd"])
    BY PartsAre DEF Files
  <2>2. kernel' \in Parts(Body["kernel"]) /\ appendLine' \in Parts(Body["append"])
    BY <1>1, <1>2 DEF OnlyBodyBytes
  <2>3. QED
    BY <1>1, <1>2, <1>4, <2>1, <2>2 DEF OnlyBodyBytes, StartsEmpty, Received, Buffer
<1>8. Arrived'
  BY <1>3, <1>4, <1>5 DEF Arrived, Whole
<1>9. QED
  BY <1>4, <1>6, <1>7, <1>8 DEF DownloadInv

LEMMA CloseInitrdStep ==
  ASSUME DownloadInv, CloseInitrd
  PROVE  DownloadInv'
<1>1. /\ TypeOK /\ OnlyBodyBytes /\ StartsEmpty /\ Arrived /\ file \in Files
  BY Unfolded DEF TypeOK
<1>2. /\ Closed /\ ~head /\ file = "initrd" /\ initrdSize' = Len(tempBuf)
      /\ NextFile("append") /\ UNCHANGED <<tempBuf, appendLine, kernel>>
  BY DEF CloseInitrd
<1>3. /\ conn = "open" /\ UNCHANGED <<sent, split>> /\ cut' \in BOOLEAN /\ (~cut' => ~cut)
  BY <1>2, ClosedFacts
<1>4. /\ file' = "append" /\ head' = TRUE /\ contLen' = Unknown /\ eoh' = FALSE
      /\ conn' \in {"connecting", "crashed"} /\ old' \in 0 .. Pcbs /\ ConnAtHand'
      /\ HeapSame' /\ LengthKnown' /\ heap'.used \subseteq Clusters
  BY <1>2, <1>3, NextFileFacts
<1>5. ~cut' /\ ~split => tempBuf' = Body["initrd"] /\ kernel' = Body["kernel"]
  BY <1>1, <1>2, <1>3, CameWhole DEF Buffer, Arrived, Whole
<1>6. initrdSize' \in Nat
  BY <1>1, <1>2, PartsFit DEF OnlyBodyBytes
<1>7. TypeOK'
  BY <1>1, <1>2, <1>3, <1>4, <1>6 DEF TypeOK, Files, Final
<1>8. OnlyBodyBytes' /\ StartsEmpty' /\ Received'
  BY <1>1, <1>2, <1>4 DEF OnlyBodyBytes, StartsEmpty, Received, Buffer
<1>9. Arrived'
  BY <1>2, <1>3, <1>4, <1>5 DEF Arrived, Whole
<1>10. QED
  BY <1>4, <1>7, <1>8, <1>9 DEF DownloadInv

LEMMA CloseAppendStep ==
  ASSUME DownloadInv, CloseAppend
  PROVE  DownloadInv'
<1>1. /\ TypeOK /\ OnlyBodyBytes /\ StartsEmpty /\ Arrived /\ HeapSame /\ LengthKnown /\ file \in Files
  BY Unfolded DEF TypeOK
<1>2. /\ Closed /\ ~head /\ file = "append" /\ conn' = "booted"
      /\ heap' = Release(Release(heap, "GET"), "HEAD")
      /\ UNCHANGED <<file, head, eoh, contLen, tempBuf, appendLine, kernel, initrdSize, old>>
  BY DEF CloseAppend, data
<1>3. /\ conn = "open" /\ UNCHANGED <<sent, split>> /\ cut' \in BOOLEAN /\ (~cut' => ~cut)
  BY <1>2, ClosedFacts
<1>4. heap \in Heap /\ Placed(heap)
  BY <1>1, <1>2, HeapAs DEF HeapSame
<1>5. heap' \in Heap /\ heap'.ptr = heap.ptr
  <2>1. "GET" \in Pointers /\ "HEAD" \in Pointers
    BY DEF Pointers
  <2>2. Release(heap, "GET") \in Heap /\ Release(heap, "GET").ptr = heap.ptr
    BY <1>4, <2>1, ReleaseFacts
  <2>3. QED
    BY <1>2, <2>1, <2>2, ReleaseFacts
<1>6. HeapSame' /\ LengthKnown' /\ heap'.used \subseteq Clusters
  BY <1>1, <1>2, <1>3, <1>4, <1>5, HeapAs DEF HeapSame, LengthKnown, Heap
<1>7. ~cut' /\ ~split => appendLine = Body["append"]
  BY <1>2, CameWhole DEF Buffer
<1>8. TypeOK'
  BY <1>1, <1>2, <1>3, <1>6 DEF TypeOK, Final
<1>9. OnlyBodyBytes' /\ StartsEmpty' /\ Received' /\ ConnAtHand'
  BY <1>1, <1>2 DEF OnlyBodyBytes, StartsEmpty, Received, Buffer, ConnAtHand, Final
<1>10. Arrived'
  BY <1>1, <1>2, <1>3, <1>7 DEF Arrived, Whole
<1>11. QED
  BY <1>6, <1>8, <1>9, <1>10 DEF DownloadInv

LEMMA CloseBIOSStep ==
  ASSUME DownloadInv, CloseBIOS
  PROVE  DownloadInv'
<1>1. /\ TypeOK /\ OnlyBodyBytes /\ StartsEmpty /\ Arrived /\ HeapSame /\ LengthKnown /\ file \in Files
  BY Unfolded DEF TypeOK
<1>2. /\ Closed /\ file = "bios"
      /\ conn' = IF Len(tempBuf) \in Legal THEN "flashing" ELSE "hung"
      /\ UNCHANGED <<file, head, eoh, contLen, tempBuf, appendLine, kernel, initrdSize, heap, old>>
  BY DEF CloseBIOS, data
<1>3. /\ conn = "open" /\ UNCHANGED <<sent, split>> /\ cut' \in BOOLEAN /\ ~head
  BY <1>1, <1>2, ClosedFacts DEF Arrived
<1>4. ~cut' /\ ~split => tempBuf = Body["bios"]
  BY <1>2, <1>3, CameWhole DEF Buffer
<1>5. TypeOK' /\ HeapSame' /\ LengthKnown' /\ ConnAtHand'
  BY <1>1, <1>2, <1>3 DEF TypeOK, Final, HeapSame, LengthKnown, ConnAtHand
<1>6. OnlyBodyBytes' /\ StartsEmpty' /\ Received'
  BY <1>1, <1>2 DEF OnlyBodyBytes, StartsEmpty, Received, Buffer
<1>7. Arrived'
  BY <1>1, <1>2, <1>3, <1>4 DEF Arrived, Whole
<1>8. QED
  BY <1>5, <1>6, <1>7 DEF DownloadInv

LEMMA ConnErrStep ==
  ASSUME DownloadInv, ConnErr
  PROVE  DownloadInv'
<1>1. /\ conn \notin Final /\ conn' = "hung"
      /\ UNCHANGED <<file, head, sent, eoh, contLen, tempBuf, appendLine, kernel, initrdSize,
                     heap, old, split, cut>>
  BY DEF ConnErr, data
<1>2. QED
  BY <1>1 DEF DownloadInv, TypeOK, Final, OnlyBodyBytes, StartsEmpty, Buffer, Received, Arrived, Whole,
       HeapSame, LengthKnown, ConnAtHand

LEMMA OldReleasedStep ==
  ASSUME DownloadInv, OldReleased
  PROVE  DownloadInv'
<1>1. /\ old > 0 /\ old' = old - 1
      /\ UNCHANGED <<file, head, conn, sent, eoh, contLen, tempBuf, appendLine, kernel,
                     initrdSize, heap, split, cut>>
  BY DEF OldReleased, data
<1>2. old' \in 0 .. Pcbs /\ ConnAtHand'
  BY <1>1, DownloadAssumption DEF DownloadInv, TypeOK, ConnAtHand, Final
<1>3. TypeOK' /\ OnlyBodyBytes' /\ StartsEmpty' /\ Arrived' /\ HeapSame' /\ LengthKnown'
  BY <1>1, <1>2 DEF DownloadInv, TypeOK, Final, OnlyBodyBytes, StartsEmpty, Buffer, Arrived, Whole,
       HeapSame, LengthKnown
<1>4. Received'
  BY <1>1 DEF DownloadInv, Received, Buffer, Response, Header
<1>5. QED
  BY <1>2, <1>3, <1>4 DEF DownloadInv

-----------------------------------------------------------------------------
(* The invariant *)

LEMMA InitInv == Init => DownloadInv
<1> SUFFICES ASSUME Init PROVE DownloadInv
  OBVIOUS
<1>1. /\ \/ file = "kernel" /\ head = TRUE  /\ heap = FirstBlocks
         \/ file = "bios"   /\ head = FALSE /\ heap = [used |-> {}, ptr |-> <<>>]
      /\ conn = "connecting" /\ sent = 0 /\ eoh = FALSE /\ contLen = Unknown
      /\ tempBuf = <<>> /\ appendLine = <<>> /\ kernel = <<>> /\ initrdSize = 0
      /\ old = 0 /\ split = FALSE /\ cut = FALSE
  BY DEF Init
<1>2. heap.used \subseteq Clusters
  BY <1>1, FirstBlocksFacts DEF Heap
<1>3. HeapSame /\ LengthKnown
  BY <1>1, FirstBlocksFacts, HeapAs DEF HeapSame, LengthKnown, NULL, Low
<1>4. file \in Files /\ Pcbs \in Nat \ {0} /\ 0 \in 0 .. Pcbs
  BY <1>1, DownloadAssumption DEF Files
<1>5. TypeOK
  BY <1>1, <1>2, <1>4 DEF TypeOK
<1>6. OnlyBodyBytes
  <2>1. \A f \in Files : <<>> \in Parts(Body[f])
    BY PartsAre
  <2>2. QED
    BY <1>1, <1>4, <2>1 DEF OnlyBodyBytes, Files
<1>7. StartsEmpty /\ Received /\ Arrived /\ ConnAtHand
  BY <1>1, <1>4 DEF StartsEmpty, Received, Arrived, Whole, Buffer, ConnAtHand
<1>8. QED
  BY <1>3, <1>5, <1>6, <1>7 DEF DownloadInv

LEMMA NextInv == DownloadInv /\ [Next]_vars => DownloadInv'
<1> SUFFICES ASSUME DownloadInv, [Next]_vars PROVE DownloadInv'
  OBVIOUS
<1>1. CASE Next
  BY <1>1, ConnectedStep, RecvStep, CloseHeadStep, CloseKernelStep, CloseInitrdStep,
     CloseAppendStep, CloseBIOSStep, ConnErrStep, OldReleasedStep
     DEF Next, Close
<1>2. CASE UNCHANGED vars
  <2>1. UNCHANGED <<file, head, conn, sent, eoh, contLen, tempBuf, appendLine, kernel,
                    initrdSize, heap, old, split, cut>>
    BY <1>2 DEF vars
  <2>2. TypeOK' /\ OnlyBodyBytes' /\ StartsEmpty' /\ Arrived' /\ ConnAtHand'
    BY <2>1 DEF DownloadInv, TypeOK, OnlyBodyBytes, StartsEmpty, Buffer, Arrived, Whole, ConnAtHand
  <2>3. Received'
    BY <2>1 DEF DownloadInv, Received, Buffer, Response, Header
  <2>4. HeapSame' /\ LengthKnown'
    BY <2>1 DEF DownloadInv, HeapSame, LengthKnown
  <2>5. QED
    BY <2>2, <2>3, <2>4 DEF DownloadInv
<1>3. QED
  BY <1>1, <1>2

LEMMA Invariance == Spec => []DownloadInv
  BY InitInv, NextInv, PTL DEF Spec

\* The variables keep their types, whatever the server sends.
THEOREM DownloadTypes == Spec => []TypeOK
<1>1. DownloadInv => TypeOK
  BY DEF DownloadInv
<1>2. QED
  BY <1>1, Invariance, PTL

\* recvKernel, recvInitrd, recvAppend, recvBIOS: however a response is cut into
\* segments or cut short, no byte of a header and none of another file is
\* stored in a file's place.
THEOREM StoresOnlyBodies == Spec => []OnlyBodyBytes
<1>1. DownloadInv => OnlyBodyBytes
  BY DEF DownloadInv
<1>2. QED
  BY <1>1, Invariance, PTL

\* boot: three files that came whole, each from a header whose end was seen,
\* are booted as the server has them.
THEOREM BootsServersFiles == Spec => []BootsWholeFiles
<1>1. DownloadInv => BootsWholeFiles
  <2>1. SUFFICES ASSUME DownloadInv, conn = "booted", ~cut, ~split
                 PROVE  /\ kernel = Body["kernel"]
                        /\ SubSeq(tempBuf, 1, initrdSize) = Body["initrd"]
                        /\ appendLine = Body["append"]
    BY DEF BootsWholeFiles
  <2>2. /\ kernel = Body["kernel"] /\ appendLine = Body["append"]
        /\ tempBuf = Body["initrd"] /\ initrdSize = Len(Body["initrd"])
    BY <2>1 DEF DownloadInv, Arrived, Whole
  <2>3. "initrd" \in Files
    BY DEF Files
  <2>4. SubSeq(Body["initrd"], 1, Len(Body["initrd"])) = Body["initrd"]
    BY <2>3, PartsAre
  <2>5. QED
    BY <2>2, <2>4
<1>2. QED
  BY <1>1, Invariance, PTL

\* flashBIOS: an image that is flashed has a size the chip takes, and is the
\* server's unless its response was cut short or ill.
THEOREM FlashesServersBios == Spec => []FlashesWholeBios
<1>1. DownloadInv => FlashesWholeBios
  BY DEF DownloadInv, Arrived, Whole, FlashesWholeBios
<1>2. QED
  BY <1>1, Invariance, PTL

\* processHeader, recvKernel, recvInitrd: freeing the header buffer twice does
\* not free a block in use, because every request has its blocks where the one
\* before had them.
THEOREM DoubleFreeIsHarmless == Spec => []PointersOwnTheirBlocks
<1>1. DownloadInv => PointersOwnTheirBlocks
  <2>1. SUFFICES ASSUME DownloadInv, file # "bios", conn # "booted"
                 PROVE  PointersOwnTheirBlocks
    BY DEF PointersOwnTheirBlocks
  <2> DEFINE A == heap.ptr["append"]
  <2>2. /\ heap.ptr["GET"] = 1 /\ heap.ptr["HEAD"] = 2 /\ heap.ptr["header"] = 3
        /\ head => A = NULL /\ heap.used = {1, 2, 3}
        /\ \/ A \in {NULL, Low} /\ heap.used \in {{1, 2}, {1, 2, 3}}
           \/ A = 3 /\ heap.used = {1, 2, 3}
           \/ A = 4 /\ heap.used = {1, 2, 3, 4}
    BY <2>1 DEF DownloadInv, HeapSame
  <2>3. NULL \notin Clusters /\ Low \notin Clusters
    BY DEF NULL, Low, Clusters
  <2> DEFINE live == {"GET", "HEAD"}
                       \cup (IF head THEN {"header"} ELSE {})
                       \cup (IF A \in Clusters THEN {"append"} ELSE {})
  <2>4. live \in {{"GET", "HEAD"}, {"GET", "HEAD", "header"}, {"GET", "HEAD", "append"}}
    BY <2>2, <2>3
  <2>5. "append" \in live => A \in {3, 4} /\ A \in heap.used
    BY <2>2, <2>3
  <2>6. 1 \in heap.used /\ 2 \in heap.used /\ ("header" \in live => 3 \in heap.used)
    BY <2>2, <2>3
  <2>7. \A p \in live : heap.ptr[p] \in heap.used
    BY <2>2, <2>4, <2>5, <2>6
  <2>8. \A p, q \in live : p # q => heap.ptr[p] # heap.ptr[q]
    BY <2>2, <2>4, <2>5
  <2>9. QED
    BY <2>1, <2>7, <2>8 DEF PointersOwnTheirBlocks
<1>2. QED
  BY <1>1, Invariance, PTL
=============================================================================
