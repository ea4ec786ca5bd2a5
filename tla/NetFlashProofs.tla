--------------------------- MODULE NetFlashProofs ---------------------------
(***************************************************************************)
(* Proofs about the upload server, for any number of connections, any      *)
(* pages, uploads and segments, and any order of the callbacks.            *)
(***************************************************************************)
EXTENDS NetFlash, FiniteSetTheorems, TLAPS

State == HttpState(Pages, Bodies)

\* Connections with an upload buffer.
Holders == {c \in Conns : live[c] /\ hs[c].posting}

\* What RecordedIsWhole and PageFitsDecision say of one http_state.
Whole(h) ==
  h.data => h.posting /\ h.postpos >= h.postlen /\ h.body \in {"image", "unmarked"}

Decided(h) ==
  h.posting /\ h.postpos >= h.postlen =>
    /\ h.data <=> h.page = "ok"
    /\ h.data => h.body \in {"image", "unmarked"}
    /\ h.body = "image" => h.data

LEMMA Units == Lengths \cup {0} \subseteq Nat /\ Chunks \subseteq Nat
<1>1. Lengths \subseteq Nat /\ Chunks \subseteq Nat \ {0}
  BY ConnAssumption, Zenon
<1>2. QED
  BY <1>1

LEMMA CleanFacts ==
  Clean \in State /\ ~Clean.posting /\ ~Clean.data /\ Whole(Clean) /\ Decided(Clean)
<1>1. 0 \in 0 .. PageLen /\ 0 \in 0 .. PollLimit - 1
  BY ConnAssumption DEF PollLimit
<1>2. QED
  BY <1>1 DEF State, HttpState, Clean, Pages, Bodies, Whole, Decided

LEMMA HolderCount ==
  /\ IsFiniteSet(Holders) /\ Cardinality(Holders) \in Nat
  /\ BuffersAccounted <=> heap = lost + Cardinality(Holders)
<1>1. Holders \in SUBSET Conns
  BY DEF Holders
<1>2. IsFiniteSet(Holders)
  BY <1>1, FS_Subset, ConnAssumption
<1>3. QED
  BY <1>2, FS_CardinalityType DEF BuffersAccounted, Holders

\* A step of one connection that keeps its http_state and may get it a buffer.
LEMMA ConnStep ==
  ASSUME UploadInv, Serving, NEW c \in Conns, live[c], arg[c],
         NEW h \in State, Whole(h), Decided(h),
         hs' = [hs EXCEPT ![c] = h],
         cb' \in [Conns -> SUBSET {"recv", "sent", "poll", "err"}],
         \A d \in Conns : cb[d] \subseteq cb'[d] /\ (d # c => cb'[d] = cb[d]),
         inflight' \in [Conns -> 0 .. SndBuf], lines' \in [Conns -> Nat],
         UNCHANGED <<pcb, arg, live, sys, upload, lost, flash, content>>,
         \/ h.posting = hs[c].posting /\ heap' = heap
         \/ h.posting /\ ~hs[c].posting /\ heap' = heap + 1 /\ heap' <= MaxBuffers
  PROVE  UploadInv'
<1>1. ServerTypeOK'
  <2>1. ConnTypeOK(Pages, Bodies)'
    BY DEF UploadInv, ServerTypeOK, ConnTypeOK, State
  <2>2. heap' \in 0 .. MaxBuffers
    BY NetFlashAssumption DEF UploadInv, ServerTypeOK
  <2>3. QED
    BY <2>1, <2>2 DEF UploadInv, ServerTypeOK
<1>2. hs \in [Conns -> State] /\ hs'[c] = h /\ \A d \in Conns \ {c} : hs'[d] = hs[d]
  BY DEF UploadInv, ServerTypeOK, ConnTypeOK, State
<1>3. CallbacksHaveState' /\ FreedIsClean'
  BY <1>2 DEF UploadInv, CallbacksHaveState, FreedIsClean
<1>4. FlashOrder'
  BY DEF UploadInv, FlashOrder, Serving, StateOwned
<1>5. RecordedIsWhole' /\ PageFitsDecision'
  BY <1>2 DEF UploadInv, RecordedIsWhole, PageFitsDecision, Whole, Decided
<1>6. BuffersAccounted'
  <2>1. CASE h.posting = hs[c].posting /\ heap' = heap
    <3>1. Holders' = Holders
      BY <1>2, <2>1 DEF Holders
    <3>2. QED
      BY <2>1, <3>1, HolderCount DEF UploadInv, BuffersAccounted, Holders
  <2>2. CASE h.posting /\ ~hs[c].posting /\ heap' = heap + 1
    <3>1. Holders' = Holders \cup {c} /\ c \notin Holders
      BY <1>2, <2>2 DEF Holders
    <3>2. Cardinality(Holders') = Cardinality(Holders) + 1
      BY <3>1, HolderCount, FS_AddElement
    <3>3. heap = lost + Cardinality(Holders) /\ Cardinality(Holders) \in Nat /\ lost \in Nat
      BY HolderCount DEF UploadInv, ServerTypeOK
    <3>4. heap' = lost' + Cardinality(Holders')
      BY <2>2, <3>2, <3>3
    <3>5. QED
      BY <3>4 DEF BuffersAccounted, Holders
  <2>3. QED
    BY <2>1, <2>2
<1>7. QED
  BY <1>1, <1>3, <1>4, <1>5, <1>6 DEF UploadInv

\* A step after which connection c has no http_state any more.
LEMMA GoneStep ==
  ASSUME UploadInv, Serving, NEW c \in Conns, live[c], Freed(c),
         pcb' \in [Conns -> {"none", "open", "closing"}], \A d \in Conns \ {c} : pcb'[d] = pcb[d],
         cb' \in [Conns -> SUBSET {"recv", "sent", "poll", "err"}],
         cb'[c] \cap {"recv", "sent"} = {}, \A d \in Conns \ {c} : cb'[d] = cb[d],
         arg' = [arg EXCEPT ![c] = FALSE],
         \/ heap' = heap - FreesBuffer(hs[c]) /\ lost' = lost
         \/ heap' = heap /\ lost' = lost + FreesBuffer(hs[c]),
         UNCHANGED <<sys, upload, flash, content>>
  PROVE  UploadInv'
<1>1. /\ hs \in [Conns -> State] /\ live' = [live EXCEPT ![c] = FALSE]
      /\ hs' = [hs EXCEPT ![c] = Clean] /\ inflight' = [inflight EXCEPT ![c] = 0]
      /\ lines' = [lines EXCEPT ![c] = 0]
      /\ live \in [Conns -> BOOLEAN] /\ arg \in [Conns -> BOOLEAN]
  BY DEF Freed, UploadInv, ServerTypeOK, ConnTypeOK, State
<1>2. /\ ~live'[c] /\ ~arg'[c] /\ hs'[c] = Clean
      /\ \A d \in Conns \ {c} : hs'[d] = hs[d] /\ live'[d] = live[d] /\ arg'[d] = arg[d]
  BY <1>1
<1>3. CallbacksHaveState' /\ FreedIsClean'
  BY <1>2 DEF UploadInv, CallbacksHaveState, FreedIsClean
<1>4. FlashOrder'
  BY <1>2 DEF UploadInv, FlashOrder, Serving, StateOwned
<1>5. RecordedIsWhole' /\ PageFitsDecision'
  BY <1>2, CleanFacts DEF UploadInv, RecordedIsWhole, PageFitsDecision
<1>6. /\ heap' \in 0 .. MaxBuffers /\ lost' \in 0 .. MaxBuffers
      /\ heap' = lost' + Cardinality(Holders')
  <2> DEFINE n == FreesBuffer(hs[c])
  <2>1. Holders' = Holders \ {c}
    BY <1>2 DEF Holders
  <2>2. n \in 0 .. 1 /\ Cardinality(Holders') = Cardinality(Holders) - n
    <3>1. CASE hs[c].posting
      <4>1. c \in Holders /\ n = 1
        BY <3>1 DEF Holders, FreesBuffer
      <4>2. Cardinality(Holders \ {c}) = Cardinality(Holders) - 1
        BY <4>1, HolderCount, FS_RemoveElement, Zenon
      <4>3. QED
        BY <2>1, <4>1, <4>2
    <3>2. CASE ~hs[c].posting
      <4>1. Holders' = Holders /\ n = 0
        BY <2>1, <3>2 DEF Holders, FreesBuffer
      <4>2. QED
        BY <4>1, HolderCount
    <3>3. QED
      BY <3>1, <3>2
  <2>3. Cardinality(Holders') \in Nat
    BY <2>1, HolderCount, FS_RemoveElement, FS_CardinalityType
  <2>4. heap = lost + Cardinality(Holders) /\ Cardinality(Holders) \in Nat
    BY HolderCount DEF UploadInv
  <2>5. heap \in 0 .. MaxBuffers /\ lost \in 0 .. MaxBuffers /\ MaxBuffers \in Nat
    BY NetFlashAssumption DEF UploadInv, ServerTypeOK
  <2> HIDE DEF n
  <2>6. \/ heap' = heap - n /\ lost' = lost
        \/ heap' = heap /\ lost' = lost + n
    BY DEF n
  <2>7. QED
    BY <2>2, <2>3, <2>4, <2>5, <2>6
<1>7. BuffersAccounted'
  BY <1>6 DEF BuffersAccounted, Holders
<1>8. ServerTypeOK'
  <2>1. 0 \in 0 .. SndBuf
    BY ConnAssumption
  <2>2. ConnTypeOK(Pages, Bodies)'
    BY <1>1, <2>1, CleanFacts DEF UploadInv, ServerTypeOK, ConnTypeOK, State
  <2>3. QED
    BY <1>6, <2>2 DEF UploadInv, ServerTypeOK
<1>9. QED
  BY <1>3, <1>4, <1>5, <1>7, <1>8 DEF UploadInv

\* The step in which send_data gives lwIP more of connection c's page.
LEMMA SendStep ==
  ASSUME UploadInv, Serving, NEW c \in Conns, live[c], arg[c],
         NEW g \in State, Whole(g), Decided(g), g.posting = hs[c].posting,
         NEW unacked \in 0 .. SndBuf, SendData(c, g, unacked),
         cb' \in [Conns -> SUBSET {"recv", "sent", "poll", "err"}],
         \A d \in Conns : cb[d] \subseteq cb'[d] /\ (d # c => cb'[d] = cb[d]),
         lines' \in [Conns -> Nat],
         UNCHANGED <<pcb, arg, live, appVars>>
  PROVE  UploadInv'
<1>1. PICK n \in 0 .. PageLen :
        /\ n <= g.left /\ n <= SndBuf - unacked
        /\ hs' = [hs EXCEPT ![c] = [g EXCEPT !.left = @ - n]]
        /\ inflight' = [inflight EXCEPT ![c] = unacked + n]
  BY DEF SendData
<1> DEFINE h == [g EXCEPT !.left = @ - n]
<1>2. g.left \in 0 .. PageLen /\ PageLen \in Nat /\ SndBuf \in Nat
  BY ConnAssumption DEF State, HttpState
<1>3. g.left - n \in 0 .. PageLen /\ unacked + n \in 0 .. SndBuf
  BY <1>1, <1>2
<1>4. h \in State /\ Whole(h) /\ Decided(h) /\ h.posting = hs[c].posting
  BY <1>3 DEF State, HttpState, Whole, Decided
<1>5. inflight' \in [Conns -> 0 .. SndBuf]
  BY <1>1, <1>3 DEF UploadInv, ServerTypeOK, ConnTypeOK
<1>6. hs' = [hs EXCEPT ![c] = h]
  BY <1>1
<1> HIDE DEF h
<1>7. QED
  BY <1>4, <1>5, <1>6, ConnStep DEF appVars

\* What the invariant says of a connection that lwIP may call back.
LEMMA Called ==
  ASSUME UploadInv, NEW c \in Conns, cb[c] \cap {"recv", "sent"} # {} \/ arg[c]
  PROVE  live[c] /\ arg[c] /\ hs[c] \in State /\ Whole(hs[c]) /\ Decided(hs[c])
<1>1. live[c] /\ arg[c]
  BY DEF UploadInv, CallbacksHaveState
<1>2. hs[c] \in State
  BY DEF UploadInv, ServerTypeOK, ConnTypeOK, State
<1>3. Whole(hs[c]) /\ Decided(hs[c])
  BY <1>1 DEF UploadInv, RecordedIsWhole, PageFitsDecision, Whole, Decided
<1>4. QED
  BY <1>1, <1>2, <1>3

\* A line is taken before any body, so nothing is recorded yet.
LEMMA LineFacts ==
  ASSUME UploadInv, NEW c \in Conns, TakesLine(c)
  PROVE  /\ live[c] /\ arg[c] /\ hs[c] \in State
         /\ ~hs[c].posting /\ ~hs[c].data /\ lines' \in [Conns -> Nat]
<1>1. cb[c] \cap {"recv", "sent"} # {} /\ ~hs[c].posting /\ lines' = [lines EXCEPT ![c] = @ + 1]
  BY DEF TakesLine
<1>2. lines \in [Conns -> Nat]
  BY DEF UploadInv, ServerTypeOK, ConnTypeOK
<1>3. lines' \in [Conns -> Nat]
  BY <1>1, <1>2
<1>4. QED
  BY <1>1, <1>3, Called DEF Whole

LEMMA InitUploadInv == Init => UploadInv
<1> SUFFICES ASSUME Init PROVE UploadInv
  OBVIOUS
<1>1. 0 \in 0 .. SndBuf /\ 0 \in 0 .. MaxBuffers
  BY ConnAssumption, NetFlashAssumption
<1>2. ServerTypeOK
  BY <1>1, CleanFacts
     DEF Init, ConnInit, Flash!Init, ServerTypeOK, ConnTypeOK, State
<1>3. Holders = {} /\ IsFiniteSet(Holders)
  BY CleanFacts, FS_EmptySet DEF Init, ConnInit, Holders
<1>4. BuffersAccounted
  BY <1>3, HolderCount, FS_EmptySet DEF Init
<1>5. CallbacksHaveState /\ FreedIsClean /\ RecordedIsWhole /\ PageFitsDecision
  BY CleanFacts
     DEF Init, ConnInit, CallbacksHaveState, FreedIsClean, RecordedIsWhole, PageFitsDecision
<1>6. FlashOrder
  BY DEF Init, ConnInit, Flash!Init, FlashOrder, Serving, StateOwned
<1>7. QED
  BY <1>2, <1>4, <1>5, <1>6 DEF UploadInv

-----------------------------------------------------------------------------
\* One lemma per kind of step.

\* http_accept: lwIP had no state for this connection.
LEMMA AcceptStep ==
  ASSUME UploadInv, NEW c \in Conns, Accept(c)
  PROVE  UploadInv'
<1>1. ~live[c] /\ hs[c] = Clean
  BY DEF UploadInv, Accept, AcceptConn, FlashOrder, StateOwned, FreedIsClean
<1>2. hs \in [Conns -> State]
  BY DEF UploadInv, ServerTypeOK, ConnTypeOK, State
<1>3. hs' = hs
  BY <1>1, <1>2 DEF Accept, AcceptConn
<1>4. /\ cb'[c] = {"recv", "err"} /\ arg'[c] /\ live'[c] /\ pcb'[c] = "open"
      /\ \A d \in Conns \ {c} :
           cb'[d] = cb[d] /\ arg'[d] = arg[d] /\ live'[d] = live[d] /\ pcb'[d] = pcb[d]
  BY DEF Accept, AcceptConn, UploadInv, ServerTypeOK, ConnTypeOK
<1>5. ServerTypeOK'
  <2>1. 0 \in 0 .. SndBuf
    BY ConnAssumption
  <2>2. ConnTypeOK(Pages, Bodies)'
    BY <1>3, <2>1 DEF UploadInv, ServerTypeOK, ConnTypeOK, Accept, AcceptConn
  <2>3. QED
    BY <2>2 DEF UploadInv, ServerTypeOK, Accept, appVars
<1>6. CallbacksHaveState' /\ FreedIsClean'
  BY <1>3, <1>4 DEF UploadInv, CallbacksHaveState, FreedIsClean
<1>7. FlashOrder'
  BY <1>4 DEF UploadInv, FlashOrder, Serving, StateOwned, Accept, appVars
<1>8. RecordedIsWhole' /\ PageFitsDecision'
  BY <1>1, <1>3, <1>4, CleanFacts DEF UploadInv, RecordedIsWhole, PageFitsDecision
<1>9. BuffersAccounted'
  <2>1. Holders' = Holders
    BY <1>1, <1>3, <1>4, CleanFacts DEF Holders
  <2>2. QED
    BY <2>1 DEF UploadInv, BuffersAccounted, Holders, Accept, appVars
<1>10. QED
  BY <1>5, <1>6, <1>7, <1>8, <1>9 DEF UploadInv

\* handle_line, the request line.
LEMMA RequestStep ==
  ASSUME UploadInv, NEW c \in Conns, RequestLine(c)
  PROVE  UploadInv'
<1>1. /\ Serving /\ TakesLine(c)
      /\ UNCHANGED <<pcb, cb, arg, live, inflight, sys, upload, heap, lost, flash, content>>
  BY DEF RequestLine, appVars
<1>2. PICK p \in {"main", "ok", "404", "500"}, post \in BOOLEAN :
        hs' = [hs EXCEPT ![c] =
                [hs[c] EXCEPT !.page = p, !.left = PageLen, !.gotfirst = TRUE, !.ispost = post]]
  <2>1. hs \in [Conns -> State]
    BY DEF UploadInv, ServerTypeOK, ConnTypeOK, State
  <2>2. CASE \E p \in {"main", "ok", "404"} :
               hs' = [hs EXCEPT ![c] = [Answer(@, p) EXCEPT !.gotfirst = TRUE]]
    <3>1. PICK p \in {"main", "ok", "404"} :
            hs' = [hs EXCEPT ![c] = [Answer(@, p) EXCEPT !.gotfirst = TRUE]]
      BY <2>2
    <3>2. hs[c].ispost \in BOOLEAN /\ hs[c] \in State
      BY <2>1 DEF State, HttpState
    <3>3. [Answer(hs[c], p) EXCEPT !.gotfirst = TRUE]
            = [hs[c] EXCEPT !.page = p, !.left = PageLen, !.gotfirst = TRUE, !.ispost = hs[c].ispost]
      BY <3>2 DEF Answer, State, HttpState
    <3>4. QED
      BY <2>1, <3>1, <3>2, <3>3
  <2>3. CASE hs' = [hs EXCEPT ![c] =
                [Answer(@, "500") EXCEPT !.gotfirst = TRUE, !.ispost = TRUE]]
    BY <2>1, <2>3 DEF Answer, State, HttpState
  <2>4. QED
    BY <2>2, <2>3 DEF RequestLine
<1> DEFINE h == [hs[c] EXCEPT !.page = p, !.left = PageLen, !.gotfirst = TRUE, !.ispost = post]
<1>3. /\ live[c] /\ arg[c] /\ hs[c] \in State
      /\ ~hs[c].posting /\ ~hs[c].data /\ lines' \in [Conns -> Nat]
  BY <1>1, LineFacts
<1>4. h \in State /\ h.posting = hs[c].posting /\ h.data = hs[c].data
  <2>1. PageLen \in 0 .. PageLen /\ p \in Pages
    BY ConnAssumption DEF Pages
  <2>2. QED
    BY <1>3, <2>1 DEF State, HttpState
<1>5. Whole(h) /\ Decided(h)
  BY <1>3, <1>4 DEF Whole, Decided
<1>6. hs' = [hs EXCEPT ![c] = h]
  BY <1>2
<1>7. /\ cb' \in [Conns -> SUBSET {"recv", "sent", "poll", "err"}]
      /\ inflight' \in [Conns -> 0 .. SndBuf]
      /\ \A d \in Conns : cb[d] \subseteq cb'[d] /\ (d # c => cb'[d] = cb[d])
  BY <1>1 DEF UploadInv, ServerTypeOK, ConnTypeOK
<1> HIDE DEF h
<1>8. QED
  BY <1>1, <1>3, <1>4, <1>5, <1>6, <1>7, ConnStep

\* handle_line, a header line.
LEMMA HeaderStep ==
  ASSUME UploadInv, NEW c \in Conns, Header(c)
  PROVE  UploadInv'
<1>1. /\ Serving /\ TakesLine(c)
      /\ UNCHANGED <<pcb, cb, arg, live, inflight, sys, upload, heap, lost, flash, content>>
  BY DEF Header, HeaderLine, appVars
<1>2. hs \in [Conns -> State]
  BY DEF UploadInv, ServerTypeOK, ConnTypeOK, State
<1>3. PICK n \in Lengths : hs' = [hs EXCEPT ![c] = [hs[c] EXCEPT !.postlen = n]]
  BY <1>2 DEF Header, HeaderLine, State, HttpState
<1> DEFINE h == [hs[c] EXCEPT !.postlen = n]
<1>4. /\ live[c] /\ arg[c] /\ hs[c] \in State
      /\ ~hs[c].posting /\ ~hs[c].data /\ lines' \in [Conns -> Nat]
  BY <1>1, LineFacts
<1>5. h \in State /\ h.posting = hs[c].posting /\ h.data = hs[c].data
  BY <1>4 DEF State, HttpState
<1>6. Whole(h) /\ Decided(h)
  BY <1>4, <1>5 DEF Whole, Decided
<1>7. hs' = [hs EXCEPT ![c] = h]
  BY <1>3
<1>8. /\ cb' \in [Conns -> SUBSET {"recv", "sent", "poll", "err"}]
      /\ inflight' \in [Conns -> 0 .. SndBuf]
      /\ \A d \in Conns : cb[d] \subseteq cb'[d] /\ (d # c => cb'[d] = cb[d])
  BY <1>1 DEF UploadInv, ServerTypeOK, ConnTypeOK
<1> HIDE DEF h
<1>9. QED
  BY <1>1, <1>4, <1>5, <1>6, <1>7, <1>8, ConnStep

\* The empty line before a body: the connection gets its buffer.
LEMMA StartBodyStep ==
  ASSUME UploadInv, NEW c \in Conns, StartBody(c)
  PROVE  UploadInv'
<1>1. /\ Serving /\ TakesLine(c) /\ BodyAhead(c) /\ heap < MaxBuffers /\ heap' = heap + 1
      /\ UNCHANGED <<pcb, cb, arg, live, inflight, sys, upload, lost, flash, content>>
  BY DEF StartBody, BlankBeforeBody
<1> DEFINE h == [hs[c] EXCEPT !.posting = TRUE, !.postpos = 0]
<1>2. /\ live[c] /\ arg[c] /\ hs[c] \in State
      /\ ~hs[c].posting /\ ~hs[c].data /\ lines' \in [Conns -> Nat]
  BY <1>1, LineFacts
<1>3. h \in State /\ h.posting /\ h.data = hs[c].data /\ h.postpos = 0 /\ h.postlen = hs[c].postlen
  BY <1>2 DEF State, HttpState
<1>4. hs[c].postlen \in Nat
  <2>1. hs[c].postlen \in Lengths \cup {0}
    BY <1>2 DEF State, HttpState
  <2>2. QED
    BY <2>1, Units, Zenon
<1>5. Whole(h) /\ Decided(h)
  BY <1>1, <1>2, <1>3, <1>4 DEF Whole, Decided, BodyAhead
<1>6. hs' = [hs EXCEPT ![c] = h]
  BY DEF StartBody, BlankBeforeBody
<1>7. /\ cb' \in [Conns -> SUBSET {"recv", "sent", "poll", "err"}]
      /\ inflight' \in [Conns -> 0 .. SndBuf]
      /\ \A d \in Conns : cb[d] \subseteq cb'[d] /\ (d # c => cb'[d] = cb[d])
  BY <1>1 DEF UploadInv, ServerTypeOK, ConnTypeOK
<1>8. heap' <= MaxBuffers
  BY <1>1, NetFlashAssumption DEF UploadInv, ServerTypeOK
<1> HIDE DEF h
<1>9. QED
  BY <1>1, <1>2, <1>3, <1>5, <1>6, <1>7, <1>8, ConnStep

\* The empty line of a request without a body: the page goes out.
LEMMA GetStep ==
  ASSUME UploadInv, NEW c \in Conns, GetDone(c)
  PROVE  UploadInv'
<1> DEFINE g == [hs[c] EXCEPT !.gotfirst = FALSE]
<1>1. /\ Serving /\ TakesLine(c) /\ SendData(c, g, inflight[c])
      /\ cb' = [cb EXCEPT ![c] = @ \cup {"poll", "sent"}]
      /\ UNCHANGED <<pcb, arg, live, appVars>>
  BY DEF GetDone, BlankEndsRequest, StartAnswer
<1>2. /\ live[c] /\ arg[c] /\ hs[c] \in State
      /\ ~hs[c].posting /\ ~hs[c].data /\ lines' \in [Conns -> Nat]
  BY <1>1, LineFacts
<1>3. g \in State /\ g.posting = hs[c].posting /\ g.data = hs[c].data
  BY <1>2 DEF State, HttpState
<1>4. Whole(g) /\ Decided(g)
  BY <1>2, <1>3 DEF Whole, Decided
<1>5. inflight[c] \in 0 .. SndBuf
  BY DEF UploadInv, ServerTypeOK, ConnTypeOK
<1>6. /\ cb' \in [Conns -> SUBSET {"recv", "sent", "poll", "err"}]
      /\ \A d \in Conns : cb[d] \subseteq cb'[d] /\ (d # c => cb'[d] = cb[d])
  BY <1>1 DEF UploadInv, ServerTypeOK, ConnTypeOK
<1> HIDE DEF g
<1>7. QED
  BY <1>1, <1>2, <1>3, <1>4, <1>5, <1>6, SendStep

\* What taking k more bytes of the body does to the state of a connection.
LEMMA BodyFacts ==
  ASSUME UploadInv, NEW c \in Conns, NEW k \in Chunks, TakesBody(c, k)
  PROVE  /\ live[c] /\ arg[c] /\ hs[c] \in State /\ Whole(hs[c]) /\ Decided(hs[c])
         /\ hs[c].posting /\ k \in Nat
         /\ hs[c].postpos \in Nat /\ hs[c].postlen \in Nat
         /\ Advanced(hs[c], k) \in State
         /\ Advanced(hs[c], k) = [hs[c] EXCEPT !.postpos = hs[c].postpos + k]
<1>1. cb[c] \cap {"recv", "sent"} # {} /\ hs[c].posting
  BY DEF TakesBody
<1>2. live[c] /\ arg[c] /\ hs[c] \in State /\ Whole(hs[c]) /\ Decided(hs[c])
  BY <1>1, Called
<1>3. hs[c].postpos \in Nat /\ hs[c].postlen \in Lengths \cup {0}
  BY <1>2 DEF State, HttpState
<1>4. k \in Nat /\ hs[c].postlen \in Nat
  BY <1>3, Units, Zenon
<1>5. hs[c].postpos + k \in Nat
  BY <1>3, <1>4
<1>6. /\ Advanced(hs[c], k) = [hs[c] EXCEPT !.postpos = hs[c].postpos + k]
      /\ Advanced(hs[c], k) \in State
  BY <1>2, <1>5 DEF Advanced, State, HttpState
<1>7. QED
  BY <1>1, <1>2, <1>3, <1>4, <1>6

\* http_recv with a part of the body that does not complete it.
LEMMA RecvBodyStep ==
  ASSUME UploadInv, NEW c \in Conns, RecvBody(c)
  PROVE  UploadInv'
<1>1. PICK k \in Chunks : BodyPart(c, k)
  BY DEF RecvBody
<1>2. /\ Serving /\ TakesBody(c, k) /\ ~Completes(hs[c], k)
      /\ hs' = [hs EXCEPT ![c] = Advanced(hs[c], k)]
      /\ UNCHANGED <<pcb, cb, arg, live, inflight, lines, sys, upload, heap, lost, flash, content>>
  BY <1>1 DEF RecvBody, BodyPart, appVars
<1>3. /\ live[c] /\ arg[c] /\ hs[c] \in State /\ Whole(hs[c]) /\ Decided(hs[c])
      /\ hs[c].posting /\ k \in Nat /\ hs[c].postpos \in Nat /\ hs[c].postlen \in Nat
      /\ Advanced(hs[c], k) \in State
      /\ Advanced(hs[c], k) = [hs[c] EXCEPT !.postpos = hs[c].postpos + k]
  BY <1>2, BodyFacts
<1> DEFINE h == Advanced(hs[c], k)
<1>4. /\ h.posting = hs[c].posting /\ h.data = hs[c].data /\ h.body = hs[c].body
      /\ h.page = hs[c].page /\ h.postlen = hs[c].postlen
      /\ h.postpos = hs[c].postpos + k
  BY <1>3 DEF State, HttpState
<1>5. h.postpos >= h.postlen <=> hs[c].postpos >= hs[c].postlen
  BY <1>2, <1>3, <1>4 DEF Completes
<1>6. Whole(h) /\ Decided(h)
  BY <1>3, <1>4, <1>5, Zenon DEF Whole, Decided
<1>7. /\ cb' \in [Conns -> SUBSET {"recv", "sent", "poll", "err"}]
      /\ inflight' \in [Conns -> 0 .. SndBuf] /\ lines' \in [Conns -> Nat]
      /\ \A d \in Conns : cb[d] \subseteq cb'[d] /\ (d # c => cb'[d] = cb[d])
  BY <1>2 DEF UploadInv, ServerTypeOK, ConnTypeOK
<1>8. h \in State
  BY <1>3
<1>9. hs' = [hs EXCEPT ![c] = h]
  BY <1>2
<1> HIDE DEF h
<1>10. QED
  BY <1>2, <1>3, <1>4, <1>6, <1>7, <1>8, <1>9, ConnStep

\* handle_post: the decision agrees with the page, and only a whole upload is
\* recorded.
LEMMA DecisionFacts ==
  ASSUME NEW g \in State, g.posting, ~g.data, g.postpos >= g.postlen,
         g.body \in Bodies \ {"none"}, NEW u \in Uninitialised
  PROVE  /\ Decision(g, u) \in State /\ Whole(Decision(g, u)) /\ Decided(Decision(g, u))
         /\ Decision(g, u).posting
<1>1. PageLen \in 0 .. PageLen /\ "ok" \in Pages /\ "fail" \in Pages /\ "500" \in Pages
  BY ConnAssumption DEF Pages
<1>2. CASE \E p \in {"500", "fail"} : Decision(g, u) = Answer(g, p) /\ g.body # "image"
  <2>1. PICK p \in {"500", "fail"} : Decision(g, u) = Answer(g, p) /\ g.body # "image"
    BY <1>2
  <2> DEFINE h == Decision(g, u)
  <2>2. h = [g EXCEPT !.page = p, !.left = PageLen]
    BY <2>1 DEF Answer
  <2>3. p \in Pages
    BY <1>1, <2>1
  <2> HIDE DEF h
  <2>4. /\ h \in State /\ h.posting = g.posting /\ h.data = g.data /\ h.body = g.body
        /\ h.page = p
    BY <1>1, <2>2, <2>3 DEF State, HttpState
  <2>5. Whole(h) /\ Decided(h) /\ h.posting
    BY <2>1, <2>4 DEF Whole, Decided
  <2>6. QED
    BY <2>4, <2>5 DEF h
<1>3. CASE Decision(g, u) = Accepted(g) /\ g.body \in {"image", "unmarked"}
  <2> DEFINE h == Decision(g, u)
  <2>1. h = [g EXCEPT !.page = "ok", !.left = PageLen, !.data = TRUE]
    BY <1>3 DEF Accepted, Answer, State, HttpState
  <2>2. /\ h \in State /\ h.posting = g.posting /\ h.data = TRUE /\ h.body = g.body
        /\ h.page = "ok" /\ h.postpos = g.postpos /\ h.postlen = g.postlen
    BY <1>1, <2>1 DEF State, HttpState
  <2> HIDE DEF h
  <2>3. Whole(h) /\ Decided(h) /\ h.posting
    BY <1>3, <2>2 DEF Whole, Decided
  <2>4. QED
    BY <2>2, <2>3 DEF h
<1>4. QED
  BY <1>2, <1>3 DEF Decision, Uninitialised, Bodies

\* http_recv with the last byte of the body: handle_post decides.
LEMMA BodyDoneStep ==
  ASSUME UploadInv, NEW c \in Conns, BodyDone(c)
  PROVE  UploadInv'
<1>1. PICK k \in Chunks, b \in Bodies \ {"none"}, u \in Uninitialised :
        /\ TakesBody(c, k) /\ Completes(hs[c], k)
        /\ StartAnswer(c, Decision([Advanced(hs[c], k) EXCEPT !.body = b], u))
  BY DEF BodyDone
<1>2. /\ live[c] /\ arg[c] /\ hs[c] \in State /\ Whole(hs[c]) /\ hs[c].posting
      /\ k \in Nat /\ hs[c].postpos \in Nat /\ hs[c].postlen \in Nat
      /\ Advanced(hs[c], k) = [hs[c] EXCEPT !.postpos = hs[c].postpos + k]
      /\ Advanced(hs[c], k) \in State
  BY <1>1, BodyFacts
<1> DEFINE f == [Advanced(hs[c], k) EXCEPT !.body = b]
           e == Decision(f, u)
           g == [e EXCEPT !.gotfirst = FALSE]
<1>3. ~hs[c].data /\ hs[c].postpos + k >= hs[c].postlen
  BY <1>1, <1>2 DEF Whole, Completes
<1>4. /\ f \in State /\ f.posting = hs[c].posting /\ f.data = hs[c].data
      /\ f.body = b /\ f.postpos = hs[c].postpos + k /\ f.postlen = hs[c].postlen
  BY <1>2 DEF State, HttpState
<1> HIDE DEF f
<1>5. e \in State /\ Whole(e) /\ Decided(e) /\ e.posting
  BY <1>2, <1>3, <1>4, DecisionFacts
<1>6. SendData(c, g, inflight[c]) /\ cb' = [cb EXCEPT ![c] = @ \cup {"poll", "sent"}]
  BY <1>1 DEF StartAnswer, f
<1> HIDE DEF e
<1>7. g \in State /\ Whole(g) /\ Decided(g) /\ g.posting
  BY <1>5 DEF State, HttpState, Whole, Decided
<1>8. g.posting = hs[c].posting
  <2>1. g.posting \in BOOLEAN /\ hs[c].posting \in BOOLEAN
    BY <1>2, <1>7 DEF State, HttpState
  <2>2. QED
    BY <1>2, <1>7, <2>1
<1>9. /\ inflight[c] \in 0 .. SndBuf /\ lines' \in [Conns -> Nat]
      /\ Serving /\ UNCHANGED <<pcb, arg, live, appVars>>
  BY DEF UploadInv, ServerTypeOK, ConnTypeOK, BodyDone
<1>10. /\ cb' \in [Conns -> SUBSET {"recv", "sent", "poll", "err"}]
       /\ \A d \in Conns : cb[d] \subseteq cb'[d] /\ (d # c => cb'[d] = cb[d])
  BY <1>6 DEF UploadInv, ServerTypeOK, ConnTypeOK
<1> HIDE DEF g
<1>11. QED
  BY <1>2, <1>6, <1>7, <1>8, <1>9, <1>10, SendStep

\* http_sent with more of the page to send, http_poll before it gives up.
LEMMA ResendStep ==
  ASSUME UploadInv, Serving, NEW c \in Conns, SentMore(c) \/ PollRetry(c), UNCHANGED appVars
  PROVE  UploadInv'
<1>1. inflight[c] \in 0 .. SndBuf /\ cb \in [Conns -> SUBSET {"recv", "sent", "poll", "err"}]
  BY DEF UploadInv, ServerTypeOK, ConnTypeOK
<1>2. /\ cb[c] \cap {"recv", "sent"} # {} \/ arg[c]
      /\ UNCHANGED <<pcb, cb, arg, live, lines>>
  BY DEF SentMore, PollRetry
<1>3. live[c] /\ arg[c] /\ hs[c] \in State /\ Whole(hs[c]) /\ Decided(hs[c])
  BY <1>2, Called
<1>4. PICK r \in 0 .. PollLimit - 1, unacked \in 0 .. SndBuf :
        SendData(c, [hs[c] EXCEPT !.retries = r], unacked)
  <2>1. CASE SentMore(c)
    <3>1. PICK k \in 1 .. inflight[c] : SendData(c, [hs[c] EXCEPT !.retries = 0], inflight[c] - k)
      BY <2>1 DEF SentMore
    <3>2. inflight[c] - k \in 0 .. SndBuf /\ 0 \in 0 .. PollLimit - 1
      BY <1>1, <3>1, ConnAssumption DEF PollLimit
    <3>3. QED
      BY <3>1, <3>2
  <2>2. CASE PollRetry(c)
    <3>1. hs[c].retries + 1 \in 0 .. PollLimit - 1
      BY <1>3, <2>2 DEF PollRetry, PollLimit, State, HttpState
    <3>2. SendData(c, [hs[c] EXCEPT !.retries = hs[c].retries + 1], inflight[c])
      BY <2>2 DEF PollRetry
    <3>3. QED
      BY <1>1, <3>1, <3>2
  <2>3. QED
    BY <2>1, <2>2
<1> DEFINE g == [hs[c] EXCEPT !.retries = r]
<1>5. g \in State /\ Whole(g) /\ Decided(g) /\ g.posting = hs[c].posting
  BY <1>3 DEF State, HttpState, Whole, Decided
<1>6. /\ cb' \in [Conns -> SUBSET {"recv", "sent", "poll", "err"}] /\ lines' \in [Conns -> Nat]
      /\ \A d \in Conns : cb[d] \subseteq cb'[d] /\ (d # c => cb'[d] = cb[d])
  BY <1>2 DEF UploadInv, ServerTypeOK, ConnTypeOK
<1>7. SendData(c, g, unacked)
  BY <1>4
<1> HIDE DEF g
<1>8. QED
  BY <1>2, <1>3, <1>5, <1>6, <1>7, SendStep

\* close_conn: the connection is forgotten, or its upload is flashed.
LEMMA CloseStep ==
  ASSUME UploadInv, Serving, NEW c \in Conns, cb[c] \cap {"recv", "sent"} # {}, CloseConn(c)
  PROVE  UploadInv'
<1>1. live[c] /\ arg[c] /\ hs[c] \in State /\ Whole(hs[c])
  BY Called
<1>2. cb \in [Conns -> SUBSET {"recv", "sent", "poll", "err"}]
  BY DEF UploadInv, ServerTypeOK, ConnTypeOK
<1>3. CASE hs[c].data
  <2>1. /\ sys' = "flashing" /\ upload' = hs[c]
        /\ cb' = [cb EXCEPT ![c] = @ \ {"recv", "sent"}] /\ arg' = [arg EXCEPT ![c] = FALSE]
        /\ UNCHANGED <<pcb, live, hs, inflight, lines, heap, lost, flash, content>>
    BY <1>3 DEF CloseConn, Unregistered
  <2>2. ServerTypeOK'
    BY <1>1, <2>1 DEF UploadInv, ServerTypeOK, ConnTypeOK, State
  <2>3. CallbacksHaveState' /\ FreedIsClean'
    BY <2>1 DEF UploadInv, ServerTypeOK, ConnTypeOK, CallbacksHaveState, FreedIsClean
  <2>4. FlashOrder'
    BY <1>1, <1>3, <2>1 DEF FlashOrder, Serving, Whole
  <2>5. RecordedIsWhole' /\ PageFitsDecision' /\ BuffersAccounted'
    BY <2>1 DEF UploadInv, RecordedIsWhole, PageFitsDecision, BuffersAccounted
  <2>6. QED
    BY <2>2, <2>3, <2>4, <2>5 DEF UploadInv
<1>4. CASE ~hs[c].data
  <2>1. /\ Freed(c) /\ heap' = heap - FreesBuffer(hs[c]) /\ lost' = lost
        /\ cb' = [cb EXCEPT ![c] = @ \ {"recv", "sent"}] /\ arg' = [arg EXCEPT ![c] = FALSE]
        /\ pcb' = [pcb EXCEPT ![c] = "closing"]
        /\ UNCHANGED <<sys, upload, flash, content>>
    BY <1>4 DEF CloseConn, Drop, Unregistered
  <2>2. pcb \in [Conns -> {"none", "open", "closing"}]
    BY DEF UploadInv, ServerTypeOK, ConnTypeOK
  <2>3. /\ pcb' \in [Conns -> {"none", "open", "closing"}]
        /\ \A d \in Conns \ {c} : pcb'[d] = pcb[d]
    BY <2>1, <2>2
  <2>4. /\ cb' \in [Conns -> SUBSET {"recv", "sent", "poll", "err"}]
        /\ cb'[c] \cap {"recv", "sent"} = {} /\ \A d \in Conns \ {c} : cb'[d] = cb[d]
    BY <1>2, <2>1
  <2>5. QED
    BY <1>1, <2>1, <2>3, <2>4, GoneStep
<1>5. QED
  BY <1>3, <1>4

\* conn_err, whether lwIP still has the state or passes NULL.
LEMMA ErrStep ==
  ASSUME UploadInv, Serving, NEW c \in Conns, Err(c)
  PROVE  UploadInv'
<1>1. /\ pcb' = [pcb EXCEPT ![c] = "none"] /\ cb' = [cb EXCEPT ![c] = {}]
      /\ arg' = [arg EXCEPT ![c] = FALSE] /\ lost' = lost + FreesBuffer(hs[c])
      /\ UNCHANGED <<sys, upload, heap, flash, content>>
      /\ arg[c] => Freed(c)
      /\ ~arg[c] => UNCHANGED <<live, hs, inflight, lines>>
  BY DEF Err, ConnErr
<1>2. /\ pcb \in [Conns -> {"none", "open", "closing"}]
      /\ cb \in [Conns -> SUBSET {"recv", "sent", "poll", "err"}]
      /\ arg \in [Conns -> BOOLEAN]
  BY DEF UploadInv, ServerTypeOK, ConnTypeOK
<1>3. /\ pcb' \in [Conns -> {"none", "open", "closing"}]
      /\ \A d \in Conns \ {c} : pcb'[d] = pcb[d]
      /\ cb' \in [Conns -> SUBSET {"recv", "sent", "poll", "err"}]
      /\ cb'[c] = {} /\ \A d \in Conns \ {c} : cb'[d] = cb[d]
      /\ arg' \in [Conns -> BOOLEAN] /\ ~arg'[c] /\ \A d \in Conns \ {c} : arg'[d] = arg[d]
  BY <1>1, <1>2
<1>4. CASE arg[c]
  <2>1. live[c] /\ Freed(c)
    BY <1>1, <1>4, Called
  <2>2. cb'[c] \cap {"recv", "sent"} = {} /\ (heap' = heap /\ lost' = lost + FreesBuffer(hs[c]))
    BY <1>1, <1>3
  <2>3. QED
    BY <1>1, <1>3, <2>1, <2>2, GoneStep
<1>5. CASE ~arg[c]
  <2>1. ~live[c] /\ hs[c] = Clean
    BY <1>5 DEF UploadInv, FlashOrder, StateOwned, FreedIsClean
  <2>2. lost' = lost
    BY <1>1, <2>1, CleanFacts DEF FreesBuffer, UploadInv, ServerTypeOK
  <2>3. ServerTypeOK'
    BY <1>1, <1>3, <1>5, <2>2 DEF UploadInv, ServerTypeOK, ConnTypeOK
  <2>4. CallbacksHaveState' /\ FreedIsClean'
    BY <1>1, <1>3, <1>5, <2>1 DEF UploadInv, CallbacksHaveState, FreedIsClean
  <2>5. FlashOrder'
    BY <1>1, <1>3, <1>5, <2>1 DEF UploadInv, FlashOrder, Serving, StateOwned
  <2>6. RecordedIsWhole' /\ PageFitsDecision' /\ BuffersAccounted'
    BY <1>1, <1>5, <2>2 DEF UploadInv, RecordedIsWhole, PageFitsDecision, BuffersAccounted
  <2>7. QED
    BY <2>3, <2>4, <2>5, <2>6 DEF UploadInv
<1>6. QED
  BY <1>4, <1>5

\* lwIP has finished with a connection the server closed.
LEMMA ReapedStep ==
  ASSUME UploadInv, NEW c \in Conns, Reaped(c)
  PROVE  UploadInv'
<1>1. /\ Serving /\ pcb[c] = "closing"
      /\ pcb' = [pcb EXCEPT ![c] = "none"] /\ cb' = [cb EXCEPT ![c] = {}]
      /\ UNCHANGED <<arg, live, hs, inflight, lines, sys, upload, heap, lost, flash, content>>
  BY DEF Reaped, Reap, appVars
<1>2. /\ pcb' \in [Conns -> {"none", "open", "closing"}]
      /\ \A d \in Conns \ {c} : pcb'[d] = pcb[d]
      /\ cb' \in [Conns -> SUBSET {"recv", "sent", "poll", "err"}]
      /\ cb'[c] = {} /\ \A d \in Conns \ {c} : cb'[d] = cb[d]
  BY <1>1 DEF UploadInv, ServerTypeOK, ConnTypeOK
<1>3. ~live[c]
  BY <1>1 DEF UploadInv, FlashOrder, StateOwned
<1>4. ServerTypeOK'
  BY <1>1, <1>2 DEF UploadInv, ServerTypeOK, ConnTypeOK
<1>5. CallbacksHaveState' /\ FreedIsClean'
  BY <1>1, <1>2 DEF UploadInv, CallbacksHaveState, FreedIsClean
<1>6. FlashOrder'
  BY <1>1, <1>2, <1>3 DEF UploadInv, FlashOrder, Serving, StateOwned
<1>7. RecordedIsWhole' /\ PageFitsDecision' /\ BuffersAccounted'
  BY <1>1 DEF UploadInv, RecordedIsWhole, PageFitsDecision, BuffersAccounted
<1>8. QED
  BY <1>4, <1>5, <1>6, <1>7 DEF UploadInv

\* BootReflashAndReset: only the flash changes.
LEMMA ReflashStep ==
  ASSUME UploadInv, Reflash
  PROVE  UploadInv'
<1>1. sys = "flashing" /\ UNCHANGED <<connVars, sys, upload, heap, lost>> /\ Flash!Next
  BY DEF Reflash
<1>2. /\ flash' \in {"idle", "refused", "writing", "rebooted", "halted"}
      /\ content' \in {"old", "mixed", "new"}
  BY <1>1 DEF UploadInv, ServerTypeOK, Flash!Next, Flash!Refuse, Flash!Begin, Flash!Write,
              Flash!Reboot, Flash!Halt
<1>3. ServerTypeOK'
  BY <1>1, <1>2 DEF UploadInv, ServerTypeOK, ConnTypeOK, connVars
<1>4. FlashOrder'
  BY <1>1 DEF UploadInv, FlashOrder, Serving
<1>5. /\ CallbacksHaveState' /\ FreedIsClean' /\ RecordedIsWhole'
      /\ PageFitsDecision' /\ BuffersAccounted'
  BY <1>1 DEF UploadInv, connVars, CallbacksHaveState, FreedIsClean, RecordedIsWhole,
              PageFitsDecision, BuffersAccounted
<1>6. QED
  BY <1>3, <1>4, <1>5 DEF UploadInv

LEMMA StutterUploadInv ==
  ASSUME UploadInv, UNCHANGED vars
  PROVE  UploadInv'
<1> USE DEF vars, connVars, appVars
<1>1. ServerTypeOK'
  BY DEF UploadInv, ServerTypeOK, ConnTypeOK
<1>2. CallbacksHaveState' /\ FreedIsClean' /\ FlashOrder' /\ RecordedIsWhole'
  BY DEF UploadInv, CallbacksHaveState, FreedIsClean, FlashOrder, Serving, StateOwned,
         RecordedIsWhole
<1>3. PageFitsDecision' /\ BuffersAccounted'
  BY DEF UploadInv, PageFitsDecision, BuffersAccounted
<1>4. QED
  BY <1>1, <1>2, <1>3 DEF UploadInv

LEMMA NextUploadInv == UploadInv /\ [Next]_vars => UploadInv'
<1> SUFFICES ASSUME UploadInv, [Next]_vars PROVE UploadInv'
  OBVIOUS
<1>1. ASSUME NEW c \in Conns, BadRequest(c) \/ PeerClose(c) PROVE UploadInv'
  BY <1>1, CloseStep DEF BadRequest, PeerClose
<1>2. ASSUME NEW c \in Conns, Sent(c) PROVE UploadInv'
  <2>1. CASE SentMore(c) /\ UNCHANGED appVars
    BY <1>2, <2>1, ResendStep DEF Sent
  <2>2. CASE SentAll(c) /\ CloseConn(c)
    BY <1>2, <2>2, CloseStep DEF Sent, SentAll
  <2>3. QED
    BY <1>2, <2>1, <2>2 DEF Sent
<1>3. ASSUME NEW c \in Conns, Poll(c) \/ ConnectionLost(c) PROVE UploadInv'
  <2>1. CASE PollRetry(c) /\ UNCHANGED appVars
    BY <1>3, <2>1, ResendStep DEF Poll, ConnectionLost
  <2>2. CASE Err(c)
    BY <1>3, <2>2, ErrStep DEF Poll, ConnectionLost
  <2>3. QED
    BY <1>3, <2>1, <2>2 DEF Poll, ConnectionLost
<1>4. CASE UNCHANGED vars
  BY <1>4, StutterUploadInv
<1>5. CASE Next
  BY <1>1, <1>2, <1>3, <1>5, AcceptStep, RequestStep, HeaderStep, StartBodyStep, GetStep,
     RecvBodyStep, BodyDoneStep, ReapedStep, ReflashStep DEF Next
<1>6. QED
  BY <1>4, <1>5

-----------------------------------------------------------------------------
\* What is sent on a connection, and when: the same steps again, for the ghosts.

\* What NothingToldEarly says of one connection.
Told(p, r, C, a, h) ==
  /\ a /\ "poll" \in C => "sent" \in C
  /\ h.posting /\ h.postpos < h.postlen => h.gotfirst
  /\ ~r => p \in {"none", h.page}
  /\ ~r /\ h.gotfirst => p = "none" /\ "sent" \notin C

\* A step of one connection.
LEMMA ToldStep ==
  ASSUME UploadInv, GhostTypeOK, NothingToldEarly, NEW c \in Conns,
         NEW p \in Pages, NEW r \in BOOLEAN,
         told' = [told EXCEPT ![c] = p], reused' = [reused EXCEPT ![c] = r],
         Told(p, r, cb'[c], arg'[c], hs'[c]),
         \A d \in Conns \ {c} : cb'[d] = cb[d] /\ arg'[d] = arg[d] /\ hs'[d] = hs[d]
  PROVE  GhostTypeOK' /\ NothingToldEarly'
<1>1. GhostTypeOK'
  BY DEF GhostTypeOK
<1>2. /\ told'[c] = p /\ reused'[c] = r
      /\ \A d \in Conns \ {c} : told'[d] = told[d] /\ reused'[d] = reused[d]
  BY DEF GhostTypeOK
<1>3. NothingToldEarly'
  BY <1>2 DEF NothingToldEarly, Told
<1>4. QED
  BY <1>1, <1>3

\* A step that sends nothing and is no request line.
LEMMA QuietStep ==
  ASSUME UploadInv, GhostTypeOK, NothingToldEarly, NEW c \in Conns, UNCHANGED ghosts,
         Told(told[c], reused[c], cb'[c], arg'[c], hs'[c]),
         \A d \in Conns \ {c} : cb'[d] = cb[d] /\ arg'[d] = arg[d] /\ hs'[d] = hs[d]
  PROVE  GhostTypeOK' /\ NothingToldEarly'
<1>1. /\ told' = [told EXCEPT ![c] = told[c]] /\ reused' = [reused EXCEPT ![c] = reused[c]]
      /\ told[c] \in Pages /\ reused[c] \in BOOLEAN
  BY DEF ghosts, GhostTypeOK
<1>2. QED
  BY <1>1, ToldStep

\* The state of a connection after which it is forgotten.
LEMMA ForgottenTold ==
  ASSUME NEW C, NEW a, a => FALSE
  PROVE  Told("none", FALSE, C, a, Clean)
BY DEF Told, Clean

\* send_data: what is told now is of the page that was prepared, and a request
\* that is not answered yet is not being answered.
LEMMA SendTold ==
  ASSUME UploadInv, GhostTypeOK, NothingToldEarly, NEW c \in Conns, NEW left,
         NEW g \in State, NEW unacked, SendData(c, g, unacked), Tells(c, left),
         ~reused[c] => told[c] \in {"none", g.page} /\ ~g.gotfirst,
         g.posting /\ g.postpos < g.postlen => g.gotfirst,
         "sent" \in cb'[c],
         \A d \in Conns \ {c} : cb'[d] = cb[d] /\ arg'[d] = arg[d]
  PROVE  GhostTypeOK' /\ NothingToldEarly'
<1>1. PICK n : hs' = [hs EXCEPT ![c] = [g EXCEPT !.left = @ - n]]
  BY DEF SendData
<1>2. hs \in [Conns -> State]
  BY DEF UploadInv, ServerTypeOK, ConnTypeOK, State
<1>3. /\ hs'[c].page = g.page /\ hs'[c].gotfirst = g.gotfirst /\ hs'[c].posting = g.posting
      /\ hs'[c].postpos = g.postpos /\ hs'[c].postlen = g.postlen
      /\ \A d \in Conns \ {c} : hs'[d] = hs[d]
  BY <1>1, <1>2 DEF State, HttpState
<1> DEFINE p == IF told[c] = "none" /\ hs'[c].left < left THEN g.page ELSE told[c]
<1>4. /\ told' = [told EXCEPT ![c] = p] /\ reused' = [reused EXCEPT ![c] = reused[c]]
      /\ reused[c] \in BOOLEAN
  BY <1>3 DEF Tells, GhostTypeOK
<1>5. p \in Pages /\ (~reused[c] => p \in {"none", g.page})
  BY DEF GhostTypeOK, State, HttpState
<1> HIDE DEF p
<1>6. Told(p, reused[c], cb'[c], arg'[c], hs'[c])
  BY <1>3, <1>5 DEF Told
<1>7. QED
  BY <1>3, <1>4, <1>5, <1>6, ToldStep

\* close_conn: the connection is forgotten, or its upload is flashed.
LEMMA CloseTold ==
  ASSUME UploadInv, GhostTypeOK, NothingToldEarly, NEW c \in Conns, CloseConn(c)
  PROVE  GhostTypeOK' /\ NothingToldEarly'
<1>1. /\ cb' = [cb EXCEPT ![c] = @ \ {"recv", "sent"}] /\ arg' = [arg EXCEPT ![c] = FALSE]
      /\ cb \in [Conns -> SUBSET {"recv", "sent", "poll", "err"}]
      /\ arg \in [Conns -> BOOLEAN] /\ hs \in [Conns -> State]
  BY DEF CloseConn, Drop, Unregistered, UploadInv, ServerTypeOK, ConnTypeOK, State
<1>2. /\ ~arg'[c] /\ "sent" \notin cb'[c]
      /\ \A d \in Conns \ {c} : cb'[d] = cb[d] /\ arg'[d] = arg[d]
  BY <1>1
<1>3. CASE hs[c].data
  <2>1. hs' = hs /\ UNCHANGED ghosts
    BY <1>3 DEF CloseConn
  <2>2. Told(told[c], reused[c], cb'[c], arg'[c], hs'[c])
    BY <1>2, <2>1 DEF NothingToldEarly, Told
  <2>3. QED
    BY <1>2, <2>1, <2>2, QuietStep
<1>4. CASE ~hs[c].data
  <2>1. NewRequest(c, FALSE) /\ hs' = [hs EXCEPT ![c] = Clean]
    BY <1>4 DEF CloseConn, Drop, Freed
  <2>2. Told("none", FALSE, cb'[c], arg'[c], hs'[c])
    BY <1>1, <1>2, <2>1, ForgottenTold
  <2>3. QED
    BY <1>1, <1>2, <2>1, <2>2, ToldStep DEF NewRequest, Pages
<1>5. QED
  BY <1>3, <1>4

\* conn_err.
LEMMA ErrTold ==
  ASSUME UploadInv, GhostTypeOK, NothingToldEarly, Serving, NEW c \in Conns, Err(c)
  PROVE  GhostTypeOK' /\ NothingToldEarly'
<1>1. /\ cb' = [cb EXCEPT ![c] = {}] /\ arg' = [arg EXCEPT ![c] = FALSE]
      /\ NewRequest(c, FALSE)
      /\ arg[c] => Freed(c)
      /\ ~arg[c] => hs' = hs
      /\ cb \in [Conns -> SUBSET {"recv", "sent", "poll", "err"}]
      /\ arg \in [Conns -> BOOLEAN] /\ hs \in [Conns -> State]
  BY DEF Err, ConnErr, UploadInv, ServerTypeOK, ConnTypeOK, State
<1>2. hs'[c] = Clean /\ \A d \in Conns \ {c} : hs'[d] = hs[d]
  <2>1. CASE arg[c]
    BY <1>1, <2>1 DEF Freed
  <2>2. CASE ~arg[c]
    <3>1. ~live[c]
      BY <2>2 DEF UploadInv, FlashOrder, StateOwned
    <3>2. QED
      BY <1>1, <2>2, <3>1 DEF UploadInv, FreedIsClean
  <2>3. QED
    BY <2>1, <2>2
<1>3. Told("none", FALSE, cb'[c], arg'[c], hs'[c])
  BY <1>1, <1>2, ForgottenTold
<1>4. QED
  BY <1>1, <1>2, <1>3, ToldStep DEF NewRequest, Pages

\* http_sent with more of the page to send, http_poll before it gives up.
LEMMA ResendTold ==
  ASSUME UploadInv, GhostTypeOK, NothingToldEarly, NEW c \in Conns,
         SentMore(c) \/ PollRetry(c), Tells(c, hs[c].left)
  PROVE  GhostTypeOK' /\ NothingToldEarly'
<1>1. "sent" \in cb[c] /\ UNCHANGED <<cb, arg>>
  BY DEF SentMore, PollRetry, NothingToldEarly
<1>2. hs[c] \in State
  BY DEF UploadInv, ServerTypeOK, ConnTypeOK, State
<1>3. PICK r \in 0 .. PollLimit - 1, unacked \in Int :
        SendData(c, [hs[c] EXCEPT !.retries = r], unacked)
  <2>1. inflight[c] \in Int
    BY ConnAssumption DEF UploadInv, ServerTypeOK, ConnTypeOK
  <2>2. CASE SentMore(c)
    <3>1. PICK k \in 1 .. inflight[c] : SendData(c, [hs[c] EXCEPT !.retries = 0], inflight[c] - k)
      BY <2>2 DEF SentMore
    <3>2. inflight[c] - k \in Int /\ 0 \in 0 .. PollLimit - 1
      BY <2>1, <3>1 DEF PollLimit
    <3>3. QED
      BY <3>1, <3>2
  <2>3. CASE PollRetry(c)
    <3>1. hs[c].retries + 1 \in 0 .. PollLimit - 1
      BY <1>2, <2>3 DEF PollRetry, PollLimit, State, HttpState
    <3>2. SendData(c, [hs[c] EXCEPT !.retries = hs[c].retries + 1], inflight[c])
      BY <2>3 DEF PollRetry
    <3>3. QED
      BY <2>1, <3>1, <3>2
  <2>4. QED
    BY <2>2, <2>3
<1> DEFINE g == [hs[c] EXCEPT !.retries = r]
<1>4. /\ g \in State
      /\ g.page = hs[c].page /\ g.gotfirst = hs[c].gotfirst /\ g.posting = hs[c].posting
      /\ g.postpos = hs[c].postpos /\ g.postlen = hs[c].postlen
  BY <1>2 DEF State, HttpState
<1>5. /\ ~reused[c] => told[c] \in {"none", g.page} /\ ~g.gotfirst
      /\ g.posting /\ g.postpos < g.postlen => g.gotfirst
  BY <1>1, <1>4 DEF NothingToldEarly
<1>6. QED
  <2>1. SendData(c, g, unacked) /\ Tells(c, hs[c].left)
    BY <1>3
  <2> HIDE DEF g
  <2>2. QED
    BY <1>1, <1>4, <1>5, <2>1, SendTold

\* http_accept.
LEMMA AcceptTold ==
  ASSUME UploadInv, GhostTypeOK, NothingToldEarly, NEW c \in Conns, Accept(c)
  PROVE  GhostTypeOK' /\ NothingToldEarly'
<1>1. ~live[c] /\ hs[c] = Clean /\ hs \in [Conns -> State]
  BY DEF UploadInv, Accept, AcceptConn, FlashOrder, StateOwned, FreedIsClean,
         ServerTypeOK, ConnTypeOK, State
<1>2. UNCHANGED ghosts /\ hs' = hs
  BY <1>1 DEF Accept, AcceptConn
<1>3. /\ cb'[c] = {"recv", "err"}
      /\ \A d \in Conns \ {c} : cb'[d] = cb[d] /\ arg'[d] = arg[d]
  BY DEF Accept, AcceptConn, UploadInv, ServerTypeOK, ConnTypeOK
<1>4. Told(told[c], reused[c], cb'[c], arg'[c], hs'[c])
  BY <1>1, <1>2, <1>3 DEF NothingToldEarly, Told
<1>5. QED
  BY <1>2, <1>3, <1>4, QuietStep

\* handle_line: a request line forgets what was told; the other lines and the
\* parts of a body send nothing.
LEMMA RequestTold ==
  ASSUME UploadInv, GhostTypeOK, NothingToldEarly, NEW c \in Conns, RequestLine(c)
  PROVE  GhostTypeOK' /\ NothingToldEarly'
<1> DEFINE r == "sent" \in cb[c]
<1>1. /\ NewRequest(c, r) /\ UNCHANGED <<cb, arg>> /\ "recv" \in cb[c] /\ ~hs[c].posting
      /\ hs \in [Conns -> State]
  BY DEF RequestLine, TakesLine, UploadInv, ServerTypeOK, ConnTypeOK, State
<1>2. PICK p \in {"main", "ok", "404", "500"} :
        /\ hs'[c].page = p /\ hs'[c].posting = hs[c].posting
        /\ \A d \in Conns \ {c} : hs'[d] = hs[d]
  <2>1. CASE \E p \in {"main", "ok", "404"} :
               hs' = [hs EXCEPT ![c] = [Answer(@, p) EXCEPT !.gotfirst = TRUE]]
    BY <1>1, <2>1 DEF Answer, State, HttpState
  <2>2. CASE hs' = [hs EXCEPT ![c] =
                [Answer(@, "500") EXCEPT !.gotfirst = TRUE, !.ispost = TRUE]]
    BY <1>1, <2>2 DEF Answer, State, HttpState
  <2>3. QED
    BY <2>1, <2>2 DEF RequestLine
<1>3. Told("none", r, cb'[c], arg'[c], hs'[c])
  BY <1>1, <1>2 DEF NothingToldEarly, Told
<1>4. r \in BOOLEAN /\ "none" \in Pages
  BY DEF Pages
<1> HIDE DEF r
<1>5. QED
  BY <1>1, <1>2, <1>3, <1>4, ToldStep DEF NewRequest

LEMMA HeaderTold ==
  ASSUME UploadInv, GhostTypeOK, NothingToldEarly, NEW c \in Conns, Header(c)
  PROVE  GhostTypeOK' /\ NothingToldEarly'
<1>1. UNCHANGED <<ghosts, cb, arg>> /\ ~hs[c].posting /\ hs \in [Conns -> State]
  BY DEF Header, HeaderLine, TakesLine, UploadInv, ServerTypeOK, ConnTypeOK, State
<1>2. /\ hs'[c].page = hs[c].page /\ hs'[c].gotfirst = hs[c].gotfirst
      /\ hs'[c].posting = hs[c].posting
      /\ \A d \in Conns \ {c} : hs'[d] = hs[d]
  <2>1. PICK n : hs' = [hs EXCEPT ![c].postlen = n]
    BY DEF Header, HeaderLine
  <2>2. QED
    BY <1>1, <2>1 DEF State, HttpState
<1>3. Told(told[c], reused[c], cb'[c], arg'[c], hs'[c])
  BY <1>1, <1>2 DEF NothingToldEarly, Told
<1>4. QED
  BY <1>1, <1>2, <1>3, QuietStep

LEMMA StartBodyTold ==
  ASSUME UploadInv, GhostTypeOK, NothingToldEarly, NEW c \in Conns, StartBody(c)
  PROVE  GhostTypeOK' /\ NothingToldEarly'
<1>1. UNCHANGED <<ghosts, cb, arg>> /\ hs[c].gotfirst /\ hs \in [Conns -> State]
  BY DEF StartBody, BlankBeforeBody, UploadInv, ServerTypeOK, ConnTypeOK, State
<1>2. /\ hs'[c].page = hs[c].page /\ hs'[c].gotfirst = hs[c].gotfirst
      /\ \A d \in Conns \ {c} : hs'[d] = hs[d]
  BY <1>1 DEF StartBody, BlankBeforeBody, State, HttpState
<1>3. Told(told[c], reused[c], cb'[c], arg'[c], hs'[c])
  BY <1>1, <1>2 DEF NothingToldEarly, Told
<1>4. QED
  BY <1>1, <1>2, <1>3, QuietStep

LEMMA RecvBodyTold ==
  ASSUME UploadInv, GhostTypeOK, NothingToldEarly, NEW c \in Conns, RecvBody(c)
  PROVE  GhostTypeOK' /\ NothingToldEarly'
<1>1. PICK k \in Chunks : BodyPart(c, k)
  BY DEF RecvBody
<1>2. /\ UNCHANGED <<ghosts, cb, arg>> /\ hs \in [Conns -> State]
      /\ TakesBody(c, k) /\ hs' = [hs EXCEPT ![c] = Advanced(hs[c], k)]
  BY <1>1 DEF RecvBody, BodyPart, UploadInv, ServerTypeOK, ConnTypeOK, State
<1>3. /\ k \in Nat /\ hs[c].postpos \in Nat /\ hs[c].postlen \in Nat
      /\ Advanced(hs[c], k) = [hs[c] EXCEPT !.postpos = hs[c].postpos + k]
  BY <1>2, BodyFacts
<1>4. k > 0
  BY ConnAssumption
<1>5. /\ hs'[c].page = hs[c].page /\ hs'[c].gotfirst = hs[c].gotfirst
      /\ hs'[c].posting = hs[c].posting
      /\ hs'[c].postpos = hs[c].postpos + k /\ hs'[c].postlen = hs[c].postlen
      /\ \A d \in Conns \ {c} : hs'[d] = hs[d]
  BY <1>2, <1>3 DEF State, HttpState
<1>6. Told(told[c], reused[c], cb'[c], arg'[c], hs'[c])
  BY <1>2, <1>3, <1>4, <1>5 DEF NothingToldEarly, Told
<1>7. QED
  BY <1>2, <1>5, <1>6, QuietStep

\* The empty line of a request without a body: the page goes out.
LEMMA GetTold ==
  ASSUME UploadInv, GhostTypeOK, NothingToldEarly, NEW c \in Conns, GetDone(c)
  PROVE  GhostTypeOK' /\ NothingToldEarly'
<1> DEFINE g == [hs[c] EXCEPT !.gotfirst = FALSE]
<1>1. /\ TakesLine(c) /\ SendData(c, g, inflight[c]) /\ Tells(c, hs[c].left)
      /\ cb' = [cb EXCEPT ![c] = @ \cup {"poll", "sent"}] /\ arg' = arg
      /\ cb \in [Conns -> SUBSET {"recv", "sent", "poll", "err"}]
  BY DEF GetDone, BlankEndsRequest, StartAnswer, UploadInv, ServerTypeOK, ConnTypeOK
<1>2. hs[c] \in State /\ ~hs[c].posting
  BY <1>1, LineFacts
<1>3. g \in State /\ g.page = hs[c].page /\ ~g.posting /\ ~g.gotfirst
  BY <1>2 DEF State, HttpState
<1>4. ~reused[c] => told[c] \in {"none", g.page}
  BY <1>3 DEF NothingToldEarly
<1> HIDE DEF g
<1>5. "sent" \in cb'[c] /\ \A d \in Conns \ {c} : cb'[d] = cb[d] /\ arg'[d] = arg[d]
  BY <1>1
<1>6. QED
  BY <1>1, <1>3, <1>4, <1>5, SendTold

\* http_recv with the last byte of the body: nothing was told before.
LEMMA BodyDoneTold ==
  ASSUME UploadInv, GhostTypeOK, NothingToldEarly, NEW c \in Conns, BodyDone(c)
  PROVE  GhostTypeOK' /\ NothingToldEarly'
<1>1. PICK k \in Chunks, b \in Bodies \ {"none"}, u \in Uninitialised :
        /\ TakesBody(c, k) /\ Completes(hs[c], k)
        /\ StartAnswer(c, Decision([Advanced(hs[c], k) EXCEPT !.body = b], u))
        /\ Tells(c, PageLen) /\ arg' = arg
  BY DEF BodyDone
<1>2. /\ hs[c] \in State /\ Whole(hs[c]) /\ hs[c].posting
      /\ k \in Nat /\ hs[c].postpos \in Nat /\ hs[c].postlen \in Nat
      /\ Advanced(hs[c], k) = [hs[c] EXCEPT !.postpos = hs[c].postpos + k]
      /\ Advanced(hs[c], k) \in State
  BY <1>1, BodyFacts
<1> DEFINE f == [Advanced(hs[c], k) EXCEPT !.body = b]
           e == Decision(f, u)
           g == [e EXCEPT !.gotfirst = FALSE]
<1>3. ~hs[c].data /\ hs[c].postpos < hs[c].postlen /\ hs[c].postpos + k >= hs[c].postlen
  BY <1>1, <1>2 DEF Whole, Completes
<1>4. /\ f \in State /\ f.posting = hs[c].posting /\ f.data = hs[c].data
      /\ f.body = b /\ f.postpos = hs[c].postpos + k /\ f.postlen = hs[c].postlen
  BY <1>2 DEF State, HttpState
<1>5. SendData(c, g, inflight[c]) /\ cb' = [cb EXCEPT ![c] = @ \cup {"poll", "sent"}]
  BY <1>1 DEF StartAnswer
<1> HIDE DEF f
<1>6. e \in State /\ e.posting /\ e.postpos = f.postpos /\ e.postlen = f.postlen
  <2>1. e \in State /\ e.posting
    BY <1>2, <1>3, <1>4, DecisionFacts
  <2>2. e.postpos = f.postpos /\ e.postlen = f.postlen
    BY <1>4 DEF Decision, Accepted, Answer, State, HttpState
  <2>3. QED
    BY <2>1, <2>2
<1> HIDE DEF e
<1>7. g \in State /\ ~g.gotfirst /\ g.postpos = e.postpos /\ g.postlen = e.postlen
  BY <1>6 DEF State, HttpState
<1>8. ~(g.postpos < g.postlen)
  BY <1>2, <1>3, <1>4, <1>6, <1>7
<1>9. ~reused[c] => told[c] = "none"
  BY <1>2, <1>3 DEF NothingToldEarly
<1>10. "sent" \in cb'[c] /\ \A d \in Conns \ {c} : cb'[d] = cb[d] /\ arg'[d] = arg[d]
  BY <1>1, <1>5 DEF UploadInv, ServerTypeOK, ConnTypeOK
<1> HIDE DEF g
<1>11. QED
  BY <1>1, <1>5, <1>7, <1>8, <1>9, <1>10, SendTold

\* lwIP has finished with a connection the server closed.
LEMMA ReapedTold ==
  ASSUME UploadInv, GhostTypeOK, NothingToldEarly, NEW c \in Conns, Reaped(c)
  PROVE  GhostTypeOK' /\ NothingToldEarly'
<1>1. /\ cb' = [cb EXCEPT ![c] = {}] /\ UNCHANGED <<arg, hs, ghosts>>
      /\ cb \in [Conns -> SUBSET {"recv", "sent", "poll", "err"}]
  BY DEF Reaped, Reap, UploadInv, ServerTypeOK, ConnTypeOK
<1>2. Told(told[c], reused[c], cb'[c], arg'[c], hs'[c])
  BY <1>1 DEF NothingToldEarly, Told
<1>3. QED
  BY <1>1, <1>2, QuietStep

LEMMA InitNetFlashInv == Init => NetFlashInv
<1> SUFFICES ASSUME Init PROVE NetFlashInv
  OBVIOUS
<1>1. GhostTypeOK
  BY DEF Init, GhostTypeOK, Pages
<1>2. NothingToldEarly
  BY DEF Init, ConnInit, Clean, NothingToldEarly
<1>3. QED
  BY <1>1, <1>2, InitUploadInv DEF NetFlashInv

LEMMA NextNetFlashInv == NetFlashInv /\ [Next]_vars => NetFlashInv'
<1> SUFFICES ASSUME NetFlashInv, [Next]_vars PROVE NetFlashInv'
  OBVIOUS
<1> USE DEF NetFlashInv
<1>1. UploadInv'
  BY NextUploadInv
<1>2. ASSUME NEW c \in Conns, BadRequest(c) \/ PeerClose(c)
      PROVE  GhostTypeOK' /\ NothingToldEarly'
  BY <1>2, CloseTold DEF BadRequest, PeerClose
<1>3. ASSUME NEW c \in Conns, Sent(c) PROVE GhostTypeOK' /\ NothingToldEarly'
  BY <1>3, ResendTold, CloseTold DEF Sent
<1>4. ASSUME NEW c \in Conns, Poll(c) \/ ConnectionLost(c)
      PROVE  GhostTypeOK' /\ NothingToldEarly'
  BY <1>4, ResendTold, ErrTold DEF Poll, ConnectionLost
<1>5. CASE Reflash \/ UNCHANGED vars
  BY <1>1, <1>5 DEF Reflash, vars, connVars, ghosts, GhostTypeOK, NothingToldEarly
<1>6. CASE Next
  BY <1>1, <1>2, <1>3, <1>4, <1>5, <1>6, AcceptTold, RequestTold, HeaderTold, StartBodyTold,
     GetTold, RecvBodyTold, BodyDoneTold, ReapedTold DEF Next
<1>7. QED
  BY <1>1, <1>5, <1>6

LEMMA NetFlashInvariant == Spec => []NetFlashInv
  BY InitNetFlashInv, NextNetFlashInv, PTL DEF Spec

-----------------------------------------------------------------------------
(* The theorems *)

\* Type correctness of the upload server.
THEOREM NetFlashTypes == Spec => []TypeOK
<1>1. NetFlashInv => TypeOK
  BY DEF NetFlashInv, UploadInv, TypeOK
<1>2. QED
  BY <1>1, NetFlashInvariant, PTL

\* close_conn, handle_post: only an upload that came in completely and was not
\* found to be of an illegal size is flashed.
THEOREM OnlyWholeImages == Spec => []FlashesWholeImage
<1>1. NetFlashInv => FlashesWholeImage
  BY DEF NetFlashInv, UploadInv, FlashOrder, FlashesWholeImage
<1>2. QED
  BY <1>1, NetFlashInvariant, PTL

\* handle_line, handle_post, send_data: "ok" is prepared when and only when
\* closing the connection flashes the image, and unless the connection was still
\* being answered when the upload was announced, no byte of another page goes
\* out in answer to the upload, neither before the decision nor after it.
THEOREM PageTellsTheTruth == Spec => []AnswerMatchesDecision
<1>1. NetFlashInv => AnswerMatchesDecision
  <2> SUFFICES ASSUME NetFlashInv, NEW c \in Conns, hs[c].posting, ~reused[c]
               PROVE  IF hs[c].postpos >= hs[c].postlen
                      THEN told[c] \in {"none", hs[c].page} ELSE told[c] = "none"
    BY DEF NetFlashInv, UploadInv, AnswerMatchesDecision
  <2>1. hs[c].postpos \in Nat /\ hs[c].postlen \in Lengths \cup {0}
    BY DEF NetFlashInv, UploadInv, ServerTypeOK, ConnTypeOK, HttpState
  <2>2. hs[c].postlen \in Nat
    BY <2>1, Units, Zenon
  <2>3. QED
    BY <2>1, <2>2 DEF NetFlashInv, NothingToldEarly
<1>2. QED
  BY <1>1, NetFlashInvariant, PTL

\* close_conn, conn_err: a buffer is freed once, or lost with its connection.
THEOREM NoBufferTwice == Spec => []BuffersAccounted
<1>1. NetFlashInv => BuffersAccounted
  BY DEF NetFlashInv, UploadInv
<1>2. QED
  BY <1>1, NetFlashInvariant, PTL

\* http_accept, close_conn, conn_err: no callback gets a freed state.
THEOREM NoDanglingState == Spec => []CallbacksHaveState
<1>1. NetFlashInv => CallbacksHaveState
  BY DEF NetFlashInv, UploadInv
<1>2. QED
  BY <1>1, NetFlashInvariant, PTL
=============================================================================
