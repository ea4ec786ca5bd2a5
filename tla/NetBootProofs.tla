---------------------------- MODULE NetBootProofs ----------------------------
(***************************************************************************)
(* Proofs about the network boot wizard, for any number of connections,    *)
(* any pages and uploads, and any order of the callbacks.                  *)
(***************************************************************************)
EXTENDS NetBoot, TLAPS

State == HttpState(Pages, Bodies)

\* The two halves of the invariant that hold of every user.
ConnOK ==
  ConnTypeOK(Pages, Bodies) /\ CallbacksHaveState /\ FreedIsClean /\ StateFreedOnce /\ UploadsNamed

AppOK ==
  /\ postNum \in 0 .. MaxPost
  /\ step \in [Conns -> 0 .. MaxPost] /\ intact \in [Conns -> BOOLEAN]
  /\ kernel \in Things /\ initrd \in Things /\ append \in Things
  /\ booted \in BOOLEAN
  /\ form \in Forms \cup {"booting"} /\ posted \subseteq Forms
  /\ mishaps \subseteq {"overlap", "break"}
  /\ scene \in Scenes

\* What a careful user has of it that nothing overlaps and nothing is lost.
Tidy ==
  /\ "overlap" \notin mishaps => InTurn /\ FilesNotMixedUp
  /\ mishaps = {} => Placed

LEMMA Halves == NetBootInv <=> ConnOK /\ AppOK /\ (Careful => Wizard /\ Tidy)
  BY DEF NetBootInv, TypeOK, ConnOK, AppOK, Tidy

LEMMA Units == Lengths \cup {0} \subseteq Nat /\ Chunks \subseteq Nat
<1>1. Lengths \subseteq Nat /\ Chunks \subseteq Nat \ {0}
  BY ConnAssumption, Zenon
<1>2. QED
  BY <1>1

LEMMA CleanFacts ==
  /\ Clean \in State /\ ~Clean.ispost /\ ~Clean.data /\ ~Clean.posting /\ Named(Clean)
<1>1. 0 \in 0 .. PageLen /\ 0 \in 0 .. PollLimit - 1
  BY ConnAssumption DEF PollLimit
<1>2. QED
  BY <1>1 DEF State, HttpState, Clean, Pages, Bodies, Named

LEMMA FileNames ==
  /\ http_files[1] = "kernel" /\ http_files[2] = "initrd" /\ http_files[3] = "append"
  /\ http_files[4] = "booting" /\ http_files[5] = "png" /\ http_files[6] = "404"
  /\ http_files[7] = "500"
  BY DEF http_files

LEMMA PagesAre ==
  /\ "main" \in Pages
  /\ \A n \in 0 .. MaxPost : http_files[n + 2] \in Pages
<1>1. \A i \in 1 .. 7 : http_files[i] \in Pages
  BY DEF Pages
<1>2. \A n \in 0 .. MaxPost : n + 2 \in 1 .. 7
  BY NetBootAssumption
<1> HIDE DEF Pages
<1>3. "main" \in Pages
  BY DEF Pages
<1>4. QED
  BY <1>1, <1>2, <1>3

-----------------------------------------------------------------------------
(* Connections *)

LEMMA Called ==
  ASSUME ConnOK, NEW c \in Conns, cb[c] \cap {"recv", "sent"} # {} \/ arg[c]
  PROVE  live[c] /\ arg[c] /\ hs[c] \in State /\ Named(hs[c])
  BY DEF ConnOK, CallbacksHaveState, ConnTypeOK, State, UploadsNamed

\* A step of one connection that keeps its http_state.
LEMMA LiveStep ==
  ASSUME ConnOK, NEW c \in Conns, live[c],
         NEW h \in State, Named(h), hs' = [hs EXCEPT ![c] = h],
         cb' \in [Conns -> SUBSET {"recv", "sent", "poll", "err"}], arg[c],
         \A d \in Conns : cb[d] \subseteq cb'[d] /\ (d # c => cb'[d] = cb[d]),
         inflight' \in [Conns -> 0 .. SndBuf], lines' \in [Conns -> Nat],
         UNCHANGED <<pcb, arg, live, booted>>
  PROVE  ConnOK'
<1>1. ConnTypeOK(Pages, Bodies)'
  BY DEF ConnOK, ConnTypeOK, State
<1>2. hs \in [Conns -> State]
  BY DEF ConnOK, ConnTypeOK, State
<1>3. CallbacksHaveState' /\ FreedIsClean'
  BY <1>2 DEF ConnOK, CallbacksHaveState, FreedIsClean
<1>4. StateFreedOnce'
  BY DEF ConnOK, StateFreedOnce, Serving, StateOwned
<1>5. UploadsNamed'
  BY <1>2 DEF ConnOK, UploadsNamed
<1>6. QED
  BY <1>1, <1>3, <1>4, <1>5 DEF ConnOK

\* A step after which a connection has no http_state any more.
LEMMA GoneStep ==
  ASSUME ConnOK, Serving, NEW c \in Conns, Freed(c),
         pcb' \in [Conns -> {"none", "open", "closing"}], \A d \in Conns \ {c} : pcb'[d] = pcb[d],
         cb' \in [Conns -> SUBSET {"recv", "sent", "poll", "err"}],
         cb'[c] \cap {"recv", "sent"} = {}, \A d \in Conns \ {c} : cb'[d] = cb[d],
         arg' = [arg EXCEPT ![c] = FALSE]
  PROVE  ConnOK'
<1>1. /\ live' = [live EXCEPT ![c] = FALSE] /\ hs' = [hs EXCEPT ![c] = Clean]
      /\ inflight' = [inflight EXCEPT ![c] = 0] /\ lines' = [lines EXCEPT ![c] = 0]
      /\ hs \in [Conns -> State] /\ live \in [Conns -> BOOLEAN] /\ arg \in [Conns -> BOOLEAN]
  BY DEF Freed, ConnOK, ConnTypeOK, State
<1>2. /\ ~live'[c] /\ ~arg'[c] /\ hs'[c] = Clean
      /\ \A d \in Conns \ {c} : hs'[d] = hs[d] /\ live'[d] = live[d] /\ arg'[d] = arg[d]
  BY <1>1
<1>3. CallbacksHaveState' /\ FreedIsClean'
  BY <1>2 DEF ConnOK, CallbacksHaveState, FreedIsClean
<1>4. StateFreedOnce'
  BY <1>2 DEF ConnOK, StateFreedOnce, StateOwned
<1>5. 0 \in 0 .. SndBuf
  BY ConnAssumption
<1>6. ConnTypeOK(Pages, Bodies)'
  BY <1>1, <1>5, CleanFacts DEF ConnOK, ConnTypeOK, State
<1>7. UploadsNamed'
  BY <1>2, CleanFacts DEF ConnOK, UploadsNamed
<1>8. QED
  BY <1>3, <1>4, <1>6, <1>7 DEF ConnOK

\* send_data changes no more of an http_state than what is left of the page.
LEMMA SendFacts ==
  ASSUME ConnOK, NEW c \in Conns, NEW g \in State, NEW unacked \in 0 .. SndBuf,
         SendData(c, g, unacked)
  PROVE  /\ \E n \in 0 .. PageLen : hs' = [hs EXCEPT ![c] = [g EXCEPT !.left = n]]
         /\ inflight' \in [Conns -> 0 .. SndBuf]
<1>1. PICK n \in 0 .. PageLen :
        /\ n <= g.left /\ n <= SndBuf - unacked
        /\ hs' = [hs EXCEPT ![c] = [g EXCEPT !.left = g.left - n]]
        /\ inflight' = [inflight EXCEPT ![c] = unacked + n]
  BY DEF SendData
<1>2. g.left \in 0 .. PageLen /\ PageLen \in Nat /\ SndBuf \in Nat
  BY ConnAssumption DEF State, HttpState
<1>3. g.left - n \in 0 .. PageLen /\ unacked + n \in 0 .. SndBuf
  BY <1>1, <1>2
<1>4. inflight' \in [Conns -> 0 .. SndBuf]
  BY <1>1, <1>3 DEF ConnOK, ConnTypeOK
<1>5. QED
  BY <1>1, <1>3, <1>4

-----------------------------------------------------------------------------
(* The wizard *)

\* The forms come before all other pages, and each page once.
LEMMA FormIndex ==
  ASSUME NEW n \in 1 .. 7, http_files[n] \in Forms
  PROVE  n \in 1 .. 3
<1>1. n = 1 \/ n = 2 \/ n = 3 \/ n = 4 \/ n = 5 \/ n = 6 \/ n = 7
  OBVIOUS
<1>2. http_files[n] # "booting" /\ http_files[n] # "png" /\ http_files[n] # "404" /\ http_files[n] # "500"
  BY DEF Forms
<1>3. QED
  BY <1>1, <1>2, FileNames

LEMMA FormsDiffer ==
  ASSUME NEW i \in 1 .. 3, NEW j \in 1 .. 3, http_files[i] = http_files[j]
  PROVE  i = j
<1>1. (i = 1 \/ i = 2 \/ i = 3) /\ (j = 1 \/ j = 2 \/ j = 3)
  OBVIOUS
<1>2. QED
  BY <1>1, FileNames

\* A step that leaves the upload of its connection as it is.
LEMMA SameUpload ==
  ASSUME ConnOK, Wizard, NEW c \in Conns, NEW h \in State, hs' = [hs EXCEPT ![c] = h],
         h.ispost = hs[c].ispost, h.data = hs[c].data, h.posting = hs[c].posting,
         h.ispost => /\ h.body = hs[c].body /\ h.page = hs[c].page
                     /\ h.gotfirst = hs[c].gotfirst /\ h.postpos = hs[c].postpos
                     /\ hs[c].posting => h.postlen = hs[c].postlen
                     /\ "sent" \in cb'[c] <=> "sent" \in cb[c],
         \A d \in Conns \ {c} : cb'[d] = cb[d],
         UNCHANGED <<postNum, step, intact, places, form, posted, mishaps, scene>>
  PROVE  Wizard' /\ (Tidy => Tidy')
<1>1. hs \in [Conns -> State]
  BY DEF ConnOK, ConnTypeOK, State
<1>2. /\ hs'[c] = h /\ \A d \in Conns \ {c} : hs'[d] = hs[d]
  BY <1>1
<1>3. \A d \in Conns : /\ hs'[d].ispost = hs[d].ispost /\ hs'[d].data = hs[d].data
                       /\ hs'[d].posting = hs[d].posting
  BY <1>2
<1>4. \A d \in Conns : hs[d].ispost =>
        /\ hs'[d].body = hs[d].body /\ hs'[d].page = hs[d].page
        /\ hs'[d].gotfirst = hs[d].gotfirst /\ hs'[d].postpos = hs[d].postpos
        /\ hs[d].posting => hs'[d].postlen = hs[d].postlen
        /\ "sent" \in cb'[d] <=> "sent" \in cb[d]
  BY <1>2
<1>5. \A d \in Conns : (Uploading(d)' <=> Uploading(d)) /\ (Uploaded(d)' <=> Uploaded(d))
  BY <1>3 DEF Uploading, Uploaded
<1>6. \A d \in Conns : Uploading(d) => OnItsWay(d)'
  BY <1>4 DEF Wizard, Uploading, OnItsWay
<1>7. \A d \in Conns : Uploaded(d) => Counted(d)'
  BY <1>3, <1>4 DEF Wizard, Uploaded, Counted
<1>8. Wizard'
  BY <1>5, <1>6, <1>7 DEF Wizard
<1>9. InTurn => InTurn'
  BY <1>3, <1>4, <1>5 DEF InTurn, Uploading
<1>10. Placed => Placed'
  BY <1>5 DEF Placed, PlacedUpTo, places
<1>11. FilesNotMixedUp => FilesNotMixedUp'
  BY DEF FilesNotMixedUp, Careful, places
<1>12. QED
  BY <1>8, <1>9, <1>10, <1>11 DEF Tidy

\* A step that forgets a connection, and its upload.
LEMMA Forgotten ==
  ASSUME ConnOK, Wizard, NEW c \in Conns, hs' = [hs EXCEPT ![c] = Clean],
         \A d \in Conns \ {c} : cb'[d] = cb[d] /\ step'[d] = step[d] /\ intact'[d] = intact[d],
         UNCHANGED <<postNum, form, posted>>
  PROVE  /\ Wizard' /\ (InTurn => InTurn')
         /\ \A d \in Conns : Uploaded(d)' <=> Uploaded(d) /\ d # c
<1>1. hs \in [Conns -> State]
  BY DEF ConnOK, ConnTypeOK, State
<1>2. /\ ~hs'[c].ispost /\ ~hs'[c].data /\ ~hs'[c].posting
      /\ \A d \in Conns \ {c} : hs'[d] = hs[d]
  BY <1>1, CleanFacts
<1>3. \A d \in Conns : /\ Uploading(d)' <=> Uploading(d) /\ d # c
                       /\ Uploaded(d)' <=> Uploaded(d) /\ d # c
  BY <1>2 DEF Uploading, Uploaded
<1>4. \A d \in Conns \ {c} : Uploading(d) => OnItsWay(d)'
  BY <1>2 DEF Wizard, OnItsWay
<1>5. \A d \in Conns \ {c} : Uploaded(d) => Counted(d)'
  BY <1>2 DEF Wizard, Counted
<1>6. Wizard'
  BY <1>3, <1>4, <1>5 DEF Wizard
<1>7. InTurn => InTurn'
  BY <1>2, <1>3 DEF InTurn
<1>8. QED
  BY <1>3, <1>6, <1>7

-----------------------------------------------------------------------------
(* One lemma per kind of step *)

LEMMA Together ==
  ASSUME ConnOK', AppOK', Careful' => Wizard' /\ Tidy'
  PROVE  NetBootInv'
  BY DEF NetBootInv, TypeOK, ConnOK, AppOK, Tidy

LEMMA AcceptStep ==
  ASSUME NetBootInv, NEW c \in Conns, Accept(c)
  PROVE  NetBootInv'
<1>1. ConnOK /\ AppOK /\ (Careful => Wizard /\ Tidy)
  BY Halves
<1>2. /\ Serving /\ pcb[c] = "none" /\ pcb' = [pcb EXCEPT ![c] = "open"]
      /\ cb' = [cb EXCEPT ![c] = {"recv", "err"}]
      /\ arg' = [arg EXCEPT ![c] = TRUE] /\ live' = [live EXCEPT ![c] = TRUE]
      /\ hs' = [hs EXCEPT ![c] = Clean]
      /\ inflight' = [inflight EXCEPT ![c] = 0] /\ lines' = [lines EXCEPT ![c] = 0]
      /\ UNCHANGED appVars
  BY DEF Accept, AcceptConn
<1>3. ~live[c] /\ hs[c] = Clean
  BY <1>1, <1>2 DEF ConnOK, StateFreedOnce, StateOwned, FreedIsClean
<1>4. hs \in [Conns -> State] /\ hs' = hs
  BY <1>1, <1>2, <1>3 DEF ConnOK, ConnTypeOK, State
<1>5. /\ cb'[c] = {"recv", "err"} /\ arg'[c] /\ live'[c] /\ pcb'[c] = "open"
      /\ \A d \in Conns \ {c} :
           cb'[d] = cb[d] /\ arg'[d] = arg[d] /\ live'[d] = live[d] /\ pcb'[d] = pcb[d]
  BY <1>1, <1>2 DEF ConnOK, ConnTypeOK
<1>6. 0 \in 0 .. SndBuf
  BY ConnAssumption
<1>7. ConnTypeOK(Pages, Bodies)'
  BY <1>1, <1>2, <1>4, <1>6 DEF ConnOK, ConnTypeOK
<1>8. CallbacksHaveState' /\ FreedIsClean' /\ StateFreedOnce'
  BY <1>1, <1>2, <1>4, <1>5
     DEF ConnOK, CallbacksHaveState, FreedIsClean, StateFreedOnce, StateOwned, Serving, appVars
<1>9. AppOK' /\ UploadsNamed'
  BY <1>1, <1>2, <1>4 DEF AppOK, appVars, ConnOK, UploadsNamed
<1>10. UNCHANGED <<postNum, step, intact, places, form, posted, mishaps, scene>>
  BY <1>2 DEF appVars, places
<1>11. Wizard => Wizard' /\ (Tidy => Tidy')
  BY <1>1, <1>2, <1>3, <1>5, <1>10, CleanFacts, SameUpload
<1>12. QED
  BY <1>1, <1>7, <1>8, <1>9, <1>10, <1>11, Together DEF ConnOK, Careful

\* The conclusion of most lemmas about a connection that stays.
LEMMA StaySame ==
  ASSUME NetBootInv, NEW c \in Conns, NEW h \in State, Named(h), live[c], arg[c],
         hs' = [hs EXCEPT ![c] = h],
         cb' \in [Conns -> SUBSET {"recv", "sent", "poll", "err"}],
         \A d \in Conns : cb[d] \subseteq cb'[d] /\ (d # c => cb'[d] = cb[d]),
         inflight' \in [Conns -> 0 .. SndBuf], lines' \in [Conns -> Nat],
         UNCHANGED <<pcb, arg, live, appVars>>,
         Careful => /\ h.ispost = hs[c].ispost /\ h.data = hs[c].data /\ h.posting = hs[c].posting
                    /\ h.ispost => /\ h.body = hs[c].body /\ h.page = hs[c].page
                                   /\ h.gotfirst = hs[c].gotfirst /\ h.postpos = hs[c].postpos
                                   /\ hs[c].posting => h.postlen = hs[c].postlen
                                   /\ "sent" \in cb'[c] <=> "sent" \in cb[c]
  PROVE  NetBootInv'
<1>1. ConnOK /\ AppOK /\ (Careful => Wizard /\ Tidy)
  BY Halves
<1>2. UNCHANGED <<postNum, step, intact, places, form, posted, mishaps, scene>>
  BY DEF appVars, places
<1>3. ConnOK'
  BY <1>1, <1>2, LiveStep DEF places
<1>4. AppOK'
  BY <1>1, <1>2 DEF AppOK, places
<1>5. Careful => Wizard' /\ (Tidy => Tidy')
  BY <1>1, <1>2, SameUpload
<1>6. QED
  BY <1>1, <1>2, <1>3, <1>4, <1>5, Together DEF Careful

\* A line comes in.
LEMMA LineFacts ==
  ASSUME ConnOK, NEW c \in Conns, TakesLine(c)
  PROVE  /\ live[c] /\ arg[c] /\ hs[c] \in State /\ Named(hs[c])
         /\ ~hs[c].posting /\ lines' \in [Conns -> Nat]
<1>1. cb[c] \cap {"recv", "sent"} # {} /\ ~hs[c].posting /\ lines' = [lines EXCEPT ![c] = @ + 1]
  BY DEF TakesLine
<1>2. lines \in [Conns -> Nat]
  BY DEF ConnOK, ConnTypeOK
<1>3. lines' \in [Conns -> Nat]
  BY <1>1, <1>2
<1>4. QED
  BY <1>1, <1>3, Called

\* Whoever has no callback for what was sent, and no request, does not upload.
LEMMA Idle ==
  ASSUME Wizard, NEW c \in Conns, ~hs[c].gotfirst, "sent" \notin cb[c]
  PROVE  ~hs[c].ispost
  BY DEF Wizard, Uploading, Uploaded, OnItsWay, Counted

\* The callbacks stay as they are.
LEMMA SameCallbacks ==
  ASSUME ConnOK, UNCHANGED cb
  PROVE  /\ cb' \in [Conns -> SUBSET {"recv", "sent", "poll", "err"}]
         /\ \A c, d \in Conns : cb[d] \subseteq cb'[d] /\ (d # c => cb'[d] = cb[d])
  BY DEF ConnOK, ConnTypeOK

LEMMA GetLineStep ==
  ASSUME NetBootInv, NEW c \in Conns, GetLine(c)
  PROVE  NetBootInv'
<1>1. ConnOK /\ AppOK /\ (Careful => Wizard)
  BY Halves
<1>2. /\ TakesLine(c) /\ ~hs[c].gotfirst /\ (Careful => "sent" \notin cb[c])
      /\ UNCHANGED <<pcb, cb, arg, live, inflight, appVars>>
  BY DEF GetLine
<1> DEFINE h == [Answer(hs[c], "main") EXCEPT !.gotfirst = TRUE]
<1>3. hs' = [hs EXCEPT ![c] = h]
  BY DEF GetLine
<1>4. live[c] /\ arg[c] /\ hs[c] \in State /\ Named(hs[c]) /\ lines' \in [Conns -> Nat]
  BY <1>1, <1>2, LineFacts
<1>5. "main" \in Pages /\ PageLen \in 0 .. PageLen
  BY PagesAre, ConnAssumption
<1>6. h \in State /\ h.ispost = hs[c].ispost /\ h.data = hs[c].data /\ h.posting = hs[c].posting
      /\ h.postpos = hs[c].postpos /\ h.postlen = hs[c].postlen /\ Named(h)
  BY <1>4, <1>5 DEF Answer, State, HttpState, Named
<1>7. Careful => ~h.ispost
  BY <1>1, <1>2, <1>6, Idle
<1>8. /\ inflight' \in [Conns -> 0 .. SndBuf]
      /\ UNCHANGED <<pcb, arg, live, appVars>> /\ UNCHANGED cb
  BY <1>1, <1>2 DEF ConnOK, ConnTypeOK
<1> HIDE DEF h
<1>9. QED
  BY <1>1, <1>3, <1>4, <1>6, <1>7, <1>8, SameCallbacks, StaySame

LEMMA HeaderStep ==
  ASSUME NetBootInv, NEW c \in Conns, Header(c)
  PROVE  NetBootInv'
<1>1. ConnOK /\ AppOK
  BY Halves
<1>2. TakesLine(c) /\ UNCHANGED <<pcb, cb, arg, live, inflight, appVars>>
  BY DEF Header, HeaderLine
<1>3. live[c] /\ arg[c] /\ hs[c] \in State /\ Named(hs[c]) /\ lines' \in [Conns -> Nat] /\ ~hs[c].posting
  BY <1>1, <1>2, LineFacts
<1>4. hs \in [Conns -> State]
  BY <1>1 DEF ConnOK, ConnTypeOK, State
<1>5. PICK n \in Lengths : hs' = [hs EXCEPT ![c].postlen = n]
  BY DEF Header, HeaderLine
<1> DEFINE h == [hs[c] EXCEPT !.postlen = n]
<1>6. h \in State /\ h.ispost = hs[c].ispost /\ h.data = hs[c].data /\ h.posting = hs[c].posting
      /\ h.body = hs[c].body /\ h.page = hs[c].page /\ h.gotfirst = hs[c].gotfirst
      /\ h.postpos = hs[c].postpos /\ Named(h)
  BY <1>3 DEF State, HttpState, Named
<1>7. hs' = [hs EXCEPT ![c] = h]
  BY <1>4, <1>5 DEF State, HttpState
<1>8. /\ inflight' \in [Conns -> 0 .. SndBuf]
      /\ UNCHANGED <<pcb, arg, live, appVars>> /\ UNCHANGED cb
  BY <1>1, <1>2 DEF ConnOK, ConnTypeOK
<1> HIDE DEF h
<1>9. QED
  BY <1>1, <1>3, <1>6, <1>7, <1>8, SameCallbacks, StaySame

LEMMA GetDoneStep ==
  ASSUME NetBootInv, NEW c \in Conns, GetDone(c)
  PROVE  NetBootInv'
<1>1. ConnOK /\ AppOK
  BY Halves
<1> DEFINE g == [hs[c] EXCEPT !.gotfirst = FALSE]
<1>2. /\ TakesLine(c) /\ SendData(c, g, inflight[c]) /\ (Careful => ~hs[c].ispost)
      /\ cb' = [cb EXCEPT ![c] = @ \cup {"poll", "sent"}]
      /\ UNCHANGED <<pcb, arg, live, appVars>>
  BY DEF GetDone, BlankEndsRequest, StartAnswer
<1>3. live[c] /\ arg[c] /\ hs[c] \in State /\ Named(hs[c]) /\ lines' \in [Conns -> Nat] /\ ~hs[c].posting
  BY <1>1, <1>2, LineFacts
<1>4. g \in State /\ g.ispost = hs[c].ispost /\ g.data = hs[c].data /\ g.posting = hs[c].posting
      /\ Named(g)
  BY <1>3 DEF State, HttpState, Named
<1>5. inflight[c] \in 0 .. SndBuf
  BY <1>1 DEF ConnOK, ConnTypeOK
<1> HIDE DEF g
<1>6. /\ \E n \in 0 .. PageLen : hs' = [hs EXCEPT ![c] = [g EXCEPT !.left = n]]
      /\ inflight' \in [Conns -> 0 .. SndBuf]
  BY <1>1, <1>2, <1>4, <1>5, SendFacts
<1>7. PICK n \in 0 .. PageLen : hs' = [hs EXCEPT ![c] = [g EXCEPT !.left = n]]
  BY <1>6
<1> DEFINE h == [g EXCEPT !.left = n]
<1>8. h \in State /\ h.ispost = hs[c].ispost /\ h.data = hs[c].data /\ h.posting = hs[c].posting
      /\ Named(h)
  BY <1>4 DEF State, HttpState, Named
<1>9. hs' = [hs EXCEPT ![c] = h]
  BY <1>7
<1>10. UNCHANGED <<pcb, arg, live, appVars>>
  BY <1>2
<1>11. /\ cb' \in [Conns -> SUBSET {"recv", "sent", "poll", "err"}]
       /\ \A d \in Conns : cb[d] \subseteq cb'[d] /\ (d # c => cb'[d] = cb[d])
  BY <1>1, <1>2 DEF ConnOK, ConnTypeOK
<1> HIDE DEF h
<1>12. QED
  BY <1>2, <1>3, <1>6, <1>8, <1>9, <1>10, <1>11, StaySame

\* http_sent with more to send, http_poll before it gives up.
LEMMA ResendStep ==
  ASSUME NetBootInv, NEW c \in Conns, SentMore(c) \/ PollRetry(c), UNCHANGED appVars
  PROVE  NetBootInv'
<1>1. ConnOK /\ AppOK
  BY Halves
<1>2. /\ cb[c] \cap {"recv", "sent"} # {} \/ arg[c]
      /\ UNCHANGED <<pcb, cb, arg, live, lines>>
  BY DEF SentMore, PollRetry
<1>3. live[c] /\ arg[c] /\ hs[c] \in State /\ Named(hs[c]) /\ inflight[c] \in 0 .. SndBuf
  BY <1>1, <1>2, Called DEF ConnOK, ConnTypeOK
<1>4. PICK r \in 0 .. PollLimit - 1, unacked \in 0 .. SndBuf :
        SendData(c, [hs[c] EXCEPT !.retries = r], unacked)
  <2>1. CASE SentMore(c)
    <3>1. PICK k \in 1 .. inflight[c] : SendData(c, [hs[c] EXCEPT !.retries = 0], inflight[c] - k)
      BY <2>1 DEF SentMore
    <3>2. inflight[c] - k \in 0 .. SndBuf /\ 0 \in 0 .. PollLimit - 1
      BY <1>3, <3>1, ConnAssumption DEF PollLimit
    <3>3. QED
      BY <3>1, <3>2
  <2>2. CASE PollRetry(c)
    <3>1. hs[c].retries + 1 \in 0 .. PollLimit - 1
      BY <1>3, <2>2 DEF PollRetry, PollLimit, State, HttpState
    <3>2. SendData(c, [hs[c] EXCEPT !.retries = hs[c].retries + 1], inflight[c])
      BY <2>2 DEF PollRetry
    <3>3. QED
      BY <1>3, <3>1, <3>2
  <2>3. QED
    BY <2>1, <2>2
<1> DEFINE g == [hs[c] EXCEPT !.retries = r]
<1>5. g \in State
  BY <1>3 DEF State, HttpState
<1>6. /\ \E n \in 0 .. PageLen : hs' = [hs EXCEPT ![c] = [g EXCEPT !.left = n]]
      /\ inflight' \in [Conns -> 0 .. SndBuf]
  BY <1>1, <1>4, <1>5, SendFacts
<1>7. PICK n \in 0 .. PageLen : hs' = [hs EXCEPT ![c] = [g EXCEPT !.left = n]]
  BY <1>6
<1> DEFINE h == [g EXCEPT !.left = n]
<1>8. h \in State /\ h.ispost = hs[c].ispost /\ h.data = hs[c].data /\ h.posting = hs[c].posting
      /\ h.body = hs[c].body /\ h.page = hs[c].page /\ h.gotfirst = hs[c].gotfirst
      /\ h.postpos = hs[c].postpos /\ h.postlen = hs[c].postlen /\ Named(h)
  BY <1>3 DEF State, HttpState, Named
<1>9. hs' = [hs EXCEPT ![c] = h]
  BY <1>7
<1>10. lines' \in [Conns -> Nat] /\ UNCHANGED <<pcb, arg, live, appVars>>
  BY <1>1, <1>2 DEF ConnOK, ConnTypeOK
<1> HIDE DEF g, h
<1>11. QED
  BY <1>1, <1>2, <1>3, <1>6, <1>8, <1>9, <1>10, SameCallbacks, StaySame

\* A careful user submits the form whose turn it is.
LEMMA PostLineStep ==
  ASSUME NetBootInv, NEW c \in Conns, PostLine(c)
  PROVE  NetBootInv'
<1>1. ConnOK /\ AppOK /\ (Careful => Wizard /\ Tidy)
  BY Halves
<1> DEFINE h == [Answer(hs[c], PostPage) EXCEPT !.gotfirst = TRUE, !.ispost = TRUE, !.body = form]
<1>2. /\ TakesLine(c) /\ Submits(c) /\ form \in Forms
      /\ hs' = [hs EXCEPT ![c] = h]
      /\ posted' = posted \cup {form}
      /\ UNCHANGED <<pcb, cb, arg, live, inflight, postNum, step, intact, places, form, mishaps, scene>>
  BY DEF PostLine, Submits
<1>3. live[c] /\ arg[c] /\ hs[c] \in State /\ Named(hs[c]) /\ ~hs[c].posting /\ lines' \in [Conns -> Nat]
  BY <1>1, <1>2, LineFacts
<1>4. PostPage \in Pages /\ form \in Bodies /\ PageLen \in 0 .. PageLen
  BY <1>1, <1>2, PagesAre, ConnAssumption DEF AppOK, PostPage, Bodies
<1>5. /\ h \in State /\ h.ispost /\ h.gotfirst /\ h.data = hs[c].data /\ ~h.posting
      /\ h.body = form /\ h.page = PostPage /\ Named(h)
  BY <1>2, <1>3, <1>4 DEF Answer, State, HttpState, Named
<1>6. inflight' \in [Conns -> 0 .. SndBuf] /\ UNCHANGED <<pcb, arg, live, booted>> /\ UNCHANGED cb
  BY <1>1, <1>2 DEF ConnOK, ConnTypeOK, places
<1> HIDE DEF h
<1>7. ConnOK'
  BY <1>1, <1>2, <1>3, <1>5, <1>6, SameCallbacks, LiveStep
<1>8. AppOK'
  BY <1>1, <1>2 DEF AppOK, places
<1>9. ASSUME Careful PROVE Wizard' /\ Tidy'
  <2>1. form \notin posted /\ "sent" \notin cb[c] /\ ~hs[c].gotfirst /\ Wizard /\ Tidy
    BY <1>1, <1>2, <1>9 DEF Submits, PostLine
  <2>2. /\ form = http_files[postNum + 1] /\ (\A d \in Conns : ~Uploading(d)) /\ ~hs[c].ispost
    BY <1>2, <2>1, Idle DEF Wizard
  <2>3. ~h.data
    BY <1>3, <1>5, <2>2 DEF Named
  <2>4. /\ hs'[c] = h /\ \A d \in Conns \ {c} : hs'[d] = hs[d]
    BY <1>1, <1>2 DEF ConnOK, ConnTypeOK, State
  <2>5. \A d \in Conns : (Uploading(d)' <=> d = c) /\ (Uploaded(d)' <=> Uploaded(d))
    BY <1>5, <2>2, <2>3, <2>4 DEF Uploading, Uploaded
  <2>6. OnItsWay(c)'
    BY <1>2, <1>5, <1>6, <2>1, <2>2, <2>4 DEF OnItsWay, PostPage
  <2>7. ASSUME NEW d \in Conns, Uploaded(d)
        PROVE  Counted(d)'
    <3>1. hs'[d] = hs[d] /\ Counted(d)
      BY <2>1, <2>2, <2>4, <2>7 DEF Wizard, Uploaded
    <3>2. QED
      BY <1>2, <3>1 DEF Counted
  <2>8. form' \in posted'
    BY <1>2
  <2>9. Wizard'
    BY <2>5, <2>6, <2>7, <2>8 DEF Wizard
  <2>10. InTurn => InTurn'
    BY <1>2, <1>5, <2>4, <2>5 DEF InTurn
  <2>11. (Placed => Placed') /\ (FilesNotMixedUp => FilesNotMixedUp')
    BY <1>2, <2>5 DEF Placed, PlacedUpTo, places, FilesNotMixedUp, Careful
  <2>12. QED
    BY <1>2, <2>1, <2>9, <2>10, <2>11 DEF Tidy
<1>10. QED
  BY <1>1, <1>2, <1>7, <1>8, <1>9, Together DEF Careful

LEMMA StartBodyStep ==
  ASSUME NetBootInv, NEW c \in Conns, StartBody(c)
  PROVE  NetBootInv'
<1>1. ConnOK /\ AppOK /\ (Careful => Wizard /\ Tidy)
  BY Halves
<1> DEFINE h == [hs[c] EXCEPT !.posting = TRUE, !.postpos = 0]
<1>2. /\ TakesLine(c) /\ hs[c].ispost /\ hs' = [hs EXCEPT ![c].posting = TRUE, ![c].postpos = 0]
      /\ intact' = [intact EXCEPT ![c] = TRUE]
      /\ UNCHANGED <<pcb, cb, arg, live, inflight, postNum, step, places, form, posted, mishaps, scene>>
  BY DEF StartBody, BlankBeforeBody, BodyAhead
<1>3. live[c] /\ arg[c] /\ hs[c] \in State /\ Named(hs[c]) /\ ~hs[c].posting /\ lines' \in [Conns -> Nat]
      /\ hs \in [Conns -> State]
  BY <1>1, <1>2, LineFacts DEF ConnOK, ConnTypeOK, State
<1>4. hs' = [hs EXCEPT ![c] = h]
  BY <1>2, <1>3 DEF State, HttpState
<1>5. /\ h \in State /\ h.ispost = hs[c].ispost /\ h.data = hs[c].data /\ h.body = hs[c].body
      /\ h.page = hs[c].page /\ h.gotfirst = hs[c].gotfirst /\ Named(h)
  BY <1>2, <1>3 DEF State, HttpState, Named
<1>6. /\ inflight' \in [Conns -> 0 .. SndBuf] /\ UNCHANGED <<pcb, arg, live, booted>>
      /\ UNCHANGED cb
  BY <1>1, <1>2 DEF ConnOK, ConnTypeOK, places
<1> HIDE DEF h
<1>7. ConnOK'
  BY <1>1, <1>3, <1>4, <1>5, <1>6, SameCallbacks, LiveStep
<1>8. intact'[c] /\ \A d \in Conns \ {c} : intact'[d] = intact[d]
  BY <1>1, <1>2 DEF AppOK
<1>9. AppOK'
  BY <1>1, <1>2 DEF AppOK, places
<1>10. ASSUME Careful PROVE Wizard' /\ Tidy'
  <2>1. Wizard /\ Tidy
    BY <1>1, <1>10
  <2>2. Uploading(c)
    BY <1>2, <1>3, <2>1 DEF Wizard, Uploading, Uploaded, Counted
  <2>3. /\ hs'[c] = h /\ \A d \in Conns \ {c} : hs'[d] = hs[d]
    BY <1>3, <1>4
  <2>4. \A d \in Conns : (Uploading(d)' <=> Uploading(d)) /\ (Uploaded(d)' <=> Uploaded(d))
    BY <1>5, <2>3 DEF Uploading, Uploaded
  <2>5. \A d \in Conns : Uploading(d) => OnItsWay(d)'
    BY <1>2, <1>5, <1>6, <2>1, <2>3 DEF Wizard, OnItsWay
  <2>6. \A d \in Conns : Uploaded(d) => d # c
    BY <2>2 DEF Uploading, Uploaded
  <2>7. \A d \in Conns : Uploaded(d) => Counted(d)'
    BY <1>2, <2>1, <2>3, <2>6 DEF Wizard, Counted
  <2>8. Wizard'
    BY <1>2, <2>1, <2>4, <2>5, <2>7 DEF Wizard
  <2>9. h.postpos = 0
    BY <1>3 DEF State, HttpState, h
  <2>10. ASSUME InTurn PROVE InTurn'
    <3>1. /\ \A d \in Conns : Uploaded(d)' => step'[d] = postNum' /\ intact'[d]
          /\ \A d, e \in Conns : Uploaded(d)' /\ Uploaded(e)' => d = e
      BY <1>2, <1>8, <2>4, <2>6, <2>10 DEF InTurn
    <3>2. ASSUME NEW d \in Conns, Uploading(d)'
          PROVE  d = c
      BY <2>1, <2>2, <2>4, <3>2 DEF Wizard
    <3>3. QED
      BY <1>8, <2>3, <2>9, <3>1, <3>2 DEF InTurn
  <2>11. (Placed => Placed') /\ (FilesNotMixedUp => FilesNotMixedUp')
    BY <1>2, <2>4 DEF Placed, PlacedUpTo, places, FilesNotMixedUp, Careful
  <2>12. QED
    BY <1>2, <2>1, <2>8, <2>10, <2>11 DEF Tidy
<1>11. QED
  BY <1>1, <1>2, <1>7, <1>9, <1>10, Together DEF Careful

\* The caller's bytes, and the connections that are counting theirs.
LEMMA BodyFacts ==
  ASSUME ConnOK, NEW c \in Conns, NEW k \in Chunks, TakesBody(c, k)
  PROVE  /\ live[c] /\ arg[c] /\ hs[c] \in State /\ Named(hs[c]) /\ hs[c].posting
         /\ Advanced(hs[c], k) = [hs[c] EXCEPT !.postpos = hs[c].postpos + k]
         /\ Advanced(hs[c], k) \in State
         /\ hs[c].postpos \in Nat /\ hs[c].postlen \in Nat /\ k \in Nat
<1>1. live[c] /\ arg[c] /\ hs[c] \in State /\ Named(hs[c]) /\ hs[c].posting
  BY Called DEF TakesBody
<1>2. k \in Nat /\ hs[c].postpos \in Nat /\ hs[c].postlen \in Nat
  BY <1>1, Units DEF State, HttpState
<1>3. hs[c].postpos + k \in Nat
  BY <1>2
<1>4. [hs[c] EXCEPT !.postpos = hs[c].postpos + k] \in State
  BY <1>1, <1>3 DEF State, HttpState
<1>5. QED
  BY <1>1, <1>2, <1>4 DEF Advanced

LEMMA RecvBodyStep ==
  ASSUME NetBootInv, NEW c \in Conns, RecvBody(c)
  PROVE  NetBootInv'
<1>1. ConnOK /\ AppOK /\ (Careful => Wizard /\ Tidy)
  BY Halves
<1>2. PICK k \in Chunks : BodyPart(c, k)
  BY DEF RecvBody
<1> DEFINE h == Advanced(hs[c], k)
<1>3. /\ TakesBody(c, k) /\ hs' = [hs EXCEPT ![c] = h]
      /\ UNCHANGED <<pcb, cb, arg, live, inflight, lines>>
      /\ intact' = [d \in Conns |-> intact[d] /\ ~Overwrites(c, d)]
      /\ UNCHANGED <<postNum, step, places, form, posted, scene>>
  BY <1>2 DEF RecvBody, BodyPart
<1>4. /\ live[c] /\ arg[c] /\ hs[c] \in State /\ Named(hs[c]) /\ hs[c].posting
      /\ h = [hs[c] EXCEPT !.postpos = hs[c].postpos + k] /\ h \in State
      /\ hs[c].postpos \in Nat /\ hs[c].postlen \in Nat /\ k \in Nat
  BY <1>1, <1>3, BodyFacts
<1>5. /\ h.ispost = hs[c].ispost /\ h.data = hs[c].data /\ h.posting = hs[c].posting
      /\ h.body = hs[c].body /\ h.page = hs[c].page /\ h.gotfirst = hs[c].gotfirst
      /\ h.postpos = hs[c].postpos + k /\ h.postlen = hs[c].postlen /\ Named(h)
  BY <1>4 DEF State, HttpState, Named
<1>6. hs[c].postpos >= hs[c].postlen => h.postpos >= h.postlen
  BY <1>4, <1>5
<1>7. /\ inflight' \in [Conns -> 0 .. SndBuf] /\ lines' \in [Conns -> Nat]
      /\ UNCHANGED <<pcb, arg, live, booted>> /\ UNCHANGED cb
  BY <1>1, <1>3 DEF ConnOK, ConnTypeOK, places
<1> HIDE DEF h
<1>8. ConnOK'
  BY <1>1, <1>3, <1>4, <1>5, <1>7, SameCallbacks, LiveStep
<1>9. /\ intact' \in [Conns -> BOOLEAN]
      /\ \A d \in Conns : intact[d] /\ ~Overwrites(c, d) => intact'[d]
  BY <1>1, <1>3 DEF AppOK
<1>10. /\ mishaps' \subseteq {"overlap", "break"} /\ mishaps \subseteq mishaps'
       /\ (\E d \in Conns \ {c} : hs[d].data) => "overlap" \in mishaps'
  BY <1>1 DEF RecvBody, Overlaps, AppOK
<1>11. AppOK'
  BY <1>1, <1>3, <1>9, <1>10 DEF AppOK, places
<1>12. ASSUME Careful PROVE Wizard' /\ Tidy'
  <2>1. Wizard /\ Tidy
    BY <1>1, <1>12
  <2>2. /\ hs'[c] = h /\ \A d \in Conns \ {c} : hs'[d] = hs[d]
    BY <1>1, <1>3 DEF ConnOK, ConnTypeOK, State
  <2>3. \A d \in Conns : (Uploading(d)' <=> Uploading(d)) /\ (Uploaded(d)' <=> Uploaded(d))
    BY <1>5, <2>2 DEF Uploading, Uploaded
  <2>4. \A d \in Conns : Uploading(d) => OnItsWay(d)'
    BY <1>3, <1>5, <2>1, <2>2 DEF Wizard, OnItsWay
  <2>5. \A d \in Conns : Uploaded(d) => Counted(d)'
    BY <1>3, <1>5, <1>6, <2>1, <2>2 DEF Wizard, Counted
  <2>6. Wizard'
    BY <1>3, <2>1, <2>3, <2>4, <2>5 DEF Wizard
  <2>7. ASSUME InTurn, "overlap" \notin mishaps' PROVE InTurn'
    <3>1. \A d \in Conns : Uploaded(d) => d = c
      BY <1>10, <2>7 DEF Uploaded
    <3>2. ~Overwrites(c, c)
      BY DEF Overwrites
    <3>3. \A d \in Conns : Uploaded(d)' => step'[d] = postNum' /\ intact'[d]
      BY <1>3, <1>9, <2>3, <2>7, <3>1, <3>2 DEF InTurn
    <3>4. ASSUME NEW d \in Conns, Uploading(d)', hs'[d].posting
          PROVE  intact'[d] /\ (hs'[d].postpos = 0 \/ \A e \in Conns : ~Uploaded(e)')
      <4>1. CASE d = c
        <5>1. intact[c] /\ ~Uploaded(c)
          BY <1>4, <2>3, <2>7, <3>4, <4>1 DEF InTurn, Uploading, Uploaded
        <5>2. QED
          BY <1>9, <2>3, <3>1, <3>2, <4>1, <5>1
      <4>2. CASE d # c
        <5>1. hs'[d] = hs[d] /\ Uploading(d) /\ ~Uploading(c)
          BY <2>1, <2>2, <2>3, <3>4, <4>2 DEF Wizard
        <5>2. Uploaded(c)
          BY <1>4, <5>1 DEF Named, Uploading, Uploaded
        <5>3. intact[d] /\ hs[d].postpos = 0
          BY <2>7, <3>4, <5>1, <5>2 DEF InTurn
        <5>4. ~Overwrites(c, d)
          BY <1>4, <5>3 DEF Overwrites
        <5>5. QED
          BY <1>9, <5>1, <5>3, <5>4
      <4>3. QED
        BY <4>1, <4>2
    <3>5. QED
      BY <2>3, <3>1, <3>3, <3>4 DEF InTurn
  <2>8. (Placed => Placed') /\ ("overlap" \notin mishaps' /\ FilesNotMixedUp => FilesNotMixedUp')
    BY <1>3, <1>10, <2>3 DEF Placed, PlacedUpTo, places, FilesNotMixedUp, Careful
  <2>9. QED
    BY <1>10, <2>1, <2>6, <2>7, <2>8 DEF Tidy
<1>13. QED
  BY <1>1, <1>3, <1>8, <1>11, <1>12, Together DEF Careful

\* The last byte of an upload: it is counted, and waits for its connection.
LEMMA BodyDoneStep ==
  ASSUME NetBootInv, NEW c \in Conns, BodyDone(c)
  PROVE  NetBootInv'
<1>1. ConnOK /\ AppOK /\ (Careful => Wizard /\ Tidy)
  BY Halves
<1>2. PICK k \in Chunks, parsed \in BOOLEAN, marked \in BOOLEAN :
        /\ Careful => parsed /\ marked
        /\ TakesBody(c, k) /\ Completes(hs[c], k)
        /\ StartAnswer(c, [Advanced(hs[c], k) EXCEPT !.data = parsed])
        /\ postNum' = IF parsed THEN postNum + 1 ELSE postNum
        /\ step' = [step EXCEPT ![c] = postNum']
        /\ intact' = [d \in Conns |->
             intact[d] /\ ~Overwrites(c, d) /\ (d = c => marked)]
  BY DEF BodyDone
<1>3. postNum < MaxPost /\ UNCHANGED <<pcb, arg, live, lines, places, form, posted, scene>> /\ Overlaps(c)
  BY DEF BodyDone
<1>4. /\ live[c] /\ arg[c] /\ hs[c] \in State /\ Named(hs[c]) /\ hs[c].posting
      /\ Advanced(hs[c], k) = [hs[c] EXCEPT !.postpos = hs[c].postpos + k]
      /\ Advanced(hs[c], k) \in State
      /\ hs[c].postpos \in Nat /\ hs[c].postlen \in Nat /\ k \in Nat
  BY <1>1, <1>2, BodyFacts
<1> DEFINE g == [[Advanced(hs[c], k) EXCEPT !.data = parsed] EXCEPT !.gotfirst = FALSE]
<1>5. /\ SendData(c, g, inflight[c]) /\ cb' = [cb EXCEPT ![c] = cb[c] \cup {"poll", "sent"}]
  BY <1>2 DEF StartAnswer
<1>6. /\ g \in State /\ g.ispost = hs[c].ispost /\ g.data = parsed /\ g.posting
      /\ g.body = hs[c].body /\ g.page = hs[c].page
      /\ g.postpos = hs[c].postpos + k /\ g.postlen = hs[c].postlen /\ Named(g)
  BY <1>4 DEF State, HttpState, Named
<1>7. inflight[c] \in 0 .. SndBuf
  BY <1>1 DEF ConnOK, ConnTypeOK
<1> HIDE DEF g
<1>8. /\ \E n \in 0 .. PageLen : hs' = [hs EXCEPT ![c] = [g EXCEPT !.left = n]]
      /\ inflight' \in [Conns -> 0 .. SndBuf]
  BY <1>1, <1>5, <1>6, <1>7, SendFacts
<1>9. PICK n \in 0 .. PageLen : hs' = [hs EXCEPT ![c] = [g EXCEPT !.left = n]]
  BY <1>8
<1> DEFINE h == [g EXCEPT !.left = n]
<1>10. /\ h \in State /\ h.ispost = hs[c].ispost /\ h.data = parsed /\ h.posting
       /\ h.body = hs[c].body /\ h.page = hs[c].page
       /\ h.postpos = hs[c].postpos + k /\ h.postlen = hs[c].postlen /\ Named(h)
  BY <1>6 DEF State, HttpState, Named
<1>11. hs' = [hs EXCEPT ![c] = h]
  BY <1>9
<1> HIDE DEF h
<1>12. hs'[c] = h /\ \A d \in Conns \ {c} : hs'[d] = hs[d]
  BY <1>1, <1>11 DEF ConnOK, ConnTypeOK, State
<1>13. /\ cb' \in [Conns -> SUBSET {"recv", "sent", "poll", "err"}] /\ "sent" \in cb'[c]
       /\ \A d \in Conns : cb[d] \subseteq cb'[d] /\ (d # c => cb'[d] = cb[d])
       /\ lines' \in [Conns -> Nat]
  BY <1>1, <1>3, <1>5 DEF ConnOK, ConnTypeOK
<1>14. ConnOK'
  BY <1>1, <1>3, <1>4, <1>8, <1>10, <1>11, <1>13, LiveStep DEF places
<1>15. postNum \in 0 .. MaxPost /\ MaxPost \in Nat
  BY <1>1, NetBootAssumption DEF AppOK
<1>16. postNum' \in 0 .. MaxPost
  BY <1>2, <1>3, <1>15
<1>17. step' \in [Conns -> 0 .. MaxPost] /\ step'[c] = postNum'
  BY <1>1, <1>2, <1>16 DEF AppOK
<1>18. /\ intact' \in [Conns -> BOOLEAN]
       /\ intact[c] /\ ~Overwrites(c, c) /\ marked => intact'[c]
  BY <1>1, <1>2 DEF AppOK
<1>19. /\ mishaps' \subseteq {"overlap", "break"} /\ mishaps \subseteq mishaps'
       /\ (\E d \in Conns \ {c} : hs[d].data) => "overlap" \in mishaps'
  BY <1>1, <1>3 DEF Overlaps, AppOK
<1>20. AppOK'
  BY <1>1, <1>3, <1>16, <1>17, <1>18, <1>19 DEF AppOK, places
<1>21. ASSUME Careful PROVE Wizard' /\ Tidy'
  <2>1. parsed /\ marked /\ postNum' = postNum + 1 /\ Wizard /\ Tidy
    BY <1>1, <1>2, <1>21
  <2>2. hs[c].postpos < hs[c].postlen /\ hs[c].postlen <= hs[c].postpos + k
    BY <1>2 DEF Completes
  <2>3. Uploading(c)
    <3>1. hs[c].ispost /\ ~(hs[c].postpos >= hs[c].postlen)
      BY <1>4, <2>2 DEF Named
    <3>2. QED
      BY <2>1, <3>1 DEF Wizard, Uploading, Uploaded, Counted
  <2>4. /\ hs[c].body = form /\ form \in Forms /\ form \in posted
        /\ form = http_files[postNum + 1] /\ hs[c].page = http_files[postNum + 2]
    BY <2>1, <2>3 DEF Wizard, OnItsWay
  <2>5. postNum + 1 \in 1 .. 7
    BY <1>15, <1>3, NetBootAssumption
  <2>6. postNum' \in 1 .. 3 /\ postNum' + 1 = postNum + 2 /\ postNum' - 1 = postNum
    BY <1>15, <2>1, <2>4, <2>5, FormIndex
  <2>7. \A d \in Conns : ~Uploading(d)' /\ (Uploaded(d)' <=> Uploaded(d) \/ d = c)
    <3>1. \A d \in Conns \ {c} : ~Uploading(d)
      BY <2>1, <2>3 DEF Wizard
    <3>2. Uploaded(c)' /\ ~Uploading(c)'
      BY <1>10, <1>12, <2>1, <2>3 DEF Uploaded, Uploading
    <3>3. QED
      BY <1>12, <3>1, <3>2 DEF Uploaded, Uploading
  <2>8. Counted(c)'
    <3>1. hs'[c].posting /\ hs'[c].postpos >= hs'[c].postlen
      BY <1>4, <1>10, <1>12, <2>2
    <3>2. hs'[c].body = http_files[step'[c]] /\ hs'[c].page = http_files[step'[c] + 1]
      BY <1>10, <1>12, <1>17, <2>1, <2>4, <2>6
    <3>3. step'[c] \in 1 .. 3 /\ step'[c] <= postNum' /\ step'[c] = postNum'
      BY <1>17, <2>6
    <3>4. QED
      BY <1>13, <3>1, <3>2, <3>3 DEF Counted
  <2>9. ASSUME NEW d \in Conns \ {c}, Uploaded(d)
        PROVE  Counted(d)'
    <3>1. Counted(d) /\ hs'[d] = hs[d] /\ step'[d] = step[d] /\ "sent" \in cb'[d]
      BY <1>1, <1>2, <1>12, <1>13, <2>1, <2>9 DEF Wizard, Counted, AppOK
    <3>2. step[d] \in 1 .. 3 /\ step[d] <= postNum
      BY <3>1 DEF Counted
    <3>3. step[d] # postNum' /\ step[d] <= postNum'
      BY <1>15, <2>1, <3>2
    <3>4. hs[d].body # form
      BY <2>1, <2>4, <2>6, <3>1, <3>2, <3>3, FormsDiffer DEF Counted
    <3>5. QED
      BY <1>3, <3>1, <3>3, <3>4 DEF Counted
  <2>10. Wizard'
    BY <1>3, <2>4, <2>7, <2>8, <2>9 DEF Wizard
  <2>11. ASSUME "overlap" \notin mishaps' PROVE \A d \in Conns : ~Uploaded(d) /\ (Uploaded(d)' <=> d = c)
    <3>1. \A d \in Conns \ {c} : ~hs[d].data
      BY <1>19, <2>11
    <3>2. QED
      BY <2>3, <2>7, <3>1 DEF Uploaded, Uploading
  <2>12. ASSUME "overlap" \notin mishaps' PROVE InTurn'
    <3>1. intact[c] /\ ~Overwrites(c, c)
      BY <1>4, <1>19, <2>1, <2>3, <2>12 DEF Tidy, InTurn, Overwrites
    <3>2. intact'[c] /\ step'[c] = postNum'
      BY <1>17, <1>18, <2>1, <3>1
    <3>3. QED
      BY <2>7, <2>11, <2>12, <3>2 DEF InTurn
  <2>13. ASSUME mishaps' = {} PROVE Placed'
    <3>1. PlacedUpTo(postNum) /\ ~booted'
      BY <1>3, <1>19, <2>1, <2>11, <2>13 DEF Tidy, Placed, BodyDone, Serving, places
    <3>2. PlacedUpTo(postNum - 1)'
      BY <1>3, <2>6, <3>1 DEF PlacedUpTo, places
    <3>3. QED
      BY <2>11, <2>13, <3>1, <3>2 DEF Placed
  <2>14. "overlap" \notin mishaps' => FilesNotMixedUp'
    BY <1>3, <1>19, <2>1 DEF Tidy, FilesNotMixedUp, places, Careful
  <2>15. QED
    BY <2>10, <2>12, <2>13, <2>14 DEF Tidy
<1>22. QED
  BY <1>1, <1>3, <1>14, <1>20, <1>21, Together DEF Careful

\* close_conn on a connection that is not in the middle of an upload, if its
\* user is careful.
LEMMA CloseStep ==
  ASSUME NetBootInv, Serving, NEW c \in Conns, CloseConn(c), live[c]
  PROVE  NetBootInv'
<1>1. ConnOK /\ AppOK /\ (Careful => Wizard /\ Tidy)
  BY Halves
<1>2. /\ cb' = [cb EXCEPT ![c] = Unregistered(cb[c])] /\ arg' = [arg EXCEPT ![c] = FALSE]
      /\ Freed(c) /\ pcb' = [pcb EXCEPT ![c] = "closing"]
      /\ UNCHANGED <<postNum, form, posted, mishaps, scene>>
      /\ hs' = [hs EXCEPT ![c] = Clean]
      /\ step' = [step EXCEPT ![c] = 0] /\ intact' = [intact EXCEPT ![c] = FALSE]
  BY DEF CloseConn, Drop, Forget, Freed
<1>3. /\ pcb' \in [Conns -> {"none", "open", "closing"}] /\ \A d \in Conns \ {c} : pcb'[d] = pcb[d]
      /\ cb' \in [Conns -> SUBSET {"recv", "sent", "poll", "err"}]
      /\ cb'[c] \cap {"recv", "sent"} = {} /\ \A d \in Conns \ {c} : cb'[d] = cb[d]
  BY <1>1, <1>2 DEF ConnOK, ConnTypeOK, Unregistered
<1>4. ConnOK'
  BY <1>1, <1>2, <1>3, GoneStep
<1>5. \A d \in Conns \ {c} : step'[d] = step[d] /\ intact'[d] = intact[d]
  BY <1>1, <1>2 DEF AppOK
<1>6. hs[c].data => Place(c) /\ Stored(c) \in Things
  BY <1>1 DEF CloseConn, Stored, Things, ConnOK, UploadsNamed, Named
<1>7. ~hs[c].data => UNCHANGED places
  BY DEF CloseConn
<1>8. /\ kernel' \in Things /\ initrd' \in Things /\ append' \in Things /\ booted' \in BOOLEAN
  BY <1>1, <1>6, <1>7 DEF AppOK, Place, places
<1>9. 0 \in 0 .. MaxPost
  BY NetBootAssumption
<1>10. AppOK'
  BY <1>1, <1>2, <1>8, <1>9 DEF AppOK
<1>11. Careful => /\ Wizard' /\ (InTurn => InTurn')
                  /\ \A d \in Conns : Uploaded(d)' <=> Uploaded(d) /\ d # c
  BY <1>1, <1>2, <1>3, <1>5, Forgotten
<1>12. ASSUME Careful PROVE Tidy'
  <2>1. Wizard /\ Tidy
    BY <1>1, <1>12
  <2>2. ASSUME Uploaded(c), "overlap" \notin mishaps PROVE InTurn' /\ FilesNotMixedUp'
    <3>1. hs[c].data /\ intact[c] /\ hs[c].body = http_files[postNum] /\ postNum \in 1 .. 3
      BY <2>1, <2>2 DEF Wizard, Uploaded, Counted, Tidy, InTurn
    <3>2. Stored(c) = http_files[postNum] /\ Place(c)
      BY <1>6, <3>1 DEF Stored
    <3>3. FilesNotMixedUp
      BY <2>1, <2>2 DEF Tidy
    <3>4. FilesNotMixedUp'
      BY <1>2, <3>1, <3>2, <3>3, FileNames DEF FilesNotMixedUp, Careful, Place
    <3>5. QED
      BY <1>11, <1>12, <2>1, <2>2, <3>4 DEF Tidy
  <2>3. ASSUME Uploaded(c), mishaps = {} PROVE Placed'
    <3>1. hs[c].data /\ intact[c] /\ hs[c].body = http_files[postNum] /\ postNum \in 1 .. 3
      BY <2>1, <2>3 DEF Wizard, Uploaded, Counted, Tidy, InTurn
    <3>2. Stored(c) = http_files[postNum] /\ Place(c)
      BY <1>6, <3>1 DEF Stored
    <3>3. PlacedUpTo(postNum - 1)
      BY <2>1, <2>3 DEF Tidy, Placed
    <3>4. PlacedUpTo(postNum)'
      <4>1. CASE postNum = 1
        BY <1>2, <3>2, <4>1, FileNames DEF PlacedUpTo, Place
      <4>2. CASE postNum = 2
        BY <1>2, <3>2, <3>3, <4>2, FileNames DEF PlacedUpTo, Place
      <4>3. CASE postNum = 3
        BY <1>2, <3>2, <3>3, <4>3, FileNames DEF PlacedUpTo, Place
      <4>4. QED
        BY <3>1, <4>1, <4>2, <4>3
    <3>5. \A d \in Conns : ~Uploaded(d)'
      BY <1>11, <1>12, <2>1, <2>3 DEF Tidy, InTurn
    <3>6. booted' => PlacedUpTo(3)'
      BY <1>2, <3>2, <3>4 DEF Place, PlacedUpTo
    <3>7. QED
      BY <3>4, <3>5, <3>6 DEF Placed
  <2>4. ASSUME ~Uploaded(c)
        PROVE  /\ "overlap" \notin mishaps => InTurn' /\ FilesNotMixedUp'
               /\ mishaps = {} => Placed'
    <3>1. ~hs[c].data
      BY <1>1, <2>4 DEF Uploaded, ConnOK, UploadsNamed, Named
    <3>2. \A d \in Conns : Uploaded(d)' <=> Uploaded(d)
      BY <1>11, <1>12, <2>4
    <3>3. UNCHANGED <<kernel, initrd, append, booted>>
      BY <1>7, <3>1 DEF places
    <3>4. (FilesNotMixedUp => FilesNotMixedUp') /\ (Placed => Placed')
      BY <1>2, <3>2, <3>3 DEF Placed, PlacedUpTo, FilesNotMixedUp, Careful
    <3>5. QED
      BY <1>11, <1>12, <2>1, <3>4 DEF Tidy
  <2>5. QED
    BY <1>2, <2>2, <2>3, <2>4 DEF Tidy
<1>13. QED
  BY <1>1, <1>2, <1>4, <1>10, <1>11, <1>12, Together DEF Careful

LEMMA BadRequestStep ==
  ASSUME NetBootInv, NEW c \in Conns, BadRequest(c)
  PROVE  NetBootInv'
<1>1. ConnOK
  BY Halves
<1>2. Serving /\ CloseConn(c) /\ live[c]
  BY <1>1, Called DEF BadRequest
<1>3. QED
  BY <1>2, CloseStep

LEMMA PeerCloseStep ==
  ASSUME NetBootInv, NEW c \in Conns, PeerClose(c)
  PROVE  NetBootInv'
<1>1. ConnOK
  BY Halves
<1>2. Serving /\ CloseConn(c) /\ live[c]
  BY <1>1, Called DEF PeerClose
<1>3. QED
  BY <1>2, CloseStep

LEMMA SentStep ==
  ASSUME NetBootInv, NEW c \in Conns, Sent(c)
  PROVE  NetBootInv'
<1>1. ConnOK /\ (Careful => Wizard)
  BY Halves
<1>2. CASE SentMore(c) /\ UNCHANGED appVars
  BY <1>2, ResendStep
<1>3. CASE SentAll(c) /\ CloseConn(c)
  <2>1. "sent" \in cb[c] /\ live[c]
    BY <1>1, <1>3, Called DEF SentAll
  <2>2. QED
    BY <1>3, <2>1, CloseStep DEF Sent
<1>4. QED
  BY <1>2, <1>3 DEF Sent

\* conn_err: lwIP has given the connection up.
LEMMA ErrStep ==
  ASSUME NetBootInv, Serving, NEW c \in Conns, Err(c)
  PROVE  NetBootInv'
<1>1. ConnOK /\ AppOK /\ (Careful => Wizard /\ Tidy)
  BY Halves
<1>2. /\ IF arg[c] THEN Freed(c) ELSE UNCHANGED <<live, hs, inflight, lines>>
      /\ pcb' = [pcb EXCEPT ![c] = "none"]
      /\ cb' = [cb EXCEPT ![c] = {}] /\ arg' = [arg EXCEPT ![c] = FALSE]
      /\ step' = [step EXCEPT ![c] = 0] /\ intact' = [intact EXCEPT ![c] = FALSE]
      /\ UNCHANGED <<postNum, places, form, posted, scene>>
  BY DEF Err, ConnErr, Forget
<1>3. /\ pcb' \in [Conns -> {"none", "open", "closing"}] /\ \A d \in Conns \ {c} : pcb'[d] = pcb[d]
      /\ cb' \in [Conns -> SUBSET {"recv", "sent", "poll", "err"}]
      /\ cb'[c] \cap {"recv", "sent"} = {} /\ \A d \in Conns \ {c} : cb'[d] = cb[d]
  BY <1>1, <1>2 DEF ConnOK, ConnTypeOK
<1>4. hs' = [hs EXCEPT ![c] = Clean] /\ ConnOK'
  <2>1. CASE arg[c]
    BY <1>1, <1>2, <1>3, <2>1, GoneStep DEF Freed
  <2>2. CASE ~arg[c]
    <3>1. ~live[c] /\ hs[c] = Clean /\ hs \in [Conns -> State] /\ arg \in [Conns -> BOOLEAN]
      BY <1>1, <2>2 DEF ConnOK, StateFreedOnce, StateOwned, FreedIsClean, ConnTypeOK, State
    <3>2. hs' = [hs EXCEPT ![c] = Clean] /\ arg' = arg /\ UNCHANGED <<live, hs, inflight, lines>>
      BY <1>2, <2>2, <3>1
    <3>3. ConnTypeOK(Pages, Bodies)'
      BY <1>1, <1>3, <3>2 DEF ConnOK, ConnTypeOK
    <3>4. CallbacksHaveState' /\ FreedIsClean' /\ UploadsNamed'
      BY <1>1, <1>3, <3>2 DEF ConnOK, CallbacksHaveState, FreedIsClean, UploadsNamed
    <3>5. StateFreedOnce'
      BY <1>1, <1>3, <3>1, <3>2 DEF ConnOK, StateFreedOnce, StateOwned
    <3>6. QED
      BY <3>2, <3>3, <3>4, <3>5 DEF ConnOK
  <2>3. QED
    BY <2>1, <2>2
<1>5. \A d \in Conns \ {c} : step'[d] = step[d] /\ intact'[d] = intact[d]
  BY <1>1, <1>2 DEF AppOK
<1>6. 0 \in 0 .. MaxPost
  BY NetBootAssumption
<1>7. mishaps' = IF hs[c].data THEN mishaps \cup {"break"} ELSE mishaps
  BY DEF Err
<1>8. mishaps' \subseteq {"overlap", "break"} /\ ("overlap" \in mishaps' <=> "overlap" \in mishaps)
  BY <1>1, <1>7 DEF AppOK
<1>9. AppOK'
  BY <1>1, <1>2, <1>6, <1>8 DEF AppOK, places
<1>10. Careful => /\ Wizard' /\ (InTurn => InTurn')
                  /\ \A d \in Conns : Uploaded(d)' <=> Uploaded(d) /\ d # c
  BY <1>1, <1>2, <1>3, <1>4, <1>5, Forgotten
<1>11. ASSUME Careful PROVE Tidy'
  <2>1. FilesNotMixedUp => FilesNotMixedUp'
    BY <1>2, <1>8 DEF FilesNotMixedUp, Careful, places
  <2>2. ASSUME mishaps' = {} PROVE Placed'
    <3>1. ~hs[c].data /\ mishaps = {}
      BY <1>7, <2>2
    <3>2. \A d \in Conns : Uploaded(d)' <=> Uploaded(d)
      BY <1>10, <1>11, <3>1 DEF Uploaded
    <3>3. QED
      BY <1>1, <1>2, <1>11, <3>1, <3>2 DEF Tidy, Placed, PlacedUpTo, places
  <2>3. QED
    BY <1>1, <1>8, <1>10, <1>11, <2>1, <2>2 DEF Tidy
<1>12. QED
  BY <1>1, <1>2, <1>4, <1>9, <1>10, <1>11, Together DEF Careful

LEMMA PollStep ==
  ASSUME NetBootInv, NEW c \in Conns, Poll(c)
  PROVE  NetBootInv'
  BY ErrStep, ResendStep DEF Poll

LEMMA ConnectionLostStep ==
  ASSUME NetBootInv, NEW c \in Conns, ConnectionLost(c)
  PROVE  NetBootInv'
  BY ErrStep DEF ConnectionLost

LEMMA ReapedStep ==
  ASSUME NetBootInv, NEW c \in Conns, Reaped(c)
  PROVE  NetBootInv'
<1>1. ConnOK /\ AppOK /\ (Careful => Wizard /\ Tidy)
  BY Halves
<1>2. /\ Serving /\ pcb[c] = "closing" /\ pcb' = [pcb EXCEPT ![c] = "none"]
      /\ cb' = [cb EXCEPT ![c] = {}]
      /\ UNCHANGED <<arg, live, hs, inflight, lines>> /\ UNCHANGED appVars
  BY DEF Reaped, Reap
<1>3. ~live[c] /\ hs[c] = Clean /\ hs \in [Conns -> State]
  BY <1>1, <1>2 DEF ConnOK, StateFreedOnce, StateOwned, FreedIsClean, ConnTypeOK, State
<1>4. /\ cb'[c] = {} /\ pcb'[c] = "none"
      /\ \A d \in Conns \ {c} : cb'[d] = cb[d] /\ pcb'[d] = pcb[d]
  BY <1>1, <1>2 DEF ConnOK, ConnTypeOK
<1>5. ConnTypeOK(Pages, Bodies)'
  BY <1>1, <1>2 DEF ConnOK, ConnTypeOK
<1>6. CallbacksHaveState' /\ FreedIsClean' /\ StateFreedOnce' /\ UploadsNamed'
  BY <1>1, <1>2, <1>3, <1>4
     DEF ConnOK, CallbacksHaveState, FreedIsClean, StateFreedOnce, StateOwned, Serving, appVars, UploadsNamed
<1>7. AppOK'
  BY <1>1, <1>2 DEF AppOK, appVars
<1>8. UNCHANGED <<postNum, step, intact, places, form, posted, mishaps, scene>> /\ hs' = [hs EXCEPT ![c] = Clean]
  BY <1>2, <1>3 DEF appVars, places
<1>9. Wizard => Wizard' /\ (Tidy => Tidy')
  BY <1>1, <1>3, <1>4, <1>8, CleanFacts, SameUpload
<1>10. QED
  BY <1>1, <1>5, <1>6, <1>7, <1>8, <1>9, Together DEF ConnOK, Careful

LEMMA BrowseStep ==
  ASSUME NetBootInv, NEW c \in Conns, Browse(c)
  PROVE  NetBootInv'
<1>1. ConnOK /\ AppOK /\ (Careful => Wizard /\ Tidy)
  BY Halves
<1>2. /\ "sent" \in cb[c] /\ hs[c].ispost /\ hs[c].body = form
      /\ form' = hs[c].page /\ form' \in Forms \cup {"booting"}
      /\ UNCHANGED <<pcb, cb, arg, live, hs, inflight, lines>>
      /\ UNCHANGED <<postNum, step, intact, kernel, initrd, append, booted, posted, mishaps, scene>>
  BY DEF Browse, connVars, places
<1>3. ConnOK'
  BY <1>1, <1>2 DEF ConnOK, ConnTypeOK, CallbacksHaveState, FreedIsClean, StateFreedOnce,
       StateOwned, Serving, UploadsNamed
<1>4. AppOK'
  BY <1>1, <1>2 DEF AppOK
<1>5. ASSUME Careful PROVE Wizard'
  <2>1. Wizard
    BY <1>1, <1>5
  <2>2. Uploaded(c) /\ Counted(c)
    BY <1>2, <2>1 DEF Wizard, Uploading, Uploaded, OnItsWay
  <2>3. step[c] = postNum /\ postNum \in 1 .. 3 /\ form = http_files[postNum] /\ form' = http_files[postNum + 1]
    BY <1>2, <2>2 DEF Counted
  <2>4. hs[c].body \in Forms
    BY <1>1, <2>2 DEF ConnOK, UploadsNamed, Named, Uploaded
  <2>5. ASSUME NEW n \in 1 .. 3, http_files[n] = http_files[postNum + 1], http_files[n] \in Forms
        PROVE  n = postNum + 1
    <3>1. postNum + 1 \in 1 .. 7
      BY <2>3
    <3>2. postNum + 1 \in 1 .. 3
      BY <2>5, <3>1, FormIndex
    <3>3. QED
      BY <2>5, <3>2, FormsDiffer
  <2>6. \A d \in Conns : ~Uploading(d)
    <3>1. SUFFICES ASSUME NEW d \in Conns, Uploading(d) PROVE FALSE
      OBVIOUS
    <3>2. form = http_files[postNum + 1] /\ form \in Forms
      BY <2>1, <3>1 DEF Wizard, OnItsWay
    <3>3. postNum = postNum + 1
      BY <2>3, <2>5, <3>2
    <3>4. QED
      BY <2>3, <3>3
  <2>7. \A d \in Conns : (Uploading(d)' <=> Uploading(d)) /\ (Uploaded(d)' <=> Uploaded(d))
    BY <1>2 DEF Uploading, Uploaded
  <2>8. ASSUME NEW d \in Conns, Uploaded(d)
        PROVE  Counted(d)'
    <3>1. Counted(d) /\ hs[d].body \in Forms
      BY <1>1, <2>1, <2>8 DEF Wizard, ConnOK, UploadsNamed, Named, Uploaded
    <3>2. step[d] \in 1 .. 3 /\ step[d] <= postNum /\ hs[d].body = http_files[step[d]]
      BY <3>1 DEF Counted
    <3>3. hs[d].body # form'
      BY <2>3, <2>5, <3>1, <3>2
    <3>4. QED
      BY <1>2, <3>1, <3>3 DEF Counted
  <2>9. QED
    BY <1>2, <2>3, <2>6, <2>7, <2>8 DEF Wizard
<1>6. Tidy => Tidy'
  BY <1>2 DEF Tidy, InTurn, FilesNotMixedUp, Careful, Placed, PlacedUpTo, Uploading, Uploaded
<1>7. QED
  BY <1>1, <1>2, <1>3, <1>4, <1>5, <1>6, Together DEF Careful

-----------------------------------------------------------------------------
(* The invariant *)

LEMMA InitInv == Init => NetBootInv
<1> SUFFICES ASSUME Init PROVE NetBootInv
  OBVIOUS
<1>1. 0 \in 0 .. SndBuf /\ 0 \in 0 .. MaxPost
  BY ConnAssumption, NetBootAssumption
<1>2. /\ hs \in [Conns -> State] /\ \A c \in Conns : hs[c] = Clean
      /\ \A c \in Conns : cb[c] = {} /\ ~arg[c] /\ ~live[c]
  BY CleanFacts DEF Init, ConnInit
<1>3. ConnTypeOK(Pages, Bodies)
  BY <1>1, <1>2 DEF Init, ConnInit, ConnTypeOK, State
<1>4. ConnOK
  BY <1>2, <1>3, CleanFacts
     DEF ConnOK, CallbacksHaveState, FreedIsClean, StateFreedOnce, StateOwned, UploadsNamed
<1>5. AppOK
  BY <1>1 DEF Init, AppOK, Forms, Things
<1>6. Wizard /\ Tidy
  <2>1. \A c \in Conns : ~hs[c].ispost /\ ~hs[c].data /\ ~hs[c].posting
    BY <1>2, CleanFacts
  <2>2. /\ form = http_files[postNum + 1] /\ postNum = 0 /\ ~booted
        /\ kernel = "nothing" /\ initrd = "nothing" /\ append = "nothing"
    BY FileNames DEF Init
  <2>3. QED
    BY <2>1, <2>2 DEF Wizard, Tidy, InTurn, FilesNotMixedUp, Placed, PlacedUpTo, Uploading, Uploaded
<1>7. QED
  BY <1>4, <1>5, <1>6, Halves

LEMMA NextInv == NetBootInv /\ [Next]_vars => NetBootInv'
<1> SUFFICES ASSUME NetBootInv, [Next]_vars PROVE NetBootInv'
  OBVIOUS
<1>1. CASE Next
  BY <1>1, AcceptStep, GetLineStep, PostLineStep, BadRequestStep, HeaderStep, StartBodyStep,
     GetDoneStep, RecvBodyStep, BodyDoneStep, PeerCloseStep, SentStep, PollStep,
     ConnectionLostStep, ReapedStep, BrowseStep
     DEF Next
<1>2. CASE UNCHANGED vars
  BY <1>2 DEF vars, connVars, appVars, NetBootInv, TypeOK, ConnTypeOK, CallbacksHaveState,
       FreedIsClean, StateFreedOnce, StateOwned, Serving, UploadsNamed, Careful, Wizard,
       Uploading, Uploaded, OnItsWay, Counted, InTurn, FilesNotMixedUp, Placed, PlacedUpTo
<1>3. QED
  BY <1>1, <1>2

LEMMA Invariance == Spec => []NetBootInv
  BY InitInv, NextInv, PTL DEF Spec

\* The variables keep their types, whatever is uploaded and whenever.
THEOREM NetBootTypes == Spec => []TypeOK
<1>1. NetBootInv => TypeOK
  BY DEF NetBootInv
<1>2. QED
  BY <1>1, Invariance, PTL

\* conn_err, close_conn: every http_state that is allocated is still what lwIP
\* passes to conn_err, so that it can be freed, and only once.
THEOREM StatesCanBeFreed == Spec => []StateFreedOnce
<1>1. NetBootInv => StateFreedOnce
  BY DEF NetBootInv
<1>2. QED
  BY <1>1, Invariance, PTL

\* handle_line: the page prepared before an upload, from a count that is still
\* one short, is the form that follows it when the upload has been counted.
THEOREM AnswerIsNextForm == Spec => []NextStepPage
<1>1. NetBootInv => NextStepPage
  <2>1. SUFFICES ASSUME NetBootInv, NEW c \in Conns, Careful, live[c], hs[c].data
                 PROVE  hs[c].page = http_files[step[c] + 1]
    BY DEF NextStepPage
  <2>2. Wizard
    BY <2>1 DEF NetBootInv
  <2>3. Uploaded(c)
    BY <2>1 DEF NetBootInv, UploadsNamed, Named, Uploaded
  <2>4. QED
    BY <2>2, <2>3 DEF Wizard, Counted
<1>2. QED
  BY <1>1, Invariance, PTL

\* close_conn: unless two uploads overlap, no file is put where another belongs,
\* whatever connections are lost.
THEOREM NothingMisplaced == Spec => []FilesNotMixedUp
<1>1. NetBootInv => FilesNotMixedUp
  BY DEF NetBootInv, FilesNotMixedUp
<1>2. QED
  BY <1>1, Invariance, PTL

\* close_conn: what is booted is the kernel, the initrd and the command line that
\* the user chose, however his requests and the closes of his connections are
\* interleaved, unless an upload that waited was overlapped or lost.
THEOREM BootsTheUploads == Spec => []BootsUndisturbedUploads
<1>1. NetBootInv => BootsUndisturbedUploads
  BY DEF NetBootInv, BootsUndisturbedUploads, BootsSelectedFiles, Placed, PlacedUpTo
<1>2. QED
  BY <1>1, Invariance, PTL
=============================================================================
