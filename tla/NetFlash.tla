------------------------------ MODULE NetFlash ------------------------------
(***************************************************************************)
(* The BIOS upload server (networktools/netflash/netflash.c): a browser    *)
(* posts an image, gets a page that tells what was decided, and when the   *)
(* connection is closed the image is handed to BootReflashAndReset, which  *)
(* never comes back to the network.  What that call does is the promise of *)
(* FlashUpdate, which BootFlash implements.                                *)
(***************************************************************************)
EXTENDS HttpConn

CONSTANT
  MaxBuffers  \* bound: upload buffers allocated at a time, lost ones included

VARIABLES
  sys,      \* "serving", or the connection whose image close_conn flashes
  upload,   \* ghost: the state of that connection
  heap,     \* postdata buffers allocated
  lost,     \* ghost: those no connection points to
  told,     \* ghost: the page of which a connection was sent something first,
            \* since its last request line ("none": nothing was sent)
  reused,   \* ghost: did that line come while an earlier request was answered?
  flash, content  \* BootReflashAndReset and the flash, see FlashUpdate

ghosts  == <<told, reused>>
appVars == <<sys, upload, heap, lost, flash, content>>
vars    == <<connVars, ghosts, appVars>>

Pages  == {"none", "main", "ok", "fail", "404", "500"}
Bodies == {"none", "plain", "unmarked", "badsize", "image"}

Flash == INSTANCE FlashUpdate WITH state <- flash, content <- content

ASSUME NetFlashAssumption == MaxBuffers \in Nat

ServerTypeOK ==
  /\ ConnTypeOK(Pages, Bodies)
  /\ sys \in {"serving", "flashing"}
  /\ upload \in HttpState(Pages, Bodies)
  /\ heap \in 0 .. MaxBuffers
  /\ lost \in 0 .. MaxBuffers
  /\ flash \in {"idle", "refused", "writing", "rebooted", "halted"}
  /\ content \in {"old", "mixed", "new"}

GhostTypeOK == told \in [Conns -> Pages] /\ reused \in [Conns -> BOOLEAN]

TypeOK == ServerTypeOK /\ GhostTypeOK

Init ==
  /\ ConnInit
  /\ sys = "serving" /\ upload = Clean
  /\ heap = 0 /\ lost = 0
  /\ told = [c \in Conns |-> "none"] /\ reused = [c \in Conns |-> FALSE]
  /\ Flash!Init

-----------------------------------------------------------------------------
\* Callbacks run while the network is polled, and not once flashing began.
Serving == sys = "serving"

Accept(c) == Serving /\ AcceptConn(c) /\ UNCHANGED <<ghosts, appVars>>

\* The ghosts of a connection at a request line, or when it is gone.
NewRequest(c, again) ==
  told' = [told EXCEPT ![c] = "none"] /\ reused' = [reused EXCEPT ![c] = again]

\* What was left of the page is less now: tcp_write took some of it.
Tells(c, left) ==
  /\ told' = [told EXCEPT ![c] =
               IF @ = "none" /\ hs'[c].left < left THEN hs'[c].page ELSE @]
  /\ UNCHANGED reused

\* close_conn.
\* Plausible bug: the buffer is freed whether or not there is one.
BugFreesBuffer(h) == 1

FreesBuffer(h) == IF h.posting THEN 1 ELSE 0

CloseConn(c) ==
  IF hs[c].data
  THEN /\ sys' = "flashing" /\ upload' = hs[c]
       /\ cb' = [cb EXCEPT ![c] = Unregistered(@)]
       /\ arg' = [arg EXCEPT ![c] = FALSE]
       /\ UNCHANGED <<pcb, live, hs, inflight, lines, ghosts, heap, lost, flash, content>>
  ELSE /\ Drop(c) /\ NewRequest(c, FALSE)
       /\ heap' = heap - FreesBuffer(hs[c])
       /\ UNCHANGED <<sys, upload, lost, flash, content>>

\* handle_line on a request line: GET with the number of a page (the upload
\* answer is number 2), POST, or anything else, which closes the connection.
RequestLine(c) ==
  /\ Serving /\ TakesLine(c) /\ ~hs[c].gotfirst
  /\ \/ \E p \in {"main", "ok", "404"} :
          hs' = [hs EXCEPT ![c] = [Answer(@, p) EXCEPT !.gotfirst = TRUE]]
     \/ hs' = [hs EXCEPT ![c] =
                 [Answer(@, "500") EXCEPT !.gotfirst = TRUE, !.ispost = TRUE]]
  /\ NewRequest(c, "sent" \in cb[c])
  /\ UNCHANGED <<pcb, cb, arg, live, inflight, appVars>>

BadRequest(c) ==
  /\ Serving /\ "recv" \in cb[c] /\ ~hs[c].posting /\ ~hs[c].gotfirst
  /\ CloseConn(c)

Header(c) == Serving /\ HeaderLine(c) /\ UNCHANGED <<ghosts, appVars>>

\* malloc(postlen).
StartBody(c) ==
  /\ Serving /\ BlankBeforeBody(c)
  /\ heap < MaxBuffers
  /\ heap' = heap + 1
  /\ UNCHANGED <<sys, upload, lost, ghosts, flash, content>>

GetDone(c) ==
  Serving /\ BlankEndsRequest(c) /\ Tells(c, hs[c].left) /\ UNCHANGED appVars

RecvBody(c) ==
  /\ Serving
  /\ \E k \in Chunks : BodyPart(c, k)
  /\ UNCHANGED <<ghosts, appVars>>

\* What start and end, used uninitialised, can look like to handle_post: no
\* pointer, an illegal length, a legal one.
Uninitialised == {"null", "badlen", "legal"}

\* handle_post: what it decides for a body without a line end ("plain"), one
\* without the separating empty line or the closing boundary ("unmarked": start
\* or end is used uninitialised), and files of a wrong and of a legal size.
Accepted(h) == [Answer(h, "ok") EXCEPT !.data = TRUE]

Decision(h, u) ==
  IF h.body = "plain" \/ (h.body = "unmarked" /\ u = "null")         THEN Answer(h, "500")
  ELSE IF h.body = "badsize" \/ (h.body = "unmarked" /\ u = "badlen") THEN Answer(h, "fail")
  ELSE Accepted(h)

\* The last byte of the body has come.
BodyDone(c) ==
  /\ Serving
  /\ \E k \in Chunks, b \in Bodies \ {"none"}, u \in Uninitialised :
       /\ TakesBody(c, k) /\ Completes(hs[c], k)
       /\ StartAnswer(c, Decision([Advanced(hs[c], k) EXCEPT !.body = b], u))
  /\ Tells(c, PageLen)
  /\ UNCHANGED <<pcb, arg, live, lines, appVars>>

PeerClose(c) == Serving /\ "recv" \in cb[c] /\ CloseConn(c)

Sent(c) ==
  /\ Serving
  /\ \/ SentMore(c) /\ Tells(c, hs[c].left) /\ UNCHANGED appVars
     \/ SentAll(c) /\ CloseConn(c)

\* conn_err does not free postdata.
Err(c) ==
  /\ pcb[c] # "none"
  /\ ConnErr(c) /\ NewRequest(c, FALSE)
  /\ lost' = lost + FreesBuffer(hs[c])
  /\ UNCHANGED <<sys, upload, heap, flash, content>>

Poll(c) ==
  /\ Serving
  /\ \/ PollRetry(c) /\ Tells(c, hs[c].left) /\ UNCHANGED appVars
     \/ PollAborts(c) /\ Err(c)

ConnectionLost(c) == Serving /\ Err(c)

Reaped(c) == Serving /\ Reap(c) /\ UNCHANGED <<ghosts, appVars>>

\* BootReflashAndReset; when it refuses the image the loader hangs.
Reflash == sys = "flashing" /\ Flash!Next /\ UNCHANGED <<connVars, ghosts, sys, upload, heap, lost>>

Next ==
  \/ \E c \in Conns :
       \/ Accept(c) \/ RequestLine(c) \/ BadRequest(c) \/ Header(c) \/ StartBody(c)
       \/ GetDone(c) \/ RecvBody(c) \/ BodyDone(c) \/ PeerClose(c) \/ Sent(c)
       \/ Poll(c) \/ ConnectionLost(c) \/ Reaped(c)
  \/ Reflash

Spec == Init /\ [][Next]_vars

-----------------------------------------------------------------------------
(* Properties *)

\* close_conn, handle_post, http_recv: whatever other connections, errors and
\* timeouts do, only an upload that came in completely and was not found to be
\* of an illegal size is flashed, and the flash is untouched otherwise.  ("un-
\* marked" is there for the build in which the uninitialised pointers happen
\* to lie a legal size apart.)
FlashesWholeImage ==
  content = "mixed" \/ flash # "idle"
    => upload.body \in {"image", "unmarked"} /\ upload.postpos >= upload.postlen

\* The page prepared for a complete upload agrees with what was recorded.
PageFitsDecision ==
  \A c \in Conns :
    live[c] /\ hs[c].posting /\ hs[c].postpos >= hs[c].postlen
      => /\ hs[c].data <=> hs[c].page = "ok"
         /\ hs[c].data => hs[c].body \in {"image", "unmarked"}
         /\ hs[c].body = "image" => hs[c].data

\* handle_line, handle_post, send_data: the page prepared for an upload is "ok"
\* when and only when closing the connection flashes the image, no later request
\* on the connection replaces either, and nothing of another page goes out in
\* answer to the upload, before the decision or after it; the last only when the
\* connection was not still being answered when the upload was announced.
AnswerMatchesDecision ==
  /\ PageFitsDecision
  /\ \A c \in Conns :
       live[c] /\ hs[c].posting /\ ~reused[c]
         => IF hs[c].postpos >= hs[c].postlen
            THEN told[c] \in {"none", hs[c].page} ELSE told[c] = "none"

\* close_conn, conn_err: every upload buffer belongs to a connection or was
\* lost when a connection broke; close_conn returns each one once.
BuffersAccounted ==
  heap = lost + Cardinality({c \in Conns : live[c] /\ hs[c].posting})

-----------------------------------------------------------------------------
(* The inductive invariant *)

\* Nothing is flashed before close_conn has found an upload.
FlashOrder ==
  /\ Serving => StateOwned /\ flash = "idle" /\ content # "mixed"
  /\ ~Serving => upload.body \in {"image", "unmarked"} /\ upload.postpos >= upload.postlen

\* An upload that is recorded is complete, and was when handle_post looked at it.
RecordedIsWhole ==
  \A c \in Conns : hs[c].data =>
    /\ hs[c].posting /\ hs[c].postpos >= hs[c].postlen
    /\ hs[c].body \in {"image", "unmarked"}

\* Until a request is answered nothing is sent, unless the connection was being
\* answered before: http_poll and http_sent are registered with the answer.
NothingToldEarly ==
  \A c \in Conns :
    /\ arg[c] /\ "poll" \in cb[c] => "sent" \in cb[c]
    /\ hs[c].posting /\ hs[c].postpos < hs[c].postlen => hs[c].gotfirst
    /\ ~reused[c] => told[c] \in {"none", hs[c].page}
    /\ ~reused[c] /\ hs[c].gotfirst => told[c] = "none" /\ "sent" \notin cb[c]

UploadInv ==
  /\ ServerTypeOK
  /\ CallbacksHaveState /\ FreedIsClean /\ FlashOrder /\ RecordedIsWhole
  /\ PageFitsDecision /\ BuffersAccounted

NetFlashInv == UploadInv /\ GhostTypeOK /\ NothingToldEarly
=============================================================================
