------------------------------ MODULE NetBoot ------------------------------
(***************************************************************************)
(* The network boot wizard (networktools/netboot/netboot.c): the browser   *)
(* posts a kernel, an initrd and an append line, one form after the other; *)
(* the server counts the uploads in postNum and takes each for what its    *)
(* number says.  An upload is parsed when its last byte comes and put in   *)
(* its place only when its connection is closed; until then it lies in one *)
(* buffer that all connections write to.                                   *)
(*                                                                         *)
(* The user is part of the model: the form he has is the last page he got, *)
(* and he may submit it as soon as he has it, whatever the server is at.   *)
(***************************************************************************)
EXTENDS HttpConn

CONSTANTS
  Scenes,   \* circumstances to look at, see scene
  MaxPost   \* bound: uploads counted in postNum

VARIABLES
  postNum,
  step,      \* ghost: postNum as the connection's own upload left it
  intact,    \* ghost: has nobody overwritten the connection's bytes?
  kernel, initrd, append,  \* what lies in the places the kernel is started from
  booted,
  form,      \* the form on the user's screen
  posted,    \* ghost: forms submitted
  mishaps,   \* ghost: what came between the count of an upload and its place,
             \* "overlap": bytes of another one; "break": its connection was lost
  scene      \* "careful": the user submits each form once, with a browser that
             \* sends proper requests, each on a connection of its own; "rough":
             \* any requests at all, on one connection at a time (a bound)

appVars == <<postNum, step, intact, kernel, initrd, append, booted, form, posted, mishaps, scene>>
places  == <<kernel, initrd, append, booted>>
vars    == <<connVars, appVars>>

Forms  == {"kernel", "initrd", "append"}
Things == Forms \cup {"nothing", "garbage"}

\* http_files, from its second entry on.
http_files == <<"kernel", "initrd", "append", "booting", "png", "404", "500">>

Pages  == {"none", "main"} \cup {http_files[i] : i \in 1 .. 7}
Bodies == Forms \cup {"none"}

ASSUME NetBootAssumption ==
  Scenes \subseteq {"careful", "rough"} /\ MaxPost \in 1 .. 5

TypeOK ==
  /\ ConnTypeOK(Pages, Bodies)
  /\ postNum \in 0 .. MaxPost
  /\ step \in [Conns -> 0 .. MaxPost] /\ intact \in [Conns -> BOOLEAN]
  /\ kernel \in Things /\ initrd \in Things /\ append \in Things
  /\ booted \in BOOLEAN
  /\ form \in Forms \cup {"booting"} /\ posted \subseteq Forms
  /\ mishaps \subseteq {"overlap", "break"}
  /\ scene \in Scenes

Init ==
  /\ ConnInit
  /\ postNum = 0
  /\ step = [c \in Conns |-> 0] /\ intact = [c \in Conns |-> FALSE]
  /\ kernel = "nothing" /\ initrd = "nothing" /\ append = "nothing"
  /\ booted = FALSE
  /\ form = "kernel" /\ posted = {} /\ mishaps = {}
  /\ scene \in Scenes

Careful == scene = "careful"

-----------------------------------------------------------------------------
\* ExittoLinuxFromNet does not return.
Serving == ~booted

Accept(c) ==
  /\ Serving /\ AcceptConn(c)
  /\ Careful \/ \A d \in Conns : pcb[d] = "none"
  /\ UNCHANGED appVars

\* The ghosts of a connection that is gone.
Forget(c) == step' = [step EXCEPT ![c] = 0] /\ intact' = [intact EXCEPT ![c] = FALSE]

\* close_conn: the upload goes where the count of uploads says by now.
Stored(c) == IF intact[c] THEN hs[c].body ELSE "garbage"

\* Plausible bug: postNum tested as if it had not been counted up yet.
BugPlace(c) ==
  /\ kernel' = IF postNum = 0 THEN Stored(c) ELSE kernel
  /\ initrd' = IF postNum = 1 THEN Stored(c) ELSE initrd
  /\ append' = IF postNum = 2 THEN Stored(c) ELSE append
  /\ booted' = (postNum = 2)

Place(c) ==
  /\ kernel' = IF postNum = 1 THEN Stored(c) ELSE kernel
  /\ initrd' = IF postNum = 2 THEN Stored(c) ELSE initrd
  /\ append' = IF postNum = 3 THEN Stored(c) ELSE append
  /\ booted' = (postNum = 3)

\* Plausible bug: the upload is counted when it is placed as well.
BugCloseConn(c) ==
  /\ Drop(c)
  /\ IF hs[c].data THEN Place(c) ELSE UNCHANGED places
  /\ postNum' = IF hs[c].data /\ postNum < MaxPost THEN postNum + 1 ELSE postNum
  /\ Forget(c)
  /\ UNCHANGED <<form, posted, mishaps, scene>>

CloseConn(c) ==
  /\ Drop(c)
  /\ IF hs[c].data THEN Place(c) ELSE UNCHANGED places
  /\ Forget(c)
  /\ UNCHANGED <<postNum, form, posted, mishaps, scene>>

\* handle_line on a request line.  The page of a POST is the next step's.
Submits(c) ==
  /\ form \in Forms
  /\ Careful => /\ form \notin posted
                /\ "sent" \notin cb[c]       \* a connection for each request

\* Plausible bug: the page of the step itself.
BugPostPage == http_files[postNum + 1]

PostPage == http_files[postNum + 2]

\* What a GET is answered with does not matter here and counts as one page, "main".
GetLine(c) ==
  /\ Serving /\ TakesLine(c) /\ ~hs[c].gotfirst
  /\ Careful => "sent" \notin cb[c]
  /\ hs' = [hs EXCEPT ![c] = [Answer(@, "main") EXCEPT !.gotfirst = TRUE]]
  /\ UNCHANGED <<pcb, cb, arg, live, inflight, appVars>>

PostLine(c) ==
  /\ Serving /\ TakesLine(c) /\ ~hs[c].gotfirst
  /\ Submits(c)
  /\ hs' = [hs EXCEPT ![c] = [Answer(@, PostPage) EXCEPT
              !.gotfirst = TRUE, !.ispost = TRUE, !.body = form]]
  /\ posted' = posted \cup {form}
  /\ UNCHANGED <<pcb, cb, arg, live, inflight, postNum, step, intact, places, form, mishaps, scene>>

BadRequest(c) ==
  /\ Serving /\ ~Careful
  /\ "recv" \in cb[c] /\ ~hs[c].posting /\ ~hs[c].gotfirst
  /\ CloseConn(c)

Header(c) == Serving /\ HeaderLine(c) /\ UNCHANGED appVars

\* The empty line: postdata is the buffer, the same for every connection.
StartBody(c) ==
  /\ Serving /\ BlankBeforeBody(c)
  /\ intact' = [intact EXCEPT ![c] = TRUE]
  /\ UNCHANGED <<postNum, step, places, form, posted, mishaps, scene>>

GetDone(c) ==
  /\ Serving /\ BlankEndsRequest(c)
  /\ Careful => ~hs[c].ispost
  /\ UNCHANGED appVars

\* A byte of body goes to postdata[postpos]: other uploads that had written
\* there are damaged.
Overwrites(c, d) == d # c /\ hs[d].posting /\ hs[d].postpos > hs[c].postpos

Overlaps(c) ==
  mishaps' = IF \E d \in Conns \ {c} : hs[d].data THEN mishaps \cup {"overlap"} ELSE mishaps

RecvBody(c) ==
  /\ Serving
  /\ \E k \in Chunks : BodyPart(c, k)
  /\ intact' = [d \in Conns |-> intact[d] /\ ~Overwrites(c, d)]
  /\ Overlaps(c)
  /\ UNCHANGED <<postNum, step, places, form, posted, scene>>

\* handle_post.  A body without its marks is refused, or, start or end being
\* uninitialised, taken for something it is not; the page stays.
BodyDone(c) ==
  /\ Serving /\ postNum < MaxPost
  /\ \E k \in Chunks, parsed, marked \in IF Careful THEN {TRUE} ELSE BOOLEAN :
       /\ TakesBody(c, k) /\ Completes(hs[c], k)
       /\ StartAnswer(c, [Advanced(hs[c], k) EXCEPT !.data = parsed])
       /\ postNum' = IF parsed THEN postNum + 1 ELSE postNum
       /\ step' = [step EXCEPT ![c] = postNum']
       /\ intact' = [d \in Conns |->
            intact[d] /\ ~Overwrites(c, d) /\ (d = c => marked)]
       /\ Overlaps(c)
  /\ UNCHANGED <<pcb, arg, live, lines, places, form, posted, scene>>

PeerClose(c) ==
  /\ Serving /\ "recv" \in cb[c]
  /\ CloseConn(c)

Sent(c) ==
  /\ Serving
  /\ \/ SentMore(c) /\ UNCHANGED appVars
     \/ SentAll(c) /\ CloseConn(c)

\* conn_err; http_state is all that knew of the upload.
Err(c) ==
  /\ pcb[c] # "none" /\ ConnErr(c)
  /\ Forget(c)
  /\ mishaps' = IF hs[c].data THEN mishaps \cup {"break"} ELSE mishaps
  /\ UNCHANGED <<postNum, places, form, posted, scene>>

Poll(c) ==
  /\ Serving
  /\ \/ PollRetry(c) /\ UNCHANGED appVars
     \/ PollAborts(c) /\ Err(c)

ConnectionLost(c) == Serving /\ Err(c)

Reaped(c) == Serving /\ Reap(c) /\ UNCHANGED appVars

\* External: the browser has the whole page that answers the form on the screen,
\* acknowledged or not yet, and shows it.
Browse(c) ==
  /\ live[c] /\ "sent" \in cb[c] /\ hs[c].ispost /\ hs[c].left = 0
  /\ hs[c].body = form
  /\ hs[c].page \in Forms \cup {"booting"}
  /\ form' = hs[c].page
  /\ UNCHANGED <<connVars, postNum, step, intact, places, posted, mishaps, scene>>

Next ==
  \E c \in Conns :
    \/ Accept(c) \/ GetLine(c) \/ PostLine(c) \/ BadRequest(c) \/ Header(c)
    \/ StartBody(c) \/ GetDone(c) \/ RecvBody(c) \/ BodyDone(c) \/ PeerClose(c)
    \/ Sent(c) \/ Poll(c) \/ ConnectionLost(c) \/ Reaped(c) \/ Browse(c)

\* run_lwip calls tcp_tmr for ever, which polls every connection.
Fairness == \A c \in Conns : WF_vars(Poll(c))

Spec == Init /\ [][Next]_vars /\ Fairness

-----------------------------------------------------------------------------
(* Properties *)

\* close_conn, booting.html ("Your selected files are being booted..."): when
\* the kernel is started, kernel, initrd and command line are the user's.
BootsSelectedFiles ==
  Careful /\ booted => kernel = "kernel" /\ initrd = "initrd" /\ append = "append"

\* handle_post, close_conn: so they are unless, between the last byte of an
\* upload and the close of its connection, bytes of the next one came in or the
\* connection was lost.  Anything else may happen there: the user gets his page
\* and posts the next form up to its body, other connections come, go and break.
BootsUndisturbedUploads == mishaps = {} => BootsSelectedFiles

\* close_conn: a connection that is lost may lose its upload, but the count has
\* it right for the others: as long as uploads do not overlap, no file is ever
\* put where another belongs, and none is put there damaged.
FilesNotMixedUp ==
  Careful /\ "overlap" \notin mishaps =>
    /\ kernel \in {"nothing", "kernel"}
    /\ initrd \in {"nothing", "initrd"}
    /\ append \in {"nothing", "append"}

\* handle_line, "Send the client back the next step (which happens to be
\* postNum+2)": the page that answers an upload is the form after it.
NextStepPage ==
  \A c \in Conns :
    Careful /\ live[c] /\ hs[c].data => hs[c].page = http_files[step[c] + 1]

\* conn_err, close_conn: as long as the server runs, a state that is allocated
\* can still be freed, by whichever of the two comes first.
StateFreedOnce == Serving => StateOwned

\* http_poll, http_sent: a connection that is being answered does not stay for
\* ever: it is closed, aborted, or its upload is booted, even when the peer
\* never acknowledges anything.
AnsweredEnds ==
  \A c \in Conns : (live[c] /\ "poll" \in cb[c]) ~> (~live[c] \/ ~Serving)

-----------------------------------------------------------------------------
(* The inductive invariant *)

\* Only the body of a request that posts a form is taken in.
Named(h) ==
  /\ h.ispost => h.body \in Forms
  /\ h.posting \/ h.data => h.ispost

UploadsNamed == \A c \in Conns : Named(hs[c])

Uploading(c) == hs[c].ispost /\ ~hs[c].data
Uploaded(c)  == hs[c].ispost /\ hs[c].data

\* An upload on its way is the one whose form is on the screen and whose turn it
\* is; one that was counted may still wait for its connection to close.
OnItsWay(c) ==
  /\ hs[c].gotfirst /\ "sent" \notin cb[c]
  /\ hs[c].body = form /\ form \in Forms /\ form \in posted
  /\ form = http_files[postNum + 1] /\ hs[c].page = http_files[postNum + 2]

Counted(c) ==
  /\ hs[c].posting /\ hs[c].postpos >= hs[c].postlen /\ "sent" \in cb[c]
  /\ step[c] \in 1 .. 3 /\ step[c] <= postNum
  /\ hs[c].body = http_files[step[c]] /\ hs[c].page = http_files[step[c] + 1]
  /\ hs[c].body = form => step[c] = postNum

\* A user who is careful has one upload on its way.
Wizard ==
  /\ \A c, d \in Conns : Uploading(c) /\ Uploading(d) => c = d
  /\ \A c \in Conns : Uploading(c) => OnItsWay(c)
  /\ \A c \in Conns : Uploaded(c) => Counted(c)
  /\ form \in Forms \ posted =>
       form = http_files[postNum + 1] /\ \A c \in Conns : ~Uploading(c)

\* Without an overlap the last upload counted is the only one that may still
\* wait, and it is whole.
InTurn ==
  /\ \A c \in Conns : Uploaded(c) => step[c] = postNum /\ intact[c]
  /\ \A c, d \in Conns : Uploaded(c) /\ Uploaded(d) => c = d
  /\ \A c \in Conns : Uploading(c) /\ hs[c].posting =>
       intact[c] /\ (hs[c].postpos = 0 \/ \A d \in Conns : ~Uploaded(d))

\* When no upload was lost either, every one that was counted is in its place,
\* but for the last one as long as its connection is open.
PlacedUpTo(n) ==
  /\ n >= 1 => kernel = "kernel"
  /\ n >= 2 => initrd = "initrd"
  /\ n >= 3 => append = "append"

Placed ==
  /\ (\A c \in Conns : ~Uploaded(c)) => PlacedUpTo(postNum)
  /\ (\E c \in Conns : Uploaded(c)) => PlacedUpTo(postNum - 1)
  /\ booted => PlacedUpTo(3)

NetBootInv ==
  /\ TypeOK
  /\ CallbacksHaveState /\ FreedIsClean /\ StateFreedOnce /\ UploadsNamed
  /\ Careful => Wizard
  /\ Careful /\ "overlap" \notin mishaps => InTurn /\ FilesNotMixedUp
  /\ Careful /\ mishaps = {} => Placed
=============================================================================
