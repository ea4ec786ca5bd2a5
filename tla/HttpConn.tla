------------------------------ MODULE HttpConn ------------------------------
(***************************************************************************)
(* One connection of the loader's two HTTP servers, which share this code: *)
(* networktools/netflash/netflash.c and networktools/netboot/netboot.c.    *)
(* This module has the state of a connection (struct http_state and the    *)
(* callbacks registered with lwIP) and what the handlers do to it; the     *)
(* servers add what they do with an upload.                                *)
(*                                                                         *)
(* lwIP is external: it calls the registered callbacks, acknowledges data  *)
(* in any portions, and may drop a connection at any time.  A request is a *)
(* sequence of lines and then of body bytes; a line is what handle_line    *)
(* tells apart, and lengths are in small units.                            *)
(***************************************************************************)
EXTENDS Integers, FiniteSetsExt

CONSTANTS
  Conns,     \* connections lwIP has room for: MEMP_NUM_TCP_PCB
  PageLen,   \* units of every page
  SndBuf,    \* TCP_SND_BUF
  Lengths,   \* values of Content-Length
  Chunks,    \* bytes of body that one segment may bring
  MaxLines,  \* bound: header lines of the connections that are open
  MaxOver    \* bound: bytes a client sends beyond Content-Length

PollLimit == 4     \* retries at which http_poll aborts

ASSUME ConnAssumption ==
  /\ IsFiniteSet(Conns)
  /\ PageLen \in Nat \ {0} /\ SndBuf \in Nat \ {0}
  /\ Lengths \subseteq Nat /\ Chunks \subseteq Nat \ {0}
  /\ MaxLines \in Nat /\ MaxOver \in Nat

VARIABLES
  pcb,       \* lwIP's view: "none", "open", or "closing" after tcp_close
  cb,        \* callbacks registered with lwIP
  arg,       \* tcp_arg: does lwIP pass a pointer to http_state, or NULL?
  live,      \* is that http_state allocated?
  hs,        \* the http_state
  inflight,  \* units handed to tcp_write and not acknowledged
  lines      \* header lines received, for the bound

connVars == <<pcb, cb, arg, live, hs, inflight, lines>>

\* http_state without its line buffer.  posting: postdata is not NULL; data:
\* bios_start or data_start is not NULL; body: ghost, what the upload was.
HttpState(Pages, Bodies) ==
  [page : Pages, left : 0 .. PageLen, retries : 0 .. PollLimit - 1,
   gotfirst : BOOLEAN, ispost : BOOLEAN, posting : BOOLEAN,
   postpos : Nat, postlen : Lengths \cup {0}, data : BOOLEAN, body : Bodies]

Clean ==
  [page |-> "none", left |-> 0, retries |-> 0, gotfirst |-> FALSE,
   ispost |-> FALSE, posting |-> FALSE, postpos |-> 0, postlen |-> 0,
   data |-> FALSE, body |-> "none"]

ConnTypeOK(Pages, Bodies) ==
  /\ pcb \in [Conns -> {"none", "open", "closing"}]
  /\ cb \in [Conns -> SUBSET {"recv", "sent", "poll", "err"}]
  /\ arg \in [Conns -> BOOLEAN]
  /\ live \in [Conns -> BOOLEAN]
  /\ hs \in [Conns -> HttpState(Pages, Bodies)]
  /\ inflight \in [Conns -> 0 .. SndBuf]
  /\ lines \in [Conns -> Nat]

ConnInit ==
  /\ pcb = [c \in Conns |-> "none"]
  /\ cb = [c \in Conns |-> {}]
  /\ arg = [c \in Conns |-> FALSE]
  /\ live = [c \in Conns |-> FALSE]
  /\ hs = [c \in Conns |-> Clean]
  /\ inflight = [c \in Conns |-> 0]
  /\ lines = [c \in Conns |-> 0]

\* http_accept.
AcceptConn(c) ==
  /\ pcb[c] = "none"
  /\ pcb' = [pcb EXCEPT ![c] = "open"]
  /\ cb' = [cb EXCEPT ![c] = {"recv", "err"}]
  /\ arg' = [arg EXCEPT ![c] = TRUE]
  /\ live' = [live EXCEPT ![c] = TRUE]
  /\ hs' = [hs EXCEPT ![c] = Clean]
  /\ inflight' = [inflight EXCEPT ![c] = 0]
  /\ lines' = [lines EXCEPT ![c] = 0]

\* The page a connection is to get.
Answer(h, p) == [h EXCEPT !.page = p, !.left = PageLen]

\* send_data: as much of the page as the send buffer has room for; when
\* tcp_write is out of memory, less of it or nothing.
SendData(c, h, unacked) ==
  \E n \in 0 .. PageLen :
    /\ n <= h.left /\ n <= SndBuf - unacked
    /\ hs' = [hs EXCEPT ![c] = [h EXCEPT !.left = @ - n]]
    /\ inflight' = [inflight EXCEPT ![c] = unacked + n]

\* The end of a request: send_data, register http_poll and http_sent, and
\* expect a request line again.
StartAnswer(c, h) ==
  /\ SendData(c, [h EXCEPT !.gotfirst = FALSE], inflight[c])
  /\ cb' = [cb EXCEPT ![c] = @ \cup {"poll", "sent"}]

\* Plausible bug: http_sent stays registered.
BugUnregistered(C) == C \ {"recv"}

\* close_conn without what it does with an upload: no more callbacks that use
\* the state, the state freed, the connection closed.  http_poll and conn_err
\* stay registered and get NULL.
Unregistered(C) == C \ {"recv", "sent"}

\* mem_free(hs): what was in the state is forgotten, in the model too.
Freed(c) ==
  /\ live' = [live EXCEPT ![c] = FALSE]
  /\ hs' = [hs EXCEPT ![c] = Clean]
  /\ inflight' = [inflight EXCEPT ![c] = 0]
  /\ lines' = [lines EXCEPT ![c] = 0]

Drop(c) ==
  /\ cb' = [cb EXCEPT ![c] = Unregistered(@)]
  /\ arg' = [arg EXCEPT ![c] = FALSE]
  /\ Freed(c)
  /\ pcb' = [pcb EXCEPT ![c] = "closing"]

\* Plausible bug: conn_err is unregistered too and the state not freed.
BugConnErr(c) ==
  /\ pcb' = [pcb EXCEPT ![c] = "none"]
  /\ cb' = [cb EXCEPT ![c] = {}]
  /\ UNCHANGED <<arg, live, hs, inflight, lines>>

\* conn_err, called by lwIP for a connection that is gone: mem_free(arg).
ConnErr(c) ==
  /\ IF arg[c] THEN Freed(c) ELSE UNCHANGED <<live, hs, inflight, lines>>
  /\ pcb' = [pcb EXCEPT ![c] = "none"]
  /\ cb' = [cb EXCEPT ![c] = {}]
  /\ arg' = [arg EXCEPT ![c] = FALSE]

\* lwIP has finished with a closed connection.
Reap(c) ==
  /\ pcb[c] = "closing"
  /\ pcb' = [pcb EXCEPT ![c] = "none"]
  /\ cb' = [cb EXCEPT ![c] = {}]
  /\ UNCHANGED <<arg, live, hs, inflight, lines>>

LinesTaken == MapThenSumSet(LAMBDA c : lines[c], Conns)

\* http_recv calls handle_line for a line.
TakesLine(c) ==
  /\ "recv" \in cb[c] /\ ~hs[c].posting
  /\ LinesTaken < MaxLines
  /\ lines' = [lines EXCEPT ![c] = @ + 1]

\* handle_line, after the request line: Content-Length.  A header line that
\* changes nothing is left out.
HeaderLine(c) ==
  /\ TakesLine(c) /\ hs[c].gotfirst
  /\ \E n \in Lengths \ {hs[c].postlen} : hs' = [hs EXCEPT ![c].postlen = n]
  /\ UNCHANGED <<pcb, cb, arg, live, inflight>>

\* The empty line of a request with a body: postdata and postpos are set.
BodyAhead(c) == hs[c].ispost /\ hs[c].postlen > 0

\* Plausible bug: http_poll and http_sent are registered before the body came.
BugBlankBeforeBody(c) ==
  /\ TakesLine(c) /\ hs[c].gotfirst /\ BodyAhead(c)
  /\ hs' = [hs EXCEPT ![c].posting = TRUE, ![c].postpos = 0]
  /\ cb' = [cb EXCEPT ![c] = @ \cup {"poll", "sent"}]
  /\ UNCHANGED <<pcb, arg, live, inflight>>

BlankBeforeBody(c) ==
  /\ TakesLine(c) /\ hs[c].gotfirst /\ BodyAhead(c)
  /\ hs' = [hs EXCEPT ![c].posting = TRUE, ![c].postpos = 0]
  /\ UNCHANGED <<pcb, cb, arg, live, inflight>>

\* The empty line of a request without one: the page goes out.
BlankEndsRequest(c) ==
  /\ TakesLine(c) /\ hs[c].gotfirst /\ ~BodyAhead(c)
  /\ StartAnswer(c, hs[c])
  /\ UNCHANGED <<pcb, arg, live>>

\* http_recv with k bytes of body, of which the last may complete it.
TakesBody(c, k) ==
  /\ "recv" \in cb[c] /\ hs[c].posting
  /\ hs[c].postpos + k <= hs[c].postlen + MaxOver

\* Plausible bug: off by one, the body is taken for complete a unit early.
BugCompletes(h, k) == h.postpos < h.postlen /\ h.postlen - 1 <= h.postpos + k

\* The byte at which postpos equals postlen is among the next k.
Completes(h, k) == h.postpos < h.postlen /\ h.postlen <= h.postpos + k

Advanced(h, k) == [h EXCEPT !.postpos = @ + k]

BodyPart(c, k) ==
  /\ TakesBody(c, k) /\ ~Completes(hs[c], k)
  /\ hs' = [hs EXCEPT ![c] = Advanced(@, k)]
  /\ UNCHANGED <<pcb, cb, arg, live, inflight, lines>>

\* http_sent while there is more to send.
SentMore(c) ==
  /\ "sent" \in cb[c] /\ hs[c].left > 0
  /\ \E k \in 1 .. inflight[c] :
       SendData(c, [hs[c] EXCEPT !.retries = 0], inflight[c] - k)
  /\ UNCHANGED <<pcb, cb, arg, live, lines>>

\* http_sent when everything was handed to tcp_write: it calls close_conn.
SentAll(c) ==
  /\ "sent" \in cb[c] /\ hs[c].left = 0 /\ inflight[c] > 0

\* Plausible bug: the retries are not counted.
BugPollRetry(c) ==
  /\ "poll" \in cb[c] /\ arg[c]
  /\ SendData(c, hs[c], inflight[c])
  /\ UNCHANGED <<pcb, cb, arg, live, lines>>

\* http_poll.
PollRetry(c) ==
  /\ "poll" \in cb[c] /\ arg[c]
  /\ hs[c].retries + 1 < PollLimit
  /\ SendData(c, [hs[c] EXCEPT !.retries = @ + 1], inflight[c])
  /\ UNCHANGED <<pcb, cb, arg, live, lines>>

PollAborts(c) ==
  /\ "poll" \in cb[c] /\ arg[c]
  /\ hs[c].retries + 1 = PollLimit

-----------------------------------------------------------------------------
(* Properties of a connection that both servers must keep *)

\* http_recv and http_sent use their argument without a test: while one of
\* them is registered lwIP passes a state, and never one that was freed.
CallbacksHaveState ==
  \A c \in Conns :
    /\ cb[c] \cap {"recv", "sent"} # {} => arg[c]
    /\ arg[c] => live[c]

\* An allocated state is still lwIP's argument and conn_err is registered.
StateOwned ==
  \A c \in Conns : live[c] => arg[c] /\ pcb[c] = "open" /\ "err" \in cb[c]

\* What the program knows of a connection it has forgotten.
FreedIsClean == \A c \in Conns : ~live[c] => hs[c] = Clean
=============================================================================
