---------------------------- MODULE WebDownload ----------------------------
(***************************************************************************)
(* The loader as an HTTP client.  Web boot (networktools/webboot) fetches  *)
(* a kernel, an initrd and an append line, each with a HEAD and then a GET *)
(* request over a connection of its own, and starts the kernel.  Web       *)
(* update (networktools/webupdate) fetches a BIOS with one GET request and *)
(* flashes it.  run_lwip starts one of the two.                            *)
(*                                                                         *)
(* A response is a sequence of characters, which lwIP delivers in segments *)
(* of any size and which the server may cut short.  "r" and "n" are the    *)
(* carriage return and the line feed; what else a header holds is one "h". *)
(***************************************************************************)
EXTENDS Integers, Sequences, FiniteSets

CONSTANTS
  Body,    \* Body[f]: what the server has under the name of file f
  Legal,   \* sizes of an image that flashBIOS accepts
  Pcbs,    \* MEMP_NUM_TCP_PCB
  MaxSeg   \* bound: characters of a segment

Files == {"kernel", "initrd", "append", "bios"}

ASSUME DownloadAssumption ==
  /\ Body \in [Files -> Seq(STRING)]
  /\ Legal \subseteq Nat /\ Pcbs \in Nat \ {0} /\ MaxSeg \in Nat \ {0}

VARIABLES
  file,        \* whose handlers (recvKernel, ..., recvBIOS) are in use
  head,        \* head = 1: the request is a HEAD request
  conn,        \* "connecting", "open", or how it all ended
  sent,        \* characters of the response delivered
  eoh,         \* the end of the header was found
  contLen,     \* Unknown stands for the default of 11 MB
  tempBuf,     \* the memory at INITRD_START up to the NUL behind the data
  appendLine,  \* the text in the buffer of that name
  kernel,      \* what memPlaceKernel placed
  initrdSize,
  heap,        \* clusters in use, and the pointers into them
  old,         \* connections closed and not yet released by lwIP
  split, cut   \* ghosts: a segment ended inside a header's last four
               \* characters; a response was cut short

vars == <<file, head, conn, sent, eoh, contLen, tempBuf, appendLine, kernel,
          initrdSize, heap, old, split, cut>>
data == <<tempBuf, appendLine, kernel, initrdSize>>

Unknown == -1
Final   == {"booted", "flashing", "hung", "crashed"}

Terminator == <<"r", "n", "r", "n">>
Header     == <<"h">> \o Terminator
Response   == Header \o (IF head THEN <<>> ELSE Body[file])

-----------------------------------------------------------------------------
(* The heap, as far as the client uses it: every block is one cluster and  *)
(* t_malloc takes the first free one (see MemoryManager).                  *)

NULL     == 0
Low      == 9     \* where the pointer of a failed request leads
Clusters == 1 .. 5

FirstFree(U) == CHOOSE s \in Clusters \ U : \A t \in Clusters \ U : s <= t

Alloc(h, p)   == [used |-> h.used \cup {FirstFree(h.used)},
                  ptr  |-> [h.ptr EXCEPT ![p] = FirstFree(h.used)]]
Release(h, p) == [h EXCEPT !.used = @ \ {h.ptr[p]}]

\* webboot_init: the request buffers and the header buffer.
FirstBlocks ==
  Alloc(Alloc(Alloc([used |-> {}, ptr |-> [p \in {"GET", "HEAD", "header", "append"} |-> NULL]],
                    "GET"), "HEAD"), "header")

\* Plausible bug: the requests are replaced and not freed.
BugRenewed(h) == Alloc(Release(Alloc(Alloc(h, "GET"), "HEAD"), "header"), "header")

\* recvKernel, recvInitrd: the requests are freed and built anew, then the
\* header buffer, which processHeader may have freed already.
Renewed(h) ==
  Alloc(Release(Alloc(Alloc(Release(Release(h, "GET"), "HEAD"), "GET"), "HEAD"), "header"),
        "header")

\* recvAppend: the buffer for the command line, of the length that HEAD announced.
AppendAllocated(h, n) ==
  IF n = Unknown THEN [h EXCEPT !.ptr["append"] = Low] ELSE Alloc(h, "append")

-----------------------------------------------------------------------------
TypeOK ==
  /\ file \in Files /\ head \in BOOLEAN /\ eoh \in BOOLEAN
  /\ conn \in {"connecting", "open"} \cup Final
  /\ sent \in Nat /\ contLen \in Nat \cup {Unknown}
  /\ initrdSize \in Nat /\ old \in 0 .. Pcbs
  /\ heap.used \subseteq Clusters
  /\ split \in BOOLEAN /\ cut \in BOOLEAN

Init ==
  /\ \/ file = "kernel" /\ head = TRUE  /\ heap = FirstBlocks
     \/ file = "bios"   /\ head = FALSE /\ heap = [used |-> {}, ptr |-> <<>>]
  /\ conn = "connecting" /\ sent = 0 /\ eoh = FALSE /\ contLen = Unknown
  /\ tempBuf = <<>> /\ appendLine = <<>> /\ kernel = <<>> /\ initrdSize = 0
  /\ old = 0 /\ split = FALSE /\ cut = FALSE

\* handleKernel, handleInitrd, handleAppend, handleBIOS: the request goes out.
Connected ==
  /\ conn = "connecting"
  /\ conn' = "open" /\ sent' = 0
  /\ UNCHANGED <<file, head, eoh, contLen, data, heap, old, split, cut>>

\* Where in a segment the header ends, if the four characters are all in it:
\* c[] is cleared at the start of every segment.
EndsAt(s) == {j \in 4 .. Len(s) : SubSeq(s, j - 3, j) = Terminator}

\* What of a segment is stored.
BodyIn(s) ==
  IF eoh THEN s
  ELSE IF EndsAt(s) = {} THEN <<>>
  ELSE SubSeq(s, 1 + (CHOOSE j \in EndsAt(s) : \A l \in EndsAt(s) : j <= l), Len(s))

\* recvKernel, recvInitrd, recvAppend, recvBIOS with data.
Recv ==
  /\ conn = "open"
  /\ \E k \in 1 .. MaxSeg :
       LET s == SubSeq(Response, sent + 1, sent + k)
           part == IF head THEN <<>> ELSE BodyIn(s)
       IN /\ sent + k <= Len(Response)
          /\ sent' = sent + k
          /\ eoh' = (eoh \/ (~head /\ EndsAt(s) # {}))
          /\ IF file = "append"
             THEN appendLine' = appendLine \o part /\ UNCHANGED tempBuf
             ELSE tempBuf' = tempBuf \o part /\ UNCHANGED appendLine
          /\ split' = (split \/ (~head /\ Len(Header) - 4 < sent' /\ sent' < Len(Header)))
  /\ UNCHANGED <<file, head, conn, contLen, kernel, initrdSize, heap, old, cut>>

-----------------------------------------------------------------------------
(* The server closes the connection: the handlers with p = NULL            *)

Closed ==
  /\ conn = "open"
  /\ cut' = (cut \/ sent < Len(Response))
  /\ UNCHANGED <<sent, split>>

\* tcp_close leaves the old connection to lwIP, tcp_new needs another one;
\* without one it returns NULL, which is used.
Reconnect ==
  /\ old' = old + 1
  /\ conn' = IF old + 1 < Pcbs THEN "connecting" ELSE "crashed"

\* processHeader: the length in a complete header; of another one the digits
\* that have come, or what the buffer still holds of the file before.
LengthSeen ==
  IF sent = Len(Response) THEN {Len(Body[file])}
  ELSE UNION {0 .. Len(Body[f]) : f \in Files}

\* Plausible bug: head is left as it is.
BugCloseHead ==
  /\ Closed /\ head
  /\ UNCHANGED <<head, contLen, heap>>
  /\ Reconnect
  /\ UNCHANGED <<file, eoh, data>>

\* The end of a HEAD response.
CloseHead ==
  /\ Closed /\ head
  /\ head' = FALSE
  /\ \E found \in BOOLEAN, n \in LengthSeen :
       LET h == IF found THEN Release(heap, "header") ELSE heap
       IN /\ contLen' = IF found THEN n ELSE contLen
          /\ heap' = IF file = "append" THEN AppendAllocated(h, contLen') ELSE h
  /\ Reconnect
  /\ UNCHANGED <<file, eoh, data>>

\* Plausible bug: eoh is not reset for the next file.
BugNextFile(f) ==
  /\ file' = f /\ head' = TRUE /\ contLen' = Unknown
  /\ heap' = Renewed(heap)
  /\ Reconnect
  /\ UNCHANGED eoh

\* The variables for the next file.
NextFile(f) ==
  /\ file' = f /\ head' = TRUE /\ contLen' = Unknown /\ eoh' = FALSE
  /\ heap' = Renewed(heap)
  /\ Reconnect

CloseKernel ==
  /\ Closed /\ ~head /\ file = "kernel"
  /\ kernel' = tempBuf /\ tempBuf' = <<>>
  /\ NextFile("initrd")
  /\ UNCHANGED <<appendLine, initrdSize>>

\* Plausible bug: the size is taken after the reset.
BugCloseInitrd ==
  /\ Closed /\ ~head /\ file = "initrd"
  /\ initrdSize' = 0
  /\ NextFile("append")
  /\ UNCHANGED <<tempBuf, appendLine, kernel>>

CloseInitrd ==
  /\ Closed /\ ~head /\ file = "initrd"
  /\ initrdSize' = Len(tempBuf)
  /\ NextFile("append")
  /\ UNCHANGED <<tempBuf, appendLine, kernel>>

\* boot.
CloseAppend ==
  /\ Closed /\ ~head /\ file = "append"
  /\ heap' = Release(Release(heap, "GET"), "HEAD")
  /\ conn' = "booted"
  /\ UNCHANGED <<file, head, eoh, contLen, data, old>>

\* Plausible bug: the size is not looked at.
BugCloseBIOS ==
  /\ Closed /\ file = "bios"
  /\ conn' = "flashing"
  /\ UNCHANGED <<file, head, eoh, contLen, data, heap, old>>

\* flashBIOS: BootReflashAndReset, or a message and an endless loop.
CloseBIOS ==
  /\ Closed /\ file = "bios"
  /\ conn' = IF Len(tempBuf) \in Legal THEN "flashing" ELSE "hung"
  /\ UNCHANGED <<file, head, eoh, contLen, data, heap, old>>

\* connErr, of the connection in use or of an old one: an endless loop.
ConnErr ==
  /\ conn \notin Final
  /\ conn' = "hung"
  /\ UNCHANGED <<file, head, sent, eoh, contLen, data, heap, old, split, cut>>

\* External: the last acknowledgement of an old connection comes in.
OldReleased ==
  /\ conn \notin Final /\ old > 0
  /\ old' = old - 1
  /\ UNCHANGED <<file, head, conn, sent, eoh, contLen, data, heap, split, cut>>

Close == CloseHead \/ CloseKernel \/ CloseInitrd \/ CloseAppend \/ CloseBIOS

Next == Connected \/ Recv \/ Close \/ ConnErr \/ OldReleased

\* TCP connects, delivers what the server sent, and ends, or reports an error.
Fairness == WF_vars(Connected) /\ WF_vars(Recv) /\ WF_vars(Close)

Spec == Init /\ [][Next]_vars /\ Fairness

-----------------------------------------------------------------------------
(* Properties *)

\* recvKernel, recvInitrd, recvAppend, boot: however the responses are cut
\* into segments, a kernel that is started is the server's kernel, with the
\* server's initrd and append line, if no response was cut short and no
\* segment ended inside the end of a header.
BootsWholeFiles ==
  conn = "booted" /\ ~cut /\ ~split =>
    /\ kernel = Body["kernel"]
    /\ SubSeq(tempBuf, 1, initrdSize) = Body["initrd"]
    /\ appendLine = Body["append"]

\* recvBIOS, flashBIOS: the same for an image that is flashed.
FlashesWholeBios ==
  conn = "flashing" =>
    /\ Len(tempBuf) \in Legal
    /\ ~cut /\ ~split => tempBuf = Body["bios"]

Parts(s) == {SubSeq(s, i, j) : i \in 1 .. Len(s) + 1, j \in 0 .. Len(s)}

\* The receive handlers share one buffer, and one flag for the end of the
\* header: even after short or ill-cut responses, nothing of a header and
\* nothing of another file gets into a file's place.
OnlyBodyBytes ==
  /\ kernel \in Parts(Body["kernel"])
  /\ tempBuf \in Parts(Body[IF file = "append" THEN "initrd" ELSE file])
  /\ appendLine \in Parts(Body["append"])

\* processHeader frees header and leaves the pointer, which the handlers free
\* again later: no block in use is freed by that, and no two pointers that
\* are in use lead to one block.
PointersOwnTheirBlocks ==
  file # "bios" /\ conn # "booted" =>
    LET live == {"GET", "HEAD"}
                  \cup (IF head THEN {"header"} ELSE {})
                  \cup (IF heap.ptr["append"] \in Clusters THEN {"append"} ELSE {})
    IN /\ \A p \in live : heap.ptr[p] \in heap.used
       /\ \A p, q \in live : p # q => heap.ptr[p] # heap.ptr[q]

\* The handlers: six connections, one after the other, come to an end.
Finishes == <>(conn \in Final)

-----------------------------------------------------------------------------
(* The inductive invariant *)

\* Where the handlers of the file in use store what they get.
Buffer == IF file = "append" THEN appendLine ELSE tempBuf

\* Nothing is stored before the end of a header.
StartsEmpty ==
  /\ conn = "connecting" \/ head \/ ~eoh => Buffer = <<>>
  /\ conn = "connecting" \/ head => ~eoh
  /\ file # "append" => appendLine = <<>>

\* The body so far, from its first byte unless the end of the header was missed.
Received ==
  conn = "open" =>
    /\ sent <= Len(Response)
    /\ eoh => /\ sent >= Len(Header)
              /\ \E i \in 1 .. sent - Len(Header) + 1 :
                   /\ Buffer = SubSeq(Body[file], i, sent - Len(Header))
                   /\ ~split => i = 1
    /\ ~head /\ ~eoh /\ ~split => sent <= Len(Header) - 4

Whole(f) == CASE f = "kernel" -> file \in {"initrd", "append"}
              [] f = "initrd" -> file = "append"
              [] f = "append" -> conn = "booted"
              [] f = "bios"   -> conn = "flashing"

\* The files that are there already.
Arrived ==
  /\ ~cut /\ ~split =>
       /\ Whole("kernel") => kernel = Body["kernel"]
       /\ Whole("initrd") => tempBuf = Body["initrd"] /\ initrdSize = Len(tempBuf)
       /\ Whole("append") => appendLine = Body["append"]
       /\ Whole("bios")   => tempBuf = Body["bios"]
  /\ conn = "booted" => file = "append"
  /\ conn = "flashing" => file = "bios" /\ Len(tempBuf) \in Legal
  /\ file = "bios" => ~head

\* Every request finds its buffers where the first one had them, which is why
\* the pointer to a freed header never leads to another block.
HeapSame ==
  file # "bios" =>
    /\ heap \in [used : SUBSET Clusters, ptr : [{"GET", "HEAD", "header", "append"} -> Nat]]
    /\ heap.ptr["GET"] = 1 /\ heap.ptr["HEAD"] = 2 /\ heap.ptr["header"] = 3
    /\ head \/ file # "append" => heap.ptr["append"] = NULL
    /\ head => heap.used = {1, 2, 3}
    /\ conn # "booted" =>
         CASE heap.ptr["append"] \in {NULL, Low} -> heap.used \in {{1, 2}, {1, 2, 3}}
           [] heap.ptr["append"] = 3            -> heap.used = {1, 2, 3}
           [] heap.ptr["append"] = 4            -> heap.used = {1, 2, 3, 4}
           [] OTHER                             -> FALSE

LengthKnown ==
  /\ head => contLen = Unknown
  /\ file = "append" /\ heap.ptr["append"] \in Clusters /\ ~cut =>
       contLen = Len(Body["append"])

\* As long as the client runs, lwIP has a connection for it.
ConnAtHand == conn \notin Final => old < Pcbs

DownloadInv ==
  /\ TypeOK /\ OnlyBodyBytes
  /\ StartsEmpty /\ Received /\ Arrived /\ HeapSame /\ LengthKnown /\ ConnAtHand
=============================================================================
