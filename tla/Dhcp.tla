-------------------------------- MODULE Dhcp --------------------------------
(***************************************************************************)
(* lwIP's DHCP client (lwip/src/core/dhcp.c) on the loader's one network   *)
(* interface, as functions from a client state to the next one; NetLoop    *)
(* calls them the way run_lwip does.                                       *)
(*                                                                         *)
(* Messages are what the client tells apart.  A reply is fresh as long as  *)
(* its transaction id is that of the last request sent, which dhcp_recv    *)
(* compares; the other tests of dhcp_recv drop a packet without a trace.   *)
(***************************************************************************)
EXTENDS Integers

CONSTANTS
  Addrs,        \* addresses servers give away
  Leases,       \* [t1, t2] of an acknowledgement, in coarse ticks, or Infinite
  FineMsecs,    \* DHCP_FINE_TIMER_MSECS
  TimerRange,   \* the timers are u16_t: 2^16
  TriesRange    \* tries is u8_t: 2^8

ANY   == "0.0.0.0"
FIXED == "192.168.1.13"   \* run_lwip's own address
Infinite == -1       \* 0xffffffff

ASSUME DhcpAssumption ==
  /\ ANY \notin Addrs /\ FIXED \notin Addrs
  /\ Addrs # {} /\ Leases # {}
  /\ Leases \subseteq [t1 : Nat \cup {Infinite}, t2 : Nat \cup {Infinite}]
  /\ FineMsecs \in Nat \ {0} /\ TimerRange \in Nat \ {0} /\ TriesRange \in Nat \ {0}

States == {"OFF", "SELECTING", "REQUESTING", "BOUND", "RENEWING", "REBINDING", "BACKING_OFF"}

Tries == 0 .. TriesRange - 1

Requests == {"DISCOVER", "REQUEST", "RENEW", "REBIND", "RELEASE"}

\* named: the offer carries the server's identifier.
Replies ==
  [kind : {"OFFER", "ACK", "NAK"}, addr : Addrs, lease : Leases, named : BOOLEAN, fresh : BOOLEAN]

\* struct dhcp, the interface's address, and the wire: the last request, and
\* the replies on their way.  Ghosts: a server has acknowledged that request;
\* deaf, see HandleOffer; crossed: a lease timer acted while a new address was
\* being requested, and none was given since.
Client ==
  [state : States, tries : Tries, timeout : 0 .. TimerRange - 1,
   t1 : 0 .. TimerRange - 1, t2 : 0 .. TimerRange - 1,
   offered : Addrs \cup {ANY}, lease : Leases, ip : Addrs \cup {ANY, FIXED},
   asked : [kind : Requests, addr : Addrs \cup {ANY, FIXED}],
   replies : SUBSET Replies, acked : BOOLEAN, deaf : BOOLEAN, crossed : BOOLEAN]

\* dhcp_set_state.
SetState(s, new) ==
  IF s.state = new THEN s ELSE [s EXCEPT !.state = new, !.tries = 0]

\* dhcp_create_request gives the request a transaction id of its own, so what
\* answers an earlier one is not fresh any more; ciaddr is the address in use.
Send(s, kind, addr) ==
  [s EXCEPT !.asked = [kind |-> kind, addr |-> addr],
            !.replies = {[r EXCEPT !.fresh = FALSE] : r \in @},
            !.acked = FALSE]

\* request_timeout for a number of milliseconds.
Fine(msecs) == (msecs + FineMsecs - 1) \div FineMsecs

\* The longest time-out, 20 seconds, fits the u16_t it is kept in.
ASSUME TimersFit == Fine(20 * 1000) < TimerRange

\* The end of each request: one more try, and a time-out that grows with them.
Retry(s, msecs) ==
  LET n == (s.tries + 1) % TriesRange
  IN [s EXCEPT !.tries = n, !.timeout = Fine(msecs[n]) % TimerRange]

DiscoverMsecs == [n \in Tries |-> IF n < 4 THEN (n + 1) * 1000 ELSE 10 * 1000]
SelectMsecs   == [n \in Tries |-> IF n < 4 THEN n * 1000 ELSE 4 * 1000]
RenewMsecs    == [n \in Tries |-> IF n < 10 THEN n * 2000 ELSE 20 * 1000]
RebindMsecs   == [n \in Tries |-> IF n < 10 THEN n * 1000 ELSE 10 * 1000]

\* ok: was there memory for the message?  When there was none, dhcp_discover
\* and dhcp_select leave the state as it is and still count the try.
Discover(s, ok) ==
  LET t == [s EXCEPT !.offered = ANY, !.deaf = FALSE]
  IN Retry(IF ok THEN SetState(Send(t, "DISCOVER", ANY), "SELECTING") ELSE t, DiscoverMsecs)

\* Plausible bug: the request is sent without a time-out of its own.
BugSelect(s, ok) ==
  IF ok THEN SetState(Send(s, "REQUEST", s.offered), "REQUESTING") ELSE s

Select(s, ok) ==
  Retry(IF ok THEN SetState(Send(s, "REQUEST", s.offered), "REQUESTING") ELSE s, SelectMsecs)

Renew(s, ok) ==
  LET t == SetState(s, "RENEWING")
  IN Retry(IF ok THEN Send(t, "RENEW", s.ip) ELSE t, RenewMsecs)

Rebind(s, ok) ==
  LET t == SetState(s, "REBINDING")
  IN Retry(IF ok THEN Send(t, "REBIND", s.ip) ELSE t, RebindMsecs)

\* The lease timers keep running.
Release(s, ok) ==
  LET t == SetState(s, "OFF")
      u == Retry(IF ok THEN Send(t, "RELEASE", s.ip) ELSE t, RebindMsecs)
  IN [u EXCEPT !.ip = ANY]

\* dhcp_bind: arm the lease timers and give the interface the offered address
\* (netmask and gateway go with it and are left out).
Armed(old, lease) ==
  IF lease = Infinite THEN old
  ELSE IF lease % TimerRange = 0 THEN 1 ELSE lease % TimerRange

Bind(s) ==
  SetState([s EXCEPT !.t1 = Armed(@, s.lease.t1), !.t2 = Armed(@, s.lease.t2),
                     !.ip = s.offered], "BOUND")

-----------------------------------------------------------------------------
(* dhcp_recv *)

HandleAck(s, r) == [s EXCEPT !.lease = r.lease, !.offered = r.addr, !.crossed = FALSE]

HandleNak(s) == SetState([s EXCEPT !.timeout = Fine(10 * 1000)], "BACKING_OFF")

\* An offer that does not name its server is dropped, the time-out already
\* cleared: the client is deaf until something else happens.
HandleOffer(s, r, ok) ==
  IF r.named THEN Select([s EXCEPT !.offered = r.addr], ok) ELSE [s EXCEPT !.deaf = TRUE]

Renewing == {"RENEWING", "REBINDING"}

\* Plausible bug: the transaction id is not compared.
BugRecv(s, r, ok) ==
  LET t == [s EXCEPT !.timeout = 0]
  IN IF r.kind = "ACK" /\ s.state = "REQUESTING"                         THEN Bind(HandleAck(t, r))
     ELSE IF r.kind = "ACK" /\ s.state \in Renewing                      THEN Bind(t)
     ELSE IF r.kind = "NAK" /\ s.state \in Renewing \cup {"REQUESTING"}  THEN HandleNak(t)
     ELSE IF r.kind = "OFFER" /\ s.state = "SELECTING"                   THEN HandleOffer(t, r, ok)
     ELSE s

Recv(s, r, ok) ==
  LET t == [s EXCEPT !.timeout = 0]
  IN IF ~r.fresh                                                         THEN s
     ELSE IF r.kind = "ACK" /\ s.state = "REQUESTING"                    THEN Bind(HandleAck(t, r))
     ELSE IF r.kind = "ACK" /\ s.state \in Renewing                      THEN Bind(t)
     ELSE IF r.kind = "NAK" /\ s.state \in Renewing \cup {"REQUESTING"}  THEN HandleNak(t)
     ELSE IF r.kind = "OFFER" /\ s.state = "SELECTING"                   THEN HandleOffer(t, r, ok)
     ELSE s

-----------------------------------------------------------------------------
(* The timers.  A timer at 0 wraps; it triggers when it goes from 1 to 0.  *)

Down(n) == (n - 1) % TimerRange

\* dhcp_timeout; more: was there memory for the second message?
Timeout(s, ok, more) ==
  IF s.state \in {"BACKING_OFF", "SELECTING"}               THEN Discover(s, ok)
  ELSE IF s.state = "REQUESTING" /\ s.tries <= 5            THEN Select(s, ok)
  ELSE IF s.state = "RENEWING"                              THEN Renew(s, ok)
  ELSE IF s.state = "REBINDING" /\ s.tries <= 8             THEN Rebind(s, ok)
  ELSE IF s.state \in {"REQUESTING", "REBINDING"}           THEN Discover(Release(s, ok), more)
  ELSE s

FineTmr(s, ok, more) ==
  LET t == [s EXCEPT !.timeout = Down(@)]
  IN IF s.timeout = 1 THEN Timeout(t, ok, more) ELSE t

\* dhcp_t1_timeout and dhcp_t2_timeout.
HasLease(s) == s.state \in {"REQUESTING", "BOUND", "RENEWING"}

Noting(s) == [s EXCEPT !.crossed = @ \/ s.state = "REQUESTING"]

\* dhcp_coarse_tmr.
CoarseTmr(s, ok) ==
  LET t == [s EXCEPT !.t2 = Down(@)]
      u == [t EXCEPT !.t1 = Down(@)]
  IN IF s.t2 = 1       THEN IF HasLease(s) THEN Rebind(Noting(t), ok) ELSE t
     ELSE IF s.t1 = 1  THEN IF HasLease(s) THEN Renew(Noting(u), ok) ELSE u
     ELSE u

\* dhcp_start: a cleared client that sends its first request.
Fresh ==
  [state |-> "OFF", tries |-> 0, timeout |-> 0, t1 |-> 0, t2 |-> 0,
   offered |-> ANY, lease |-> CHOOSE l \in Leases : TRUE, ip |-> ANY,
   asked |-> [kind |-> "DISCOVER", addr |-> ANY], replies |-> {}, acked |-> FALSE, deaf |-> FALSE,
   crossed |-> FALSE]

Start == Discover(Fresh, TRUE)
=============================================================================
