------------------------------ MODULE NetLoop ------------------------------
(***************************************************************************)
(* The network main loop (run_lwip and ebd_wait, tcpListener/tcpListener.c) *)
(* with the DHCP client: wait for a packet or for the time to pass, run    *)
(* the timers, fall back to a fixed address after a minute without DHCP,   *)
(* and start the network tool that was asked for once there is an address. *)
(*                                                                         *)
(* The network may lose, delay, repeat and reorder what servers send.      *)
(***************************************************************************)
EXTENDS Dhcp, FiniteSets

CONSTANTS
  CoarseTicks,  \* 60 * 4: rounds of run_lwip's timers between two coarse ticks
  Tools,        \* values of the argument A: which network tool to start
  ResetPresses, \* 3: presses of button C that are only counted
  MaxReplies    \* bound: replies on their way at a time

ASSUME NetLoopAssumption ==
  /\ CoarseTicks \in Nat \ {0} /\ ResetPresses \in Nat /\ MaxReplies \in Nat
  /\ "none" \notin Tools

VARIABLES
  tool,      \* A
  client,    \* netif and *netif.dhcp
  up,        \* netif.dhcp is not NULL
  divisor, first, gotIP,
  started,   \* the tool started, "none" before: applicationStarted
  resetCount,
  rebooted

vars == <<tool, client, up, divisor, first, gotIP, started, resetCount, rebooted>>

TypeOK ==
  /\ tool \in Tools
  /\ client \in Client
  /\ up \in BOOLEAN
  /\ divisor \in 0 .. CoarseTicks
  /\ first \in BOOLEAN /\ gotIP \in BOOLEAN
  /\ started \in Tools \cup {"none"}
  /\ resetCount \in 0 .. ResetPresses /\ rebooted \in BOOLEAN

\* The memory pools have just been initialised: dhcp_start has what it needs.
Init ==
  /\ tool \in Tools
  /\ client = Start /\ up = TRUE
  /\ divisor = 0 /\ first = TRUE /\ gotIP = FALSE
  /\ started = "none" /\ resetCount = 0 /\ rebooted = FALSE

loopVars == <<client, up, divisor, first, gotIP, started>>

-----------------------------------------------------------------------------
Running == ~rebooted

\* The test for button C at the top of the loop.  A reboot (I2CRebootSlow)
\* forgets everything.
ButtonC ==
  /\ Running
  /\ IF resetCount < ResetPresses
     THEN resetCount' = resetCount + 1 /\ UNCHANGED <<loopVars, rebooted>>
     ELSE /\ rebooted' = TRUE /\ resetCount' = 0
          /\ client' = Start /\ up' = TRUE
          /\ divisor' = 0 /\ first' = TRUE /\ gotIP' = FALSE /\ started' = "none"
  /\ UNCHANGED tool

\* Plausible bug: only a client that has given up counts as failed.
BugFailed == first /\ client.state = "OFF"

\* The first minute is over and DHCP has not succeeded.
Failed == first /\ client.state # "BOUND"

\* dhcp_stop and netif_set_ipaddr.
Fallback(s) == [s EXCEPT !.ip = FIXED, !.state = "OFF"]

\* Plausible bug: the fixed address is not noted as an address.
BugNoted(fails) == gotIP

Noted(fails) == gotIP \/ fails

HasAddress(s) == s.state = "BOUND"

\* ebd_wait returns 0: a poll finds no packet, and 250 ms have passed since the
\* count of the time began, which packets in between do not start anew.
Quiet ==
  /\ Running
  /\ LET minute == divisor = CoarseTicks
         fails  == minute /\ Failed
         div    == IF minute THEN 0 ELSE divisor + 1
     IN \E ok, more \in BOOLEAN :
          LET s0 == IF fails THEN Fallback(client) ELSE client
              s1 == IF minute /\ up /\ ~fails THEN CoarseTmr(s0, ok) ELSE s0
              s2 == IF div % 2 = 1 /\ up /\ ~fails THEN FineTmr(s1, ok, more) ELSE s1
          IN /\ client' = s2
             /\ up' = (up /\ ~fails)
             /\ divisor' = div
             /\ first' = (first /\ ~minute)
             /\ gotIP' = Noted(fails)
             /\ started' = IF started = "none" /\ (gotIP' \/ HasAddress(s2)) THEN tool ELSE started
  /\ UNCHANGED <<tool, resetCount, rebooted>>

\* ebd_wait returns 1 after a packet: a reply for the client's port.  After
\* dhcp_stop there is no pcb for it.  The network may deliver it again.
Packet ==
  /\ Running
  /\ \E r \in client.replies, again \in BOOLEAN, ok \in BOOLEAN :
       LET t == IF again THEN client ELSE [client EXCEPT !.replies = @ \ {r}]
       IN client' = IF up THEN Recv(t, r, ok) ELSE t
  /\ UNCHANGED <<tool, up, divisor, first, gotIP, started, resetCount, rebooted>>

Lost ==
  /\ Running
  /\ \E r \in client.replies : client' = [client EXCEPT !.replies = @ \ {r}]
  /\ UNCHANGED <<tool, up, divisor, first, gotIP, started, resetCount, rebooted>>

\* External: a DHCP server answers the last request.  It acknowledges the
\* address it was asked for, if it was asked for one.
Put(kind, a, l, named) ==
  client' = [client EXCEPT
    !.replies = @ \cup {[kind |-> kind, addr |-> a, lease |-> l, named |-> named, fresh |-> TRUE]},
    !.acked = @ \/ kind = "ACK"]

AnyAddr  == CHOOSE a \in Addrs : TRUE      \* in a reply that gives none
AnyLease == CHOOSE l \in Leases : TRUE

Server ==
  /\ Running /\ up /\ Cardinality(client.replies) < MaxReplies
  /\ \/ /\ client.asked.kind = "DISCOVER"
        /\ \E a \in Addrs, named \in BOOLEAN : Put("OFFER", a, AnyLease, named)
     \/ /\ client.asked.kind \in {"REQUEST", "RENEW", "REBIND"}
        /\ client.asked.addr \in Addrs
        /\ \/ \E l \in Leases : Put("ACK", client.asked.addr, l, TRUE)
           \/ Put("NAK", AnyAddr, AnyLease, TRUE)
  /\ UNCHANGED <<tool, up, divisor, first, gotIP, started, resetCount, rebooted>>

Next == ButtonC \/ Quiet \/ Packet \/ Lost \/ Server

\* The loop goes round for ever, and now and then a poll that comes 250 ms after
\* the last round of the timers, or later, finds no packet waiting.
Fairness == WF_vars(Quiet)

Spec == Init /\ [][Next]_vars /\ Fairness

-----------------------------------------------------------------------------
(* Properties *)

\* run_lwip: a tool is started with an address that a server has acknowledged
\* for the client's last request, or with the fixed one and no DHCP client left
\* to change it.  Exception: a lease timer interfered with the request of a new
\* address (dhcp.c:386, 398), so that the renewal it sent was what the server
\* acknowledged, and dhcp_bind took the address that had been offered.
StartsWithAddress ==
  [][started = "none" /\ started' # "none" =>
       \/ /\ client'.ip \in Addrs /\ client'.acked
          /\ client'.ip = client'.asked.addr \/ client'.crossed
       \/ client'.ip = FIXED /\ ~up']_vars

\* run_lwip reads netif.dhcp->state at two places, and dhcp_stop leaves NULL
\* there: the loop comes to neither without a client, and once the fixed
\* address is set no late answer and no timer touches the interface.
FallbackIsFinal ==
  /\ first \/ (started = "none" /\ ~gotIP) => up
  /\ gotIP => client.ip = FIXED /\ ~up

\* dhcp_fine_tmr: a client that waits for an answer has a time-out running,
\* and will ask again.  Exceptions: an offer that named no server was the last
\* thing to come (HandleOffer), or the u8_t count of tries has just wrapped.
WillAskAgain ==
  up /\ client.state \in States \ {"OFF", "BOUND"} /\ ~client.deaf
    => client.timeout > 0 \/ client.tries = 0

\* The one minute after which the loop falls back is over, the client was bound
\* then and is renewing its lease, and no tool is started yet.
MinuteWasted == ~first /\ started = "none" /\ client.state \in Renewing

\* run_lwip: whatever DHCP does, a tool is started, unless somebody reboots the
\* console.  Exception: the client was bound when the minute was over, and the
\* same coarse tick made it renew its lease.
Starts == <>(started # "none" \/ rebooted \/ MinuteWasted)

-----------------------------------------------------------------------------
(* The inductive invariant *)

\* An acknowledgement that dhcp_recv still takes is for the last request.
AcksAnswer ==
  \A r \in client.replies :
    r.kind = "ACK" /\ r.fresh => client.acked /\ r.addr = client.asked.addr

\* What a client with a lease holds is what it was offered, and unless a lease
\* timer crossed a request, what it asked for.
BoundToOffer ==
  /\ client.state \in {"REQUESTING", "BOUND"} \cup Renewing => client.offered \in Addrs
  /\ client.state = "BOUND" => client.ip = client.offered /\ client.acked
  /\ client.state \in {"BOUND"} \cup Renewing /\ ~client.crossed
       => client.ip = client.offered /\ client.ip = client.asked.addr

NetLoopInv ==
  TypeOK /\ FallbackIsFinal /\ WillAskAgain /\ AcksAnswer /\ BoundToOffer
=============================================================================
