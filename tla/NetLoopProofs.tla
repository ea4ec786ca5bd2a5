---------------------------- MODULE NetLoopProofs ----------------------------
(***************************************************************************)
(* Proofs about the network main loop and its DHCP client, for any         *)
(* addresses, leases, timer widths and ranges, and any loss, repetition    *)
(* and reordering of the servers' replies.                                 *)
(***************************************************************************)
EXTENDS NetLoop, TLAPS

-----------------------------------------------------------------------------
(* What dhcp.c's functions do to a client *)

\* WillAskAgain, of one client.
Asking(s) == s.state \in States \ {"OFF", "BOUND"} /\ ~s.deaf => s.timeout > 0 \/ s.tries = 0

\* AcksAnswer, of one client.
Matched(s) == \A r \in s.replies : r.kind = "ACK" /\ r.fresh => s.acked /\ r.addr = s.asked.addr

\* BoundToOffer, of one client.
Holding(s) ==
  s.offered \in Addrs /\ (~s.crossed => s.ip = s.offered /\ s.ip = s.asked.addr)

Held(s) ==
  /\ s.state = "REQUESTING" => s.offered \in Addrs
  /\ s.state \in {"BOUND"} \cup Renewing => Holding(s)
  /\ s.state = "BOUND" => s.ip = s.offered /\ s.acked

\* The longest time-out, in milliseconds.
Longest == 20 * 1000

LEMMA DivMono ==
  ASSUME NEW a \in Nat, NEW b \in Nat, NEW f \in Nat \ {0}, a <= b
  PROVE  a \div f <= b \div f
<1>1. a \div f \in Nat /\ b \div f \in Nat /\ f \in Nat /\ f > 0
  OBVIOUS
<1>2. a = f * (a \div f) + (a % f) /\ a % f \in 0 .. f - 1
  OBVIOUS
<1>3. b = f * (b \div f) + (b % f) /\ b % f \in 0 .. f - 1
  OBVIOUS
<1>4. ASSUME NEW p \in Nat, NEW q \in Nat, NEW x \in 0 .. f - 1, NEW y \in 0 .. f - 1,
             a = f * p + x, b = f * q + y, q < p
      PROVE  FALSE
  <2>1. f * q + f <= f * p
    <3>1. PICK d \in Nat : p = q + 1 + d
      <4>1. p - q - 1 \in Nat /\ p = q + 1 + (p - q - 1)
        BY <1>4
      <4>2. QED
        BY <4>1
    <3>2. f * p = f * q + f + f * d /\ f * d \in Nat
      BY <1>1, <3>1
    <3>3. f * q \in Nat /\ f * p \in Nat
      BY <1>1
    <3>4. QED
      BY <1>1, <3>2, <3>3
  <2>2. f * q \in Nat /\ f * p \in Nat
    BY <1>1
  <2>3. QED
    BY <1>1, <1>4, <2>1, <2>2
<1>5. QED
  BY <1>1, <1>2, <1>3, <1>4

\* A time-out of up to 20 seconds is at least one tick and fits its u16_t.
LEMMA FineFits ==
  ASSUME NEW m \in 0 .. Longest
  PROVE  Fine(m) \in 0 .. TimerRange - 1 /\ (m > 0 => Fine(m) > 0)
<1>1. FineMsecs \in Nat \ {0} /\ TimerRange \in Nat \ {0} /\ Longest \in Nat
  BY DhcpAssumption DEF Longest
<1> DEFINE f == FineMsecs
<1>2. m + f - 1 \in Nat /\ Longest + f - 1 \in Nat /\ m + f - 1 <= Longest + f - 1
  BY <1>1
<1> HIDE DEF f
<1>3. f \in Nat \ {0}
  BY <1>1 DEF f
<1>4. (m + f - 1) \div f <= (Longest + f - 1) \div f /\ (m + f - 1) \div f \in Nat
  <2>1. (m + f - 1) \div f <= (Longest + f - 1) \div f
    BY <1>2, <1>3, DivMono, Zenon
  <2>2. QED
    BY <1>2, <1>3, <2>1
<1>5. m > 0 => (m + f - 1) \div f > 0
  <2>1. SUFFICES ASSUME m > 0 PROVE (m + f - 1) \div f > 0
    OBVIOUS
  <2>2. f <= m + f - 1 /\ f \in Nat
    BY <1>3, <2>1
  <2>3. f \div f = 1
    BY <1>3
  <2>4. f \div f <= (m + f - 1) \div f
    BY <1>2, <1>3, <2>2, DivMono, Zenon
  <2>5. QED
    BY <1>4, <2>3, <2>4
<1>6. (Longest + f - 1) \div f < TimerRange
  BY TimersFit DEF Fine, f, Longest
<1>7. (Longest + f - 1) \div f \in Nat
  BY <1>2, <1>3
<1>8. QED
  BY <1>1, <1>4, <1>5, <1>6, <1>7 DEF Fine, f

\* Tables of time-outs in milliseconds.
Table(msecs) ==
  \A n \in Tries : msecs[n] \in 0 .. Longest /\ (n # 0 => msecs[n] > 0)

LEMMA Tables ==
  Table(DiscoverMsecs) /\ Table(SelectMsecs) /\ Table(RenewMsecs) /\ Table(RebindMsecs)
<1>1. Tries \subseteq Nat
  BY DEF Tries
<1>0. Longest \in Nat /\ 10 * 1000 \in 1 .. Longest /\ 4 * 1000 \in 1 .. Longest
      /\ 20 * 1000 \in 1 .. Longest
  BY DEF Longest
<1>2. ASSUME NEW n \in Tries
      PROVE  /\ DiscoverMsecs[n] \in 0 .. Longest /\ (n # 0 => DiscoverMsecs[n] > 0)
             /\ SelectMsecs[n] \in 0 .. Longest /\ (n # 0 => SelectMsecs[n] > 0)
             /\ RenewMsecs[n] \in 0 .. Longest /\ (n # 0 => RenewMsecs[n] > 0)
             /\ RebindMsecs[n] \in 0 .. Longest /\ (n # 0 => RebindMsecs[n] > 0)
  <2>1. n \in Nat
    BY <1>1
  <2>2. /\ DiscoverMsecs[n] = IF n < 4 THEN (n + 1) * 1000 ELSE 10 * 1000
        /\ SelectMsecs[n] = IF n < 4 THEN n * 1000 ELSE 4 * 1000
        /\ RenewMsecs[n] = IF n < 10 THEN n * 2000 ELSE 20 * 1000
        /\ RebindMsecs[n] = IF n < 10 THEN n * 1000 ELSE 10 * 1000
    BY DEF DiscoverMsecs, SelectMsecs, RenewMsecs, RebindMsecs
  <2>3. DiscoverMsecs[n] \in 0 .. Longest /\ (n # 0 => DiscoverMsecs[n] > 0)
    <3>1. DiscoverMsecs[n] = IF n < 4 THEN (n + 1) * 1000 ELSE 10 * 1000
      BY <2>2
    <3>2. CASE n < 4
      <4>1. (n + 1) * 1000 \in 1 .. Longest
        BY <2>1, <3>2 DEF Longest
      <4>2. DiscoverMsecs[n] = (n + 1) * 1000
        BY <3>1, <3>2
      <4>3. DiscoverMsecs[n] \in 1 .. Longest
        BY <4>1, <4>2, Zenon
      <4>4. QED
        BY <1>0, <4>3
    <3>3. CASE ~(n < 4)
      BY <1>0, <3>1, <3>3
    <3>4. QED
      BY <3>2, <3>3
  <2>4. SelectMsecs[n] \in 0 .. Longest /\ (n # 0 => SelectMsecs[n] > 0)
    <3>1. SelectMsecs[n] = IF n < 4 THEN n * 1000 ELSE 4 * 1000
      BY <2>2
    <3>2. CASE n < 4
      <4>1. n * 1000 \in 0 .. Longest /\ (n # 0 => n * 1000 > 0)
        BY <2>1, <3>2 DEF Longest
      <4>2. SelectMsecs[n] = n * 1000
        BY <3>1, <3>2
      <4>3. QED
        BY <4>1, <4>2
    <3>3. CASE ~(n < 4)
      BY <1>0, <3>1, <3>3
    <3>4. QED
      BY <3>2, <3>3
  <2>5. RenewMsecs[n] \in 0 .. Longest /\ (n # 0 => RenewMsecs[n] > 0)
    <3>1. RenewMsecs[n] = IF n < 10 THEN n * 2000 ELSE 20 * 1000
      BY <2>2
    <3>2. CASE n < 10
      <4>1. n * 2000 \in 0 .. Longest /\ (n # 0 => n * 2000 > 0)
        BY <2>1, <3>2 DEF Longest
      <4>2. RenewMsecs[n] = n * 2000
        BY <3>1, <3>2
      <4>3. QED
        BY <4>1, <4>2
    <3>3. CASE ~(n < 10)
      BY <1>0, <3>1, <3>3
    <3>4. QED
      BY <3>2, <3>3
  <2>6. RebindMsecs[n] \in 0 .. Longest /\ (n # 0 => RebindMsecs[n] > 0)
    <3>1. RebindMsecs[n] = IF n < 10 THEN n * 1000 ELSE 10 * 1000
      BY <2>2
    <3>2. CASE n < 10
      <4>1. n * 1000 \in 0 .. Longest /\ (n # 0 => n * 1000 > 0)
        BY <2>1, <3>2 DEF Longest
      <4>2. RebindMsecs[n] = n * 1000
        BY <3>1, <3>2
      <4>3. QED
        BY <4>1, <4>2
    <3>3. CASE ~(n < 10)
      BY <1>0, <3>1, <3>3
    <3>4. QED
      BY <3>2, <3>3
  <2>7. QED
    BY <2>3, <2>4, <2>5, <2>6
<1>3. QED
  BY <1>2, Zenon DEF Table

\* The end of each request leaves a time-out running, or tries at 0.
LEMMA RetryFacts ==
  ASSUME NEW s \in Client, NEW msecs, Table(msecs)
  PROVE  \E n \in Tries, t \in 0 .. TimerRange - 1 :
           (t > 0 \/ n = 0) /\ Retry(s, msecs) = [s EXCEPT !.tries = n, !.timeout = t]
<1> DEFINE n == (s.tries + 1) % TriesRange
<1>1. n \in Tries
  <2>1. s.tries \in Nat /\ TriesRange \in Nat \ {0}
    BY DhcpAssumption DEF Client, Tries
  <2>2. QED
    BY <2>1 DEF Tries
<1>2. Fine(msecs[n]) \in 0 .. TimerRange - 1 /\ (n # 0 => Fine(msecs[n]) > 0)
  <2>1. msecs[n] \in 0 .. Longest /\ (n # 0 => msecs[n] > 0)
    BY <1>1, Zenon DEF Table
  <2> HIDE DEF n
  <2>2. Fine(msecs[n]) \in 0 .. TimerRange - 1 /\ (msecs[n] > 0 => Fine(msecs[n]) > 0)
    BY <2>1, FineFits, Zenon
  <2>3. QED
    BY <2>1, <2>2
<1>3. Fine(msecs[n]) % TimerRange = Fine(msecs[n])
  <2>1. TimerRange \in Nat \ {0}
    BY DhcpAssumption
  <2>2. QED
    BY <1>2, <2>1
<1>4. Retry(s, msecs) = [s EXCEPT !.tries = n, !.timeout = Fine(msecs[n])]
  BY <1>3 DEF Retry
<1> HIDE DEF n
<1>5. QED
  BY <1>1, <1>2, <1>4

\* A client as dhcp.c keeps it, and what most of its functions leave alone.
Good(s) == s \in Client /\ Matched(s)

Same(s, t) == t.ip = s.ip /\ t.offered = s.offered /\ t.crossed = s.crossed

SameWire(s, t) == t.replies = s.replies /\ t.acked = s.acked /\ t.asked = s.asked

LEMMA RetryStep ==
  ASSUME NEW s, Good(s), NEW msecs, Table(msecs)
  PROVE  LET t == Retry(s, msecs)
         IN Good(t) /\ Asking(t) /\ Same(s, t) /\ SameWire(s, t) /\ t.state = s.state
<1>1. PICK n \in Tries, m \in 0 .. TimerRange - 1 :
        (m > 0 \/ n = 0) /\ Retry(s, msecs) = [s EXCEPT !.tries = n, !.timeout = m]
  BY RetryFacts DEF Good
<1> DEFINE t == Retry(s, msecs)
<1>2. /\ t.tries = n /\ t.timeout = m /\ t.state = s.state /\ Same(s, t)
      /\ SameWire(s, t) /\ t \in Client
  BY <1>1 DEF Good, Client, Same, SameWire
<1> HIDE DEF t
<1>3. Good(t) /\ Asking(t)
  BY <1>1, <1>2 DEF Good, Matched, Asking, SameWire
<1>4. QED
  BY <1>2, <1>3 DEF t

LEMMA SetStateStep ==
  ASSUME NEW s, Good(s), NEW new \in States
  PROVE  LET t == SetState(s, new)
         IN /\ Good(t) /\ Same(s, t) /\ SameWire(s, t)
            /\ t.state = new /\ t.deaf = s.deaf /\ t.timeout = s.timeout
<1> DEFINE t == SetState(s, new)
<1>1. 0 \in Tries
  BY DhcpAssumption DEF Tries
<1>2. CASE s.state = new
  BY <1>2 DEF SetState, Same, SameWire
<1>3. CASE s.state # new
  <2>1. t = [s EXCEPT !.state = new, !.tries = 0]
    BY <1>3 DEF SetState
  <2> HIDE DEF t
  <2>2. /\ t \in Client /\ t.state = new /\ Same(s, t) /\ SameWire(s, t)
        /\ t.deaf = s.deaf /\ t.timeout = s.timeout
    BY <1>1, <2>1 DEF Good, Client, Same, SameWire
  <2>3. Good(t)
    BY <2>2 DEF Good, Matched, SameWire
  <2>4. QED
    BY <2>2, <2>3 DEF t
<1>4. QED
  BY <1>2, <1>3

\* A new request: no reply that is under way is fresh any more.
LEMMA SendStep ==
  ASSUME NEW s, s \in Client, NEW kind \in Requests, NEW addr \in Addrs \cup {ANY, FIXED}
  PROVE  LET t == Send(s, kind, addr)
         IN Good(t) /\ Same(s, t) /\ t.state = s.state /\ t.deaf = s.deaf /\ t.asked.addr = addr
<1> DEFINE t == Send(s, kind, addr)
           R == {[r EXCEPT !.fresh = FALSE] : r \in s.replies}
<1>1. R \subseteq Replies /\ \A r \in R : ~r.fresh
  <2>1. s.replies \subseteq Replies
    BY DEF Client
  <2>2. ASSUME NEW q \in R PROVE q \in Replies /\ ~q.fresh
    <3>1. PICK r \in Replies : q = [r EXCEPT !.fresh = FALSE]
      BY <2>1
    <3>2. QED
      BY <3>1 DEF Replies
  <2>3. QED
    BY <2>2
<1>2. t = [s EXCEPT !.asked = [kind |-> kind, addr |-> addr], !.replies = R, !.acked = FALSE]
  BY DEF Send
<1> HIDE DEF R, t
<1>3. /\ t \in Client /\ Same(s, t) /\ t.state = s.state /\ t.replies = R
      /\ t.deaf = s.deaf /\ t.asked.addr = addr
  BY <1>1, <1>2 DEF Client, Same
<1>4. Good(t)
  BY <1>1, <1>3 DEF Good, Matched
<1>5. QED
  BY <1>3, <1>4 DEF t

LEMMA DiscoverStep ==
  ASSUME NEW s, Good(s), NEW ok \in BOOLEAN
  PROVE  LET t == Discover(s, ok)
         IN Good(t) /\ Asking(t) /\ t.state \in {s.state, "SELECTING"}
<1> DEFINE u == [s EXCEPT !.offered = ANY, !.deaf = FALSE]
           v == Send(u, "DISCOVER", ANY)
           w == SetState(v, "SELECTING")
           x == IF ok THEN w ELSE u
           t == Discover(s, ok)
<1>1. Good(u) /\ u.state = s.state
  <2>1. u \in Client /\ u.state = s.state /\ SameWire(s, u)
    BY DEF Good, Client, SameWire
  <2> HIDE DEF u
  <2>2. QED
    BY <2>1 DEF Good, Matched, SameWire
<1>2. t = Retry(x, DiscoverMsecs)
  BY DEF Discover
<1> HIDE DEF u
<1>3. Good(v)
  BY <1>1, SendStep DEF Good, Requests
<1> HIDE DEF v
<1>4. Good(w) /\ w.state = "SELECTING"
  BY <1>3, SetStateStep DEF States
<1> HIDE DEF w
<1>5. Good(x) /\ x.state \in {s.state, "SELECTING"}
  BY <1>1, <1>4
<1> HIDE DEF x
<1>6. Good(t) /\ Asking(t) /\ t.state = x.state
  BY <1>2, <1>5, RetryStep, Tables
<1>7. QED
  BY <1>5, <1>6

LEMMA SelectStep ==
  ASSUME NEW s, Good(s), NEW ok \in BOOLEAN
  PROVE  LET t == Select(s, ok)
         IN Good(t) /\ Asking(t) /\ Same(s, t) /\ t.state \in {s.state, "REQUESTING"}
<1> DEFINE v == Send(s, "REQUEST", s.offered)
           w == SetState(v, "REQUESTING")
           x == IF ok THEN w ELSE s
           t == Select(s, ok)
<1>1. s.offered \in Addrs \cup {ANY, FIXED} /\ s \in Client
  BY DEF Good, Client
<1>2. t = Retry(x, SelectMsecs)
  BY DEF Select
<1>3. Good(v) /\ Same(s, v)
  BY <1>1, SendStep DEF Requests
<1> HIDE DEF v
<1>4. Good(w) /\ Same(v, w) /\ w.state = "REQUESTING"
  BY <1>3, SetStateStep DEF States
<1> HIDE DEF w
<1>5. Good(x) /\ Same(s, x) /\ x.state \in {s.state, "REQUESTING"}
  BY <1>3, <1>4 DEF Same
<1> HIDE DEF x
<1>6. Good(t) /\ Asking(t) /\ Same(x, t) /\ t.state = x.state
  BY <1>2, <1>5, RetryStep, Tables
<1> HIDE DEF t
<1>7. Same(s, t) /\ t.state \in {s.state, "REQUESTING"}
  BY <1>5, <1>6 DEF Same
<1>8. QED
  BY <1>6, <1>7 DEF t

LEMMA RenewStep ==
  ASSUME NEW s, Good(s), NEW ok \in BOOLEAN
  PROVE  LET t == Renew(s, ok)
         IN Good(t) /\ Asking(t) /\ t.state = "RENEWING" /\ (Holding(s) => Holding(t))
<1> DEFINE v == SetState(s, "RENEWING")
           w == Send(v, "RENEW", s.ip)
           x == IF ok THEN w ELSE v
           t == Renew(s, ok)
<1>1. s.ip \in Addrs \cup {ANY, FIXED}
  BY DEF Good, Client
<1>2. t = Retry(x, RenewMsecs)
  BY DEF Renew
<1>3. Good(v) /\ Same(s, v) /\ SameWire(s, v) /\ v.state = "RENEWING"
  BY SetStateStep DEF States
<1> HIDE DEF v
<1>4. Good(w) /\ Same(v, w) /\ w.state = v.state /\ w.asked.addr = s.ip
  BY <1>1, <1>3, SendStep DEF Good, Requests
<1> HIDE DEF w
<1>5. Good(x) /\ x.state = "RENEWING" /\ (Holding(s) => Holding(x))
  BY <1>3, <1>4 DEF Same, SameWire, Holding
<1> HIDE DEF x
<1>6. Good(t) /\ Asking(t) /\ Same(x, t) /\ SameWire(x, t) /\ t.state = x.state
  BY <1>2, <1>5, RetryStep, Tables
<1> HIDE DEF t
<1>7. t.state = "RENEWING" /\ (Holding(s) => Holding(t))
  BY <1>5, <1>6 DEF Same, SameWire, Holding
<1>8. QED
  BY <1>6, <1>7 DEF t

LEMMA RebindStep ==
  ASSUME NEW s, Good(s), NEW ok \in BOOLEAN
  PROVE  LET t == Rebind(s, ok)
         IN Good(t) /\ Asking(t) /\ t.state = "REBINDING" /\ (Holding(s) => Holding(t))
<1> DEFINE v == SetState(s, "REBINDING")
           w == Send(v, "REBIND", s.ip)
           x == IF ok THEN w ELSE v
           t == Rebind(s, ok)
<1>1. s.ip \in Addrs \cup {ANY, FIXED}
  BY DEF Good, Client
<1>2. t = Retry(x, RebindMsecs)
  BY DEF Rebind
<1>3. Good(v) /\ Same(s, v) /\ SameWire(s, v) /\ v.state = "REBINDING"
  BY SetStateStep DEF States
<1> HIDE DEF v
<1>4. Good(w) /\ Same(v, w) /\ w.state = v.state /\ w.asked.addr = s.ip
  BY <1>1, <1>3, SendStep DEF Good, Requests
<1> HIDE DEF w
<1>5. Good(x) /\ x.state = "REBINDING" /\ (Holding(s) => Holding(x))
  BY <1>3, <1>4 DEF Same, SameWire, Holding
<1> HIDE DEF x
<1>6. Good(t) /\ Asking(t) /\ Same(x, t) /\ SameWire(x, t) /\ t.state = x.state
  BY <1>2, <1>5, RetryStep, Tables
<1> HIDE DEF t
<1>7. t.state = "REBINDING" /\ (Holding(s) => Holding(t))
  BY <1>5, <1>6 DEF Same, SameWire, Holding
<1>8. QED
  BY <1>6, <1>7 DEF t

\* dhcp_release leaves the interface without an address.
LEMMA ReleaseStep ==
  ASSUME NEW s, Good(s), NEW ok \in BOOLEAN
  PROVE  LET t == Release(s, ok)
         IN Good(t) /\ t.state = "OFF"
<1> DEFINE v == SetState(s, "OFF")
           w == Send(v, "RELEASE", s.ip)
           x == IF ok THEN w ELSE v
           u == Retry(x, RebindMsecs)
           t == Release(s, ok)
<1>1. s.ip \in Addrs \cup {ANY, FIXED}
  BY DEF Good, Client
<1>2. t = [u EXCEPT !.ip = ANY]
  BY DEF Release
<1>3. Good(v) /\ Same(s, v) /\ v.state = "OFF"
  BY SetStateStep DEF States
<1> HIDE DEF v
<1>4. Good(w) /\ Same(v, w) /\ w.state = v.state
  BY <1>1, <1>3, SendStep DEF Good, Requests
<1> HIDE DEF w
<1>5. Good(x) /\ Same(s, x) /\ x.state = "OFF"
  BY <1>3, <1>4 DEF Same
<1> HIDE DEF x
<1>6. Good(u) /\ Same(x, u) /\ u.state = x.state
  BY <1>5, RetryStep, Tables
<1> HIDE DEF u, t
<1>7. t \in Client /\ t.state = "OFF" /\ SameWire(u, t)
  BY <1>2, <1>5, <1>6 DEF Good, Client, SameWire
<1>8. Good(t)
  BY <1>6, <1>7 DEF Good, Matched, SameWire
<1>9. QED
  BY <1>7, <1>8 DEF t

\* dhcp_timeout: a client that waits asks again, for the address it holds if it
\* holds one.
LEMMA TimeoutStep ==
  ASSUME NEW s, Good(s), NEW ok \in BOOLEAN, NEW more \in BOOLEAN
  PROVE  LET t == Timeout(s, ok, more)
         IN Good(t) /\ Asking(t) /\ (Held(s) => Held(t))
<1> DEFINE t == Timeout(s, ok, more)
<1>1. CASE s.state \in {"BACKING_OFF", "SELECTING"}
  <2>1. t = Discover(s, ok)
    BY <1>1 DEF Timeout
  <2>2. Good(t) /\ Asking(t) /\ t.state \in {"BACKING_OFF", "SELECTING"}
    BY <1>1, <2>1, DiscoverStep
  <2> HIDE DEF t
  <2>3. QED
    BY <2>2 DEF Held, Renewing, t
<1>2. CASE s.state = "REQUESTING" /\ s.tries <= 5
  <2>1. t = Select(s, ok)
    BY <1>2 DEF Timeout
  <2>2. Good(t) /\ Asking(t) /\ Same(s, t) /\ t.state = "REQUESTING"
    BY <1>2, <2>1, SelectStep
  <2> HIDE DEF t
  <2>3. QED
    BY <1>2, <2>2 DEF Held, Same, Renewing, t
<1>3. CASE s.state = "RENEWING"
  <2>1. t = Renew(s, ok)
    BY <1>3 DEF Timeout
  <2>2. Good(t) /\ Asking(t) /\ t.state = "RENEWING" /\ (Holding(s) => Holding(t))
    BY <2>1, RenewStep
  <2> HIDE DEF t
  <2>3. QED
    BY <1>3, <2>2 DEF Held, Renewing, t
<1>4. CASE s.state = "REBINDING" /\ s.tries <= 8
  <2>1. t = Rebind(s, ok)
    BY <1>4 DEF Timeout
  <2>2. Good(t) /\ Asking(t) /\ t.state = "REBINDING" /\ (Holding(s) => Holding(t))
    BY <2>1, RebindStep
  <2> HIDE DEF t
  <2>3. QED
    BY <1>4, <2>2 DEF Held, Renewing, t
<1>5. CASE \/ s.state = "REQUESTING" /\ ~(s.tries <= 5)
           \/ s.state = "REBINDING" /\ ~(s.tries <= 8)
  <2> DEFINE u == Release(s, ok)
  <2>1. t = Discover(u, more)
    BY <1>5 DEF Timeout
  <2>2. Good(u) /\ u.state = "OFF"
    BY ReleaseStep
  <2> HIDE DEF u
  <2>3. Good(t) /\ Asking(t) /\ t.state \in {"OFF", "SELECTING"}
    BY <2>1, <2>2, DiscoverStep
  <2> HIDE DEF t
  <2>4. QED
    BY <2>3 DEF Held, Renewing, t
<1>6. CASE s.state \in {"OFF", "BOUND"}
  <2>1. t = s
    BY <1>6 DEF Timeout
  <2>2. QED
    BY <1>6, <2>1 DEF Asking
<1>7. s.state \in States
  BY DEF Good, Client
<1>8. QED
  BY <1>1, <1>2, <1>3, <1>4, <1>5, <1>6, <1>7 DEF States

LEMMA DownFits ==
  ASSUME NEW n \in 0 .. TimerRange - 1
  PROVE  Down(n) \in 0 .. TimerRange - 1 /\ (n > 1 => Down(n) > 0)
<1>1. TimerRange \in Nat \ {0} /\ n \in Nat /\ n <= TimerRange - 1
  BY DhcpAssumption
<1>2. CASE n > 0
  <2>1. n - 1 \in 0 .. TimerRange - 1
    BY <1>1, <1>2
  <2>2. Down(n) = n - 1
    BY <1>1, <2>1 DEF Down
  <2>3. QED
    BY <1>1, <2>1, <2>2
<1>3. CASE n = 0
  <2>1. Down(n) \in 0 .. TimerRange - 1
    BY <1>1, <1>3 DEF Down
  <2>2. QED
    BY <1>3, <2>1
<1>4. QED
  BY <1>1, <1>2, <1>3

LEMMA FineTmrStep ==
  ASSUME NEW s, Good(s), Asking(s), NEW ok \in BOOLEAN, NEW more \in BOOLEAN
  PROVE  LET t == FineTmr(s, ok, more)
         IN Good(t) /\ Asking(t) /\ (Held(s) => Held(t))
<1> DEFINE u == [s EXCEPT !.timeout = Down(@)]
           t == FineTmr(s, ok, more)
<1>1. s \in Client /\ s.timeout \in 0 .. TimerRange - 1
  BY DEF Good, Client
<1>2. Down(s.timeout) \in 0 .. TimerRange - 1 /\ (s.timeout > 1 => Down(s.timeout) > 0)
  BY <1>1, DownFits
<1>3. /\ u \in Client /\ Same(s, u) /\ SameWire(s, u) /\ u.state = s.state
      /\ u.tries = s.tries /\ u.deaf = s.deaf /\ u.timeout = Down(s.timeout)
  BY <1>1, <1>2 DEF Client, Same, SameWire
<1> HIDE DEF u
<1>4. Good(u) /\ (Held(s) => Held(u))
  BY <1>3 DEF Good, Matched, Held, Holding, Same, SameWire
<1>5. CASE s.timeout = 1
  <2>1. t = Timeout(u, ok, more)
    BY <1>5 DEF FineTmr, u
  <2>2. QED
    BY <1>4, <2>1, TimeoutStep
<1>6. CASE s.timeout # 1
  <2>1. t = u
    BY <1>6 DEF FineTmr, u
  <2>2. Asking(u)
    BY <1>1, <1>2, <1>3, <1>6 DEF Asking
  <2>3. QED
    BY <1>4, <2>1, <2>2
<1>7. QED
  BY <1>5, <1>6

\* dhcp_coarse_tmr: what is renewed is what is held, unless a lease timer acts
\* on a client that is requesting a new address, which is noted.
LEMMA CoarseTmrStep ==
  ASSUME NEW s, Good(s), Asking(s), Held(s), NEW ok \in BOOLEAN
  PROVE  LET t == CoarseTmr(s, ok)
         IN Good(t) /\ Asking(t) /\ Held(t)
<1> DEFINE v == [s EXCEPT !.t2 = Down(@)]
           u == [v EXCEPT !.t1 = Down(@)]
           t == CoarseTmr(s, ok)
           Kept(x) == /\ x \in Client /\ x.state = s.state /\ Same(s, x) /\ SameWire(s, x)
                      /\ x.tries = s.tries /\ x.timeout = s.timeout /\ x.deaf = s.deaf
<1>0. t = IF s.t2 = 1 THEN IF HasLease(s) THEN Rebind(Noting(v), ok) ELSE v
          ELSE IF s.t1 = 1 THEN IF HasLease(s) THEN Renew(Noting(u), ok) ELSE u
          ELSE u
  BY DEF CoarseTmr
<1> HIDE DEF t
<1>1. s \in Client /\ s.t1 \in 0 .. TimerRange - 1 /\ s.t2 \in 0 .. TimerRange - 1
  BY DEF Good, Client
<1>2. Down(s.t1) \in 0 .. TimerRange - 1 /\ Down(s.t2) \in 0 .. TimerRange - 1
  BY <1>1, DownFits
<1>3. Kept(v) /\ v.t1 = s.t1
  BY <1>1, <1>2 DEF Client, Same, SameWire
<1> HIDE DEF v
<1>4. Kept(u)
  BY <1>1, <1>2, <1>3 DEF Client, Same, SameWire
<1> HIDE DEF u
<1>5. ASSUME NEW x, Kept(x)
      PROVE  /\ Good(x) /\ Asking(x) /\ Held(x)
             /\ Good(Noting(x)) /\ (HasLease(s) => Holding(Noting(x)))
  <2>1. Good(x) /\ Asking(x) /\ Held(x)
    BY <1>5 DEF Good, Matched, Asking, Held, Holding, Same, SameWire
  <2> DEFINE y == Noting(x)
             cr == x.crossed \/ x.state = "REQUESTING"
  <2>2. cr \in BOOLEAN /\ y = [x EXCEPT !.crossed = cr]
    BY DEF Noting
  <2> HIDE DEF cr, y
  <2>3. /\ y \in Client /\ SameWire(x, y) /\ y.crossed = cr
        /\ y.ip = x.ip /\ y.offered = x.offered
    BY <2>1, <2>2 DEF Good, Client, SameWire
  <2>4. Good(y)
    BY <2>1, <2>3 DEF Good, Matched, SameWire
  <2>5. ASSUME HasLease(s) PROVE Holding(y)
    <3>1. CASE x.state = "REQUESTING"
      <4>1. cr /\ x.offered \in Addrs
        BY <2>1, <3>1 DEF cr, Held
      <4>2. QED
        BY <2>3, <4>1 DEF Holding
    <3>2. CASE x.state \in {"BOUND", "RENEWING"}
      <4>1. Holding(x) /\ (~cr => ~x.crossed)
        BY <2>1, <3>2 DEF Held, Renewing, cr
      <4>2. QED
        BY <2>3, <4>1 DEF Holding, SameWire
    <3>3. QED
      BY <1>5, <2>5, <3>1, <3>2 DEF HasLease
  <2>6. QED
    BY <2>1, <2>4, <2>5 DEF y
<1> HIDE DEF Kept
<1>6. CASE s.t2 = 1 /\ HasLease(s)
  <2>1. t = Rebind(Noting(v), ok)
    BY <1>0, <1>6
  <2>2. Good(t) /\ Asking(t) /\ t.state = "REBINDING" /\ Holding(t)
    BY <1>3, <1>5, <1>6, <2>1, RebindStep
  <2>3. QED
    BY <2>2 DEF Held, Renewing, t
<1>7. CASE s.t2 # 1 /\ s.t1 = 1 /\ HasLease(s)
  <2>1. t = Renew(Noting(u), ok)
    BY <1>0, <1>7
  <2>2. Good(t) /\ Asking(t) /\ t.state = "RENEWING" /\ Holding(t)
    BY <1>4, <1>5, <1>7, <2>1, RenewStep
  <2>3. QED
    BY <2>2 DEF Held, Renewing, t
<1>8. CASE ~(s.t2 = 1 /\ HasLease(s)) /\ ~(s.t2 # 1 /\ s.t1 = 1 /\ HasLease(s))
  <2>1. t = v \/ t = u
    BY <1>0, <1>8
  <2>2. QED
    BY <1>3, <1>4, <1>5, <2>1 DEF t
<1>9. QED
  BY <1>6, <1>7, <1>8

LEMMA ArmedFits ==
  ASSUME NEW n \in Nat \cup {Infinite}, NEW p \in 0 .. TimerRange - 1
  PROVE  Armed(p, n) \in 0 .. TimerRange - 1
<1>1. TimerRange \in Nat /\ 1 < TimerRange
  <2>1. Longest \in 0 .. Longest /\ Longest > 0
    BY DEF Longest
  <2>2. Fine(Longest) \in 0 .. TimerRange - 1 /\ Fine(Longest) > 0
    BY <2>1, FineFits
  <2>3. TimerRange \in Nat
    BY DhcpAssumption
  <2>4. QED
    BY <2>2, <2>3
<1>2. CASE n = Infinite
  BY <1>2 DEF Armed
<1>3. CASE n # Infinite
  <2>1. n \in Nat /\ n % TimerRange \in 0 .. TimerRange - 1
    BY <1>1, <1>3
  <2>2. QED
    BY <1>1, <1>3, <2>1 DEF Armed
<1>4. QED
  BY <1>2, <1>3

\* dhcp_bind: the interface gets the offered address.
LEMMA BindStep ==
  ASSUME NEW s, Good(s)
  PROVE  LET t == Bind(s)
         IN /\ Good(t) /\ t.state = "BOUND" /\ t.ip = s.offered /\ SameWire(s, t)
            /\ t.offered = s.offered /\ t.crossed = s.crossed
<1> DEFINE a == Armed(s.t1, s.lease.t1)
           b == Armed(s.t2, s.lease.t2)
           v == [s EXCEPT !.t1 = a, !.t2 = b, !.ip = s.offered]
           t == Bind(s)
<1>1. /\ s \in Client /\ s.t1 \in 0 .. TimerRange - 1 /\ s.t2 \in 0 .. TimerRange - 1
      /\ s.lease \in Leases /\ s.offered \in Addrs \cup {ANY}
  BY DEF Good, Client
<1>2. s.lease.t1 \in Nat \cup {Infinite} /\ s.lease.t2 \in Nat \cup {Infinite}
  BY <1>1, DhcpAssumption
<1>3. a \in 0 .. TimerRange - 1 /\ b \in 0 .. TimerRange - 1
  BY <1>1, <1>2, ArmedFits
<1>4. t = SetState(v, "BOUND")
  BY DEF Bind
<1> HIDE DEF a, b
<1>5. /\ v \in Client /\ v.ip = s.offered /\ SameWire(s, v)
      /\ v.offered = s.offered /\ v.crossed = s.crossed
  BY <1>1, <1>3 DEF Client, SameWire
<1> HIDE DEF v
<1>6. Good(v)
  BY <1>5 DEF Good, Matched, SameWire
<1>7. Good(t) /\ Same(v, t) /\ SameWire(v, t) /\ t.state = "BOUND"
  BY <1>4, <1>6, SetStateStep DEF States
<1> HIDE DEF t
<1>8. QED
  BY <1>5, <1>7 DEF Same, SameWire, t

\* dhcp_recv, with a reply that is for the last request if it is still fresh.
LEMMA RecvStep ==
  ASSUME NEW s, Good(s), Asking(s), NEW r \in Replies, NEW ok \in BOOLEAN,
         r.kind = "ACK" /\ r.fresh => s.acked /\ r.addr = s.asked.addr
  PROVE  LET t == Recv(s, r, ok)
         IN Good(t) /\ Asking(t) /\ (Held(s) => Held(t))
<1> DEFINE u == [s EXCEPT !.timeout = 0]
           v == HandleAck(u, r)
           w == [u EXCEPT !.timeout = Fine(10 * 1000)]
           x == [u EXCEPT !.offered = r.addr]
           y == [u EXCEPT !.deaf = TRUE]
           t == Recv(s, r, ok)
<1>1. /\ s \in Client /\ 0 \in 0 .. TimerRange - 1 /\ Fine(10 * 1000) \in 0 .. TimerRange - 1
      /\ Fine(10 * 1000) > 0 /\ r.lease \in Leases /\ r.addr \in Addrs
  <2> DEFINE m == 10 * 1000
  <2>1. m \in 0 .. Longest /\ m > 0
    BY DEF Longest
  <2> HIDE DEF m
  <2>2. Fine(m) \in 0 .. TimerRange - 1 /\ Fine(m) > 0
    BY <2>1, FineFits
  <2>3. s \in Client /\ 0 \in 0 .. TimerRange - 1 /\ r.lease \in Leases /\ r.addr \in Addrs
    BY DhcpAssumption DEF Good, Replies
  <2>4. QED
    BY <2>2, <2>3 DEF m
<1>2. u \in Client /\ Same(s, u) /\ SameWire(s, u) /\ u.state = s.state
  BY <1>1 DEF Client, Same, SameWire
<1>3. \/ t = s
      \/ r.fresh /\ r.kind = "ACK" /\ s.state = "REQUESTING" /\ t = Bind(v)
      \/ r.fresh /\ r.kind = "ACK" /\ s.state \in Renewing /\ t = Bind(u)
      \/ s.state \in Renewing \cup {"REQUESTING"} /\ t = SetState(w, "BACKING_OFF")
      \/ s.state = "SELECTING" /\ (t = Select(x, ok) \/ t = y)
  BY DEF Recv, HandleNak, HandleOffer
<1>4. Good(u)
  BY <1>2 DEF Good, Matched, SameWire
<1>5. CASE t = s
  BY <1>5
<1> HIDE DEF u, t
<1>6. CASE r.fresh /\ r.kind = "ACK" /\ s.state = "REQUESTING" /\ t = Bind(v)
  <2>1. v \in Client /\ v.offered = r.addr /\ ~v.crossed /\ SameWire(u, v)
    BY <1>1, <1>2 DEF HandleAck, Client, SameWire
  <2> HIDE DEF v
  <2>2. Good(v)
    BY <1>4, <2>1 DEF Good, Matched, SameWire
  <2>3. /\ Good(t) /\ t.state = "BOUND" /\ t.ip = v.offered /\ SameWire(v, t)
        /\ t.offered = v.offered /\ t.crossed = v.crossed
    BY <1>6, <2>2, BindStep
  <2>4. t.acked /\ t.ip = t.offered /\ t.ip = t.asked.addr /\ t.offered \in Addrs
    BY <1>1, <1>2, <1>6, <2>1, <2>3 DEF SameWire
  <2>5. QED
    BY <2>3, <2>4 DEF Asking, Held, Holding, t
<1>7. CASE r.fresh /\ r.kind = "ACK" /\ s.state \in Renewing /\ t = Bind(u)
  <2>1. /\ Good(t) /\ t.state = "BOUND" /\ t.ip = u.offered /\ SameWire(u, t)
        /\ t.offered = u.offered /\ t.crossed = u.crossed
    BY <1>4, <1>7, BindStep
  <2>2. t.acked /\ t.ip = t.offered
    BY <1>2, <1>7, <2>1 DEF SameWire
  <2>3. Holding(s) => Holding(t)
    BY <1>2, <2>1, <2>2 DEF Holding, Same, SameWire
  <2>4. QED
    BY <1>7, <2>1, <2>2, <2>3 DEF Asking, Held, t
<1>8. CASE s.state \in Renewing \cup {"REQUESTING"} /\ t = SetState(w, "BACKING_OFF")
  <2>1. w \in Client /\ w.timeout = Fine(10 * 1000) /\ SameWire(u, w)
    BY <1>1, <1>2 DEF Client, SameWire
  <2> HIDE DEF w
  <2>2. Good(w)
    BY <1>4, <2>1 DEF Good, Matched, SameWire
  <2>3. Good(t) /\ t.state = "BACKING_OFF" /\ t.timeout = w.timeout
    BY <1>8, <2>2, SetStateStep DEF States
  <2>4. Asking(t)
    BY <1>1, <2>1, <2>3 DEF Asking
  <2>5. Held(t)
    BY <2>3 DEF Held, Renewing
  <2>6. QED
    BY <2>3, <2>4, <2>5 DEF t
<1>9. CASE s.state = "SELECTING" /\ t = Select(x, ok)
  <2>1. x \in Client /\ x.state = u.state /\ x.offered = r.addr /\ SameWire(u, x)
    BY <1>1, <1>2 DEF Client, SameWire
  <2> HIDE DEF x
  <2>2. Good(x)
    BY <1>4, <2>1 DEF Good, Matched, SameWire
  <2>3. Good(t) /\ Asking(t) /\ Same(x, t) /\ t.state \in {x.state, "REQUESTING"}
    BY <1>9, <2>2, SelectStep
  <2>4. Held(t)
    BY <1>1, <1>2, <1>9, <2>1, <2>3 DEF Held, Same, Renewing
  <2>5. QED
    BY <2>3, <2>4 DEF t
<1>10. CASE s.state = "SELECTING" /\ t = y
  <2>1. y \in Client /\ y.state = u.state /\ y.deaf /\ SameWire(u, y)
    BY <1>1, <1>2 DEF Client, SameWire
  <2> HIDE DEF y
  <2>2. Good(y) /\ Asking(y)
    BY <1>4, <2>1 DEF Good, Matched, Asking, SameWire
  <2>3. Held(y)
    BY <1>2, <1>10, <2>1 DEF Held, Renewing
  <2>4. QED
    BY <1>10, <2>2, <2>3 DEF t
<1>11. QED
  BY <1>3, <1>5, <1>6, <1>7, <1>8, <1>9, <1>10 DEF t

-----------------------------------------------------------------------------
(* The loop *)

LEMMA Parts ==
  ASSUME NetLoopInv
  PROVE  Good(client) /\ (up => Asking(client)) /\ Held(client)
<1>1. Good(client) /\ (up => Asking(client))
  BY DEF NetLoopInv, TypeOK, Good, AcksAnswer, Matched, WillAskAgain, Asking
<1>2. Held(client)
  BY DEF NetLoopInv, BoundToOffer, Held, Holding
<1>3. QED
  BY <1>1, <1>2

LEMMA Whole ==
  ASSUME TypeOK, FallbackIsFinal, Good(client), up => Asking(client), Held(client)
  PROVE  NetLoopInv
<1>1. AcksAnswer /\ WillAskAgain
  BY DEF Good, AcksAnswer, Matched, WillAskAgain, Asking
<1>2. BoundToOffer
  BY DEF BoundToOffer, Held, Holding
<1>3. QED
  BY <1>1, <1>2 DEF NetLoopInv

\* dhcp_start.
LEMMA StartFacts == Good(Start) /\ Asking(Start) /\ Held(Start)
<1> DEFINE l == CHOOSE l \in Leases : TRUE
<1>1. l \in Leases
  BY DhcpAssumption
<1>2. 0 \in Tries /\ 0 \in 0 .. TimerRange - 1
  BY DhcpAssumption DEF Tries
<1> HIDE DEF l
<1>3. Fresh \in Client /\ Fresh.replies = {} /\ Fresh.state = "OFF"
  BY <1>1, <1>2 DEF Fresh, Client, States, Requests, l
<1>4. Good(Fresh)
  BY <1>3 DEF Good, Matched
<1>5. Good(Start) /\ Asking(Start) /\ Start.state \in {"OFF", "SELECTING"}
  BY <1>3, <1>4, DiscoverStep DEF Start
<1>6. Held(Start)
  BY <1>5 DEF Held, Renewing
<1>7. QED
  BY <1>5, <1>6

LEMMA InitNetLoopInv == Init => NetLoopInv
<1> SUFFICES ASSUME Init PROVE NetLoopInv
  OBVIOUS
<1>1. Good(client) /\ Asking(client) /\ Held(client)
  BY StartFacts DEF Init
<1>2. TypeOK
  <2>1. 0 \in 0 .. CoarseTicks /\ 0 \in 0 .. ResetPresses
    BY NetLoopAssumption
  <2>2. QED
    BY <1>1, <2>1 DEF Init, TypeOK, Good
<1>3. FallbackIsFinal
  BY DEF Init, FallbackIsFinal
<1>4. QED
  BY <1>1, <1>2, <1>3, Whole DEF Init

\* What a round of the timers does: fall back; nothing to the client once it is gone;
\* the coarse timer; or the fine timer or none.
LEMMA QuietCases ==
  ASSUME NetLoopInv, Quiet
  PROVE  /\ divisor' \in 0 .. CoarseTicks /\ first' \in BOOLEAN
         /\ gotIP' \in BOOLEAN /\ up' \in BOOLEAN
         /\ started' = IF started = "none" /\ (gotIP' \/ client'.state = "BOUND") THEN tool ELSE started
         /\ \/ /\ client' = Fallback(client) /\ ~up' /\ ~first' /\ gotIP'
            \/ /\ ~up /\ client' = client /\ ~up' /\ (gotIP' <=> gotIP) /\ (first' => first)
            \/ /\ up /\ up' /\ (gotIP' <=> gotIP) /\ ~first'
               /\ \E ok \in BOOLEAN : client' = CoarseTmr(client, ok)
            \/ /\ up /\ up' /\ (gotIP' <=> gotIP) /\ (first' <=> first)
               /\ \/ client' = client
                  \/ \E ok, more \in BOOLEAN : client' = FineTmr(client, ok, more)
<1> DEFINE minute == divisor = CoarseTicks
           fails == minute /\ Failed
           div == IF minute THEN 0 ELSE divisor + 1
<1>1. PICK ok \in BOOLEAN, more \in BOOLEAN :
        LET s0 == IF fails THEN Fallback(client) ELSE client
            s1 == IF minute /\ up /\ ~fails THEN CoarseTmr(s0, ok) ELSE s0
            s2 == IF div % 2 = 1 /\ up /\ ~fails THEN FineTmr(s1, ok, more) ELSE s1
        IN /\ client' = s2
           /\ up' = (up /\ ~fails)
           /\ divisor' = div
           /\ first' = (first /\ ~minute)
           /\ gotIP' = Noted(fails)
           /\ started' = IF started = "none" /\ (gotIP' \/ HasAddress(s2)) THEN tool ELSE started
  BY Zenon DEF Quiet
<1>2. /\ divisor \in 0 .. CoarseTicks /\ first \in BOOLEAN /\ gotIP \in BOOLEAN /\ up \in BOOLEAN
      /\ CoarseTicks \in Nat
  BY NetLoopAssumption DEF NetLoopInv, TypeOK
<1>3. div \in 0 .. CoarseTicks /\ (minute => ~(div % 2 = 1))
  BY <1>2
<1>4. fails => minute
  OBVIOUS
<1> HIDE DEF minute, fails, div
<1>5. CASE fails
  BY <1>1, <1>2, <1>3, <1>4, <1>5 DEF Noted, HasAddress
<1>6. CASE ~fails /\ ~up
  BY <1>1, <1>2, <1>3, <1>6 DEF Noted, HasAddress
<1>7. CASE ~fails /\ up /\ minute
  <2>1. client' = CoarseTmr(client, ok)
    BY <1>1, <1>3, <1>7
  <2>2. QED
    BY <1>1, <1>2, <1>3, <1>7, <2>1 DEF Noted, HasAddress
<1>8. CASE ~fails /\ up /\ ~minute
  <2>1. client' = client \/ client' = FineTmr(client, ok, more)
    BY <1>1, <1>8
  <2>2. QED
    BY <1>1, <1>2, <1>3, <1>8, <2>1 DEF Noted, HasAddress
<1>9. QED
  BY <1>5, <1>6, <1>7, <1>8

LEMMA QuietStep ==
  ASSUME NetLoopInv, Quiet
  PROVE  NetLoopInv'
<1>1. Good(client) /\ (up => Asking(client)) /\ Held(client) /\ TypeOK /\ FallbackIsFinal
  BY Parts DEF NetLoopInv
<1>2. UNCHANGED <<tool, resetCount, rebooted>>
  BY DEF Quiet
<1>3. Good(client') /\ (up' => Asking(client')) /\ Held(client')
  <2>1. CASE client' = Fallback(client) /\ ~up'
    <3>1. client' \in Client /\ SameWire(client, client') /\ client'.state = "OFF"
      BY <1>1, <2>1 DEF Fallback, Good, Client, States, SameWire
    <3>2. QED
      BY <1>1, <2>1, <3>1 DEF Good, Matched, SameWire, Held, Renewing
  <2>2. CASE client' = client /\ (up' => up)
    BY <1>1, <2>2
  <2>3. CASE up /\ \E ok \in BOOLEAN : client' = CoarseTmr(client, ok)
    BY <1>1, <2>3, CoarseTmrStep
  <2>4. CASE up /\ \E ok, more \in BOOLEAN : client' = FineTmr(client, ok, more)
    BY <1>1, <2>4, FineTmrStep
  <2>5. QED
    BY <2>1, <2>2, <2>3, <2>4, QuietCases
<1>4. TypeOK'
  BY <1>1, <1>2, <1>3, QuietCases DEF TypeOK, Good
<1>5. FallbackIsFinal'
  <2>1. CASE client' = Fallback(client) /\ ~up' /\ ~first' /\ gotIP'
    <3>1. client'.ip = FIXED
      BY <1>1, <2>1 DEF Fallback, Good, Client
    <3>2. QED
      BY <2>1, <3>1 DEF FallbackIsFinal
  <2>2. CASE ~up /\ client' = client /\ ~up' /\ (gotIP' <=> gotIP) /\ (first' => first)
    <3>1. ~first /\ (started = "none" => gotIP)
      BY <1>1, <2>2 DEF FallbackIsFinal
    <3>2. started' = "none" => started = "none"
      BY QuietCases
    <3>3. QED
      BY <1>1, <2>2, <3>1, <3>2 DEF FallbackIsFinal
  <2>3. CASE up /\ up' /\ (gotIP' <=> gotIP)
    BY <1>1, <2>3 DEF FallbackIsFinal
  <2>4. QED
    BY <2>1, <2>2, <2>3, QuietCases
<1>6. AcksAnswer' /\ WillAskAgain'
  BY <1>3 DEF Good, AcksAnswer, Matched, WillAskAgain, Asking
<1>7. BoundToOffer'
  BY <1>3 DEF BoundToOffer, Held, Holding
<1>8. QED
  BY <1>4, <1>5, <1>6, <1>7 DEF NetLoopInv

\* A packet comes, gets lost, or is sent: only the client changes.
LEMMA ClientStep ==
  ASSUME NetLoopInv, Good(client'), up => Asking(client'), Held(client'),
         ~up => client'.ip = client.ip,
         UNCHANGED <<tool, up, divisor, first, gotIP, started, resetCount, rebooted>>
  PROVE  NetLoopInv'
<1>1. TypeOK /\ FallbackIsFinal
  BY DEF NetLoopInv
<1>2. TypeOK'
  BY <1>1 DEF TypeOK, Good
<1>3. FallbackIsFinal'
  BY <1>1 DEF FallbackIsFinal
<1>4. AcksAnswer' /\ WillAskAgain'
  BY DEF Good, AcksAnswer, Matched, WillAskAgain, Asking
<1>5. BoundToOffer'
  BY DEF BoundToOffer, Held, Holding
<1>6. QED
  BY <1>2, <1>3, <1>4, <1>5 DEF NetLoopInv

\* Taking a reply off the wire does nothing else to the client.
LEMMA Without ==
  ASSUME NEW s, Good(s), NEW r
  PROVE  LET t == [s EXCEPT !.replies = @ \ {r}]
         IN /\ Good(t) /\ t.ip = s.ip /\ t.acked = s.acked /\ t.asked = s.asked
            /\ (Asking(s) => Asking(t)) /\ (Held(s) => Held(t))
<1> DEFINE t == [s EXCEPT !.replies = @ \ {r}]
<1>1. /\ t \in Client /\ Same(s, t) /\ t.state = s.state /\ t.tries = s.tries
      /\ t.timeout = s.timeout /\ t.deaf = s.deaf
      /\ t.replies = s.replies \ {r} /\ t.acked = s.acked /\ t.asked = s.asked
  BY DEF Good, Client, Same
<1> HIDE DEF t
<1>2. Good(t) /\ (Asking(s) => Asking(t)) /\ (Held(s) => Held(t))
  BY <1>1 DEF Good, Matched, Asking, Held, Holding, Same
<1>3. QED
  BY <1>1, <1>2 DEF Same, t

LEMMA LostStep ==
  ASSUME NetLoopInv, Lost
  PROVE  NetLoopInv'
<1>1. PICK r \in client.replies : client' = [client EXCEPT !.replies = @ \ {r}]
  BY DEF Lost
<1>2. Good(client) /\ (up => Asking(client)) /\ Held(client)
  BY Parts
<1>3. /\ Good(client') /\ (up => Asking(client')) /\ client'.ip = client.ip
      /\ Held(client')
  BY <1>1, <1>2, Without
<1>4. QED
  BY <1>3, ClientStep DEF Lost

LEMMA PacketStep ==
  ASSUME NetLoopInv, Packet
  PROVE  NetLoopInv'
<1>1. PICK r \in client.replies, again \in BOOLEAN, ok \in BOOLEAN :
        LET t == IF again THEN client ELSE [client EXCEPT !.replies = @ \ {r}]
        IN client' = IF up THEN Recv(t, r, ok) ELSE t
  BY DEF Packet
<1> DEFINE t == IF again THEN client ELSE [client EXCEPT !.replies = @ \ {r}]
<1>2. Good(client) /\ (up => Asking(client)) /\ Held(client)
  BY Parts
<1>3. /\ Good(t) /\ t.ip = client.ip /\ t.acked = client.acked /\ t.asked = client.asked
      /\ (up => Asking(t)) /\ Held(t)
  BY <1>2, Without
<1>4. client' = IF up THEN Recv(t, r, ok) ELSE t
  BY <1>1
<1> HIDE DEF t
<1>5. r \in Replies /\ (r.kind = "ACK" /\ r.fresh => t.acked /\ r.addr = t.asked.addr)
  BY <1>2, <1>3 DEF Good, Matched, Client
<1>6. CASE up
  BY <1>3, <1>4, <1>5, <1>6, RecvStep, ClientStep DEF Packet
<1>7. CASE ~up
  BY <1>3, <1>4, <1>7, ClientStep DEF Packet
<1>8. QED
  BY <1>6, <1>7

\* A server's answer is for the last request.
LEMMA PutStep ==
  ASSUME NetLoopInv, Running, NEW kind \in {"OFFER", "ACK", "NAK"}, NEW a \in Addrs,
         NEW l \in Leases, NEW named \in BOOLEAN, kind = "ACK" => a = client.asked.addr,
         Put(kind, a, l, named), up,
         UNCHANGED <<tool, up, divisor, first, gotIP, started, resetCount, rebooted>>
  PROVE  NetLoopInv'
<1> DEFINE r == [kind |-> kind, addr |-> a, lease |-> l, named |-> named, fresh |-> TRUE]
<1>1. Good(client) /\ Asking(client) /\ Held(client)
  BY Parts
<1>2. client' = [client EXCEPT !.replies = @ \cup {r}, !.acked = @ \/ kind = "ACK"]
  BY DEF Put
<1>3. r \in Replies /\ r.kind = kind /\ r.addr = a
  BY DEF Replies
<1> HIDE DEF r
<1>4. /\ client' \in Client /\ Same(client, client') /\ client'.state = client.state
      /\ client'.tries = client.tries /\ client'.timeout = client.timeout
      /\ client'.deaf = client.deaf /\ client'.asked = client.asked
      /\ client'.replies = client.replies \cup {r}
  <2>1. (client.acked \/ kind = "ACK") \in BOOLEAN
    OBVIOUS
  <2>2. QED
    BY <1>1, <1>2, <1>3, <2>1 DEF Good, Client, Same
<1>5. client'.acked <=> client.acked \/ kind = "ACK"
  BY <1>1, <1>2, Zenon DEF Good, Client
<1>6. Good(client') /\ Asking(client')
  BY <1>1, <1>3, <1>4, <1>5 DEF Good, Matched, Asking
<1>7. Held(client')
  BY <1>1, <1>4, <1>5 DEF Held, Holding, Same
<1>8. QED
  BY <1>6, <1>7, ClientStep

LEMMA ServerStep ==
  ASSUME NetLoopInv, Server
  PROVE  NetLoopInv'
<1>1. AnyAddr \in Addrs /\ AnyLease \in Leases
  BY DhcpAssumption DEF AnyAddr, AnyLease
<1>2. CASE \E a \in Addrs, named \in BOOLEAN : Put("OFFER", a, AnyLease, named)
  BY <1>1, <1>2, PutStep DEF Server
<1>3. CASE client.asked.addr \in Addrs /\ \E l \in Leases : Put("ACK", client.asked.addr, l, TRUE)
  BY <1>3, PutStep DEF Server
<1>4. CASE Put("NAK", AnyAddr, AnyLease, TRUE)
  BY <1>1, <1>4, PutStep DEF Server
<1>5. QED
  BY <1>2, <1>3, <1>4 DEF Server

\* The reboot starts everything anew.
LEMMA ButtonStep ==
  ASSUME NetLoopInv, ButtonC
  PROVE  NetLoopInv'
<1>1. TypeOK /\ FallbackIsFinal /\ Good(client)
  BY Parts DEF NetLoopInv
<1>2. CASE resetCount < ResetPresses
  <2>1. resetCount' \in 0 .. ResetPresses
    BY <1>1, <1>2, NetLoopAssumption DEF ButtonC, TypeOK
  <2>2. UNCHANGED <<tool, client, up, divisor, first, gotIP, started, rebooted>>
    BY <1>2 DEF ButtonC, loopVars
  <2>3. TypeOK'
    BY <1>1, <2>1, <2>2 DEF TypeOK
  <2>4. QED
    BY <2>2, <2>3 DEF NetLoopInv, FallbackIsFinal, WillAskAgain, AcksAnswer, BoundToOffer
<1>3. CASE ~(resetCount < ResetPresses)
  <2>1. /\ rebooted' = TRUE /\ resetCount' = 0 /\ client' = Start /\ up' = TRUE
        /\ divisor' = 0 /\ first' = TRUE /\ gotIP' = FALSE /\ started' = "none" /\ tool' = tool
    BY <1>3 DEF ButtonC
  <2>2. 0 \in 0 .. CoarseTicks /\ 0 \in 0 .. ResetPresses
    BY NetLoopAssumption
  <2>3. TypeOK' /\ FallbackIsFinal'
    BY <1>1, <2>1, <2>2, StartFacts DEF TypeOK, FallbackIsFinal, Good
  <2>4. Good(client') /\ Asking(client') /\ Held(client')
    BY <2>1, StartFacts
  <2>5. AcksAnswer' /\ WillAskAgain'
    BY <2>4 DEF Good, AcksAnswer, Matched, WillAskAgain, Asking
  <2>6. BoundToOffer'
    BY <2>4 DEF BoundToOffer, Held, Holding
  <2>7. QED
    BY <2>3, <2>5, <2>6 DEF NetLoopInv
<1>4. QED
  BY <1>2, <1>3

LEMMA NextNetLoopInv == NetLoopInv /\ [Next]_vars => NetLoopInv'
<1> SUFFICES ASSUME NetLoopInv, [Next]_vars PROVE NetLoopInv'
  OBVIOUS
<1>1. CASE UNCHANGED vars
  BY <1>1 DEF vars, NetLoopInv, TypeOK, FallbackIsFinal, WillAskAgain, AcksAnswer, BoundToOffer
<1>2. QED
  BY <1>1, QuietStep, PacketStep, LostStep, ServerStep, ButtonStep DEF Next

LEMMA NetLoopInvariant == Spec => []NetLoopInv
  BY InitNetLoopInv, NextNetLoopInv, PTL DEF Spec

-----------------------------------------------------------------------------
(* The theorems *)

\* Type correctness of the loop and of the DHCP client.
THEOREM NetLoopTypes == Spec => []TypeOK
<1>1. NetLoopInv => TypeOK
  BY DEF NetLoopInv
<1>2. QED
  BY <1>1, NetLoopInvariant, PTL

\* run_lwip: no use of netif.dhcp after dhcp_stop, and no change of the fixed
\* address.
THEOREM FallbackStays == Spec => []FallbackIsFinal
<1>1. NetLoopInv => FallbackIsFinal
  BY DEF NetLoopInv
<1>2. QED
  BY <1>1, NetLoopInvariant, PTL

\* dhcp_fine_tmr: a client that waits for an answer has a time-out running.
THEOREM NoForgottenRequest == Spec => []WillAskAgain
<1>1. NetLoopInv => WillAskAgain
  BY DEF NetLoopInv
<1>2. QED
  BY <1>1, NetLoopInvariant, PTL

LEMMA StartStep ==
  ASSUME NetLoopInv, [Next]_vars, started = "none", started' # "none"
  PROVE  \/ /\ client'.ip \in Addrs /\ client'.acked
            /\ client'.ip = client'.asked.addr \/ client'.crossed
         \/ client'.ip = FIXED /\ ~up'
<1>1. Quiet
  BY DEF Next, vars, ButtonC, loopVars, Packet, Lost, Server
<1>2. NetLoopInv'
  BY <1>1, QuietStep
<1>3. CASE gotIP'
  BY <1>2, <1>3 DEF NetLoopInv, FallbackIsFinal
<1>4. CASE client'.state = "BOUND"
  BY <1>2, <1>4 DEF NetLoopInv, BoundToOffer
<1>5. QED
  BY <1>1, <1>3, <1>4, QuietCases

\* run_lwip: a tool is started with an address that a server acknowledged for
\* the client's last request, or with the fixed one and no client left to change
\* it, whatever the leases and their timers.  The one exception is an address
\* bound after a lease timer acted on a client that was requesting a new one.
THEOREM ToolsHaveAnAddress == Spec => StartsWithAddress
<1>1. NetLoopInv /\ [Next]_vars
        => [started = "none" /\ started' # "none" =>
              \/ /\ client'.ip \in Addrs /\ client'.acked
                 /\ client'.ip = client'.asked.addr \/ client'.crossed
              \/ client'.ip = FIXED /\ ~up']_vars
  BY StartStep
<1>2. QED
  BY <1>1, NetLoopInvariant, PTL DEF Spec, StartsWithAddress
=============================================================================
