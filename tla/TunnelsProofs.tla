--------------------------- MODULE TunnelsProofs ---------------------------
(***************************************************************************)
(* Proofs about the registry of the broker (module Tunnels), for every     *)
(* port range, every width of ports_used and every set of blocks.          *)
(***************************************************************************)
EXTENDS Tunnels, FiniteSetTheorems, WellFoundedInduction, TLAPS

----------------------------------------------------------------------------
(* Ports *)

\* A nonempty set of naturals has a least element, with nothing of it below.
LEMMA Least ==
    ASSUME NEW S \in SUBSET Nat, S # {}
    PROVE  \E m \in S : \A k \in S : m <= k
<1>1. PICK m \in S : \A y \in S : ~(<<y, m>> \in OpToRel(<, Nat))
  BY ONLY S \subseteq Nat, S # {}, NatLessThanWellFounded, WFMin, Zenon
<1>2. \A y \in S : <<y, m>> \in Nat \X Nat
  OBVIOUS
<1>3. \A y \in S : ~(y < m)
  BY <1>1, <1>2, Zenon DEF OpToRel
<1> QED  BY <1>3

\* What % does to a number at most one step out of its range, as the increments
\* and decrements of ports_used and the steps of the cursor are.
LEMMA WrapIn ==
    ASSUME NEW m \in Nat \ {0}, NEW a \in 0 .. m - 1
    PROVE  a % m = a
OBVIOUS

\* As WrapIn, for a number past the end of the range.
LEMMA WrapOver ==
    ASSUME NEW m \in Nat \ {0}, NEW a \in m .. 2 * m - 1
    PROVE  a % m = a - m
OBVIOUS

\* As WrapIn, for the number just before the range.
LEMMA WrapUnder ==
    ASSUME NEW m \in Nat \ {0}
    PROVE  (-1) % m = m - 1
OBVIOUS

\* The scan of tm_port_alloc from the rotating cursor finds a port of the range
\* that is not in use, whenever there is one.
LEMMA ScanFinds ==
    ASSUME cursor \in 0 .. NPorts - 1, NEW t \in SUBSET Ports, ~(Ports \subseteq t)
    PROVE  NextFree(t) \in Ports \ t
<1> DEFINE At(i) == 1 + ((cursor + i) % NPorts)
<1> DEFINE First(i) == At(i) \notin t /\ \A j \in 0 .. i - 1 : At(j) \in t
<1>1. NPorts \in Nat \ {0} /\ Ports = 1 .. NPorts
  BY TunnelsAssumption DEF Ports
<1>2. \A i \in 0 .. NPorts - 1 :
        At(i) = IF cursor + i < NPorts THEN 1 + cursor + i ELSE 1 + cursor + i - NPorts
  <2> TAKE i \in 0 .. NPorts - 1
  <2>1. CASE cursor + i < NPorts
    <3>1. cursor + i \in 0 .. NPorts - 1
      BY <1>1, <2>1
    <3>2. (cursor + i) % NPorts = cursor + i
      BY <1>1, <3>1, WrapIn, Zenon
    <3> QED  BY <1>1, <2>1, <3>2
  <2>2. CASE cursor + i >= NPorts
    <3> DEFINE x == cursor + i
    <3>1. x \in NPorts .. 2 * NPorts - 1
      BY <1>1, <2>2
    <3> HIDE DEF x
    <3>2. x % NPorts = x - NPorts
      BY <1>1, <3>1, WrapOver, Zenon
    <3> QED  BY <1>1, <2>2, <3>2 DEF x
  <2> QED  BY <1>1, <2>1, <2>2
<1> HIDE DEF At
<1>3. \A i \in 0 .. NPorts - 1 : At(i) \in Ports
  BY <1>1, <1>2
<1>4. PICK p \in Ports : p \notin t
  OBVIOUS
<1>5. \E i \in 0 .. NPorts - 1 : At(i) = p
  <2>1. CASE p > cursor
    <3> DEFINE k == p - 1 - cursor
    <3>1. k \in 0 .. NPorts - 1 /\ cursor + k < NPorts /\ 1 + cursor + k = p
      BY <1>1, <2>1
    <3> HIDE DEF k
    <3>2. At(k) = p
      BY <1>2, <3>1
    <3> QED  BY <3>1, <3>2
  <2>2. CASE p <= cursor
    <3> DEFINE k == p - 1 - cursor + NPorts
    <3>1. k \in 0 .. NPorts - 1 /\ ~(cursor + k < NPorts) /\ 1 + cursor + k - NPorts = p
      BY <1>1, <2>2
    <3> HIDE DEF k
    <3>2. At(k) = p
      BY <1>2, <3>1
    <3> QED  BY <3>1, <3>2
  <2> QED  BY <1>1, <2>1, <2>2
<1>6. \E i \in 0 .. NPorts - 1 : First(i)
  <2> DEFINE S == {i \in 0 .. NPorts - 1 : At(i) \notin t}
  <2>1. S \in SUBSET Nat /\ S # {}
    BY <1>1, <1>4, <1>5
  <2> HIDE DEF S
  <2>2. PICK m \in S : \A k \in S : m <= k
    BY <2>1, Least
  <2>3. m \in 0 .. NPorts - 1 /\ At(m) \notin t
    BY <2>2 DEF S
  <2>4. \A j \in 0 .. m - 1 : At(j) \in t
    BY <1>1, <2>2, <2>3 DEF S
  <2> QED  BY <2>3, <2>4
<1> DEFINE n == CHOOSE i \in 0 .. NPorts - 1 : First(i)
<1>7. n \in 0 .. NPorts - 1 /\ First(n)
  BY <1>6
<1>8. NextFree(t) = At(n)
  BY DEF NextFree, At
<1> HIDE DEF n
<1> QED  BY <1>3, <1>7, <1>8

\* ports_used is the number of ports in use, up to multiples of CounterMod.
Counted ==
    \E k \in Nat : Cardinality(taken["tcp"]) + Cardinality(taken["udp"]) = ports_used + k * CounterMod

\* The ports are finitely many, NPorts in number.
LEMMA PortsFinite == IsFiniteSet(Ports) /\ Cardinality(Ports) = NPorts
BY TunnelsAssumption, FS_Interval DEF Ports

\* tm_port_alloc is exact: it fails only if every port of the protocol is in
\* use, and the port it returns is free.
LEMMA AllocIsExact ==
    ASSUME TypeOK, Counted, NEW p \in Protos, NEW prefer \in {0} \cup Ports
    PROVE  LET port == tm_port_alloc(p, prefer) IN
           /\ port = 0 <=> Ports \subseteq taken[p]
           /\ port \notin taken[p]
           /\ port \in Ports \cup {0}
<1>1. NPorts \in Nat \ {0} /\ CounterMod \in Nat \ {0} /\ 0 \notin Ports
  BY TunnelsAssumption DEF Ports
<1>2. taken[p] \in SUBSET Ports /\ taken["tcp"] \in SUBSET Ports /\ taken["udp"] \in SUBSET Ports
  BY DEF TypeOK, Protos
<1>3. /\ \A t \in SUBSET Ports : Cardinality(t) \in Nat /\ Cardinality(t) <= NPorts
      /\ \A t \in SUBSET Ports : Cardinality(t) = NPorts => t = Ports
  BY PortsFinite, FS_Subset, FS_CardinalityType
<1>4. ports_used \in Nat /\ cursor \in 0 .. NPorts - 1
  BY <1>1 DEF TypeOK
<1>5. ASSUME ports_used >= 2 * NPorts
      PROVE  taken["tcp"] = Ports /\ taken["udp"] = Ports
  <2>1. PICK k \in Nat : Cardinality(taken["tcp"]) + Cardinality(taken["udp"]) = ports_used + k * CounterMod
    BY DEF Counted
  <2> DEFINE a == Cardinality(taken["tcp"])
             b == Cardinality(taken["udp"])
             kc == k * CounterMod
  <2>2. kc \in Nat /\ a + b = ports_used + kc
    BY <1>1, <2>1
  <2>3. a \in Nat /\ a <= NPorts /\ b \in Nat /\ b <= NPorts
    BY <1>2, <1>3
  <2>4. (a = NPorts => taken["tcp"] = Ports) /\ (b = NPorts => taken["udp"] = Ports)
    BY <1>2, <1>3
  <2> HIDE DEF a, b, kc
  <2>5. a = NPorts /\ b = NPorts
    BY <1>1, <1>4, <1>5, <2>2, <2>3
  <2> QED  BY <2>4, <2>5
<1>6. CASE ports_used >= 2 * NPorts
  <2>1. tm_port_alloc(p, prefer) = 0
    BY <1>1, <1>4, <1>6 DEF tm_port_alloc
  <2>2. taken[p] = Ports
    BY <1>5, <1>6 DEF Protos
  <2> QED  BY <1>1, <2>1, <2>2
<1>7. CASE ports_used < 2 * NPorts /\ prefer \in Ports \ taken[p]
  <2>1. tm_port_alloc(p, prefer) = prefer
    BY <1>1, <1>4, <1>7 DEF tm_port_alloc
  <2> QED  BY <1>1, <1>7, <2>1
<1>8. CASE ports_used < 2 * NPorts /\ prefer \notin Ports \ taken[p]
  <2>1. tm_port_alloc(p, prefer) = IF Ports \subseteq taken[p] THEN 0 ELSE NextFree(taken[p])
    BY <1>1, <1>4, <1>8 DEF tm_port_alloc
  <2>2. ~(Ports \subseteq taken[p]) => NextFree(taken[p]) \in Ports \ taken[p]
    BY <1>2, <1>4, ScanFinds
  <2> QED  BY <1>1, <1>2, <2>1, <2>2
<1> QED  BY <1>1, <1>4, <1>6, <1>7, <1>8

----------------------------------------------------------------------------
(* What the operations on one block leave alone *)

Handles == {"none", "up", "closing", "broken", "stale"}
Kept(t, u) ==
    /\ u \in TunnelType
    /\ u.id = t.id /\ u.proto = t.proto /\ u.closed = t.closed
    /\ u.port = t.port /\ u.deleting = t.deleting

Pairs == [t : TunnelType, h : Handles]

\* The flags are no part of what Kept speaks of.
LEMMA FlagKept ==
    ASSUME NEW t \in TunnelType, NEW o \in BOOLEAN
    PROVE  /\ Kept(t, t)
           /\ Kept(t, [t EXCEPT !.open = o])
           /\ Kept(t, [t EXCEPT !.restart = o])
           /\ Kept(t, [t EXCEPT !.enabled = o])
           /\ Kept(t, [t EXCEPT !.closing = o])
<1>1. Kept(t, t)
  BY DEF Kept
<1>2. Kept(t, [t EXCEPT !.open = o])
  BY DEF Kept, TunnelType
<1>3. Kept(t, [t EXCEPT !.restart = o])
  BY DEF Kept, TunnelType
<1>4. Kept(t, [t EXCEPT !.enabled = o])
  BY DEF Kept, TunnelType
<1>5. Kept(t, [t EXCEPT !.closing = o])
  BY DEF Kept, TunnelType
<1> QED  BY <1>1, <1>2, <1>3, <1>4, <1>5

\* Nor is close_refs, which changes with the flags of a close.
LEMMA CloseKept ==
    ASSUME NEW t \in TunnelType, NEW r \in Int, NEW c \in BOOLEAN, NEW o \in BOOLEAN
    PROVE  /\ Kept(t, [t EXCEPT !.refs = r, !.closing = c, !.open = o])
           /\ Kept(t, [t EXCEPT !.closing = c, !.refs = r])
<1> DEFINE u == [t EXCEPT !.refs = r]
           v == [u EXCEPT !.closing = c]
<1>1. Kept(t, u)
  BY DEF Kept, TunnelType
<1>2. u \in TunnelType
  BY <1>1 DEF Kept
<1>3. [t EXCEPT !.refs = r, !.closing = c, !.open = o] = [v EXCEPT !.open = o]
  BY Zenon DEF TunnelType
<1>4. [t EXCEPT !.closing = c, !.refs = r] = v
  BY Zenon DEF TunnelType
<1> HIDE DEF u
<1>5. Kept(u, v)
  BY <1>2, FlagKept, Zenon
<1> HIDE DEF v
<1>6. Kept(v, [v EXCEPT !.open = o])
  BY <1>5, FlagKept, Zenon DEF Kept
<1>7. Kept(t, v) /\ Kept(t, [v EXCEPT !.open = o])
  BY <1>1, <1>5, <1>6 DEF Kept
<1> QED  BY <1>3, <1>4, <1>7

\* Starting a listener changes neither the identity nor the port of a tunnel.
LEMMA StartKeeps ==
    ASSUME NEW t \in TunnelType, NEW h \in Handles, NEW y \in Start([t |-> t, h |-> h])
    PROVE  y \in Pairs /\ Kept(t, y.t)
<1> DEFINE x == [t |-> t, h |-> h]
<1>1. \A z \in Bind(x) : z \in Pairs /\ Kept(t, z.t)
  <2> TAKE z \in Bind(x)
  <2>1. PICK ok \in BOOLEAN : z = [t |-> [t EXCEPT !.open = ok],
                                h |-> IF h = "none" THEN "up" ELSE "broken"]
    BY DEF Bind
  <2>2. Kept(t, [t EXCEPT !.open = ok])
    BY FlagKept, Zenon
  <2> QED  BY <2>1, <2>2, Zenon DEF Pairs, Handles, Kept
<1>2. x \in Pairs /\ Kept(t, t)
  BY DEF Kept, Pairs
<1>3. Kept(t, [t EXCEPT !.restart = TRUE])
  BY FlagKept, Zenon
<1>4. [t |-> [t EXCEPT !.restart = TRUE], h |-> h] \in Pairs
  BY <1>3 DEF Pairs, Kept
<1> DEFINE d == [t |-> [t EXCEPT !.restart = TRUE], h |-> h]
<1>5. y = x \/ y = d \/ y \in Bind(x)
  BY DEF Start, tm_tunnel_listener_start, tm_udp_start
<1>6. x.t = t /\ d \in Pairs /\ Kept(t, d.t)
  BY <1>3, <1>4
<1> HIDE DEF x, d
<1> QED  BY <1>1, <1>2, <1>5, <1>6

\* As StartKeeps, for stopping a listener.
LEMMA StopKeeps ==
    ASSUME NEW t \in TunnelType, NEW h \in Handles
    PROVE  LET x == [t |-> t, h |-> h] IN
           /\ tm_tunnel_listener_stop(x) \in Pairs /\ Kept(t, tm_tunnel_listener_stop(x).t)
           /\ tm_udp_stop(x) \in Pairs /\ Kept(t, tm_udp_stop(x).t)
<1> DEFINE x == [t |-> t, h |-> h]
           v == [t EXCEPT !.restart = FALSE]
           y == [t |-> v, h |-> h]
<1>1. \A u \in TunnelType : \A c \in BOOLEAN :
        LET z == Close([t |-> u, h |-> h], c) IN z \in Pairs /\ Kept(u, z.t)
  <2> TAKE u \in TunnelType
  <2> TAKE c \in BOOLEAN
  <2> DEFINE r == u.refs + 1
             w == [u EXCEPT !.refs = r, !.closing = c, !.open = FALSE]
  <2>1. r \in Int
    BY DEF TunnelType
  <2>2. Close([t |-> u, h |-> h], c) = [t |-> w, h |-> "closing"]
    BY DEF Close
  <2> HIDE DEF r
  <2>3. Kept(u, w)
    BY <2>1, CloseKept, Zenon
  <2> HIDE DEF w
  <2> QED  BY <2>2, <2>3 DEF Pairs, Handles, Kept
<1>2. Kept(t, v)
  BY FlagKept, Zenon
<1>3. y \in Pairs /\ Kept(t, y.t) /\ y.t = v /\ x \in Pairs /\ Kept(t, x.t) /\ x.t = t
  BY <1>2, Zenon DEF Pairs, Kept
<1>4. tm_tunnel_listener_stop(x) \in {Close(y, TRUE), y}
  BY DEF tm_tunnel_listener_stop
<1>5. Close(y, TRUE) \in Pairs /\ Kept(v, Close(y, TRUE).t)
  BY <1>1, <1>2, Zenon DEF Kept
<1>6. Kept(t, Close(y, TRUE).t)
  BY <1>2, <1>5, Zenon DEF Kept
<1>7. tm_udp_stop(x) \in {Close(x, FALSE), x}
  BY DEF tm_udp_stop
<1>8. Close(x, FALSE) \in Pairs /\ Kept(t, Close(x, FALSE).t)
  BY <1>1, Zenon
<1> HIDE DEF x, y, v
<1>9. /\ tm_tunnel_listener_stop(x) \in Pairs /\ Kept(t, tm_tunnel_listener_stop(x).t)
      /\ tm_udp_stop(x) \in Pairs /\ Kept(t, tm_udp_stop(x).t)
  BY <1>3, <1>4, <1>5, <1>6, <1>7, <1>8, Zenon
<1> QED  BY <1>9 DEF x

\* close_refs counts the close in flight, and an open handle is known to the loop.
Refs(t, h) == t.refs = (IF h = "closing" THEN 1 ELSE 0) /\ (t.open => h = "up")

\* A start keeps close_refs, unless it initialises a handle the loop still knows.
LEMMA StartRefs ==
    ASSUME NEW t \in TunnelType, NEW h \in Handles, Refs(t, h), NEW y \in Start([t |-> t, h |-> h])
    PROVE  y.h = "broken" \/ Refs(y.t, y.h)
<1> DEFINE x == [t |-> t, h |-> h]
           d == [t |-> [t EXCEPT !.restart = TRUE], h |-> h]
<1>1. y = x \/ y = d \/ y \in Bind(x)
  BY DEF Start, tm_tunnel_listener_start, tm_udp_start
<1>2. Refs(x.t, x.h)
  OBVIOUS
<1>3. Refs(d.t, d.h)
  BY DEF Refs, TunnelType
<1>4. ASSUME y \in Bind(x)
      PROVE  y.h = "broken" \/ Refs(y.t, y.h)
  <2>1. PICK ok \in BOOLEAN : y = [t |-> [t EXCEPT !.open = ok],
                                h |-> IF h = "none" THEN "up" ELSE "broken"]
    BY <1>4 DEF Bind
  <2>2. [t EXCEPT !.open = ok].refs = t.refs
    BY DEF TunnelType
  <2> QED  BY <2>1, <2>2, Zenon DEF Refs
<1> HIDE DEF x, d
<1> QED  BY <1>1, <1>2, <1>3, <1>4

\* A stop keeps close_refs.
LEMMA StopRefs ==
    ASSUME NEW t \in TunnelType, NEW h \in Handles, Refs(t, h)
    PROVE  LET x == [t |-> t, h |-> h] IN
           /\ Refs(tm_tunnel_listener_stop(x).t, tm_tunnel_listener_stop(x).h)
           /\ Refs(tm_udp_stop(x).t, tm_udp_stop(x).h)
<1> DEFINE x == [t |-> t, h |-> h]
           v == [t EXCEPT !.restart = FALSE]
           y == [t |-> v, h |-> h]
<1>1. \A u \in TunnelType, c \in BOOLEAN :
        Refs(u, h) /\ u.open => LET z == Close([t |-> u, h |-> h], c) IN Refs(z.t, z.h)
  <2> TAKE u \in TunnelType, c \in BOOLEAN
  <2> HAVE Refs(u, h) /\ u.open
  <2> DEFINE w == [u EXCEPT !.refs = @ + 1, !.closing = c, !.open = FALSE]
  <2>1. Close([t |-> u, h |-> h], c) = [t |-> w, h |-> "closing"]
    BY DEF Close
  <2>2. w.refs = u.refs + 1 /\ w.open = FALSE
    BY DEF TunnelType
  <2>3. u.refs = 0
    BY DEF Refs
  <2> HIDE DEF w
  <2> QED  BY <2>1, <2>2, <2>3 DEF Refs
<1>2. v \in TunnelType /\ v.open = t.open /\ Refs(v, h)
  BY Zenon DEF Refs, TunnelType
<1>3. tm_tunnel_listener_stop(x) = y \/ (v.open /\ tm_tunnel_listener_stop(x) = Close(y, TRUE))
  BY <1>2, Zenon DEF tm_tunnel_listener_stop
<1>4. v.open => Refs(Close(y, TRUE).t, Close(y, TRUE).h)
  BY <1>1, <1>2, Zenon
<1>5. tm_udp_stop(x) = x \/ (t.open /\ tm_udp_stop(x) = Close(x, FALSE))
  BY Zenon DEF tm_udp_stop
<1>6. t.open => Refs(Close(x, FALSE).t, Close(x, FALSE).h)
  BY <1>1, Zenon
<1>7. Refs(y.t, y.h) /\ Refs(x.t, x.h)
  BY <1>2
<1> HIDE DEF x, y, v
<1>8. /\ Refs(tm_tunnel_listener_stop(x).t, tm_tunnel_listener_stop(x).h)
      /\ Refs(tm_udp_stop(x).t, tm_udp_stop(x).h)
  BY <1>3, <1>4, <1>5, <1>6, <1>7, Zenon
<1> QED  BY <1>8 DEF x

----------------------------------------------------------------------------
(* The count of the ports *)

\* Taking one more port keeps ports_used the count, modulo its width.
LEMMA CountUp ==
    ASSUME NEW m \in Nat \ {0}, NEW u \in 0 .. m - 1, NEW c \in Nat, NEW k \in Nat,
           c = u + k * m
    PROVE  /\ (u + 1) % m \in 0 .. m - 1
           /\ \E j \in Nat : c + 1 = ((u + 1) % m) + j * m
<1>1. CASE u + 1 < m
  <2> DEFINE v == u + 1
  <2>1. v \in 0 .. m - 1
    BY <1>1
  <2> HIDE DEF v
  <2>2. v % m = v
    BY <2>1, WrapIn
  <2>3. c + 1 = v + k * m
    BY DEF v
  <2> QED  BY <2>1, <2>2, <2>3, Zenon DEF v
<1>2. CASE u + 1 = m
  <2>1. m \in m .. 2 * m - 1
    OBVIOUS
  <2>2. m % m = m - m
    BY <2>1, WrapOver
  <2>3. (u + 1) % m = 0
    BY <1>2, <2>2
  <2>4. (k + 1) * m = k * m + m /\ k * m \in Nat /\ k + 1 \in Nat
    OBVIOUS
  <2>5. c + 1 = 0 + (k + 1) * m
    BY <1>2, <2>4
  <2> DEFINE j == k + 1
  <2>6. j \in Nat /\ c + 1 = ((u + 1) % m) + j * m
    BY ONLY <2>3, <2>4, <2>5
  <2>7. (u + 1) % m \in 0 .. m - 1
    BY <2>3
  <2> HIDE DEF j
  <2> QED  BY ONLY <2>6, <2>7, Zenon
<1> QED  BY <1>1, <1>2

\* As CountUp, for a port that is given back.
LEMMA CountDown ==
    ASSUME NEW m \in Nat \ {0}, NEW u \in 0 .. m - 1, NEW c \in Nat \ {0}, NEW k \in Nat,
           c = u + k * m
    PROVE  /\ (u - 1) % m \in 0 .. m - 1
           /\ \E j \in Nat : c - 1 = ((u - 1) % m) + j * m
<1>1. CASE u > 0
  <2> DEFINE v == u - 1
  <2>1. v \in 0 .. m - 1
    BY <1>1
  <2> HIDE DEF v
  <2>2. v % m = v
    BY <2>1, WrapIn
  <2>3. c - 1 = v + k * m
    BY DEF v
  <2> QED  BY <2>1, <2>2, <2>3, Zenon DEF v
<1>2. CASE u = 0
  <2>1. k # 0
    BY <1>2
  <2>2. (u - 1) % m = m - 1
    <3>1. u - 1 = -1
      BY <1>2
    <3> QED  BY <3>1, WrapUnder, Zenon
  <2>3. k - 1 \in Nat /\ (k - 1) * m = k * m - m /\ k * m \in Nat
    BY <2>1
  <2>4. c - 1 = (m - 1) + (k - 1) * m
    BY <1>2, <2>3
  <2> DEFINE j == k - 1
  <2>5. j \in Nat /\ c - 1 = ((u - 1) % m) + j * m
    BY ONLY <2>2, <2>3, <2>4
  <2>6. (u - 1) % m \in 0 .. m - 1
    BY <2>2
  <2> HIDE DEF j
  <2> QED  BY ONLY <2>5, <2>6, Zenon
<1> QED  BY <1>1, <1>2

----------------------------------------------------------------------------
(* The inductive invariant *)

Sound(s) ==
    IF tun[s] = Free THEN handle[s] = "none"
    ELSE Refs(tun[s], handle[s]) /\ (tun[s].deleting => handle[s] = "closing")

\* PortsExclusive, port by port
Owned ==
    \A p \in Protos, n \in Ports :
        n \in taken[p] <=> \E s \in Registered : tun[s].proto = p /\ tun[s].port = n
Unshared ==
    /\ \A r, s \in Registered :
         r # s /\ tun[r].proto = tun[s].proto /\ tun[r].port # 0 => tun[r].port # tun[s].port
    /\ \A s \in Registered : tun[s].port = 0 <=> tun[s].closed /\ tun[s].proto = "tcp"

Counts ==
    /\ tunnel_count = Cardinality(Registered) /\ tunnel_count <= MaxTunnels
    /\ \A r, s \in Registered : tun[r].id = tun[s].id => r = s

Books == Owned /\ Unshared /\ Counts /\ Counted

IInv ==
    /\ TypeOK
    /\ ~Corrupt => \A s \in Blocks : Sound(s)
    /\ phase # "over" => Books

\* The accounts are about these variables only.
LEMMA BooksKept ==
    ASSUME Books, UNCHANGED <<tun, taken, ports_used, tunnel_count>>
    PROVE  Books'
<1>1. Registered' = Registered
  BY DEF Registered, Allocated
<1>2. Owned'
  BY <1>1, SMT DEF Books, Owned
<1>3. Unshared'
  BY <1>1, SMT DEF Books, Unshared
<1>4. Counts' /\ Counted'
  BY <1>1, Zenon DEF Books, Counts, Counted
<1> QED  BY <1>2, <1>3, <1>4 DEF Books

\* An operation that changes only flags of tunnels, or blocks that are not
\* registered, leaves the books of the registry in order.
LEMMA SameBooks ==
    ASSUME Books, Registered' = Registered,
           \A s \in Registered : Kept(tun[s], tun'[s]),
           UNCHANGED <<taken, ports_used, tunnel_count>>
    PROVE  Books'
<1>1. Owned'
  BY DEF Books, Owned, Kept
<1>2. Unshared'
  BY DEF Books, Unshared, Kept
<1>3. Counts'
  BY DEF Books, Counts, Kept
<1>4. Counted'
  BY DEF Books, Counted
<1> QED  BY <1>1, <1>2, <1>3, <1>4 DEF Books

\* Storing a sound block keeps the blocks sound.
LEMMA StoreSound ==
    ASSUME TypeOK, \A r \in Blocks : Sound(r), NEW s \in Blocks, NEW x \in Pairs, Store(s, x),
           x.h = "broken" \/ (Refs(x.t, x.h) /\ (x.t.deleting => x.h = "closing"))
    PROVE  /\ tun' = [tun EXCEPT ![s] = x.t] /\ x.t \in TunnelType
           /\ tun' \in [Blocks -> TunnelType \cup {Free}]
           /\ handle' \in [Blocks -> Handles]
           /\ calm' \in BOOLEAN
           /\ ~Corrupt' => \A r \in Blocks : Sound(r)'
<1>1. x.t \in TunnelType /\ x.h \in Handles /\ x.t # Free
  BY TunnelsAssumption DEF Pairs
<1>2. tun' = [tun EXCEPT ![s] = x.t] /\ handle' = [handle EXCEPT ![s] = x.h]
  BY DEF Store
<1>3. calm' \in BOOLEAN
  BY DEF Store
<1>4. tun' \in [Blocks -> TunnelType \cup {Free}] /\ handle' \in [Blocks -> Handles]
  BY <1>1, <1>2 DEF TypeOK, Handles
<1>5. tun'[s] = x.t /\ handle'[s] = x.h
  BY <1>2 DEF TypeOK
<1>6. \A r \in Blocks \ {s} : tun'[r] = tun[r] /\ handle'[r] = handle[r]
  BY <1>2 DEF TypeOK
<1>7. ~Corrupt' => x.h # "broken"
  BY <1>5 DEF Corrupt
<1>8. ASSUME ~Corrupt', NEW r \in Blocks
      PROVE  Sound(r)'
  <2>1. CASE r = s
    BY <1>1, <1>5, <1>7, <1>8, <2>1 DEF Sound
  <2>2. CASE r # s
    <3>1. Sound(r) /\ tun'[r] = tun[r] /\ handle'[r] = handle[r]
      BY <1>6, <2>2
    <3> QED  BY <3>1 DEF Sound
  <2> QED  BY <2>1, <2>2
<1> QED  BY <1>1, <1>2, <1>3, <1>4, <1>8

\* Freeing a block keeps the blocks sound.
LEMMA FreeSound ==
    ASSUME TypeOK, \A r \in Blocks : Sound(r), NEW s \in Blocks, NEW h, FreeBlock(s, h)
    PROVE  /\ tun' = [tun EXCEPT ![s] = Free]
           /\ tun' \in [Blocks -> TunnelType \cup {Free}]
           /\ handle' \in [Blocks -> Handles]
           /\ calm' \in BOOLEAN
           /\ ~Corrupt' => \A r \in Blocks : Sound(r)'
<1> DEFINE g == IF h = "none" THEN "none" ELSE "stale"
<1>1. tun' = [tun EXCEPT ![s] = Free] /\ handle' = [handle EXCEPT ![s] = g] /\ calm' = calm
  BY DEF FreeBlock
<1>2. g \in {"none", "stale"}
  OBVIOUS
<1> HIDE DEF g
<1>3. tun' \in [Blocks -> TunnelType \cup {Free}] /\ handle' \in [Blocks -> Handles] /\ calm' \in BOOLEAN
  BY <1>1, <1>2 DEF TypeOK, Handles
<1>4. tun'[s] = Free /\ handle'[s] = g
  BY <1>1 DEF TypeOK
<1>5. \A r \in Blocks \ {s} : tun'[r] = tun[r] /\ handle'[r] = handle[r]
  BY <1>1 DEF TypeOK
<1>6. ~Corrupt' => g = "none"
  BY <1>2, <1>4 DEF Corrupt
<1>7. ASSUME ~Corrupt', NEW r \in Blocks
      PROVE  Sound(r)'
  <2>1. CASE r = s
    BY <1>4, <1>6, <1>7, <2>1 DEF Sound
  <2>2. CASE r # s
    <3>1. Sound(r) /\ tun'[r] = tun[r] /\ handle'[r] = handle[r]
      BY <1>5, <2>2
    <3> QED  BY <3>1 DEF Sound
  <2> QED  BY <2>1, <2>2
<1> QED  BY <1>1, <1>3, <1>7

\* What a registered block is.
LEMMA RegisteredIs ==
    ASSUME TypeOK
    PROVE  /\ Registered \subseteq Blocks
           /\ \A s \in Registered : tun[s] \in TunnelType /\ tun[s].deleting = FALSE
           /\ \A s \in Blocks : s \in Registered <=> tun[s] # Free /\ ~tun[s].deleting
<1>1. \A s \in Registered : tun[s] \in TunnelType
  BY DEF TypeOK, Registered, Allocated
<1> QED  BY <1>1 DEF Registered, Allocated, TunnelType

\* A step that changes only flags of one registered tunnel keeps the invariant.
LEMMA FlagStep ==
    ASSUME IInv, Up, NEW s \in Registered, NEW x \in Pairs, Store(s, x), Kept(tun[s], x.t),
           x.h = "broken" \/ Refs(x.t, x.h),
           UNCHANGED <<taken, ports_used, cursor, tunnel_count, phase>>
    PROVE  IInv'
<1>1. TypeOK /\ (\A r \in Blocks : Sound(r)) /\ Books
  BY DEF IInv, Up
<1>2. s \in Blocks /\ tun[s] \in TunnelType /\ tun[s].deleting = FALSE /\ tun[s] # Free
  BY <1>1, RegisteredIs, Zenon
<1>3. x.t.deleting = FALSE
  BY <1>2 DEF Kept
<1>4. /\ tun' = [tun EXCEPT ![s] = x.t] /\ x.t \in TunnelType
      /\ tun' \in [Blocks -> TunnelType \cup {Free}]
      /\ handle' \in [Blocks -> Handles]
      /\ calm' \in BOOLEAN
      /\ ~Corrupt' => \A r \in Blocks : Sound(r)'
  BY <1>1, <1>2, <1>3, StoreSound
<1>5. TypeOK'
  BY <1>1, <1>4 DEF TypeOK, Handles
<1>6. tun'[s] = x.t /\ \A r \in Blocks \ {s} : tun'[r] = tun[r]
  BY <1>1, <1>2, <1>4 DEF TypeOK
<1>7. Registered' = Registered
  BY <1>2, <1>3, <1>4, <1>6, TunnelsAssumption DEF Registered, Allocated
<1>8. \A r \in Registered : Kept(tun[r], tun'[r])
  BY <1>1, <1>6, RegisteredIs, Zenon DEF Kept
<1>9. Books'
  BY <1>1, <1>7, <1>8, SameBooks
<1> QED  BY <1>4, <1>5, <1>9 DEF IInv

\* disable_tunnel keeps the invariant.
LEMMA DisableStep ==
    ASSUME IInv, NEW s \in Blocks, disable_tunnel(s)
    PROVE  IInv'
<1> DEFINE t == [tun[s] EXCEPT !.enabled = FALSE]
           y == tm_tunnel_listener_stop([t |-> t, h |-> handle[s]])
           x == tm_udp_stop(y)
<1>1. Up /\ s \in Registered /\ Store(s, x) /\ UNCHANGED <<taken, ports_used, cursor, tunnel_count, phase>>
  BY DEF disable_tunnel, Block
<1>2. TypeOK /\ Sound(s) /\ tun[s] \in TunnelType /\ handle[s] \in Handles /\ tun[s] # Free
  BY <1>1, RegisteredIs, Zenon DEF IInv, Up, TypeOK, Handles
<1>3. Refs(tun[s], handle[s])
  BY <1>2 DEF Sound
<1>4. Kept(tun[s], t)
  BY <1>2, FlagKept, Zenon
<1>5. t \in TunnelType /\ Refs(t, handle[s])
  BY <1>2, <1>3, <1>4 DEF Refs, TunnelType, Kept
<1> HIDE DEF t
<1>6. y \in Pairs /\ Kept(t, y.t) /\ Refs(y.t, y.h)
  BY <1>2, <1>5, StopKeeps, StopRefs
<1>7. y = [t |-> y.t, h |-> y.h] /\ y.t \in TunnelType /\ y.h \in Handles
  BY <1>6 DEF Pairs
<1>8. x \in Pairs /\ Kept(y.t, x.t) /\ Refs(x.t, x.h)
  <2> DEFINE u == y.t
             g == y.h
  <2>1. u \in TunnelType /\ g \in Handles /\ Refs(u, g) /\ x = tm_udp_stop([t |-> u, h |-> g])
    BY <1>6, <1>7
  <2> HIDE DEF u, g
  <2>2. x \in Pairs /\ Kept(u, x.t) /\ Refs(x.t, x.h)
    BY <2>1, StopKeeps, StopRefs
  <2> QED  BY <2>2 DEF u
<1> HIDE DEF y, x
<1>9. Kept(tun[s], x.t)
  BY <1>4, <1>6, <1>8 DEF Kept
<1> QED  BY <1>1, <1>8, <1>9, FlagStep

\* enable_tunnel keeps the invariant.
LEMMA EnableStep ==
    ASSUME IInv, NEW s \in Blocks, enable_tunnel(s)
    PROVE  IInv'
<1> DEFINE t == [tun[s] EXCEPT !.enabled = TRUE]
<1>1. Up /\ s \in Registered /\ UNCHANGED <<taken, ports_used, cursor, tunnel_count, phase>>
  BY DEF enable_tunnel
<1>2. PICK x \in Start([t |-> t, h |-> handle[s]]) : Store(s, x)
  BY DEF enable_tunnel, Block
<1>3. TypeOK /\ Sound(s) /\ tun[s] \in TunnelType /\ handle[s] \in Handles /\ tun[s] # Free
  BY <1>1, RegisteredIs, Zenon DEF IInv, Up, TypeOK, Handles
<1>4. Refs(tun[s], handle[s])
  BY <1>3 DEF Sound
<1>5. Kept(tun[s], t)
  BY <1>3, FlagKept, Zenon
<1>6. t \in TunnelType /\ Refs(t, handle[s])
  BY <1>3, <1>4, <1>5 DEF Refs, TunnelType, Kept
<1> HIDE DEF t
<1>7. x \in Pairs /\ Kept(t, x.t) /\ (x.h = "broken" \/ Refs(x.t, x.h))
  BY <1>2, <1>3, <1>6, StartKeeps, StartRefs
<1>8. Kept(tun[s], x.t)
  BY <1>5, <1>7 DEF Kept
<1> QED  BY <1>1, <1>2, <1>7, <1>8, FlagStep

\* The close callback keeps the invariant: it frees a deleted block after its
\* last close, and otherwise starts the deferred listener.
LEMMA ClosedStep ==
    ASSUME IInv, NEW s \in Blocks, Closed(s)
    PROVE  IInv'
<1> DEFINE r == tun[s].refs - 1
           t == [tun[s] EXCEPT !.closing = FALSE, !.refs = r]
           u == [t EXCEPT !.restart = FALSE]
<1>1. Up /\ handle[s] = "closing" /\ UNCHANGED <<taken, ports_used, cursor, tunnel_count, phase>>
  BY DEF Closed
<1>2. TypeOK /\ (\A b \in Blocks : Sound(b)) /\ Books
  BY <1>1 DEF IInv, Up
<1>3. tun[s] # Free /\ tun[s] \in TunnelType
  BY <1>1, <1>2 DEF Sound, TypeOK
<1>4. tun[s].refs = 1 /\ r = 0 /\ ~tun[s].open
  <2>1. Refs(tun[s], handle[s])
    BY <1>2, <1>3 DEF Sound
  <2> QED  BY <1>1, <2>1 DEF Refs
<1>5. IF t.deleting THEN IF t.refs = 0 THEN FreeBlock(s, "none") ELSE Store(s, [t |-> t, h |-> "none"])
      ELSE \E x \in IF t.restart THEN tm_tunnel_listener_start([t |-> u, h |-> "none"])
                    ELSE {[t |-> t, h |-> "none"]} : Store(s, x)
  BY DEF Closed
<1>6. r \in Int
  BY <1>4
<1> HIDE DEF r
<1>7. Kept(tun[s], t)
  BY <1>3, <1>6, CloseKept, Zenon
<1>8. t \in TunnelType /\ t.refs = 0 /\ t.open = tun[s].open /\ t.deleting = tun[s].deleting
  BY <1>3, <1>4, <1>7 DEF TunnelType, Kept
<1> HIDE DEF t
<1>9. Kept(t, u) /\ u \in TunnelType /\ u.refs = t.refs /\ u.open = t.open
  <2>1. Kept(t, u)
    BY <1>8, FlagKept, Zenon
  <2>2. u.refs = t.refs /\ u.open = t.open
    BY <1>8 DEF TunnelType
  <2> QED  BY <2>1, <2>2 DEF Kept
<1> HIDE DEF u
<1>10. Refs(t, "none") /\ Refs(u, "none") /\ Kept(tun[s], u)
  BY <1>4, <1>7, <1>8, <1>9 DEF Refs, Kept
<1>11. CASE tun[s].deleting
  <2>1. FreeBlock(s, "none")
    BY <1>5, <1>8, <1>11
  <2>2. /\ tun' = [tun EXCEPT ![s] = Free]
        /\ tun' \in [Blocks -> TunnelType \cup {Free}]
        /\ handle' \in [Blocks -> Handles]
        /\ calm' \in BOOLEAN
        /\ ~Corrupt' => \A b \in Blocks : Sound(b)'
    BY <1>2, <2>1, FreeSound
  <2>3. TypeOK'
    BY <1>1, <1>2, <2>2 DEF TypeOK, Handles
  <2>4. tun'[s] = Free /\ \A b \in Blocks \ {s} : tun'[b] = tun[b]
    BY <1>2, <2>2 DEF TypeOK
  <2>5. s \notin Registered
    BY <1>11 DEF Registered
  <2>6. Registered' = Registered
    BY <2>4, <2>5 DEF Registered, Allocated
  <2>7. \A b \in Registered : Kept(tun[b], tun'[b])
    BY <1>2, <2>4, <2>5, RegisteredIs, Zenon DEF Kept
  <2>8. Books'
    BY <1>1, <1>2, <2>6, <2>7, SameBooks
  <2> QED  BY <2>2, <2>3, <2>8 DEF IInv
<1>12. CASE ~tun[s].deleting
  <2>1. s \in Registered
    BY <1>2, <1>3, <1>12, RegisteredIs
  <2>2. PICK x \in (IF t.restart THEN tm_tunnel_listener_start([t |-> u, h |-> "none"])
                    ELSE {[t |-> t, h |-> "none"]}) : Store(s, x)
    BY <1>5, <1>8, <1>12
  <2>3. \/ x \in Start([t |-> u, h |-> "none"])
        \/ x = [t |-> u, h |-> "none"]
        \/ x = [t |-> t, h |-> "none"]
    BY <2>2 DEF Start, tm_tunnel_listener_start
  <2>4. CASE x \in Start([t |-> u, h |-> "none"])
    <3>1. "none" \in Handles
      BY DEF Handles
    <3>2. x \in Pairs /\ Kept(u, x.t) /\ (x.h = "broken" \/ Refs(x.t, x.h))
      BY <1>9, <1>10, <2>4, <3>1, StartKeeps, StartRefs
    <3>3. Kept(tun[s], x.t)
      BY <1>10, <3>2 DEF Kept
    <3> QED  BY <1>1, <2>1, <2>2, <3>2, <3>3, FlagStep
  <2>5. CASE x = [t |-> u, h |-> "none"]
    <3>1. x \in Pairs /\ Kept(tun[s], x.t) /\ Refs(x.t, x.h)
      BY <1>9, <1>10, <2>5 DEF Pairs, Handles
    <3> QED  BY <1>1, <2>1, <2>2, <3>1, FlagStep
  <2>6. CASE x = [t |-> t, h |-> "none"]
    <3>1. x \in Pairs /\ Kept(tun[s], x.t) /\ Refs(x.t, x.h)
      BY <1>7, <1>8, <1>10, <2>6 DEF Pairs, Handles
    <3> QED  BY <1>1, <2>1, <2>2, <3>1, FlagStep
  <2> QED  BY <2>3, <2>4, <2>5, <2>6
<1> QED  BY <1>11, <1>12

\* broker_cleanup keeps the invariant.
LEMMA CleanupStep ==
    ASSUME IInv, broker_cleanup
    PROVE  IInv'
<1> DEFINE Pair(s) == [t |-> tun[s], h |-> handle[s]]
           Torn(s) == IF s \notin Registered THEN Pair(s)
                      ELSE tm_udp_stop(tm_tunnel_listener_stop(Pair(s)))
<1>1. /\ Up /\ phase' = "over"
      /\ tun' = [s \in Blocks |-> Torn(s).t] /\ handle' = [s \in Blocks |-> Torn(s).h]
      /\ taken' = [p \in Protos |-> {}] /\ ports_used' = 0 /\ UNCHANGED <<cursor, tunnel_count, calm>>
  BY DEF broker_cleanup, Block
<1>2. TypeOK /\ (\A b \in Blocks : Sound(b))
  BY <1>1 DEF IInv, Up
<1>3. \A s \in Registered : Torn(s) \in Pairs /\ Kept(tun[s], Torn(s).t) /\ Refs(Torn(s).t, Torn(s).h)
  <2> TAKE s \in Registered
  <2> DEFINE y == tm_tunnel_listener_stop(Pair(s))
             x == tm_udp_stop(y)
  <2>1. s \in Blocks /\ tun[s] \in TunnelType /\ handle[s] \in Handles /\ tun[s] # Free
    BY <1>2, RegisteredIs, Zenon DEF TypeOK, Handles
  <2>2. Refs(tun[s], handle[s])
    BY <1>2, <2>1 DEF Sound
  <2>3. y \in Pairs /\ Kept(tun[s], y.t) /\ Refs(y.t, y.h)
    BY <2>1, <2>2, StopKeeps, StopRefs
  <2>4. y = [t |-> y.t, h |-> y.h] /\ y.t \in TunnelType /\ y.h \in Handles
    BY <2>3 DEF Pairs
  <2> DEFINE u == y.t
             g == y.h
  <2>5. u \in TunnelType /\ g \in Handles /\ Refs(u, g) /\ x = tm_udp_stop([t |-> u, h |-> g])
    BY <2>3, <2>4
  <2>6. Kept(tun[s], u) /\ Torn(s) = x
    BY <2>3
  <2> HIDE DEF u, g, y
  <2>7. x \in Pairs /\ Kept(u, x.t) /\ Refs(x.t, x.h)
    BY <2>5, StopKeeps, StopRefs
  <2> HIDE DEF x, Torn
  <2> QED  BY <2>6, <2>7 DEF Kept
<1>4. \A s \in Blocks \ Registered : Torn(s).t = tun[s] /\ Torn(s).h = handle[s]
  OBVIOUS
<1> HIDE DEF Torn
<1>5. \A s \in Blocks : tun'[s] = Torn(s).t /\ handle'[s] = Torn(s).h
  BY <1>1
<1>6. tun' \in [Blocks -> TunnelType \cup {Free}] /\ handle' \in [Blocks -> Handles]
  BY <1>1, <1>2, <1>3, <1>4 DEF TypeOK, Handles, Pairs
<1>7. TypeOK'
  BY <1>1, <1>2, <1>6, TunnelsAssumption DEF TypeOK, Handles
<1>8. \A s \in Blocks : Sound(s)'
  <2> TAKE s \in Blocks
  <2>1. CASE s \in Registered
    <3>1. tun'[s] # Free /\ tun'[s].deleting = FALSE /\ Refs(tun'[s], handle'[s])
      <4>1. Kept(tun[s], Torn(s).t) /\ Refs(Torn(s).t, Torn(s).h) /\ Torn(s).t \in TunnelType
        BY <1>3, <2>1 DEF Pairs
      <4>2. tun[s].deleting = FALSE
        BY <1>2, <2>1, RegisteredIs
      <4>3. tun'[s] \in TunnelType /\ Kept(tun[s], tun'[s]) /\ Refs(tun'[s], handle'[s])
        BY <1>5, <4>1
      <4>4. tun'[s] # Free
        BY <4>3, TunnelsAssumption
      <4> QED  BY ONLY <4>2, <4>3, <4>4 DEF Kept
    <3> QED  BY <3>1 DEF Sound
  <2>2. CASE s \notin Registered
    <3>1. tun'[s] = tun[s] /\ handle'[s] = handle[s]
      BY <1>4, <1>5, <2>2
    <3> QED  BY <1>2, <3>1 DEF Sound
  <2> QED  BY <2>1, <2>2
<1> QED  BY <1>1, <1>7, <1>8 DEF IInv

\* Finite tables: the ports in use and the registered blocks.
LEMMA TablesFinite ==
    ASSUME TypeOK
    PROVE  /\ \A p \in Protos : taken[p] \subseteq Ports /\ IsFiniteSet(taken[p]) /\ Cardinality(taken[p]) \in Nat
           /\ IsFiniteSet(Registered) /\ Cardinality(Registered) \in Nat
<1>1. \A p \in Protos : taken[p] \in SUBSET Ports
  BY DEF TypeOK
<1>2. \A p \in Protos : IsFiniteSet(taken[p])
  BY <1>1, PortsFinite, FS_Subset
<1>3. Registered \in SUBSET Blocks
  BY RegisteredIs
<1>4. IsFiniteSet(Registered)
  BY <1>3, TunnelsAssumption, FS_Subset
<1> QED  BY <1>1, <1>2, <1>4, FS_CardinalityType

\* Removing one tunnel from the list, giving its port back and counting it out
\* leaves the books in order.
LEMMA RemovedBooks ==
    ASSUME TypeOK, Books, NEW s \in Registered, Registered' = Registered \ {s},
           \A b \in Registered \ {s} : tun'[b] = tun[b],
           tm_port_free(tun[s].proto, tun[s].port), tunnel_count' = tunnel_count - 1
    PROVE  /\ Books'
           /\ taken' \in [Protos -> SUBSET Ports] /\ ports_used' \in 0 .. CounterMod - 1
<1> DEFINE q == tun[s].proto
           n0 == tun[s].port
<1>1. q \in Protos /\ n0 \in Ports \cup {0} /\ taken \in [Protos -> SUBSET Ports]
  BY RegisteredIs, Zenon DEF TunnelType, TypeOK
<1>2. /\ taken' = [taken EXCEPT ![q] = @ \ {n0}]
      /\ ports_used' = IF n0 \in taken[q] THEN (ports_used - 1) % CounterMod ELSE ports_used
  BY DEF tm_port_free
<1>3. taken' \in [Protos -> SUBSET Ports]
  BY <1>1, <1>2
<1>4. \A p \in Protos : taken'[p] = IF p = q THEN taken[q] \ {n0} ELSE taken[p]
  BY <1>1, <1>2
<1>5. Owned'
  <2> SUFFICES ASSUME NEW p \in Protos, NEW n \in Ports
               PROVE  n \in taken'[p] <=> \E r \in Registered \ {s} : tun[r].proto = p /\ tun[r].port = n
    BY DEF Owned
  <2>1. n \in taken[p] <=> \E r \in Registered : tun[r].proto = p /\ tun[r].port = n
    BY DEF Books, Owned
  <2>2. CASE p = q /\ n = n0
    <3>1. n \notin taken'[p]
      BY <1>1, <1>4, <2>2
    <3>2. n0 # 0
      BY <2>2 DEF Ports
    <3>3. \A r \in Registered \ {s} : tun[r].proto = q => tun[r].port # n0
      BY <3>2 DEF Books, Unshared
    <3> QED  BY <2>2, <3>1, <3>3
  <2>3. CASE ~(p = q /\ n = n0)
    <3>1. n \in taken'[p] <=> n \in taken[p]
      BY <1>1, <1>4, <2>3
    <3> QED  BY <2>1, <2>3, <3>1
  <2> QED  BY <2>2, <2>3
<1>6. Unshared'
  BY DEF Books, Unshared
<1>7. Counts'
  <2>1. Cardinality(Registered \ {s}) = Cardinality(Registered) - 1
    BY TablesFinite, FS_RemoveElement
  <2>2. tunnel_count' = Cardinality(Registered') /\ tunnel_count' <= MaxTunnels
    BY <2>1, TablesFinite, TunnelsAssumption DEF Books, Counts
  <2>3. \A r, b \in Registered' : tun'[r].id = tun'[b].id => r = b
    BY DEF Books, Counts
  <2> QED  BY <2>2, <2>3 DEF Counts
<1>8. Counted' /\ ports_used' \in 0 .. CounterMod - 1
  <2> DEFINE a == Cardinality(taken["tcp"])
             b == Cardinality(taken["udp"])
  <2>1. PICK k \in Nat : a + b = ports_used + k * CounterMod
    BY DEF Books, Counted
  <2>2. a \in Nat /\ b \in Nat /\ CounterMod \in Nat \ {0} /\ ports_used \in 0 .. CounterMod - 1
    BY TablesFinite, TunnelsAssumption DEF Protos, TypeOK
  <2>3. CASE n0 \notin taken[q]
    <3>1. taken' = taken /\ ports_used' = ports_used
      BY <1>1, <1>2, <2>3
    <3> QED  BY <2>2, <3>1, Zenon DEF Books, Counted
  <2>4. CASE n0 \in taken[q]
    <3> DEFINE S == taken[q]
               a1 == Cardinality(taken'["tcp"])
               b1 == Cardinality(taken'["udp"])
    <3>1. Cardinality(S \ {n0}) = Cardinality(S) - 1 /\ Cardinality(S) # 0
      <4>1. IsFiniteSet(S) /\ n0 \in S
        BY <1>1, <2>4, TablesFinite
      <4> HIDE DEF S, n0
      <4>2. Cardinality(S \ {n0}) = Cardinality(S) - 1
        BY <4>1, FS_RemoveElement, Zenon
      <4>3. Cardinality(S) # 0
        BY <4>1, FS_EmptySet
      <4> QED  BY <4>2, <4>3
    <3>2. a1 + b1 = a + b - 1 /\ a + b # 0
      <4>1. CASE q = "tcp"
        <5>1. taken'["tcp"] = S \ {n0} /\ taken'["udp"] = taken["udp"] /\ S = taken["tcp"]
          BY <1>4, <4>1 DEF Protos
        <5>2. a1 = a - 1 /\ b1 = b /\ a # 0
          BY <3>1, <5>1
        <5> HIDE DEF a, b, a1, b1
        <5> QED  BY <2>2, <5>2
      <4>2. CASE q = "udp"
        <5>1. taken'["udp"] = S \ {n0} /\ taken'["tcp"] = taken["tcp"] /\ S = taken["udp"]
          BY <1>4, <4>2 DEF Protos
        <5>2. a1 = a /\ b1 = b - 1 /\ b # 0
          BY <3>1, <5>1
        <5> HIDE DEF a, b, a1, b1
        <5> QED  BY <2>2, <5>2
      <4> QED  BY <1>1, <4>1, <4>2 DEF Protos
    <3> DEFINE c == a + b
    <3>3. c \in Nat \ {0} /\ c = ports_used + k * CounterMod
      BY <2>1, <2>2, <3>2
    <3>4. a1 + b1 = c - 1
      BY <2>2, <3>2
    <3> HIDE DEF c
    <3>5. /\ (ports_used - 1) % CounterMod \in 0 .. CounterMod - 1
          /\ \E j \in Nat : c - 1 = ((ports_used - 1) % CounterMod) + j * CounterMod
      BY <2>2, <3>3, CountDown, Zenon
    <3>6. ports_used' = (ports_used - 1) % CounterMod
      BY <1>2, <2>4
    <3> QED  BY ONLY <3>4, <3>5, <3>6, Zenon DEF Counted
  <2> QED  BY <2>3, <2>4
<1> QED  BY <1>3, <1>5, <1>6, <1>7, <1>8 DEF Books

\* tm_tunnel_delete keeps the invariant.
LEMMA DeleteStep ==
    ASSUME IInv, NEW s \in Blocks, tm_tunnel_delete(s)
    PROVE  IInv'
<1> DEFINE t == [tun[s] EXCEPT !.deleting = TRUE]
           x == [t |-> t, h |-> handle[s]]
           y == IF t.proto = "tcp" THEN tm_tunnel_listener_stop(x) ELSE tm_udp_stop(x)
<1>1. /\ Up /\ s \in Registered /\ tm_port_free(t.proto, t.port)
      /\ IF y.t.refs = 0 THEN FreeBlock(s, y.h) ELSE Store(s, y)
      /\ tunnel_count' = tunnel_count - 1 /\ UNCHANGED <<cursor, phase>>
  BY Zenon DEF tm_tunnel_delete, Block
<1>2. TypeOK /\ (\A b \in Blocks : Sound(b)) /\ Books
  BY <1>1 DEF IInv, Up
<1>3. tun[s] \in TunnelType /\ handle[s] \in Handles /\ tun[s] # Free
  BY <1>1, <1>2, RegisteredIs, Zenon DEF TypeOK, Handles
<1>4. Refs(tun[s], handle[s])
  BY <1>2, <1>3 DEF Sound
<1>5. t \in TunnelType /\ t.deleting = TRUE /\ t.proto = tun[s].proto /\ t.port = tun[s].port
  BY <1>3, Zenon DEF TunnelType
<1>6. t.refs = tun[s].refs /\ t.open = tun[s].open
  BY <1>3 DEF TunnelType
<1>7. Refs(t, handle[s])
  BY <1>4, <1>6 DEF Refs
<1> HIDE DEF t
<1>8. y \in Pairs /\ Kept(t, y.t) /\ Refs(y.t, y.h)
  BY <1>3, <1>5, <1>7, StopKeeps, StopRefs, Zenon
<1> HIDE DEF y
<1>9. y.t.deleting = TRUE
  BY <1>5, <1>8 DEF Kept
<1>10. /\ tun' = [tun EXCEPT ![s] = Free] \/ tun' = [tun EXCEPT ![s] = y.t]
       /\ tun' \in [Blocks -> TunnelType \cup {Free}]
       /\ handle' \in [Blocks -> Handles]
       /\ calm' \in BOOLEAN
       /\ ~Corrupt' => \A b \in Blocks : Sound(b)'
  <2>1. CASE y.t.refs = 0
    <3>1. FreeBlock(s, y.h)
      BY <1>1, <2>1
    <3> QED  BY <1>2, <3>1, FreeSound
  <2>2. CASE y.t.refs # 0
    <3>1. Store(s, y) /\ y.h = "closing"
      BY <1>1, <1>8, <2>2 DEF Refs
    <3> QED  BY <1>2, <1>8, <3>1, StoreSound
  <2> QED  BY <2>1, <2>2
<1>11. \A b \in Blocks \ {s} : tun'[b] = tun[b]
  BY <1>2, <1>10 DEF TypeOK
<1>12. tun'[s] = Free \/ tun'[s] = y.t
  BY <1>2, <1>10 DEF TypeOK
<1>13. Registered' = Registered \ {s}
  BY <1>9, <1>11, <1>12 DEF Registered, Allocated
<1>14. tm_port_free(tun[s].proto, tun[s].port) /\ \A b \in Registered \ {s} : tun'[b] = tun[b]
  BY <1>1, <1>2, <1>5, <1>11, RegisteredIs
<1>15. Books' /\ taken' \in [Protos -> SUBSET Ports] /\ ports_used' \in 0 .. CounterMod - 1
  BY <1>1, <1>2, <1>13, <1>14, RemovedBooks, Zenon
<1>16. TypeOK'
  <2>1. /\ cursor' \in 0 .. NPorts - 1 /\ phase' \in {"running", "shutting", "over"}
        /\ tunnel_count' \in Int
    <3>1. tunnel_count' = tunnel_count - 1 /\ cursor' = cursor /\ phase' = phase
      BY ONLY <1>1, Zenon
    <3>2. /\ cursor \in 0 .. NPorts - 1 /\ phase \in {"running", "shutting", "over"}
          /\ tunnel_count \in Int
      BY ONLY <1>2, Zenon DEF TypeOK
    <3> QED  BY ONLY <3>1, <3>2
  <2> QED  BY ONLY <1>10, <1>15, <2>1, Zenon DEF TypeOK, Handles
<1> QED  BY <1>10, <1>15, <1>16 DEF IInv

\* Adding a tunnel to the list with a port that was free, or with none, and
\* counting it leaves the books in order.
LEMMA AddedBooks ==
    ASSUME TypeOK, Books, NEW s \in Blocks \ Registered, Registered' = Registered \cup {s},
           \A b \in Registered : tun'[b] = tun[b],
           NEW u \in TunnelType, tun'[s] = u, \A o \in Registered : tun[o].id # u.id,
           u.port = 0 <=> u.closed /\ u.proto = "tcp", u.port \notin taken[u.proto],
           IF u.port # 0
           THEN /\ taken' = [taken EXCEPT ![u.proto] = @ \cup {u.port}]
                /\ ports_used' = (ports_used + 1) % CounterMod
           ELSE UNCHANGED <<taken, ports_used>>,
           tunnel_count < MaxTunnels, tunnel_count' = tunnel_count + 1
    PROVE  /\ Books'
           /\ taken' \in [Protos -> SUBSET Ports] /\ ports_used' \in 0 .. CounterMod - 1
<1> DEFINE q == u.proto
           n0 == u.port
<1>1. q \in Protos /\ n0 \in Ports \cup {0} /\ taken \in [Protos -> SUBSET Ports] /\ 0 \notin Ports
  BY DEF TunnelType, TypeOK, Ports
<1>2. taken' \in [Protos -> SUBSET Ports]
  BY <1>1
<1>3. \A p \in Protos, n \in Ports : n \in taken'[p] <=> (n \in taken[p] \/ (p = q /\ n = n0))
  BY <1>1
<1>4. Owned'
  <2> SUFFICES ASSUME NEW p \in Protos, NEW n \in Ports
               PROVE  n \in taken'[p] <=> \E r \in Registered \cup {s} : tun'[r].proto = p /\ tun'[r].port = n
    BY DEF Owned
  <2>1. n \in taken[p] <=> \E r \in Registered : tun[r].proto = p /\ tun[r].port = n
    BY DEF Books, Owned
  <2> QED  BY <1>3, <2>1
<1>5. Unshared'
  <2>1. \A r \in Registered : tun[r].proto = q /\ tun[r].port # 0 => tun[r].port # n0
    <3> TAKE r \in Registered
    <3> HAVE tun[r].proto = q /\ tun[r].port # 0
    <3>1. tun[r].port \in Ports
      BY RegisteredIs, Zenon DEF TunnelType
    <3>2. tun[r].port \in taken[q]
      BY <1>1, <3>1 DEF Books, Owned
    <3> QED  BY <3>2
  <2> QED  BY <2>1 DEF Books, Unshared
<1>6. Counts'
  <2>1. Cardinality(Registered \cup {s}) = Cardinality(Registered) + 1
    BY TablesFinite, FS_AddElement, Zenon
  <2>2. tunnel_count' = Cardinality(Registered') /\ tunnel_count' <= MaxTunnels
    BY <2>1, TablesFinite, TunnelsAssumption DEF Books, Counts
  <2>3. \A r, b \in Registered' : tun'[r].id = tun'[b].id => r = b
    BY DEF Books, Counts
  <2> QED  BY <2>2, <2>3 DEF Counts
<1>7. Counted' /\ ports_used' \in 0 .. CounterMod - 1
  <2> DEFINE a == Cardinality(taken["tcp"])
             b == Cardinality(taken["udp"])
  <2>1. PICK k \in Nat : a + b = ports_used + k * CounterMod
    BY DEF Books, Counted
  <2>2. a \in Nat /\ b \in Nat /\ CounterMod \in Nat \ {0} /\ ports_used \in 0 .. CounterMod - 1
    BY TablesFinite, TunnelsAssumption DEF Protos, TypeOK
  <2>3. CASE n0 = 0
    <3>1. taken' = taken /\ ports_used' = ports_used
      BY <2>3
    <3> QED  BY <2>2, <3>1 DEF Books, Counted
  <2>4. CASE n0 # 0
    <3> DEFINE S == taken[q]
               a1 == Cardinality(taken'["tcp"])
               b1 == Cardinality(taken'["udp"])
    <3>1. Cardinality(S \cup {n0}) = Cardinality(S) + 1
      <4>1. IsFiniteSet(S) /\ n0 \notin S
        BY <1>1, TablesFinite
      <4> HIDE DEF S, n0
      <4> QED  BY <4>1, FS_AddElement, Zenon
    <3>2. taken' = [taken EXCEPT ![q] = @ \cup {n0}] /\ ports_used' = (ports_used + 1) % CounterMod
      BY <2>4
    <3>3. a1 + b1 = a + b + 1
      <4>1. CASE q = "tcp"
        <5>1. taken'["tcp"] = S \cup {n0} /\ taken'["udp"] = taken["udp"] /\ S = taken["tcp"]
          BY <1>1, <3>2, <4>1 DEF Protos
        <5>2. a1 = a + 1 /\ b1 = b
          BY <3>1, <5>1
        <5> HIDE DEF a, b, a1, b1
        <5> QED  BY <2>2, <5>2
      <4>2. CASE q = "udp"
        <5>1. taken'["udp"] = S \cup {n0} /\ taken'["tcp"] = taken["tcp"] /\ S = taken["udp"]
          BY <1>1, <3>2, <4>2 DEF Protos
        <5>2. a1 = a /\ b1 = b + 1
          BY <3>1, <5>1
        <5> HIDE DEF a, b, a1, b1
        <5> QED  BY <2>2, <5>2
      <4> QED  BY <1>1, <4>1, <4>2 DEF Protos
    <3> DEFINE c == a + b
    <3>4. c \in Nat /\ c = ports_used + k * CounterMod
      BY <2>1, <2>2
    <3>5. a1 + b1 = c + 1
      BY <3>3
    <3> HIDE DEF c
    <3>6. /\ (ports_used + 1) % CounterMod \in 0 .. CounterMod - 1
          /\ \E j \in Nat : c + 1 = ((ports_used + 1) % CounterMod) + j * CounterMod
      BY <2>2, <3>4, CountUp, Zenon
    <3> QED  BY ONLY <3>2, <3>5, <3>6, Zenon DEF Counted
  <2> QED  BY <2>3, <2>4
<1> QED  BY <1>2, <1>4, <1>5, <1>6, <1>7 DEF Books

\* The cursor of tm_port_alloc stays within the range.
LEMMA CursorIn ==
    ASSUME NEW n \in Ports
    PROVE  n % NPorts \in 0 .. NPorts - 1
<1>1. NPorts \in Nat \ {0} /\ n \in 1 .. NPorts
  BY TunnelsAssumption DEF Ports
<1>2. CASE n < NPorts
  <2>1. n \in 0 .. NPorts - 1
    BY <1>1, <1>2
  <2> QED  BY <1>1, <2>1, WrapIn
<1>3. CASE n = NPorts
  <2>1. n \in NPorts .. 2 * NPorts - 1
    BY <1>1, <1>3
  <2>2. n % NPorts = n - NPorts
    BY <1>1, <2>1, WrapOver
  <2> QED  BY <1>1, <1>3, <2>2
<1> QED  BY <1>1, <1>2, <1>3

\* The tunnel tm_tunnel_create puts into its block is well typed.
LEMMA FreshTunnel ==
    ASSUME NEW id \in Ids, NEW p \in Protos, NEW c \in BOOLEAN, NEW n \in Ports \cup {0}
    PROVE  [id |-> id, proto |-> p, closed |-> c, enabled |-> TRUE,
            port |-> n, open |-> FALSE, closing |-> FALSE, restart |-> FALSE,
            refs |-> 0, deleting |-> FALSE] \in TunnelType
BY SMTT(30), ZenonT(30) DEF TunnelType

\* tm_tunnel_create keeps the invariant.
LEMMA CreateStep ==
    ASSUME IInv, NEW s \in Blocks, NEW id \in Ids, NEW k \in Kinds, NEW prefer \in {0} \cup Ports,
           tm_tunnel_create(s, id, k, prefer)
    PROVE  IInv'
<1> DEFINE needs == ~(k.closed /\ k.proto = "tcp")
           port == IF needs THEN tm_port_alloc(k.proto, prefer) ELSE 0
           t == [id |-> id, proto |-> k.proto, closed |-> k.closed, enabled |-> TRUE,
                 port |-> port, open |-> FALSE, closing |-> FALSE, restart |-> FALSE,
                 refs |-> 0, deleting |-> FALSE]
<1>1. /\ Up /\ phase = "running" /\ tun[s] = Free /\ tunnel_count < MaxTunnels
      /\ \A o \in Registered : tun[o].id # id
      /\ needs => port # 0
      /\ IF needs THEN TakePort(k.proto, port, prefer) ELSE UNCHANGED <<taken, ports_used, cursor>>
      /\ \E x \in Start([t |-> t, h |-> "none"]) : Store(s, x)
      /\ tunnel_count' = tunnel_count + 1 /\ UNCHANGED phase
  BY Zenon DEF tm_tunnel_create
<1>2. TypeOK /\ (\A b \in Blocks : Sound(b)) /\ Books
  BY <1>1, Zenon DEF IInv, Up
<1>3. k.proto \in Protos /\ k.closed \in BOOLEAN /\ 0 \notin Ports
  BY TunnelsAssumption DEF Ports
<1>4. port \in Ports \cup {0} /\ port \notin taken[k.proto] /\ (port # 0 <=> needs)
  <2>1. taken[k.proto] \subseteq Ports
    BY <1>2, <1>3 DEF TypeOK
  <2>2. Counted
    BY <1>2 DEF Books
  <2>3. /\ tm_port_alloc(k.proto, prefer) \notin taken[k.proto]
        /\ tm_port_alloc(k.proto, prefer) \in Ports \cup {0}
    BY <1>2, <1>3, <2>2, AllocIsExact
  <2> QED  BY <1>1, <1>3, <2>1, <2>3, Zenon
<1> HIDE DEF port
<1>5. t \in TunnelType
  BY <1>3, <1>4, FreshTunnel, Zenon
<1>6. /\ t.id = id /\ t.proto = k.proto /\ t.closed = k.closed /\ t.port = port
      /\ t.deleting = FALSE /\ t.refs = 0 /\ t.open = FALSE
  OBVIOUS
<1> HIDE DEF t
<1>7. PICK x \in Start([t |-> t, h |-> "none"]) : Store(s, x)
  BY <1>1
<1>8. x \in Pairs /\ Kept(t, x.t) /\ (x.h = "broken" \/ Refs(x.t, x.h))
  <2>1. "none" \in Handles /\ Refs(t, "none")
    BY <1>6 DEF Handles, Refs
  <2> QED  BY <1>5, <1>7, <2>1, StartKeeps, StartRefs, Zenon
<1> DEFINE u == x.t
<1>9. /\ u \in TunnelType /\ u.id = id /\ u.proto = k.proto /\ u.closed = k.closed
      /\ u.port = port /\ u.deleting = FALSE
  BY <1>6, <1>8, Zenon DEF Kept
<1>10. /\ tun' = [tun EXCEPT ![s] = u]
       /\ tun' \in [Blocks -> TunnelType \cup {Free}]
       /\ handle' \in [Blocks -> Handles]
       /\ calm' \in BOOLEAN
       /\ ~Corrupt' => \A b \in Blocks : Sound(b)'
  BY <1>2, <1>7, <1>8, <1>9, StoreSound, Zenon
<1> HIDE DEF u
<1>11. tun'[s] = u /\ \A b \in Blocks \ {s} : tun'[b] = tun[b]
  BY <1>2, <1>10 DEF TypeOK
<1>12. u # Free /\ s \notin Registered
  BY <1>1, <1>9, TunnelsAssumption, Zenon DEF Registered, Allocated
<1>13. Registered' = Registered \cup {s}
  BY <1>9, <1>11, <1>12, Zenon DEF Registered, Allocated
<1>14. \A b \in Registered : tun'[b] = tun[b]
  BY <1>2, <1>11, <1>12, RegisteredIs, Zenon
<1>15. IF port # 0
       THEN /\ taken' = [taken EXCEPT ![k.proto] = @ \cup {port}]
            /\ ports_used' = (ports_used + 1) % CounterMod
       ELSE UNCHANGED <<taken, ports_used>>
  BY <1>1, <1>4 DEF TakePort
<1>16. u.port = 0 <=> u.closed /\ u.proto = "tcp"
  BY <1>4, <1>9, Zenon
<1>17. Books' /\ taken' \in [Protos -> SUBSET Ports] /\ ports_used' \in 0 .. CounterMod - 1
  <2>1. /\ TypeOK /\ Books /\ s \in Blocks \ Registered /\ Registered' = Registered \cup {s}
        /\ \A b \in Registered : tun'[b] = tun[b]
        /\ u \in TunnelType /\ tun'[s] = u
    BY ONLY <1>2, <1>9, <1>11, <1>12, <1>13, <1>14, s \in Blocks, Zenon
  <2>2. \A o \in Registered : tun[o].id # u.id
    BY ONLY <1>1, <1>9, Zenon
  <2>3. u.port \notin taken[u.proto]
    BY ONLY <1>4, <1>9, Zenon
  <2>4. IF u.port # 0
        THEN /\ taken' = [taken EXCEPT ![u.proto] = @ \cup {u.port}]
             /\ ports_used' = (ports_used + 1) % CounterMod
        ELSE UNCHANGED <<taken, ports_used>>
    BY ONLY <1>9, <1>15, Zenon
  <2>5. tunnel_count < MaxTunnels /\ tunnel_count' = tunnel_count + 1
    BY ONLY <1>1, Zenon
  <2> QED  BY ONLY <2>1, <2>2, <2>3, <2>4, <2>5, <1>16, AddedBooks, ZenonT(30)
<1>18. cursor' \in 0 .. NPorts - 1
  <2>1. port \in Ports => port % NPorts \in 0 .. NPorts - 1
    BY CursorIn
  <2>2. cursor' = cursor \/ (port \in Ports /\ cursor' = port % NPorts)
    BY <1>1, <1>4 DEF TakePort
  <2> QED  BY <1>2, <2>1, <2>2 DEF TypeOK
<1>19. TypeOK'
  <2>1. tunnel_count' \in Int
    BY <1>1, <1>2 DEF TypeOK
  <2> QED  BY <1>1, <1>2, <1>10, <1>17, <1>18, <2>1 DEF TypeOK, Handles
<1> QED  BY <1>10, <1>17, <1>19 DEF IInv

----------------------------------------------------------------------------
(* Theorems *)

\* The invariant holds of the empty registry.
LEMMA InitInv == Init => IInv
<1> SUFFICES ASSUME Init PROVE IInv
  OBVIOUS
<1>1. TypeOK
  BY TunnelsAssumption DEF Init, TypeOK
<1>2. \A s \in Blocks : Sound(s)
  BY DEF Init, Sound
<1>3. Registered = {}
  BY DEF Init, Registered, Allocated
<1>4. Owned /\ Unshared
  BY <1>3 DEF Init, Owned, Unshared
<1>5. Counts
  BY <1>3, FS_EmptySet, TunnelsAssumption DEF Init, Counts
<1>6. Counted
  <2>1. taken["tcp"] = {} /\ taken["udp"] = {} /\ ports_used = 0
    BY DEF Init, Protos
  <2>2. Cardinality(taken["tcp"]) + Cardinality(taken["udp"]) = ports_used + 0 * CounterMod
    BY <2>1, FS_EmptySet, TunnelsAssumption
  <2> QED  BY <2>2 DEF Counted
<1> QED  BY <1>1, <1>2, <1>4, <1>5, <1>6 DEF IInv, Books

\* Every step keeps the invariant.
LEMMA NextInv == IInv /\ [Next]_vars => IInv'
<1> SUFFICES ASSUME IInv, [Next]_vars PROVE IInv'
  OBVIOUS
<1>1. ASSUME NEW s \in Blocks, NEW id \in Ids, NEW k \in Kinds, NEW prefer \in {0} \cup Ports,
             tm_tunnel_create(s, id, k, prefer)
      PROVE  IInv'
  BY <1>1, CreateStep
<1>2. ASSUME NEW s \in Blocks, tm_tunnel_delete(s)
      PROVE  IInv'
  BY <1>2, DeleteStep
<1>3. ASSUME NEW s \in Blocks, disable_tunnel(s)
      PROVE  IInv'
  BY <1>3, DisableStep
<1>4. ASSUME NEW s \in Blocks, enable_tunnel(s)
      PROVE  IInv'
  BY <1>4, EnableStep
<1>5. ASSUME NEW s \in Blocks, Closed(s)
      PROVE  IInv'
  BY <1>5, ClosedStep
<1>6. CASE tm_broker_shutdown
  <2>1. /\ phase = "running" /\ phase' = "shutting"
        /\ UNCHANGED <<tun, handle, taken, ports_used, cursor, tunnel_count, calm>>
    BY <1>6 DEF tm_broker_shutdown
  <2>2. TypeOK'
    BY <2>1 DEF IInv, TypeOK
  <2>3. Corrupt' = Corrupt /\ \A s \in Blocks : Sound(s)' = Sound(s)
    BY <2>1 DEF Corrupt, Sound
  <2>4. Books'
    BY <2>1, BooksKept DEF IInv
  <2> QED  BY <2>2, <2>3, <2>4 DEF IInv
<1>7. CASE broker_cleanup
  BY <1>7, CleanupStep
<1>8. CASE UNCHANGED vars
  <2>1. TypeOK' /\ phase' = phase
    BY <1>8 DEF vars, IInv, TypeOK
  <2>2. Corrupt' = Corrupt /\ \A s \in Blocks : Sound(s)' = Sound(s)
    BY <1>8, Zenon DEF vars, Corrupt, Sound
  <2>3. Books => Books'
    BY <1>8, BooksKept DEF vars
  <2> QED  BY <2>1, <2>2, <2>3 DEF IInv
<1> QED  BY <1>1, <1>2, <1>3, <1>4, <1>5, <1>6, <1>7, <1>8 DEF Next

\* The invariant holds in every reachable state.
LEMMA AlwaysInv == Spec => []IInv
BY InitInv, NextInv, PTL DEF Spec

\* The registry's variables keep their types, ports_used its width included.
THEOREM TypeCorrect == Spec => []TypeOK
BY AlwaysInv, PTL DEF IInv

\* Ports are exclusive: whatever the range, the width of ports_used and the
\* order of creations, deletions and close callbacks, a port is in the table
\* of a protocol exactly while one registered tunnel of it owns the port.
THEOREM PortsAreExclusive == Spec => []PortsExclusive
<1>1. IInv => PortsExclusive
  <2> SUFFICES ASSUME TypeOK, Books PROVE PortsExclusive
    BY DEF IInv, PortsExclusive
  <2>1. \A p \in Protos :
          taken[p] = {tun[s].port : s \in {r \in Registered : tun[r].proto = p}} \ {0}
    <3> TAKE p \in Protos
    <3> DEFINE R == {r \in Registered : tun[r].proto = p}
    <3>1. taken[p] \subseteq Ports /\ 0 \notin Ports
      BY DEF TypeOK, Ports
    <3>2. \A s \in R : tun[s].port \in Ports \cup {0}
      BY RegisteredIs, Zenon DEF TunnelType
    <3>3. \A n \in Ports : n \in taken[p] <=> \E s \in R : tun[s].port = n
      BY DEF Books, Owned
    <3> QED  BY <3>1, <3>2, <3>3
  <2> QED  BY <2>1 DEF PortsExclusive, Books, Unshared
<1> QED  BY <1>1, AlwaysInv, PTL

\* The cap max_tunnels is exact: tunnel_count is the number of registered
\* tunnels, at most MaxTunnels, and their ids are distinct.
THEOREM CountIsExact == Spec => []CountExact
<1>1. IInv => CountExact
  BY DEF IInv, Books, Counts, CountExact
<1> QED  BY <1>1, AlwaysInv, PTL

\* tm_port_alloc fails exactly when the table of the protocol is full and never
\* returns a port in use, although ports_used may wrap around: the full-range
\* test of ports_used cannot refuse a port that is free.
THEOREM AllocIsAlwaysExact == Spec => []AllocExact
<1>1. IInv => AllocExact
  BY AllocIsExact DEF IInv, Books, AllocExact
<1> QED  BY <1>1, AlwaysInv, PTL

\* The registry's books are right, for every range of ports, every width of
\* ports_used and every order of operations and callbacks.
THEOREM RegistryIsExact == Spec => []RegistryExact
BY TypeCorrect, PortsAreExclusive, CountIsExact, AllocIsAlwaysExact, PTL DEF RegistryExact

\* close_refs is the number of closes in flight and a block is freed once,
\* after its last close callback.
THEOREM RefsAreExact == Spec => []RefsExact
<1>1. IInv => RefsExact
  <2> SUFFICES ASSUME IInv, ~Corrupt, NEW s \in Blocks
               PROVE  IF tun[s] = Free THEN handle[s] = "none"
                      ELSE /\ tun[s].refs = IF handle[s] = "closing" THEN 1 ELSE 0
                           /\ tun[s].deleting => handle[s] = "closing"
    BY DEF RefsExact
  <2>1. Sound(s)
    BY DEF IInv
  <2> QED  BY <2>1 DEF Sound, Refs
<1> QED  BY <1>1, AlwaysInv, PTL

----------------------------------------------------------------------------
(* Listeners, while every tunnel is TCP and every bind succeeds *)

\* The flags of a tunnel say where its handle is.
Steady(t, h) ==
    /\ t.proto = "tcp" /\ h \in {"none", "up", "closing"}
    /\ t.open <=> h = "up"
    /\ t.closing <=> h = "closing"
    /\ t.restart => h = "closing"
    /\ t.closed => h = "none"

\* It listens, or will after the close in flight, iff it is enabled and open.
Listens(t) == (t.open \/ t.restart) <=> (t.enabled /\ ~t.closed)

Listener(s) ==
    IF tun[s] = Free THEN handle[s] = "none"
    ELSE IF phase = "over" THEN handle[s] \in {"none", "up", "closing"}
    ELSE Steady(tun[s], handle[s]) /\ (~tun[s].deleting => Listens(tun[s]))

CInv == calm => \A s \in Blocks : Listener(s)

\* A start whose bind succeeds makes an enabled tunnel listen, now or later.
LEMMA StartListens ==
    ASSUME NEW t \in TunnelType, NEW h, Steady(t, h), ~t.deleting, t.enabled,
           NEW y \in Start([t |-> t, h |-> h]), y.h = "up" => y.t.open
    PROVE  Steady(y.t, y.h) /\ Listens(y.t)
<1> DEFINE x == [t |-> t, h |-> h]
           v == [t EXCEPT !.restart = TRUE]
           o == [t EXCEPT !.open = TRUE]
<1>1. t.proto = "tcp"
  BY DEF Steady
<1>2. CASE t.open \/ t.closed
  <2>1. y = x
    BY <1>1, <1>2 DEF Start, tm_tunnel_listener_start
  <2> QED  BY <1>2, <2>1 DEF Steady, Listens
<1>3. CASE ~t.open /\ ~t.closed /\ t.closing
  <2>1. y = [t |-> v, h |-> h]
    BY <1>1, <1>3 DEF Start, tm_tunnel_listener_start
  <2>2. /\ v.proto = t.proto /\ v.open = t.open /\ v.closing = t.closing /\ v.closed = t.closed
        /\ v.enabled = t.enabled /\ v.restart = TRUE
    BY Zenon DEF TunnelType
  <2> HIDE DEF v
  <2> QED  BY <1>3, <2>1, <2>2, Zenon DEF Steady, Listens
<1>4. CASE ~t.open /\ ~t.closed /\ ~t.closing
  <2>1. h = "none"
    BY <1>4 DEF Steady
  <2>2. y \in Bind(x)
    BY <1>1, <1>4 DEF Start, tm_tunnel_listener_start
  <2>3. PICK ok \in BOOLEAN : y = [t |-> [t EXCEPT !.open = ok], h |-> "up"]
    BY <2>1, <2>2 DEF Bind
  <2>4. [t EXCEPT !.open = ok].open = ok
    BY DEF TunnelType
  <2>5. y = [t |-> o, h |-> "up"]
    BY <2>3, <2>4, Zenon
  <2>6. /\ o.proto = t.proto /\ o.open = TRUE /\ o.closing = t.closing /\ o.closed = t.closed
        /\ o.enabled = t.enabled /\ o.restart = t.restart
    BY Zenon DEF TunnelType
  <2> HIDE DEF o
  <2> QED  BY <1>4, <2>1, <2>5, <2>6, Zenon DEF Steady, Listens
<1> QED  BY <1>2, <1>3, <1>4, Zenon

\* A stop leaves a tunnel that does not listen and will not.
LEMMA StopListens ==
    ASSUME NEW t \in TunnelType, NEW h, Steady(t, h)
    PROVE  LET y == tm_tunnel_listener_stop([t |-> t, h |-> h]) IN
           /\ Steady(y.t, y.h) /\ ~y.t.open /\ ~y.t.restart
           /\ y.t.enabled = t.enabled
           /\ tm_udp_stop(y) = y
<1> DEFINE x == [t |-> t, h |-> h]
           y == tm_tunnel_listener_stop(x)
           v == [t EXCEPT !.restart = FALSE]
           w == [v EXCEPT !.refs = @ + 1, !.closing = TRUE, !.open = FALSE]
<1>1. /\ v.proto = t.proto /\ v.open = t.open /\ v.closing = t.closing /\ v.closed = t.closed
      /\ v.enabled = t.enabled /\ v.restart = FALSE /\ v \in TunnelType
  BY Zenon DEF TunnelType
<1>2. y = IF t.open THEN [t |-> w, h |-> "closing"] ELSE [t |-> v, h |-> h]
  BY Zenon DEF tm_tunnel_listener_stop, Close, Steady
<1> HIDE DEF v
<1>3. /\ w.proto = v.proto /\ w.open = FALSE /\ w.closing = TRUE /\ w.closed = v.closed
      /\ w.enabled = v.enabled /\ w.restart = v.restart
  BY <1>1 DEF TunnelType
<1> HIDE DEF w, y
<1>4. Steady(y.t, y.h) /\ ~y.t.open /\ ~y.t.restart /\ y.t.enabled = t.enabled
  <2>1. CASE t.open
    BY <1>1, <1>2, <1>3, <2>1, Zenon DEF Steady
  <2>2. CASE ~t.open
    BY <1>1, <1>2, <2>2 DEF Steady
  <2> QED  BY <2>1, <2>2
<1>5. tm_udp_stop(y) = y
  BY <1>4 DEF tm_udp_stop, Steady
<1> QED  BY <1>4, <1>5, Zenon DEF y

\* Storing a block whose flags are right keeps all of them right.
LEMMA StoreListener ==
    ASSUME TypeOK, CInv, phase # "over", UNCHANGED phase, NEW s \in Blocks, NEW x \in Pairs, Store(s, x),
           calm' => Steady(x.t, x.h) /\ (~x.t.deleting => Listens(x.t))
    PROVE  CInv'
<1>1. x.t # Free
  BY TunnelsAssumption DEF Pairs
<1>2. tun'[s] = x.t /\ handle'[s] = x.h /\ \A r \in Blocks \ {s} : tun'[r] = tun[r] /\ handle'[r] = handle[r]
  BY Zenon DEF Store, TypeOK
<1>3. SUFFICES ASSUME calm', NEW r \in Blocks PROVE Listener(r)'
  BY DEF CInv
<1>4. CASE r = s
  BY <1>1, <1>2, <1>3, <1>4, Zenon DEF Listener
<1>5. CASE r # s
  <2>1. calm
    BY <1>3, Zenon DEF Store
  <2>2. Listener(r) /\ tun'[r] = tun[r] /\ handle'[r] = handle[r]
    BY <1>2, <1>5, <2>1 DEF CInv
  <2> QED  BY <2>2, Zenon DEF Listener
<1> QED  BY <1>4, <1>5

\* As StoreListener, for a block that is freed after its last close callback.
LEMMA FreeListener ==
    ASSUME TypeOK, CInv, UNCHANGED phase, NEW s \in Blocks, NEW h, FreeBlock(s, h),
           calm => h = "none"
    PROVE  CInv'
<1>1. /\ tun'[s] = Free /\ (calm => handle'[s] = "none") /\ calm' = calm
      /\ \A r \in Blocks \ {s} : tun'[r] = tun[r] /\ handle'[r] = handle[r]
  BY DEF FreeBlock, TypeOK
<1>2. SUFFICES ASSUME calm', NEW r \in Blocks PROVE Listener(r)'
  BY DEF CInv
<1>3. CASE r = s
  BY <1>1, <1>2, <1>3, Zenon DEF Listener
<1>4. CASE r # s
  <2>1. Listener(r) /\ tun'[r] = tun[r] /\ handle'[r] = handle[r]
    BY <1>1, <1>2, <1>4 DEF CInv
  <2> QED  BY <2>1, Zenon DEF Listener
<1> QED  BY <1>3, <1>4

\* enable_tunnel and disable_tunnel keep the listeners right.
LEMMA FlagListener ==
    ASSUME IInv, CInv, NEW s \in Blocks, enable_tunnel(s) \/ disable_tunnel(s)
    PROVE  CInv'
<1>1. Up /\ s \in Registered /\ UNCHANGED phase /\ TypeOK /\ phase # "over"
  BY DEF enable_tunnel, disable_tunnel, Up, IInv
<1>2. tun[s] \in TunnelType /\ tun[s] # Free /\ tun[s].deleting = FALSE /\ handle[s] \in Handles
  BY <1>1, RegisteredIs, Zenon DEF TypeOK, Handles
<1>3. calm => Steady(tun[s], handle[s])
  BY <1>1, <1>2 DEF CInv, Listener
<1>4. CASE enable_tunnel(s)
  <2> DEFINE t == [tun[s] EXCEPT !.enabled = TRUE]
  <2>1. PICK x \in Start([t |-> t, h |-> handle[s]]) : Store(s, x)
    BY <1>4 DEF enable_tunnel, Block
  <2>2. t \in TunnelType /\ t.enabled = TRUE /\ t.deleting = FALSE /\ t.proto = tun[s].proto
    BY <1>2, Zenon DEF TunnelType
  <2>3. t.open = tun[s].open /\ t.closing = tun[s].closing /\ t.restart = tun[s].restart /\ t.closed = tun[s].closed
    BY <1>2 DEF TunnelType
  <2> HIDE DEF t
  <2>4. calm => Steady(t, handle[s])
    BY <1>3, <2>2, <2>3, Zenon DEF Steady
  <2>5. x \in Pairs
    BY <1>2, <2>1, <2>2, StartKeeps, Zenon
  <2>6. calm' => calm /\ (x.h = "up" => x.t.open)
    BY <2>1, Zenon DEF Store
  <2>7. calm' => Steady(x.t, x.h) /\ Listens(x.t)
    BY <2>1, <2>2, <2>4, <2>6, StartListens, Zenon
  <2> QED  BY <1>1, <2>1, <2>5, <2>7, StoreListener
<1>5. CASE disable_tunnel(s)
  <2> DEFINE t == [tun[s] EXCEPT !.enabled = FALSE]
             y == tm_tunnel_listener_stop([t |-> t, h |-> handle[s]])
             x == tm_udp_stop(y)
  <2>1. Store(s, x)
    BY <1>5 DEF disable_tunnel, Block
  <2>2. t \in TunnelType /\ t.enabled = FALSE /\ t.proto = tun[s].proto
    BY <1>2, Zenon DEF TunnelType
  <2>3. t.open = tun[s].open /\ t.closing = tun[s].closing /\ t.restart = tun[s].restart /\ t.closed = tun[s].closed
    BY <1>2 DEF TunnelType
  <2> HIDE DEF t
  <2>4. calm => Steady(t, handle[s])
    BY <1>3, <2>2, <2>3, Zenon DEF Steady
  <2>5. calm => Steady(y.t, y.h) /\ ~y.t.open /\ ~y.t.restart /\ y.t.enabled = FALSE /\ x = y
    BY <2>2, <2>4, StopListens, Zenon
  <2>6. y \in Pairs
    BY <1>2, <2>2, StopKeeps, Zenon
  <2> DEFINE u == y.t
             g == y.h
  <2>7. u \in TunnelType /\ g \in Handles /\ y = [t |-> u, h |-> g]
    BY <2>6 DEF Pairs
  <2> HIDE DEF u, g, y
  <2>8. x \in Pairs
    BY <2>7, StopKeeps
  <2> HIDE DEF x
  <2>9. calm' => calm
    BY <2>1, Zenon DEF Store
  <2>10. calm' => Steady(x.t, x.h) /\ Listens(x.t)
    BY <2>5, <2>9 DEF Listens
  <2> QED  BY <1>1, <2>1, <2>8, <2>10, StoreListener
<1> QED  BY <1>4, <1>5

\* As FlagListener, for tm_tunnel_create.
LEMMA CreateListener ==
    ASSUME IInv, CInv, NEW s \in Blocks, NEW id \in Ids, NEW k \in Kinds, NEW prefer \in {0} \cup Ports,
           tm_tunnel_create(s, id, k, prefer)
    PROVE  CInv'
<1> DEFINE port == IF ~(k.closed /\ k.proto = "tcp") THEN tm_port_alloc(k.proto, prefer) ELSE 0
           t == [id |-> id, proto |-> k.proto, closed |-> k.closed, enabled |-> TRUE,
                 port |-> port, open |-> FALSE, closing |-> FALSE, restart |-> FALSE,
                 refs |-> 0, deleting |-> FALSE]
<1>1. TypeOK /\ Books /\ phase # "over" /\ UNCHANGED phase
  BY Zenon DEF tm_tunnel_create, IInv, Up
<1>2. PICK x \in Start([t |-> t, h |-> "none"]) : Store(s, x)
  BY Zenon DEF tm_tunnel_create
<1>3. k.proto \in Protos /\ k.closed \in BOOLEAN
  BY TunnelsAssumption, Zenon
<1>4. port \in Ports \cup {0}
  BY <1>1, <1>3, AllocIsExact, Zenon DEF Books
<1> HIDE DEF port
<1>5. t \in TunnelType
  BY <1>3, <1>4, FreshTunnel, Zenon
<1>6. /\ t.proto = k.proto /\ t.enabled = TRUE /\ t.deleting = FALSE /\ t.open = FALSE
      /\ t.closing = FALSE /\ t.restart = FALSE
  OBVIOUS
<1> HIDE DEF t
<1>7. x \in Pairs /\ x.t.proto = t.proto
  BY <1>2, <1>5, StartKeeps, Zenon DEF Handles, Kept
<1>8. calm' => x.t.proto = "tcp" /\ (x.h = "up" => x.t.open)
  BY <1>2, Zenon DEF Store
<1>9. calm' => Steady(t, "none")
  BY <1>6, <1>7, <1>8, Zenon DEF Steady
<1>10. calm' => Steady(x.t, x.h) /\ Listens(x.t)
  BY <1>2, <1>5, <1>6, <1>8, <1>9, StartListens, Zenon
<1> QED  BY <1>1, <1>2, <1>7, <1>10, StoreListener, Zenon

\* As FlagListener, for tm_tunnel_delete: a block freed at once has no handle.
LEMMA DeleteListener ==
    ASSUME IInv, CInv, NEW s \in Blocks, tm_tunnel_delete(s)
    PROVE  CInv'
<1> DEFINE t == [tun[s] EXCEPT !.deleting = TRUE]
           x == [t |-> t, h |-> handle[s]]
           y == IF t.proto = "tcp" THEN tm_tunnel_listener_stop(x) ELSE tm_udp_stop(x)
<1>1. /\ Up /\ s \in Registered /\ UNCHANGED phase
      /\ IF y.t.refs = 0 THEN FreeBlock(s, y.h) ELSE Store(s, y)
  BY Zenon DEF tm_tunnel_delete, Block
<1>2. TypeOK /\ Sound(s) /\ phase # "over"
  BY <1>1 DEF IInv, Up
<1>3. tun[s] \in TunnelType /\ tun[s] # Free /\ handle[s] \in Handles
  BY <1>1, <1>2, RegisteredIs, Zenon DEF TypeOK, Handles
<1>4. Refs(tun[s], handle[s]) /\ (calm => Steady(tun[s], handle[s]))
  BY <1>2, <1>3, Zenon DEF Sound, CInv, Listener
<1>5. t \in TunnelType /\ t.deleting = TRUE /\ t.proto = tun[s].proto /\ t.refs = tun[s].refs
  BY <1>3, Zenon DEF TunnelType
<1>6. t.open = tun[s].open /\ t.closing = tun[s].closing /\ t.restart = tun[s].restart /\ t.closed = tun[s].closed
  BY <1>3 DEF TunnelType
<1> HIDE DEF t
<1>7. Refs(t, handle[s]) /\ (calm => Steady(t, handle[s]))
  BY <1>4, <1>5, <1>6, Zenon DEF Refs, Steady
<1>8. y \in Pairs /\ Kept(t, y.t) /\ Refs(y.t, y.h)
  BY <1>3, <1>5, <1>7, StopKeeps, StopRefs, Zenon
<1>9. calm => Steady(y.t, y.h) /\ ~y.t.open
  <2>1. calm => t.proto = "tcp"
    BY <1>7 DEF Steady
  <2> QED  BY <1>5, <1>7, <2>1, StopListens, Zenon
<1> HIDE DEF y
<1>10. y.t.deleting = TRUE
  BY <1>5, <1>8 DEF Kept
<1>11. CASE y.t.refs = 0
  <2>1. calm => y.h = "none"
    BY ONLY <1>8, <1>9, <1>11, SMTT(30) DEF Refs, Steady
  <2>2. FreeBlock(s, y.h)
    BY <1>1, <1>11
  <2> QED  BY <1>1, <1>2, <2>1, <2>2, FreeListener
<1>12. CASE y.t.refs # 0
  <2>1. Store(s, y)
    BY <1>1, <1>12
  <2>2. calm' => calm
    BY <2>1, Zenon DEF Store
  <2> QED  BY <1>1, <1>2, <1>8, <1>9, <1>10, <2>1, <2>2, StoreListener, Zenon
<1> QED  BY <1>11, <1>12, Zenon

\* As FlagListener, for the close callback: the deferred listener starts on a
\* handle the loop no longer knows.
LEMMA ClosedListener ==
    ASSUME IInv, CInv, NEW s \in Blocks, Closed(s)
    PROVE  CInv'
<1> DEFINE t == [tun[s] EXCEPT !.closing = FALSE, !.refs = @ - 1]
           u == [t EXCEPT !.restart = FALSE]
<1>1. Up /\ handle[s] = "closing" /\ UNCHANGED phase
  BY DEF Closed
<1>2. TypeOK /\ Sound(s) /\ phase # "over"
  BY <1>1 DEF IInv, Up
<1>3. tun[s] # Free /\ tun[s] \in TunnelType
  BY <1>1, <1>2 DEF Sound, TypeOK
<1>4. calm => Steady(tun[s], "closing") /\ (~tun[s].deleting => Listens(tun[s]))
  BY <1>1, <1>2, <1>3, Zenon DEF CInv, Listener
<1>5. IF t.deleting THEN IF t.refs = 0 THEN FreeBlock(s, "none") ELSE Store(s, [t |-> t, h |-> "none"])
      ELSE \E x \in IF t.restart THEN tm_tunnel_listener_start([t |-> u, h |-> "none"])
                    ELSE {[t |-> t, h |-> "none"]} : Store(s, x)
  BY DEF Closed
<1>6. t \in TunnelType
  <2> DEFINE r == tun[s].refs - 1
  <2>1. r \in Int /\ t = [tun[s] EXCEPT !.closing = FALSE, !.refs = r]
    BY <1>3 DEF TunnelType
  <2> HIDE DEF r
  <2>2. Kept(tun[s], [tun[s] EXCEPT !.closing = FALSE, !.refs = r])
    BY <1>3, <2>1, CloseKept, Zenon
  <2> QED  BY <2>1, <2>2 DEF Kept
<1>7. /\ t.proto = tun[s].proto /\ t.open = tun[s].open /\ t.closing = FALSE
      /\ t.restart = tun[s].restart /\ t.closed = tun[s].closed
  BY <1>3 DEF TunnelType
<1>8. t.enabled = tun[s].enabled /\ t.deleting = tun[s].deleting /\ t.refs = tun[s].refs - 1
  BY <1>3 DEF TunnelType
<1> HIDE DEF t
<1>9. /\ u.proto = t.proto /\ u.open = t.open /\ u.closing = t.closing
      /\ u.restart = FALSE /\ u.closed = t.closed
  BY <1>6 DEF TunnelType
<1>10. u.enabled = t.enabled /\ u.deleting = t.deleting /\ u \in TunnelType
  BY <1>6, Zenon DEF TunnelType
<1> HIDE DEF u
<1>11. calm => Steady(u, "none")
  BY <1>4, <1>7, <1>9 DEF Steady
<1>12. calm /\ ~t.restart => Steady(t, "none") /\ (~t.deleting => Listens(t))
  BY <1>4, <1>7, <1>8, Zenon DEF Steady, Listens
<1>13. CASE t.deleting
  <2>1. t.refs = 0
    <3>1. Refs(tun[s], handle[s])
      BY <1>2, <1>3 DEF Sound
    <3> QED  BY <1>1, <1>8, <3>1 DEF Refs
  <2>2. FreeBlock(s, "none")
    BY <1>5, <1>13, <2>1
  <2> QED  BY <1>1, <1>2, <2>2, FreeListener
<1>14. CASE ~t.deleting /\ ~t.restart
  <2> DEFINE x == [t |-> t, h |-> "none"]
  <2>1. Store(s, x) /\ x \in Pairs /\ x.t = t /\ x.h = "none"
    BY <1>5, <1>6, <1>14 DEF Pairs, Handles
  <2> HIDE DEF x
  <2>2. calm' => calm
    BY <2>1, Zenon DEF Store
  <2> QED  BY <1>1, <1>2, <1>12, <1>14, <2>1, <2>2, StoreListener, Zenon
<1>15. CASE ~t.deleting /\ t.restart
  <2>1. PICK x \in tm_tunnel_listener_start([t |-> u, h |-> "none"]) : Store(s, x)
    BY <1>5, <1>15
  <2>2. x \in Pairs
    <3>1. "none" \in Handles /\ [t |-> u, h |-> "none"] \in Pairs
      BY <1>10 DEF Handles, Pairs
    <3>2. x = [t |-> u, h |-> "none"] \/ x \in Start([t |-> u, h |-> "none"])
      BY <2>1 DEF Start, tm_tunnel_listener_start
    <3> QED  BY <1>10, <3>1, <3>2, StartKeeps
  <2>3. calm' => calm /\ (x.h = "up" => x.t.open)
    BY <2>1, Zenon DEF Store
  <2>4. calm => x \in Start([t |-> u, h |-> "none"]) /\ u.enabled /\ ~u.deleting
    BY <1>4, <1>7, <1>8, <1>9, <1>10, <1>15, <2>1, Zenon DEF Start, Steady, Listens
  <2>5. calm' => Steady(x.t, x.h) /\ Listens(x.t)
    BY <1>10, <1>11, <2>3, <2>4, StartListens
  <2> QED  BY <1>1, <1>2, <2>1, <2>2, <2>5, StoreListener
<1> QED  BY <1>13, <1>14, <1>15

\* As FlagListener, for broker_cleanup.
LEMMA CleanupListener ==
    ASSUME IInv, CInv, broker_cleanup
    PROVE  CInv'
<1> DEFINE Pair(s) == [t |-> tun[s], h |-> handle[s]]
           Torn(s) == IF s \notin Registered THEN Pair(s)
                      ELSE tm_udp_stop(tm_tunnel_listener_stop(Pair(s)))
<1>1. /\ phase # "over" /\ phase' = "over" /\ calm' = calm
      /\ tun' = [s \in Blocks |-> Torn(s).t] /\ handle' = [s \in Blocks |-> Torn(s).h]
  BY Zenon DEF broker_cleanup, Block, Up
<1>2. TypeOK
  BY DEF IInv
<1>3. SUFFICES ASSUME calm, NEW s \in Blocks PROVE Listener(s)'
  BY <1>1, Zenon DEF CInv
<1>4. Listener(s)
  BY <1>3 DEF CInv
<1>5. CASE s \notin Registered
  <2>1. tun'[s] = tun[s] /\ handle'[s] = handle[s]
    BY <1>1, <1>5
  <2> QED  BY <1>1, <1>4, <2>1, Zenon DEF Listener, Steady
<1>6. CASE s \in Registered
  <2> DEFINE y == tm_tunnel_listener_stop(Pair(s))
  <2>1. tun[s] \in TunnelType /\ tun[s] # Free /\ handle[s] \in Handles
    BY <1>2, <1>6, RegisteredIs, Zenon DEF TypeOK, Handles
  <2>2. Steady(tun[s], handle[s])
    BY <1>1, <1>4, <2>1, Zenon DEF Listener
  <2>3. Steady(y.t, y.h) /\ tm_udp_stop(y) = y
    BY <2>1, <2>2, StopListens, Zenon
  <2>4. y \in Pairs
    BY <2>1, StopKeeps, Zenon
  <2>5. tun'[s] = y.t /\ handle'[s] = y.h
    BY <1>1, <1>6, <2>3, Zenon
  <2> HIDE DEF y
  <2>6. tun'[s] # Free
    BY <2>4, <2>5, TunnelsAssumption DEF Pairs
  <2> QED  BY <1>1, <2>3, <2>5, <2>6, Zenon DEF Listener, Steady
<1> QED  BY <1>5, <1>6

\* The flags of the listeners are right in every reachable state.
LEMMA AlwaysListener == Spec => []CInv
<1>1. Init => CInv
  BY DEF Init, CInv, Listener
<1>2. IInv /\ CInv /\ [Next]_vars => CInv'
  <2> SUFFICES ASSUME IInv, CInv, [Next]_vars PROVE CInv'
    OBVIOUS
  <2>1. ASSUME NEW s \in Blocks, NEW id \in Ids, NEW k \in Kinds, NEW prefer \in {0} \cup Ports,
               tm_tunnel_create(s, id, k, prefer)
        PROVE  CInv'
    BY <2>1, CreateListener
  <2>2. ASSUME NEW s \in Blocks, tm_tunnel_delete(s)
        PROVE  CInv'
    BY <2>2, DeleteListener
  <2>3. ASSUME NEW s \in Blocks, disable_tunnel(s) \/ enable_tunnel(s)
        PROVE  CInv'
    BY <2>3, FlagListener
  <2>4. ASSUME NEW s \in Blocks, Closed(s)
        PROVE  CInv'
    BY <2>4, ClosedListener
  <2>5. CASE tm_broker_shutdown
    BY <2>5 DEF tm_broker_shutdown, CInv, Listener
  <2>6. CASE broker_cleanup
    BY <2>6, CleanupListener
  <2>7. CASE UNCHANGED vars
    BY <2>7 DEF vars, CInv, Listener
  <2> QED  BY <2>1, <2>2, <2>3, <2>4, <2>5, <2>6, <2>7 DEF Next
<1> QED  BY <1>1, <1>2, AlwaysInv, PTL DEF Spec

\* A TCP tunnel listens, or will after the close in flight, exactly while it is
\* enabled and open, as long as no bind has failed and all tunnels are TCP.
THEOREM ListensExactly == Spec => []ListensIffEnabled
<1>1. IInv /\ CInv => ListensIffEnabled
  <2> SUFFICES ASSUME IInv, CInv, Up, calm, NEW s \in Registered
               PROVE  /\ (tun[s].open \/ tun[s].restart) <=> (tun[s].enabled /\ ~tun[s].closed)
                      /\ tun[s].closed => handle[s] = "none"
                      /\ tun[s].open => handle[s] = "up"
                      /\ tun[s].restart => handle[s] = "closing"
    BY DEF ListensIffEnabled
  <2>1. s \in Blocks /\ tun[s] # Free /\ ~tun[s].deleting
    BY RegisteredIs DEF IInv
  <2>2. Steady(tun[s], handle[s]) /\ Listens(tun[s])
    BY <2>1 DEF CInv, Listener, Up
  <2> QED  BY <2>2 DEF Steady, Listens
<1> QED  BY <1>1, AlwaysInv, AlwaysListener, PTL

\* Under the same condition no handle is initialised or freed while the loop
\* still knows it, however closely stops, starts and deletions follow each other.
THEOREM HandlesAreSafe == Spec => []HandlesSafe
<1>1. CInv => HandlesSafe
  BY DEF CInv, Listener, Steady, HandlesSafe, Corrupt
<1> QED  BY <1>1, AlwaysListener, PTL
=============================================================================
