---------------------------- MODULE EndUdpProofs ----------------------------
(***************************************************************************)
(* Proofs about EndUdp: what an end keeps for its session belongs to that  *)
(* session, flow ids stay one to one when their counter wraps, and a peer  *)
(* without a session waits to make one, for all limits and id spaces.      *)
(***************************************************************************)
EXTENDS EndUdp, FiniteSetTheorems, WellFoundedInduction, SequenceTheorems, TLAPS

\* What a flow is made of.
FlowType == [id : BrokerIds \cup 1 .. IdSpace - 1, src : Locals \cup BrokerIds, idle : BOOLEAN]

\* A flow table of a program with role r is one to one and within the limit; the
\* agent knows a flow by the broker's id alone.
FlowsOK(fl, r) ==
    /\ fl \subseteq FlowType /\ IsFiniteSet(fl) /\ Cardinality(fl) <= MaxFlows
    /\ \A f, g \in fl : f.id = g.id \/ f.src = g.src => f = g
    /\ r = "agent" => \A f \in fl : f.src = f.id

\* A queue within the limit; before AUTH_OK it holds at most the AUTH_REQ.
QueueOK(s, a) ==
    /\ s \in Seq(Msgs) /\ Len(s) <= QueueMax
    /\ ~a => SetOf(s) \subseteq {Msg("auth", 0)}

\* The types of the variables that a run of the session does not change.
Scalars ==
    /\ role \in Roles /\ next \in 0 .. IdSpace - 1
    /\ closing \in BOOLEAN /\ reg \in BOOLEAN /\ shut \in BOOLEAN /\ failed \in BOOLEAN
    /\ rt \in {Off} \cup 0 .. MaxDelay + MaxDelay \div 5 /\ delay \in 0 .. MaxDelay

Network ==
    /\ bs \in {"none", "hs", "done", "authed"} /\ up \subseteq Handshakes \cup Auths /\ down \subseteq Msgs

\* Flows, queue and credential belong to an established session, which is swept.
SessionOK ==
    /\ ssl \in {"none", "hs", "done"} /\ authed \in BOOLEAN /\ sweep \in BOOLEAN
    /\ FlowsOK(flows, role) /\ QueueOK(q, authed)
    /\ ssl # "done" => flows = {} /\ q = <<>> /\ ~authed
    /\ ssl # "none" => sweep

\* A peer that runs waits to reconnect if and only if it has no session, unless a
\* start failed.
PeerOK == role = "peer" =>
    /\ closing <=> ssl = "none"
    /\ ~shut => (rt # Off => ssl = "none") /\ (ssl = "none" /\ ~failed => rt # Off)

\* The inductive invariant.
IInv == Scalars /\ Network /\ SessionOK /\ PeerOK

----------------------------------------------------------------------------
(* Flow ids *)

\* A set of numbers that is not empty has a least element: of the intervals that
\* end in it, one is minimal among finite sets.
LEMMA Least ==
    ASSUME NEW T \in SUBSET Nat, T # {}
    PROVE  \E x \in T : \A y \in T : x <= y
<1> DEFINE U == {0 .. n : n \in T}
<1>1. U # {}
  BY Zenon
<1>2. U \subseteq FiniteSubsetsOf(Nat)
  <2>1. \A n \in T : 0 .. n \in SUBSET Nat /\ IsFiniteSet(0 .. n)
    BY FS_Interval
  <2> QED  BY <2>1 DEF FiniteSubsetsOf
<1>3. IsWellFoundedOn(StrictSubsetOrdering(Nat), FiniteSubsetsOf(Nat))
  BY FS_StrictSubsetOrderingWellFounded
<1>4. PICK m \in U : \A u \in U : ~(<<u, m>> \in StrictSubsetOrdering(Nat))
  <2> HIDE DEF U
  <2> QED  BY <1>1, <1>2, <1>3, WFMin
<1>5. PICK x \in T : m = 0 .. x
  OBVIOUS
<1>6. ASSUME NEW y \in T, y < x
      PROVE  FALSE
  <2>1. 0 .. y \subseteq 0 .. x /\ 0 .. y # 0 .. x /\ 0 .. y \in SUBSET Nat /\ 0 .. x \in SUBSET Nat
    BY <1>6
  <2>2. <<0 .. y, 0 .. x>> \in StrictSubsetOrdering(Nat)
    BY <2>1 DEF StrictSubsetOrdering
  <2>3. 0 .. y \in U
    BY <1>6
  <2> QED  BY <2>2, <2>3, <1>4, <1>5, Zenon
<1> QED  BY <1>6

\* A number below n is its own remainder, also when it is n larger.
LEMMA Remainder ==
    ASSUME NEW n \in Nat \ {0}, NEW v \in 0 .. n - 1
    PROVE  v % n = v /\ (v + n) % n = v
OBVIOUS

\* Every id is met on the way around from any other.
LEMMA Around ==
    ASSUME NEW n \in Nat \ {0}, NEW m \in 0 .. n - 1, NEW v \in 0 .. n - 1
    PROVE  \E j \in 0 .. n - 1 : (m + j) % n = v
<1>1. CASE v >= m
  <2>1. v - m \in 0 .. n - 1 /\ m + (v - m) = v
    BY <1>1
  <2> QED  BY <2>1, Remainder, Zenon
<1>2. CASE v < m
  <2>1. (v + n) - m \in 0 .. n - 1 /\ m + ((v + n) - m) = v + n
    BY <1>2
  <2> QED  BY <2>1, Remainder, Zenon
<1> QED  BY <1>1, <1>2

\* The ids of a table are no more than its flows.
LEMMA FewIds ==
    ASSUME IsFiniteSet(flows)
    PROVE  /\ IsFiniteSet(Ids) /\ Cardinality(Ids) <= Cardinality(flows)
           /\ Cardinality(Ids) \in Nat /\ Cardinality(flows) \in Nat
<1>1. PICK h : h = [f \in flows |-> f.id]
  BY Zenon
<1>2. h \in Surjection(flows, Ids)
  BY <1>1 DEF Surjection, Ids
<1>3. IsFiniteSet(Ids) /\ Cardinality(Ids) <= Cardinality(flows)
  BY ONLY <1>2, IsFiniteSet(flows), FS_Surjection, ZenonT(30), SMTT(30)
<1> QED  BY <1>3, FS_CardinalityType

\* A table below the limit leaves an id free that is not 0.
LEMMA FreeId ==
    ASSUME IsFiniteSet(flows), Cardinality(flows) < MaxFlows
    PROVE  \E v \in 0 .. IdSpace - 1 : v # 0 /\ v \notin Ids
<1>1. IdSpace \in Nat /\ MaxFlows \in Nat /\ IdSpace > MaxFlows + 1
  BY EndUdpAssumption
<1>2. IsFiniteSet(Ids) /\ Cardinality(Ids) <= Cardinality(flows) /\ Cardinality(Ids) \in Nat /\ Cardinality(flows) \in Nat
  BY FewIds
<1>3. PICK U : U = Ids \cup {0}
  BY Zenon
<1>4. IsFiniteSet(U) /\ Cardinality(U) <= Cardinality(Ids) + 1 /\ Cardinality(U) \in Nat
  <2>1. PICK I : I = Ids
    OBVIOUS
  <2>2. IsFiniteSet(I \cup {0}) /\ Cardinality(I \cup {0}) = IF 0 \in I THEN Cardinality(I) ELSE Cardinality(I) + 1
    BY <1>2, <2>1, FS_AddElement
  <2>3. Cardinality(I) \in Nat
    BY <1>2, <2>1
  <2> QED  BY ONLY <1>3, <2>1, <2>2, <2>3
<1>5. IsFiniteSet(0 .. IdSpace - 1) /\ Cardinality(0 .. IdSpace - 1) = IdSpace
  BY <1>1, FS_Interval
<1>6. ~(0 .. IdSpace - 1 \subseteq U)
  <2> SUFFICES ASSUME 0 .. IdSpace - 1 \subseteq U PROVE FALSE
    OBVIOUS
  <2>1. Cardinality(0 .. IdSpace - 1) <= Cardinality(U)
    BY <1>4, FS_Subset, Zenon
  <2> QED  BY <1>1, <1>2, <1>4, <1>5, <2>1
<1> QED  BY <1>3, <1>6

\* The id of a new flow is neither 0 nor in use.
LEMMA NewId ==
    ASSUME IsFiniteSet(flows), Cardinality(flows) < MaxFlows, next \in 0 .. IdSpace - 1
    PROVE  flow_id_new \in 1 .. IdSpace - 1 /\ flow_id_new \notin Ids
<1> DEFINE At(j) == (next + j) % IdSpace
           Good(j) == At(j) # 0 /\ At(j) \notin Ids
<1>1. IdSpace \in Nat \ {0}
  BY EndUdpAssumption
<1>2. \A j \in 0 .. IdSpace - 1 : At(j) \in 0 .. IdSpace - 1
  BY <1>1
<1>3. \E j \in 0 .. IdSpace - 1 : Good(j)
  <2>1. PICK v \in 0 .. IdSpace - 1 : v # 0 /\ v \notin Ids
    BY FreeId
  <2>2. PICK j \in 0 .. IdSpace - 1 : (next + j) % IdSpace = v
    BY <1>1, Around, Zenon
  <2> QED  BY <2>1, <2>2
<1>4. flow_id_new = At(CHOOSE j \in 0 .. IdSpace - 1 : Good(j) /\ \A i \in 0 .. j - 1 : ~Good(i))
  BY DEF flow_id_new
<1> HIDE DEF At, Good
<1>5. \E j \in 0 .. IdSpace - 1 : Good(j) /\ \A i \in 0 .. j - 1 : ~Good(i)
  <2>1. PICK T : T = {j \in 0 .. IdSpace - 1 : Good(j)}
    BY Zenon
  <2>2. T \in SUBSET Nat /\ T # {}
    BY <1>1, <1>3, <2>1
  <2>3. PICK j \in T : \A y \in T : j <= y
    BY <2>2, Least
  <2> QED  BY <1>1, <2>1, <2>3
<1>6. PICK c \in 0 .. IdSpace - 1 : flow_id_new = At(c) /\ Good(c)
  BY <1>4, <1>5, Zenon
<1>7. At(c) # 0 /\ At(c) \notin Ids
  BY <1>6 DEF Good
<1> QED  BY <1>1, <1>2, <1>6, <1>7

----------------------------------------------------------------------------
(* The flow table *)

\* A session begins without flows.
LEMMA NoFlows == ASSUME NEW r PROVE FlowsOK({}, r)
<1>1. IsFiniteSet({}) /\ Cardinality({}) = 0
  BY FS_EmptySet
<1> QED  BY <1>1, EndUdpAssumption DEF FlowsOK

\* The sweep leaves a sound table.
LEMMA FewerFlows ==
    ASSUME NEW r, NEW fl, FlowsOK(fl, r), NEW gl, gl \subseteq fl
    PROVE  FlowsOK(gl, r)
<1>1. IsFiniteSet(gl) /\ Cardinality(gl) <= Cardinality(fl) /\ Cardinality(gl) \in Nat /\ Cardinality(fl) \in Nat
  BY FS_Subset, FS_CardinalityType DEF FlowsOK
<1>2. Cardinality(gl) <= MaxFlows
  BY <1>1, EndUdpAssumption DEF FlowsOK
<1> QED  BY <1>1, <1>2 DEF FlowsOK

\* A flow of a new id and a new source keeps the table one to one.
LEMMA AddFlow ==
    ASSUME NEW r, NEW fl, FlowsOK(fl, r), Cardinality(fl) < MaxFlows, NEW x \in FlowType,
           \A f \in fl : f.id # x.id /\ f.src # x.src, r = "agent" => x.src = x.id
    PROVE  FlowsOK(fl \cup {x}, r)
<1>1. IsFiniteSet(fl) /\ Cardinality(fl) \in Nat
  BY FS_CardinalityType DEF FlowsOK
<1>2. IsFiniteSet(fl \cup {x}) /\ Cardinality(fl \cup {x}) <= Cardinality(fl) + 1 /\ Cardinality(fl \cup {x}) \in Nat
  <2>1. /\ IsFiniteSet(fl \cup {x})
        /\ Cardinality(fl \cup {x}) = IF x \in fl THEN Cardinality(fl) ELSE Cardinality(fl) + 1
    BY ONLY <1>1, FS_AddElement, Zenon
  <2>2. PICK n \in Nat : n = Cardinality(fl)
    BY <1>1
  <2> QED  BY ONLY <2>1, <2>2
<1>3. Cardinality(fl \cup {x}) <= MaxFlows
  BY <1>1, <1>2, EndUdpAssumption
<1>4. \A f, g \in fl \cup {x} : f.id = g.id \/ f.src = g.src => f = g
  BY DEF FlowsOK
<1> QED  BY <1>2, <1>3, <1>4 DEF FlowsOK

\* What passes on a flow, or the time that nothing does, changes its mark only.
LEMMA MarkFlow ==
    ASSUME NEW r, NEW fl, FlowsOK(fl, r), NEW f \in fl, NEW b \in BOOLEAN,
           NEW x, x = [f EXCEPT !.idle = b]
    PROVE  FlowsOK((fl \ {f}) \cup {x}, r)
<1>1. fl \subseteq FlowType /\ IsFiniteSet(fl) /\ Cardinality(fl) \in Nat /\ Cardinality(fl) <= MaxFlows
  BY FS_CardinalityType DEF FlowsOK
<1>2. x \in FlowType /\ x.id = f.id /\ x.src = f.src
  BY <1>1 DEF FlowType
<1>3. PICK gl : gl = fl \ {f}
  BY Zenon
<1>4. IsFiniteSet(gl) /\ Cardinality(gl) = Cardinality(fl) - 1
  BY <1>1, <1>3, FS_RemoveElement
<1>5. FlowsOK(gl, r)
  BY <1>3, FewerFlows
<1>6. Cardinality(gl) < MaxFlows
  BY <1>1, <1>4, EndUdpAssumption
<1>7. \A g \in gl : g.id # x.id /\ g.src # x.src
  BY <1>2, <1>3 DEF FlowsOK
<1>8. r = "agent" => x.src = x.id
  BY <1>2 DEF FlowsOK
<1>9. FlowsOK(gl \cup {x}, r)
  BY ONLY <1>2, <1>5, <1>6, <1>7, <1>8, AddFlow
<1> QED  BY <1>3, <1>9

----------------------------------------------------------------------------
(* The queue *)

\* The messages a program queues.
LEMMA Kinds ==
    /\ Msg("auth", 0) \in Msgs /\ Msg("keepalive", 0) \in Msgs
    /\ \A id \in BrokerIds \cup 1 .. IdSpace - 1 : Msg("data", id) \in Msgs
    /\ Handshakes \cup Auths \subseteq Msgs /\ Msg("auth", 0) \in Auths
    /\ Msg("hello", 0) \in Handshakes /\ Msg("finish", 0) \in Handshakes
BY DEF Msgs, Auths, Handshakes

\* A session begins with an empty queue.
LEMMA NoQueue == ASSUME NEW a PROVE QueueOK(<<>>, a)
BY EndUdpAssumption DEF QueueOK, SetOf

\* A message is queued or dropped; before AUTH_OK it is the AUTH_REQ.
LEMMA QueueGrows ==
    ASSUME NEW a, QueueOK(q, a), NEW m \in Msgs, a \/ m = Msg("auth", 0)
    PROVE  QueueOK(Queued(m), a)
<1>1. CASE Len(q) >= QueueMax
  BY <1>1 DEF Queued
<1>2. CASE ~(Len(q) >= QueueMax)
  <2>1. q \in Seq(Msgs) /\ Len(q) \in Nat /\ QueueMax \in Nat /\ Queued(m) = Append(q, m)
    BY <1>2, EndUdpAssumption DEF QueueOK, Queued
  <2>2. Append(q, m) \in Seq(Msgs) /\ Len(Append(q, m)) = Len(q) + 1
    BY <2>1
  <2>3. SetOf(Append(q, m)) = SetOf(q) \cup {m}
    BY <2>1 DEF SetOf
  <2> QED  BY <1>2, <2>1, <2>2, <2>3 DEF QueueOK
<1> QED  BY <1>1, <1>2

\* What pump_out leaves of a queue is a queue, and of what it sends only the
\* AUTH_REQ matters.
LEMMA QueueShrinks ==
    ASSUME NEW a, NEW s, QueueOK(s, a), NEW k \in 0 .. Len(s)
    PROVE  QueueOK(SubSeq(s, k + 1, Len(s)), a) /\ Sent(SubSeq(s, 1, k)) \subseteq Auths
<1>1. s \in Seq(Msgs) /\ Len(s) \in Nat /\ Len(s) <= QueueMax /\ k \in 0 .. Len(s)
  BY DEF QueueOK
<1>2. PICK t : t = SubSeq(s, k + 1, Len(s))
  BY Zenon
<1>3. t \in Seq(Msgs) /\ Len(t) = Len(s) - k /\ \A i \in 1 .. Len(t) : t[i] = s[k + i] /\ k + i \in DOMAIN s
  BY <1>1, <1>2
<1>4. SetOf(t) \subseteq SetOf(s)
  BY <1>3 DEF SetOf
<1>5. Len(t) <= QueueMax
  BY <1>1, <1>3, EndUdpAssumption
<1>6. QueueOK(t, a)
  BY <1>3, <1>4, <1>5 DEF QueueOK
<1>7. Sent(SubSeq(s, 1, k)) \subseteq Auths
  BY Kinds DEF Sent
<1> QED  BY <1>2, <1>6, <1>7

----------------------------------------------------------------------------
(* Steps *)

\* A fifth of a delay is at most a fifth of the limit.
LEMMA Fifth ==
    ASSUME NEW d \in Nat, NEW m \in Nat, d <= m
    PROVE  d \div 5 \in Nat /\ d \div 5 <= d /\ d \div 5 <= m \div 5
OBVIOUS

\* The wait before a reconnect is not negative and exceeds the limit by a fifth
\* at most.
LEMMA Jitter ==
    ASSUME NEW d \in 0 .. MaxDelay, NEW x \in {d - d \div 5 + s : s \in 0 .. 2 * (d \div 5)}
    PROVE  x \in 0 .. MaxDelay + MaxDelay \div 5 /\ x # Off
<1>1. MaxDelay \in Nat /\ d \in Nat /\ d <= MaxDelay
  BY EndUdpAssumption
<1>2. PICK spread \in Nat : spread = d \div 5
  BY <1>1, Fifth
<1>3. PICK fifth \in Nat : fifth = MaxDelay \div 5
  BY <1>1, Fifth
<1>4. spread <= d /\ spread <= fifth
  BY <1>1, <1>2, <1>3, Fifth
<1>5. PICK s \in 0 .. 2 * spread : x = d - spread + s
  BY <1>2
<1>6. x \in 0 .. MaxDelay + fifth
  BY ONLY <1>1, <1>4, <1>5, spread \in Nat, fifth \in Nat
<1> QED  BY <1>3, <1>6 DEF Off

\* An end without a session keeps nothing of the one before.
LEMMA EndStep ==
    ASSUME IInv, SessionEnds, UNCHANGED role, Scalars',
           role = "peer" => closing' = TRUE /\ (~shut' => rt' # Off)
    PROVE  IInv'
<1>1. Network'
  BY DEF SessionEnds, Network
<1>2. SessionOK'
  <2>1. FlowsOK(flows', role') /\ QueueOK(q', authed')
    BY NoFlows, NoQueue DEF SessionEnds
  <2> QED  BY <2>1, Zenon DEF SessionEnds, SessionOK
<1>3. PeerOK'
  BY DEF SessionEnds, PeerOK
<1> QED  BY <1>1, <1>2, <1>3 DEF IInv

\* Both programs give a session up completely, and the peer waits for another.
LEMMA StopStep ==
    ASSUME IInv, Stop, UNCHANGED <<role, failed>>, next' \in 0 .. IdSpace - 1,
           reg' \in BOOLEAN, shut' \in BOOLEAN
    PROVE  IInv'
<1>1. Scalars /\ SessionEnds
  BY DEF IInv, Stop, tm_agent_udp_stop, tm_peer_udp_stop
<1>2. CASE tm_agent_udp_stop
  <2>1. role = "agent" /\ UNCHANGED <<closing, rt, delay>>
    BY <1>2 DEF tm_agent_udp_stop
  <2>2. Scalars'
    BY <1>1, <2>1 DEF Scalars
  <2> QED  BY <1>1, <2>1, <2>2, EndStep
<1>3. CASE tm_peer_udp_stop
  <2>1. /\ closing' = TRUE /\ delay' \in 0 .. MaxDelay
        /\ rt' \in {Off} \cup 0 .. MaxDelay + MaxDelay \div 5 /\ (~shut' => rt' # Off)
    <3>1. CASE shut'
      BY <1>1, <1>3, <3>1 DEF tm_peer_udp_stop, Scalars
    <3>2. CASE ~shut'
      <4>1. PICK d : d = NextDelay
        OBVIOUS
      <4>2. d \in 0 .. MaxDelay
        <5>1. delay \in 0 .. MaxDelay /\ MaxDelay \in Nat
          BY <1>1, EndUdpAssumption DEF Scalars
        <5> QED  BY ONLY <4>1, <5>1 DEF NextDelay
      <4>3. delay' = d /\ rt' \in {d - d \div 5 + s : s \in 0 .. 2 * (d \div 5)} /\ closing' = TRUE
        BY <1>3, <3>2, <4>1 DEF tm_peer_udp_stop
      <4>4. rt' \in 0 .. MaxDelay + MaxDelay \div 5 /\ rt' # Off
        BY ONLY <4>2, <4>3, Jitter, Zenon
      <4> QED  BY <4>2, <4>3, <4>4
    <3> QED  BY <3>1, <3>2, Zenon
  <2>2. Scalars'
    BY <1>1, <2>1 DEF Scalars
  <2> QED  BY <1>1, <2>1, <2>2, EndStep
<1> QED  BY <1>2, <1>3 DEF Stop

\* What a running session does with its queue and its flows keeps the invariant.
LEMMA PumpStep ==
    ASSUME IInv, ssl # "none", authed' \in BOOLEAN, NEW s, QueueOK(s, authed'), NEW k \in 0 .. Len(s),
           up' = up \cup Sent(SubSeq(s, 1, k)), q' = SubSeq(s, k + 1, Len(s)), ssl' = "done",
           down' \subseteq Msgs, FlowsOK(flows', role), next' \in 0 .. IdSpace - 1, Fixed, Kept
    PROVE  IInv'
<1>1. QueueOK(q', authed') /\ Sent(SubSeq(s, 1, k)) \subseteq Auths
  BY QueueShrinks
<1>2. Scalars'
  BY DEF IInv, Scalars, Fixed, Kept
<1>3. Network'
  BY <1>1 DEF IInv, Network, Kept
<1>4. SessionOK'
  <2>1. sweep = TRUE /\ sweep' = sweep /\ role' = role
    BY DEF IInv, SessionOK, Fixed, Kept
  <2> QED  BY ONLY <1>1, <2>1, ssl' = "done", authed' \in BOOLEAN, FlowsOK(flows', role) DEF SessionOK
<1>5. PeerOK'
  <2>1. role' = role /\ closing' = closing /\ shut' = shut /\ rt' = rt /\ failed' = failed
    BY DEF Fixed, Kept
  <2> QED  BY <2>1 DEF IInv, PeerOK
<1> QED  BY <1>2, <1>3, <1>4, <1>5 DEF IInv

\* What the invariant says of a session that is up.
LEMMA Now ==
    ASSUME IInv
    PROVE  /\ FlowsOK(flows, role) /\ QueueOK(q, authed) /\ down \subseteq Msgs
           /\ next \in 0 .. IdSpace - 1 /\ authed \in BOOLEAN /\ reg \in BOOLEAN /\ shut \in BOOLEAN
           /\ authed => ssl = "done"
BY DEF IInv, SessionOK, Network, Scalars

\* The messages of the handshake and of the authentication.
LEMMA RecvStep ==
    ASSUME IInv, RecvFlight \/ RecvDone \/ RecvAuthOk \/ RecvAuthErr
    PROVE  IInv'
<1>0. /\ FlowsOK(flows, role) /\ QueueOK(q, authed) /\ down \subseteq Msgs
      /\ next \in 0 .. IdSpace - 1 /\ authed \in BOOLEAN /\ reg \in BOOLEAN /\ shut \in BOOLEAN
  BY Now
<1>1. Fixed /\ next' = next
  BY DEF RecvFlight, RecvDone, RecvAuthOk, RecvAuthErr
<1>2. CASE Stop
  BY <1>0, <1>1, <1>2, StopStep DEF Fixed
<1>3. CASE RecvFlight /\ ~Stop
  <2>1. /\ up' = up \cup {Msg("finish", 0)} /\ down' \subseteq down /\ Kept
        /\ UNCHANGED <<ssl, authed, q, flows>>
    BY <1>3 DEF RecvFlight, Taken
  <2>2. Network'
    BY <2>1, Kinds DEF IInv, Network, Kept
  <2>3. Scalars' /\ SessionOK' /\ PeerOK'
    <3>1. UNCHANGED <<role, next, closing, reg, shut, failed, rt, delay, sweep>>
      BY <1>1, <2>1 DEF Fixed, Kept
    <3> QED  BY <2>1, <3>1 DEF IInv, Scalars, SessionOK, PeerOK
  <2> QED  BY <2>2, <2>3 DEF IInv
<1>4. CASE RecvDone /\ ~Stop
  <2> DEFINE m == Msg("done", 0)
             s == Queued(Msg("auth", 0))
  <2>1. /\ ssl' = "done" /\ Taken(m) /\ Kept /\ UNCHANGED <<authed, flows>>
        /\ \E k \in 0 .. Len(s) : up' = up \cup Sent(SubSeq(s, 1, k)) /\ q' = SubSeq(s, k + 1, Len(s))
    <3>1. Pump(s, ssl' = "done" /\ Taken(m) /\ Kept /\ UNCHANGED <<authed, flows>>)
      BY <1>4 DEF RecvDone
    <3> QED  BY ONLY <1>4, <3>1, Zenon DEF Pump, agent_pump_out, peer_pump_out, Stop
  <2>2. ssl # "none" /\ down' \subseteq Msgs
    BY <1>0, <1>4, <2>1 DEF RecvDone, Taken
  <2>3. QueueOK(s, authed)
    BY <1>0, QueueGrows, Kinds
  <2> HIDE DEF s
  <2>4. PICK k \in 0 .. Len(s) : up' = up \cup Sent(SubSeq(s, 1, k)) /\ q' = SubSeq(s, k + 1, Len(s))
    BY <2>1
  <2>5. QueueOK(s, authed') /\ authed' \in BOOLEAN /\ FlowsOK(flows', role) /\ next' \in 0 .. IdSpace - 1
    BY <1>0, <1>1, <2>1, <2>3
  <2> QED  BY ONLY IInv, <1>1, <2>1, <2>2, <2>4, <2>5, PumpStep, ZenonT(60)
<1>5. CASE RecvAuthOk /\ ~Stop
  <2> DEFINE m == Msg("ok", 0)
  <2>1. /\ authed' = TRUE /\ Taken(m) /\ Kept /\ UNCHANGED <<ssl, flows>>
        /\ \E k \in 0 .. Len(q) : up' = up \cup Sent(SubSeq(q, 1, k)) /\ q' = SubSeq(q, k + 1, Len(q))
    <3>1. Pump(q, authed' = TRUE /\ Taken(m) /\ Kept /\ UNCHANGED <<ssl, flows>>)
      BY <1>5 DEF RecvAuthOk
    <3> QED  BY ONLY <1>5, <3>1, Zenon DEF Pump, agent_pump_out, peer_pump_out, Stop
  <2>2. ssl # "none" /\ ssl' = "done" /\ down' \subseteq Msgs
    BY <1>0, <1>5, <2>1 DEF RecvAuthOk, Taken
  <2>4. PICK k \in 0 .. Len(q) : up' = up \cup Sent(SubSeq(q, 1, k)) /\ q' = SubSeq(q, k + 1, Len(q))
    BY <2>1
  <2>5. QueueOK(q, authed') /\ authed' \in BOOLEAN /\ FlowsOK(flows', role) /\ next' \in 0 .. IdSpace - 1
    BY <1>0, <1>1, <2>1 DEF QueueOK
  <2> QED  BY ONLY IInv, <1>1, <2>1, <2>2, <2>4, <2>5, PumpStep, ZenonT(60)
<1>6. CASE RecvAuthErr
  BY <1>0, <1>1, <1>6, StopStep DEF RecvAuthErr, Fixed
<1> QED  BY <1>2, <1>3, <1>4, <1>5, <1>6

\* A step of an established session that queues datagrams and uses the table.
LEMMA DataStep ==
    ASSUME IInv, ssl = "done", Fixed, next' \in 0 .. IdSpace - 1, NEW s, QueueOK(s, authed),
           \/ Stop
           \/ /\ Kept /\ UNCHANGED <<ssl, authed>> /\ down' \subseteq down /\ FlowsOK(flows', role)
              /\ \E k \in 0 .. Len(s) : up' = up \cup Sent(SubSeq(s, 1, k)) /\ q' = SubSeq(s, k + 1, Len(s))
    PROVE  IInv'
<1>0. down \subseteq Msgs /\ authed \in BOOLEAN /\ reg \in BOOLEAN /\ shut \in BOOLEAN
  BY Now
<1>1. CASE Stop
  BY <1>0, <1>1, StopStep DEF Fixed
<1>2. CASE /\ Kept /\ UNCHANGED <<ssl, authed>> /\ down' \subseteq down /\ FlowsOK(flows', role)
           /\ \E k \in 0 .. Len(s) : up' = up \cup Sent(SubSeq(s, 1, k)) /\ q' = SubSeq(s, k + 1, Len(s))
  <2>1. PICK k \in 0 .. Len(s) : up' = up \cup Sent(SubSeq(s, 1, k)) /\ q' = SubSeq(s, k + 1, Len(s))
    BY <1>2
  <2>2. /\ ssl # "none" /\ ssl' = "done" /\ authed' \in BOOLEAN /\ QueueOK(s, authed')
        /\ down' \subseteq Msgs
    BY <1>0, <1>2
  <2> QED  BY ONLY IInv, Fixed, next' \in 0 .. IdSpace - 1, <1>2, <2>1, <2>2, PumpStep, ZenonT(60)
<1> QED  BY <1>1, <1>2, Zenon

\* A datagram of the broker reaches the agent.
LEMMA AgentEnvStep ==
    ASSUME IInv, NEW id \in BrokerIds, agent_handle_broker_env(id)
    PROVE  IInv'
<1>0. /\ FlowsOK(flows, role) /\ QueueOK(q, authed) /\ next \in 0 .. IdSpace - 1
      /\ role = "agent" /\ ssl = "done" /\ Fixed /\ next' = next
  BY Now DEF agent_handle_broker_env
<1>1. \A fl \in EnvFlow(id) : FlowsOK(fl, role)
  <2>1. CASE id \in Ids
    <3>1. \A f \in flows : FlowsOK(Touched(f), role)
      BY <1>0, MarkFlow, Zenon DEF Touched
    <3> QED  BY <2>1, <3>1 DEF EnvFlow
  <2>2. CASE id \notin Ids
    <3>0. PICK x : x = [id |-> id, src |-> id, idle |-> FALSE]
      BY Zenon
    <3>1. x \in FlowType /\ x = [id |-> id, src |-> id, idle |-> FALSE] /\ x.id = id /\ x.src = id
      BY ONLY <3>0, id \in BrokerIds DEF FlowType
    <3>2. \A f \in flows : f.id # x.id /\ f.src # x.src
      BY <1>0, <2>2, <3>1 DEF Ids, FlowsOK
    <3>3. Cardinality(flows) < MaxFlows => FlowsOK(flows \cup {x}, role)
      <4>1. FlowsOK(flows, role) /\ (role = "agent" => x.src = x.id)
        BY <1>0, <3>1
      <4> QED  BY ONLY <3>1, <3>2, <4>1, AddFlow, Zenon
    <3> QED  BY <1>0, <2>2, <3>1, <3>3 DEF EnvFlow, NewFlow
  <2> QED  BY <2>1, <2>2
<1>2. \/ Stop
      \/ /\ flows' \in EnvFlow(id) /\ Taken(Msg("data", id)) /\ Kept /\ UNCHANGED <<ssl, authed>>
         /\ \E k \in 0 .. Len(q) : up' = up \cup Sent(SubSeq(q, 1, k)) /\ q' = SubSeq(q, k + 1, Len(q))
  BY Zenon DEF agent_handle_broker_env, agent_pump_out, Stop
<1>3. Taken(Msg("data", id)) => down' \subseteq down
  BY DEF Taken
<1>4. next' \in 0 .. IdSpace - 1
  BY <1>0
<1> QED  BY ONLY IInv, <1>0, <1>1, <1>2, <1>3, <1>4, DataStep, ZenonT(60)

\* The local service answers on a flow of the agent.
LEMMA AgentFlowStep ==
    ASSUME IInv, NEW f \in flows, agent_flow_recv_cb(f)
    PROVE  IInv'
<1>0. /\ FlowsOK(flows, role) /\ QueueOK(q, authed) /\ authed = TRUE /\ ssl = "done"
      /\ Fixed /\ next' = next /\ next \in 0 .. IdSpace - 1
  BY Now, Zenon DEF agent_flow_recv_cb
<1>1. PICK s : s = Queued(Msg("data", f.id))
  OBVIOUS
<1>2. QueueOK(s, authed)
  <2>1. f.id \in BrokerIds \cup 1 .. IdSpace - 1
    BY <1>0 DEF FlowsOK, FlowType
  <2> QED  BY <1>0, <1>1, <2>1, Kinds, QueueGrows, Zenon
<1>3. FlowsOK(Touched(f), role)
  BY <1>0, MarkFlow, Zenon DEF Touched
<1>4. \/ Stop
      \/ /\ flows' = Touched(f) /\ Kept /\ UNCHANGED <<ssl, authed, down>>
         /\ \E k \in 0 .. Len(s) : up' = up \cup Sent(SubSeq(s, 1, k)) /\ q' = SubSeq(s, k + 1, Len(s))
  BY <1>1, Zenon DEF agent_flow_recv_cb, agent_udp_queue, agent_pump_out, Stop
<1>5. next' \in 0 .. IdSpace - 1 /\ (UNCHANGED <<ssl, authed, down>> => UNCHANGED <<ssl, authed>> /\ down' \subseteq down)
  BY <1>0, Zenon
<1>6. flows' = Touched(f) => FlowsOK(flows', role)
  BY <1>3
<1> QED  BY ONLY IInv, <1>0, <1>2, <1>4, <1>5, <1>6, DataStep, ZenonT(60)

\* A local application sends to the peer.
LEMMA LocalStep ==
    ASSUME IInv, NEW a \in Locals, local_recv_cb(a)
    PROVE  IInv'
<1>0. /\ FlowsOK(flows, role) /\ QueueOK(q, authed) /\ authed = TRUE /\ ssl = "done"
      /\ Fixed /\ next \in 0 .. IdSpace - 1 /\ role = "peer"
  BY Now, Zenon DEF local_recv_cb
<1>1. ASSUME NEW f \in flows, next' = next,
             peer_udp_queue(Msg("data", f.id), flows' = Touched(f) /\ Kept /\ UNCHANGED <<ssl, authed, down>>)
      PROVE  IInv'
  <2>1. PICK s : s = Queued(Msg("data", f.id))
    OBVIOUS
  <2>2. QueueOK(s, authed)
    <3>1. f.id \in BrokerIds \cup 1 .. IdSpace - 1
      BY <1>0 DEF FlowsOK, FlowType
    <3> QED  BY <1>0, <2>1, <3>1, Kinds, QueueGrows, Zenon
  <2>3. FlowsOK(Touched(f), role)
    BY <1>0, MarkFlow, Zenon DEF Touched
  <2>4. \/ Stop
        \/ /\ flows' = Touched(f) /\ Kept /\ UNCHANGED <<ssl, authed, down>>
           /\ \E k \in 0 .. Len(s) : up' = up \cup Sent(SubSeq(s, 1, k)) /\ q' = SubSeq(s, k + 1, Len(s))
    BY <1>1, <2>1, Zenon DEF peer_udp_queue, peer_pump_out, Stop
  <2>5. next' \in 0 .. IdSpace - 1 /\ (UNCHANGED <<ssl, authed, down>> => UNCHANGED <<ssl, authed>> /\ down' \subseteq down)
    BY <1>0, <1>1, Zenon
  <2>6. flows' = Touched(f) => FlowsOK(flows', role)
    BY <2>3
  <2> QED  BY ONLY IInv, <1>0, <2>2, <2>4, <2>5, <2>6, DataStep, ZenonT(60)
<1>2. ASSUME \A f \in flows : f.src # a, Cardinality(flows) < MaxFlows, next' = (flow_id_new + 1) % IdSpace,
             peer_udp_queue(Msg("data", flow_id_new),
                            flows' = NewFlow(flow_id_new, a) /\ Kept /\ UNCHANGED <<ssl, authed, down>>)
      PROVE  IInv'
  <2>0. PICK n \in 1 .. IdSpace - 1 : n = flow_id_new /\ n \notin Ids
    <3>1. IsFiniteSet(flows)
      BY <1>0 DEF FlowsOK
    <3> QED  BY <1>0, <1>2, <3>1, NewId
  <2>1. PICK s : s = Queued(Msg("data", n))
    OBVIOUS
  <2>2. QueueOK(s, authed)
    BY <1>0, <2>1, Kinds, QueueGrows, Zenon
  <2>3. FlowsOK(NewFlow(n, a), role)
    <3>0. PICK x : x = [id |-> n, src |-> a, idle |-> FALSE]
      BY Zenon
    <3>1. x \in FlowType /\ x = [id |-> n, src |-> a, idle |-> FALSE] /\ x.id = n /\ x.src = a
      BY ONLY <3>0, a \in Locals, n \in 1 .. IdSpace - 1 DEF FlowType
    <3>2. \A f \in flows : f.id # x.id /\ f.src # x.src
      BY <1>2, <2>0, <3>1 DEF Ids
    <3>3. FlowsOK(flows, role) /\ Cardinality(flows) < MaxFlows /\ (role = "agent" => x.src = x.id)
      BY <1>0, <1>2
    <3>4. FlowsOK(flows \cup {x}, role)
      BY ONLY <3>1, <3>2, <3>3, AddFlow, Zenon
    <3> QED  BY <3>1, <3>4 DEF NewFlow
  <2>4. \/ Stop
        \/ /\ flows' = NewFlow(n, a) /\ Kept /\ UNCHANGED <<ssl, authed, down>>
           /\ \E k \in 0 .. Len(s) : up' = up \cup Sent(SubSeq(s, 1, k)) /\ q' = SubSeq(s, k + 1, Len(s))
    BY <1>2, <2>0, <2>1, Zenon DEF peer_udp_queue, peer_pump_out, Stop
  <2>5. next' \in 0 .. IdSpace - 1
    BY <1>2, <2>0, EndUdpAssumption
  <2>6. /\ UNCHANGED <<ssl, authed, down>> => UNCHANGED <<ssl, authed>> /\ down' \subseteq down
        /\ flows' = NewFlow(n, a) => FlowsOK(flows', role)
    BY <2>3
  <2> QED  BY ONLY IInv, <1>0, <2>2, <2>4, <2>5, <2>6, DataStep, ZenonT(60)
<1> QED  BY <1>1, <1>2, Zenon DEF local_recv_cb

\* A reply of the broker reaches the peer.
LEMMA PeerEnvStep ==
    ASSUME IInv, NEW id \in 1 .. IdSpace - 1, peer_handle_broker_env(id)
    PROVE  IInv'
<1>0. /\ FlowsOK(flows, role) /\ QueueOK(q, authed) /\ next \in 0 .. IdSpace - 1
      /\ ssl = "done" /\ Fixed /\ next' = next
  BY Now DEF peer_handle_broker_env
<1>1. PICK T : T = {Touched(f) : f \in {g \in flows : g.id = id}} \cup (IF id \in Ids THEN {} ELSE {flows})
  BY Zenon
<1>2. \A fl \in T : FlowsOK(fl, role)
  <2>1. \A f \in flows : FlowsOK(Touched(f), role)
    BY <1>0, MarkFlow, Zenon DEF Touched
  <2> QED  BY <1>0, <1>1, <2>1
<1>3. \/ Stop
      \/ /\ flows' \in T /\ Taken(Msg("data", id)) /\ Kept /\ UNCHANGED <<ssl, authed>>
         /\ \E k \in 0 .. Len(q) : up' = up \cup Sent(SubSeq(q, 1, k)) /\ q' = SubSeq(q, k + 1, Len(q))
  BY <1>1, Zenon DEF peer_handle_broker_env, peer_pump_out, Stop
<1>4. (Taken(Msg("data", id)) => down' \subseteq down) /\ next' \in 0 .. IdSpace - 1
  BY <1>0 DEF Taken
<1> QED  BY ONLY IInv, <1>0, <1>2, <1>3, <1>4, DataStep, ZenonT(60)

\* The peer keeps its session alive.
LEMMA KeepaliveStep ==
    ASSUME IInv, keepalive_cb
    PROVE  IInv'
<1>0. /\ FlowsOK(flows, role) /\ QueueOK(q, authed) /\ authed = TRUE /\ ssl = "done"
      /\ Fixed /\ next' = next /\ next \in 0 .. IdSpace - 1
  BY Now, Zenon DEF keepalive_cb
<1>1. PICK s : s = Queued(Msg("keepalive", 0))
  OBVIOUS
<1>2. QueueOK(s, authed)
  BY <1>0, <1>1, Kinds, QueueGrows, Zenon
<1>3. \/ Stop
      \/ /\ Kept /\ UNCHANGED <<ssl, authed, flows, down>>
         /\ \E k \in 0 .. Len(s) : up' = up \cup Sent(SubSeq(s, 1, k)) /\ q' = SubSeq(s, k + 1, Len(s))
  BY <1>1, Zenon DEF keepalive_cb, peer_udp_queue, peer_pump_out, Stop
<1>4. /\ next' \in 0 .. IdSpace - 1
      /\ UNCHANGED <<ssl, authed, flows, down>> =>
            UNCHANGED <<ssl, authed>> /\ down' \subseteq down /\ FlowsOK(flows', role)
  BY <1>0, Zenon
<1> QED  BY ONLY IInv, <1>0, <1>2, <1>3, <1>4, DataStep, ZenonT(60)

\* Nothing but the table changes.
LEMMA TableStep ==
    ASSUME IInv, FlowsOK(flows', role), flows = {} => flows' = {},
           UNCHANGED <<role, ssl, authed, closing, q, next, sweep, rt, delay, reg, shut, failed, net>>
    PROVE  IInv'
<1>1. Scalars' /\ Network' /\ PeerOK'
  BY Zenon DEF IInv, Scalars, Network, PeerOK, net
<1>2. SessionOK'
  BY DEF IInv, SessionOK
<1> QED  BY <1>1, <1>2 DEF IInv

\* The sweep and the passing of time.
LEMMA SweepStep ==
    ASSUME IInv, Sweep \/ \E f \in flows : FallsIdle(f)
    PROVE  IInv'
<1>0. FlowsOK(flows, role)
  BY Now
<1>1. CASE Sweep
  <2>1. /\ flows' \subseteq flows
        /\ UNCHANGED <<role, ssl, authed, closing, q, next, sweep, rt, delay, reg, shut, failed, net>>
    BY <1>1 DEF Sweep
  <2>2. FlowsOK(flows', role)
    BY ONLY <1>0, <2>1, FewerFlows
  <2> QED  BY <2>1, <2>2, TableStep
<1>2. ASSUME NEW f \in flows, FallsIdle(f) PROVE IInv'
  <2>1. /\ flows' = (flows \ {f}) \cup {[f EXCEPT !.idle = TRUE]}
        /\ UNCHANGED <<role, ssl, authed, closing, q, next, sweep, rt, delay, reg, shut, failed, net>>
    BY <1>2 DEF FallsIdle
  <2>2. FlowsOK(flows', role)
    BY <1>0, <2>1, MarkFlow, Zenon
  <2> QED  BY <2>1, <2>2, TableStep
<1> QED  BY <1>1, <1>2

\* A start finds nothing of the session before it, and may fail.
LEMMA StartStep ==
    ASSUME IInv, udp_reconnect \/ Register
    PROVE  IInv'
<1>1. CASE udp_reconnect
  <2>1. /\ role = "peer" /\ rt # Off /\ ~shut /\ rt' = Off /\ UNCHANGED <<role, next, delay, reg, shut>>
        /\ \/ Starts /\ closing' = FALSE /\ failed' = FALSE
           \/ StartFails /\ failed' = TRUE /\ UNCHANGED closing
    BY <1>1 DEF udp_reconnect, tm_peer_udp_start
  <2>2. ssl = "none" /\ closing = TRUE /\ flows = {} /\ q = <<>> /\ authed = FALSE
    BY <2>1 DEF IInv, PeerOK, SessionOK, Scalars
  <2>3. Scalars'
    BY <2>1, Zenon DEF IInv, Scalars
  <2>4. Network'
    BY <2>1, Kinds DEF IInv, Network, Starts, StartFails, net
  <2>5. SessionOK'
    <3>1. UNCHANGED <<role, authed, q, flows>>
      BY <2>1 DEF Starts, StartFails
    <3>2. (ssl' = "hs" /\ sweep' = TRUE) \/ UNCHANGED <<ssl, sweep>>
      BY <2>1 DEF Starts, StartFails
    <3> QED  BY <2>2, <3>1, <3>2, Zenon DEF IInv, SessionOK
  <2>6. PeerOK'
    BY <2>1, <2>2, Zenon DEF PeerOK, Starts, StartFails
  <2> QED  BY <2>3, <2>4, <2>5, <2>6 DEF IInv
<1>2. CASE Register
  <2>1. /\ role = "agent" /\ reg' = TRUE /\ UNCHANGED <<role, next, delay, shut, closing, rt>>
        /\ failed' \in BOOLEAN /\ (StartFails \/ (ssl = "none" /\ Starts))
    BY <1>2, Zenon DEF IInv, Scalars, Register, tm_agent_udp_start
  <2>2. Scalars'
    BY <2>1 DEF IInv, Scalars
  <2>3. Network'
    BY <2>1, Kinds DEF IInv, Network, Starts, StartFails, net
  <2>4. SessionOK'
    <3>1. UNCHANGED <<role, authed, q, flows>>
      BY <2>1 DEF Starts, StartFails
    <3>2. (ssl = "none" /\ ssl' = "hs" /\ sweep' = TRUE) \/ UNCHANGED <<ssl, sweep>>
      BY <2>1 DEF Starts, StartFails
    <3> QED  BY <3>1, <3>2, Zenon DEF IInv, SessionOK
  <2>5. PeerOK'
    BY <2>1 DEF PeerOK
  <2> QED  BY <2>2, <2>3, <2>4, <2>5 DEF IInv
<1> QED  BY <1>1, <1>2

\* The control connection is lost, or the program stops.
LEMMA LeaveStep ==
    ASSUME IInv, Unregister \/ Shutdown
    PROVE  IInv'
<1>1. /\ Stop /\ UNCHANGED <<role, failed>> /\ next' \in 0 .. IdSpace - 1
      /\ reg' \in BOOLEAN /\ shut' \in BOOLEAN
  BY Now, Zenon DEF Unregister, Shutdown, Stop
<1> QED  BY <1>1, StopStep

\* The broker and the network touch nothing of the program.
LEMMA BrokerStep ==
    ASSUME IInv, Broker
    PROVE  IInv'
<1>1. UNCHANGED Client
  BY DEF Broker, BrokerHello, BrokerFinish, BrokerAuthOk, BrokerAuthErr, BrokerAnswers, BrokerForgets,
         BrokerSends, BrokerDrops, Lose
<1>2. Scalars' /\ SessionOK' /\ PeerOK'
  BY <1>1 DEF IInv, Scalars, SessionOK, PeerOK, Client, session
<1>3. Network'
  <2>1. /\ Msg("flight", 0) \in Msgs /\ Msg("done", 0) \in Msgs /\ Msg("ok", 0) \in Msgs /\ Msg("err", 0) \in Msgs
    BY DEF Msgs, Handshakes, Auths
  <2>2. ASSUME NEW m, NEW st \in {"hs", "done", "authed"}, NEW r \in SUBSET Msgs, BrokerAnswers(m, st, r)
        PROVE  Network'
    BY <2>2 DEF IInv, Network, BrokerAnswers
  <2>3. CASE BrokerHello \/ BrokerFinish \/ BrokerAuthOk \/ BrokerAuthErr
    BY <2>1, <2>2, <2>3 DEF BrokerHello, BrokerFinish, BrokerAuthOk, BrokerAuthErr
  <2>4. ASSUME NEW id \in BrokerIds \cup 1 .. IdSpace - 1, BrokerSends(id) PROVE Network'
    BY <2>4, Kinds DEF IInv, Network, BrokerSends
  <2>5. CASE BrokerForgets \/ (\E m \in up : BrokerDrops(m)) \/ (\E m \in up \cup down : Lose(m))
    BY <2>5 DEF IInv, Network, BrokerForgets, BrokerDrops, Lose
  <2> QED  BY <2>3, <2>4, <2>5 DEF Broker
<1> QED  BY <1>2, <1>3 DEF IInv

----------------------------------------------------------------------------
(* Theorems *)

\* The invariant holds in every reachable state.
THEOREM Invariance == Spec => []IInv
<1>1. Init => IInv
  <2> SUFFICES ASSUME Init PROVE IInv
    OBVIOUS
  <2>0. Scalars
    <3>1. 0 \in 0 .. IdSpace - 1 /\ 0 \in 0 .. MaxDelay
      BY EndUdpAssumption
    <3>. QED  BY ONLY Init, <3>1, Zenon DEF Init, Scalars
  <2>1. PeerOK
    BY DEF Init, PeerOK
  <2>2. Network
    BY Kinds DEF Init, Network
  <2>3. SessionOK
    BY NoFlows, NoQueue, Zenon DEF Init, SessionOK
  <2> QED  BY <2>0, <2>1, <2>2, <2>3 DEF IInv
<1>2. IInv /\ [Next]_vars => IInv'
  <2> SUFFICES ASSUME IInv, [Next]_vars PROVE IInv'
    OBVIOUS
  <2>1. CASE Receives
    BY <2>1, RecvStep, AgentEnvStep, PeerEnvStep DEF Receives, agent_udp_recv_cb, peer_udp_recv_cb
  <2>2. ASSUME NEW f \in flows, agent_flow_recv_cb(f) \/ FallsIdle(f) PROVE IInv'
    BY <2>2, AgentFlowStep, SweepStep
  <2>3. ASSUME NEW a \in Locals, local_recv_cb(a) PROVE IInv'
    BY <2>3, LocalStep
  <2>4. CASE keepalive_cb \/ agent_flow_sweep_cb \/ peer_flow_sweep_cb
    BY <2>4, KeepaliveStep, SweepStep DEF agent_flow_sweep_cb, peer_flow_sweep_cb
  <2>5. CASE udp_reconnect \/ Register \/ Unregister \/ Shutdown
    BY <2>5, StartStep, LeaveStep
  <2>6. CASE Broker
    BY <2>6, BrokerStep
  <2>7. CASE UNCHANGED vars
    BY <2>7 DEF vars, session, net, IInv, Scalars, Network, SessionOK, PeerOK
  <2> QED  BY <2>1, <2>2, <2>3, <2>4, <2>5, <2>6, <2>7, Zenon DEF Next, Stopped
<1> QED  BY <1>1, <1>2, PTL DEF Spec

\* What an end keeps for its session belongs to that session: the flow table of
\* flow_id_new stays one to one after next_flow_id wrapped, and flows and queue
\* are empty whenever no handshake has completed.
THEOREM SessionsAreSound == Spec => []SessionSound
<1>1. IInv => SessionSound
  <2> SUFFICES ASSUME IInv PROVE SessionSound
    OBVIOUS
  <2>1. TypeOK
    BY DEF IInv, Scalars, Network, SessionOK, FlowsOK, FlowType, QueueOK, TypeOK
  <2>2. 0 \notin Ids
    BY EndUdpAssumption DEF IInv, SessionOK, FlowsOK, FlowType, Ids
  <2>3. FlowsSound
    BY <2>2 DEF IInv, SessionOK, FlowsOK, FlowsSound
  <2>4. QueueSound
    BY DEF IInv, SessionOK, QueueOK, QueueSound
  <2> QED  BY <2>1, <2>3, <2>4 DEF SessionSound
<1> QED  BY <1>1, Invariance, PTL

\* A peer that lost its session has armed reconnect_timer, unless a start failed
\* (tm_peer_udp_start closes the timer and arms no other).
THEOREM PeerAlwaysRetries == Spec => []PeerRetries
<1>1. IInv => PeerRetries
  BY DEF IInv, PeerOK, PeerRetries
<1> QED  BY <1>1, Invariance, PTL
=============================================================================
