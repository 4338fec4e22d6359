-------------------------- MODULE AgentLinkProofs --------------------------
(***************************************************************************)
(* Proofs about the agent's control connection (module AgentLink), for     *)
(* every delay, every limit and every set of stream ids.                   *)
(***************************************************************************)
EXTENDS AgentLink, FiniteSetTheorems, WellFoundedInduction, TLAPS

\* What a connection in progress excludes, also after ctl_setup_fails.
OneAtATime ==
    ~shut => /\ rt # Off => ~connecting /\ ~connected
             /\ ~(connecting /\ connected)

\* The invariant: the phases need that no second connection is attempted, and
\* NeverStranded that the jitter never starts the timer with a negative delay.
IInv == TypeOK /\ PhasesSound /\ NeverStranded /\ StreamsEnd /\ OneAtATime

\* The delays of the configuration are in their ranges.
LEMMA Limits == MaxDelay \in Nat /\ MaxFails \in Nat /\ BaseDelay \in 0 .. MaxDelay
BY AgentLinkAssumption

\* A fifth of a delay is at most a fifth of the limit.
LEMMA Fifth ==
    ASSUME NEW d \in Nat, NEW m \in Nat, d <= m
    PROVE  d \div 5 \in Nat /\ d \div 5 <= d /\ d \div 5 <= m \div 5
OBVIOUS

\* reconnect_with_jitter gives delays that are not negative and exceed the
\* limit by a fifth at most.
LEMMA Jitter ==
    ASSUME NEW d \in 0 .. MaxDelay, NEW x \in reconnect_with_jitter(d)
    PROVE  x \in 0 .. MaxDelay + MaxDelay \div 5 /\ x # Off
<1> DEFINE spread == d \div 5
           fifth == MaxDelay \div 5
<1>1. MaxDelay \in Nat /\ d \in Nat /\ d <= MaxDelay
  BY Limits
<1>2. spread \in Nat /\ spread <= d /\ spread <= fifth
  BY <1>1, Fifth
<1>3. fifth \in Nat
  BY <1>1
<1>4. PICK s \in 0 .. 2 * spread : x = d - spread + s
  BY DEF reconnect_with_jitter
<1> HIDE DEF spread, fifth
<1>5. x \in 0 .. MaxDelay + fifth
  BY <1>1, <1>2, <1>3, <1>4
<1> QED  BY <1>5 DEF Off, fifth

\* tm_agent_disconnect keeps the invariant, whatever phase it finds.
LEMMA DisconnectStep ==
    ASSUME IInv, ~shut, tm_agent_disconnect
    PROVE  IInv'
<1>1. MaxDelay \in Nat /\ MaxFails \in Nat
  BY Limits
<1>2. NextDelay \in 0 .. MaxDelay
  BY <1>1 DEF NextDelay, IInv, TypeOK
<1>3. rt' \in 0 .. MaxDelay + MaxDelay \div 5 /\ rt' # Off
  BY <1>2, Jitter DEF tm_agent_disconnect
<1>4. /\ connecting' = FALSE /\ connected' = FALSE /\ hello' = FALSE /\ registered' = FALSE
      /\ io' = "none" /\ ht' = FALSE /\ hb' = FALSE
      /\ far' = "none" /\ unacked' = FALSE /\ quiet' = FALSE
      /\ delay' = NextDelay /\ UNCHANGED <<proto, shut, lost, up>>
  BY DEF tm_agent_disconnect
<1>5. fails' \in 0 .. MaxFails
  BY <1>1 DEF tm_agent_disconnect, IInv, TypeOK
<1>6. streams' = {} /\ udp' \in BOOLEAN
  BY Zenon DEF tm_agent_disconnect, ChildrenEnd, IInv, StreamsEnd, TypeOK, children
<1>7. TypeOK'
  BY <1>2, <1>3, <1>4, <1>5, <1>6, Zenon DEF IInv, TypeOK
<1> QED  BY <1>3, <1>4, <1>6, <1>7 DEF IInv, PhasesSound, NeverStranded, StreamsEnd, OneAtATime

\* A connection attempt keeps the invariant.
LEMMA ConnectStep ==
    ASSUME IInv, reconnect_timer_cb
    PROVE  IInv'
<1> DEFINE d == IF delay = 0 THEN BaseDelay ELSE delay
<1>1. d \in 0 .. MaxDelay
  BY Limits DEF IInv, TypeOK
<1>2. /\ rt # Off /\ ~shut /\ delay' = d
      /\ \/ connecting' = TRUE /\ rt' = Off
         \/ rt' \in reconnect_with_jitter(d) /\ connecting' = connecting
      /\ UNCHANGED <<proto, connected, hello, registered, io, ht, hb, fails, children, shut, lost, wire>>
  BY DEF reconnect_timer_cb, tm_agent_connect, ConnectFails
<1> HIDE DEF d
<1>3. \/ connecting' = TRUE /\ rt' = Off
      \/ rt' \in 0 .. MaxDelay + MaxDelay \div 5 /\ rt' # Off /\ connecting' = connecting
  BY <1>1, <1>2, Jitter
<1>4. TypeOK'
  <2>1. connecting' \in BOOLEAN /\ rt' \in {Off} \cup 0 .. MaxDelay + MaxDelay \div 5
    BY <1>3, Zenon DEF IInv, TypeOK
  <2>2. delay' \in 0 .. MaxDelay
    BY <1>1, <1>2
  <2>3. UNCHANGED <<proto, connected, hello, registered, io, ht, hb, fails, streams, udp, shut, up, far, unacked, quiet>>
    BY <1>2 DEF children, wire
  <2> QED  BY ONLY IInv, <2>1, <2>2, <2>3 DEF IInv, TypeOK
<1> QED  BY <1>2, <1>3, <1>4, SMTT(30) DEF IInv, PhasesSound, NeverStranded, StreamsEnd, OneAtATime, children

\* Connecting and the handshake keep the invariant.
LEMMA HandshakeStep ==
    ASSUME IInv, ctl_connected \/ ctl_setup_fails \/ ctl_handshake_done
    PROVE  IInv'
<1>1. CASE ctl_connected
  BY <1>1, Zenon DEF ctl_connected, IInv, TypeOK, PhasesSound, NeverStranded, StreamsEnd, OneAtATime, children
<1>2. CASE ctl_setup_fails
  BY <1>2, Zenon DEF ctl_setup_fails, IInv, TypeOK, PhasesSound, NeverStranded, StreamsEnd, OneAtATime,
     children, timers, wire
<1>3. CASE ctl_handshake_done
  <2>1. CASE tm_agent_disconnect
    BY <1>3, <2>1, DisconnectStep DEF ctl_handshake_done
  <2>2. CASE ~tm_agent_disconnect
    <3>1. /\ io = "tls" /\ ~shut /\ unacked' = TRUE /\ io' = "open" /\ ht' = FALSE /\ quiet' = FALSE
          /\ UNCHANGED <<proto, connecting, connected, hello, registered, rt, hb, delay, fails,
                         streams, udp, shut, lost, up, far>>
      BY <1>3, <2>2 DEF ctl_handshake_done, tm_agent_send_frame, children
    <3>2. TypeOK'
      BY <3>1, Limits, Zenon DEF IInv, TypeOK
    <3>3. PhasesSound'
      BY <3>1 DEF IInv, TypeOK, PhasesSound, OneAtATime
    <3>4. NeverStranded' /\ OneAtATime'
      BY <3>1 DEF IInv, TypeOK, PhasesSound, NeverStranded, OneAtATime
    <3>5. StreamsEnd'
      BY <3>1 DEF IInv, TypeOK, PhasesSound, StreamsEnd
    <3> QED  BY <3>2, <3>3, <3>4, <3>5 DEF IInv
  <2> QED  BY <2>1, <2>2
<1> QED  BY <1>1, <1>2, <1>3

\* Reading a frame keeps the invariant.
LEMMA ReadStep ==
    ASSUME IInv, ctl_read
    PROVE  IInv'
<1>1. CASE tm_agent_disconnect
  <2>1. ~shut
    BY Zenon DEF ctl_read, ReadHelloAck, ReadRegisterOk, ReadEnds, ReadPing, ReadOpenStream,
       ReadCloseStream, Reads
  <2> QED  BY <1>1, <2>1, DisconnectStep
<1>2. CASE ReadHelloAck /\ ~tm_agent_disconnect
  <2>1. /\ io = "open" /\ ~shut /\ unacked' = TRUE /\ hello' = TRUE /\ quiet' = FALSE
        /\ UNCHANGED <<proto, connecting, connected, registered, io, rt, ht, hb, delay, fails,
                       streams, udp, shut, lost, up, far>>
    BY <1>2 DEF ReadHelloAck, Reads, tm_agent_send_frame, children, timers
  <2>2. TypeOK'
    BY <2>1, Limits, Zenon DEF IInv, TypeOK
  <2>3. PhasesSound'
    BY <2>1 DEF IInv, TypeOK, PhasesSound, OneAtATime
  <2>4. NeverStranded' /\ OneAtATime'
    BY <2>1 DEF IInv, TypeOK, PhasesSound, NeverStranded, OneAtATime
  <2>5. StreamsEnd'
    BY <2>1 DEF IInv, TypeOK, PhasesSound, StreamsEnd
  <2> QED  BY <2>2, <2>3, <2>4, <2>5 DEF IInv
<1>3. CASE ReadRegisterOk
  <2>1. /\ io = "open" /\ ~shut /\ hello /\ registered' = TRUE /\ hb' = TRUE /\ udp' \in BOOLEAN
        /\ delay' = BaseDelay /\ fails' = 0 /\ quiet' = FALSE
        /\ UNCHANGED <<proto, connecting, connected, hello, io, rt, ht, streams, shut, lost, up, far, unacked>>
    BY <1>3 DEF ReadRegisterOk, Reads, IInv, TypeOK
  <2>2. TypeOK'
    <3>1. delay' \in 0 .. MaxDelay /\ fails' \in 0 .. MaxFails
      BY <2>1, Limits
    <3>2. \A b \in {connecting', connected', hello', registered', ht', hb', udp', shut', up', unacked', quiet'} :
            b \in BOOLEAN
      BY <2>1, Zenon DEF IInv, TypeOK
    <3>3. /\ proto' \in Protos /\ streams' \subseteq Sids
          /\ io' \in {"none", "tls", "open"} /\ far' \in {"none", "live", "ended", "dead"}
          /\ rt' \in {Off} \cup 0 .. MaxDelay + MaxDelay \div 5
      BY <2>1 DEF IInv, TypeOK
    <3> QED  BY <3>1, <3>2, <3>3 DEF TypeOK
  <2>3. PhasesSound'
    BY <2>1 DEF IInv, TypeOK, PhasesSound, OneAtATime
  <2>4. NeverStranded' /\ OneAtATime'
    BY <2>1 DEF IInv, TypeOK, PhasesSound, NeverStranded, OneAtATime
  <2>5. StreamsEnd'
    BY <2>1 DEF IInv, TypeOK, PhasesSound, StreamsEnd
  <2> QED  BY <2>2, <2>3, <2>4, <2>5 DEF IInv
<1>4. CASE ReadPing /\ ~tm_agent_disconnect
  <2>1. /\ unacked' = TRUE /\ quiet' = FALSE
        /\ UNCHANGED <<proto, connecting, connected, hello, registered, io, rt, ht, hb, delay, fails,
                       streams, udp, shut, lost, up, far>>
    BY <1>4, Zenon DEF ReadPing, Reads, tm_agent_send_frame, children, timers, flags
  <2>2. TypeOK'
    BY <2>1, Limits, Zenon DEF IInv, TypeOK
  <2>3. PhasesSound'
    BY <2>1 DEF IInv, TypeOK, PhasesSound, OneAtATime
  <2>4. NeverStranded' /\ OneAtATime'
    BY <2>1 DEF IInv, TypeOK, PhasesSound, NeverStranded, OneAtATime
  <2>5. StreamsEnd'
    BY <2>1 DEF IInv, TypeOK, PhasesSound, StreamsEnd
  <2> QED  BY <2>2, <2>3, <2>4, <2>5 DEF IInv
<1>5. ASSUME NEW s \in Sids, ReadOpenStream(s) \/ ReadCloseStream(s)
      PROVE  IInv'
  <2> USE <1>5 DEF ReadOpenStream, ReadCloseStream, Reads, timers, flags
  <2>1. TypeOK'
    BY Zenon DEF IInv, TypeOK
  <2>2. PhasesSound'
    BY DEF IInv, TypeOK, PhasesSound, OneAtATime
  <2>3. NeverStranded' /\ OneAtATime'
    BY DEF IInv, TypeOK, PhasesSound, NeverStranded, OneAtATime
  <2>4. StreamsEnd'
    BY DEF IInv, TypeOK, PhasesSound, StreamsEnd
  <2> QED  BY <2>1, <2>2, <2>3, <2>4 DEF IInv
<1> QED  BY <1>1, <1>2, <1>3, <1>4, <1>5 DEF ctl_read, ReadEnds

\* The heartbeat keeps the invariant.
LEMMA HeartbeatStep ==
    ASSUME IInv, agent_hb_timer_cb
    PROVE  IInv'
<1>1. CASE tm_agent_disconnect
  BY <1>1, DisconnectStep DEF agent_hb_timer_cb
<1>2. CASE ~tm_agent_disconnect
  <2>1. /\ unacked' = TRUE /\ hb' = FALSE
        /\ UNCHANGED <<proto, connecting, connected, hello, registered, io, rt, ht, delay, fails,
                       streams, udp, shut, lost, up, far, quiet>>
    BY <1>2 DEF agent_hb_timer_cb, tm_agent_send_frame, children, flags
  <2>2. TypeOK'
    BY <2>1, Limits, Zenon DEF IInv, TypeOK
  <2>3. PhasesSound'
    BY <2>1 DEF IInv, TypeOK, PhasesSound, OneAtATime
  <2>4. NeverStranded' /\ OneAtATime'
    BY <2>1 DEF IInv, TypeOK, PhasesSound, NeverStranded, OneAtATime
  <2>5. StreamsEnd'
    BY <2>1 DEF IInv, TypeOK, PhasesSound, StreamsEnd
  <2> QED  BY <2>2, <2>3, <2>4, <2>5 DEF IInv
<1> QED  BY <1>1, <1>2

\* The steps outside the connection keep the invariant.
LEMMA OtherStep ==
    ASSUME IInv,
           \/ \E s \in Sids : StreamEnds(s)
           \/ UdpEnds \/ tm_agent_shutdown \/ Stopped
           \/ BrokerGoes \/ BrokerComes \/ Acknowledged \/ Silence
    PROVE  IInv'
<1> USE DEF IInv, TypeOK, PhasesSound, NeverStranded, StreamsEnd, OneAtATime, children, flags, timers, wire
<1>1. ASSUME NEW s \in Sids, StreamEnds(s) PROVE IInv'
  BY <1>1 DEF StreamEnds
<1>2. CASE UdpEnds
  BY <1>2, Zenon DEF UdpEnds
<1>3. CASE tm_agent_shutdown
  BY <1>3, Zenon DEF tm_agent_shutdown
<1>4. CASE Stopped
  BY <1>4 DEF Stopped, vars
<1>5. CASE BrokerGoes
  BY <1>5, Zenon DEF BrokerGoes
<1>6. CASE BrokerComes
  BY <1>6 DEF BrokerComes
<1>7. CASE Acknowledged
  <2>1. /\ unacked' = FALSE
        /\ UNCHANGED <<proto, connecting, connected, hello, registered, io, rt, ht, hb, delay, fails,
                       streams, udp, shut, lost, up, far, quiet>>
    BY <1>7 DEF Acknowledged
  <2>2. TypeOK'
    BY <2>1, Zenon DEF TypeOK
  <2>3. PhasesSound' /\ NeverStranded' /\ OneAtATime' /\ StreamsEnd'
    BY <2>1, Zenon DEF PhasesSound, NeverStranded, OneAtATime, StreamsEnd
  <2> QED  BY ONLY <2>2, <2>3 DEF IInv
<1>8. CASE Silence
  BY <1>8 DEF Silence
<1> QED  BY <1>1, <1>2, <1>3, <1>4, <1>5, <1>6, <1>7, <1>8, Zenon

\* The invariant holds in every reachable state.
LEMMA AlwaysInv == Spec => []IInv
<1>1. Init => IInv
  <2> SUFFICES ASSUME Init PROVE IInv
    OBVIOUS
  <2>1. /\ 0 \in 0 .. MaxDelay + MaxDelay \div 5
        /\ 0 \in 0 .. MaxDelay /\ 0 \in 0 .. MaxFails
    BY Limits
  <2>2. TypeOK
    BY <2>1, Zenon DEF Init, TypeOK
  <2> QED  BY <2>2 DEF Init, IInv, PhasesSound, NeverStranded, StreamsEnd, OneAtATime, Off
<1>2. IInv /\ [Next]_vars => IInv'
  <2> SUFFICES ASSUME IInv, [Next]_vars PROVE IInv'
    OBVIOUS
  <2>1. CASE reconnect_timer_cb
    BY <2>1, ConnectStep
  <2>2. CASE ctl_connect_failed \/ ctl_handshake_timeout \/ ctl_eof \/ ctl_error
    BY <2>2, DisconnectStep DEF ctl_connect_failed, ctl_handshake_timeout, ctl_eof, ctl_error
  <2>3. CASE ctl_connected \/ ctl_setup_fails \/ ctl_handshake_done
    BY <2>3, HandshakeStep
  <2>4. CASE ctl_read
    BY <2>4, ReadStep
  <2>5. CASE agent_hb_timer_cb
    BY <2>5, HeartbeatStep
  <2>6. CASE \/ \E s \in Sids : StreamEnds(s)
             \/ UdpEnds \/ tm_agent_shutdown \/ Stopped
             \/ BrokerGoes \/ BrokerComes \/ Acknowledged \/ Silence
    BY <2>6, OtherStep
  <2>7. CASE UNCHANGED vars
    BY <2>7 DEF vars, IInv, TypeOK, PhasesSound, NeverStranded, StreamsEnd, OneAtATime,
       flags, timers, children, wire
  <2> QED  BY <2>1, <2>2, <2>3, <2>4, <2>5, <2>6, <2>7 DEF Next
<1> QED  BY <1>1, <1>2, PTL DEF Spec

----------------------------------------------------------------------------
(* The backoff *)

\* A set of numbers that is not empty has a least element: of the intervals that
\* end in it, one is minimal among finite sets.
LEMMA Least ==
    ASSUME NEW T \in SUBSET Nat, T # {}
    PROVE  \E x \in T : \A y \in T : x <= y
<1> DEFINE U == {0 .. n : n \in T}
<1>1. U # {}
  BY Zenon
<1>2. U \subseteq FiniteSubsetsOf(Nat)
  <2>1. \A n \in T : 0 .. n \in SUBSET Nat /\ IsFiniteSet(0 .. n)
    BY FS_Interval
  <2> QED  BY <2>1 DEF FiniteSubsetsOf
<1>3. IsWellFoundedOn(StrictSubsetOrdering(Nat), FiniteSubsetsOf(Nat))
  BY FS_StrictSubsetOrderingWellFounded
<1>4. PICK m \in U : \A u \in U : ~(<<u, m>> \in StrictSubsetOrdering(Nat))
  <2> HIDE DEF U
  <2> QED  BY <1>1, <1>2, <1>3, WFMin
<1>5. PICK x \in T : m = 0 .. x
  OBVIOUS
<1>6. ASSUME NEW y \in T, y < x
      PROVE  FALSE
  <2>1. 0 .. y \subseteq 0 .. x /\ 0 .. y # 0 .. x /\ 0 .. y \in SUBSET Nat /\ 0 .. x \in SUBSET Nat
    BY <1>6
  <2>2. <<0 .. y, 0 .. x>> \in StrictSubsetOrdering(Nat)
    BY <2>1 DEF StrictSubsetOrdering
  <2>3. 0 .. y \in U
    BY <1>6
  <2> QED  BY <2>2, <2>3, <1>4, <1>5, Zenon
<1> QED  BY <1>6

\* Doubled is what its equation says: there is such a function, up to n for
\* every n (otherwise take the least n without one, and double once more).
LEMMA DoubledFacts ==
    /\ Doubled \in [0 .. MaxFails -> Nat]
    /\ Doubled[0] = BaseDelay
    /\ \A n \in 0 .. MaxFails - 1 : Doubled[n + 1] = 2 * Doubled[n]
<1> DEFINE Good(n, f) == /\ f \in [0 .. n -> Nat]
                         /\ \A m \in 0 .. n : f[m] = IF m = 0 THEN BaseDelay ELSE 2 * f[m - 1]
           Bads == {n \in Nat : ~\E f \in [0 .. n -> Nat] : Good(n, f)}
<1>0. BaseDelay \in Nat /\ MaxFails \in Nat
  BY AgentLinkAssumption
<1>1. Bads = {}
  <2> SUFFICES ASSUME Bads # {} PROVE FALSE
    BY Zenon
  <2>1. PICK x \in Bads : \A y \in Bads : x <= y
    BY Least, Zenon
  <2>2. CASE x = 0
    <3>1. Good(0, [m \in 0 .. 0 |-> BaseDelay])
      BY <1>0
    <3> QED  BY <3>1, <2>1, <2>2, Zenon
  <2>3. CASE x # 0
    <3>1. x \in Nat /\ x - 1 \in Nat /\ x - 1 \notin Bads
      <4>1. x \in Nat
        OBVIOUS
      <4> HIDE DEF Bads
      <4> QED  BY <4>1, <2>1, <2>3
    <3>2. PICK f \in [0 .. x - 1 -> Nat] : Good(x - 1, f)
      BY <3>1
    <3>3. PICK g : g = [m \in 0 .. x |-> IF m = x THEN 2 * f[x - 1] ELSE f[m]]
      BY Zenon
    <3>4. g \in [0 .. x -> Nat]
      BY <3>1, <3>3
    <3>5. ASSUME NEW m \in 0 .. x
          PROVE  g[m] = IF m = 0 THEN BaseDelay ELSE 2 * g[m - 1]
      BY <3>1, <3>2, <3>3, <2>3
    <3> QED  BY <3>4, <3>5, <2>1, Zenon
  <2> QED  BY <2>2, <2>3
<1>2. PICK f \in [0 .. MaxFails -> Nat] : Good(MaxFails, f)
  BY <1>0, <1>1, Zenon
<1>3. f = [n \in 0 .. MaxFails |-> IF n = 0 THEN BaseDelay ELSE 2 * f[n - 1]]
  BY <1>2
<1> DEFINE D == CHOOSE d : d = [n \in 0 .. MaxFails |-> IF n = 0 THEN BaseDelay ELSE 2 * d[n - 1]]
<1>4. D = [n \in 0 .. MaxFails |-> IF n = 0 THEN BaseDelay ELSE 2 * D[n - 1]]
  BY <1>3, Zenon
<1>5. Doubled = D
  BY DEF Doubled
<1> HIDE DEF D
<1>6. \A n \in 0 .. MaxFails : Doubled[n] = IF n = 0 THEN BaseDelay ELSE 2 * Doubled[n - 1]
  BY <1>4, <1>5, Zenon
<1> DEFINE Odd == {n \in Nat : n <= MaxFails /\ Doubled[n] \notin Nat}
<1>7. Odd = {}
  <2> SUFFICES ASSUME Odd # {} PROVE FALSE
    OBVIOUS
  <2>1. PICK x \in Odd : \A y \in Odd : x <= y
    BY Least, Zenon
  <2>2. x \in Nat /\ x <= MaxFails /\ Doubled[x] \notin Nat
    OBVIOUS
  <2>3. x # 0
    BY <2>2, <1>0, <1>6
  <2>4. x - 1 \notin Odd
    <3> HIDE DEF Odd
    <3> QED  BY <2>1, <2>2
  <2>5. Doubled[x - 1] \in Nat
    BY <2>2, <2>3, <2>4, <1>0
  <2>6. x \in 0 .. MaxFails
    BY <2>2, <1>0
  <2>7. Doubled[x] = 2 * Doubled[x - 1]
    BY ONLY <2>3, <2>6, <1>6
  <2> QED  BY ONLY <2>2, <2>5, <2>7
<1>8. \A n \in 0 .. MaxFails : Doubled[n] \in Nat
  BY <1>0, <1>7
<1>9. Doubled \in [0 .. MaxFails -> Nat]
  BY <1>4, <1>5, <1>8
<1> QED  BY <1>0, <1>6, <1>9

\* The delay after f losses.
Backoff(f) == IF Doubled[f] > MaxDelay THEN MaxDelay ELSE Doubled[f]

\* The invariant of the backoff: while no delay is chosen there is no connection
\* to lose.
BInv ==
    /\ BackoffExact
    /\ delay = 0 => fails = 0 /\ (~shut => ~connecting /\ ~connected)

\* One more loss doubles the delay, up to the limit.
LEMMA BackoffDoubles ==
    ASSUME NEW f \in 0 .. MaxFails - 1
    PROVE  Backoff(f + 1) = IF Backoff(f) * 2 > MaxDelay THEN MaxDelay ELSE Backoff(f) * 2
<1>1. PICK b \in Nat : b = Doubled[f] /\ Doubled[f + 1] = 2 * b
  BY DoubledFacts, Limits
<1>2. MaxDelay \in Nat /\ MaxDelay > 0
  BY AgentLinkAssumption
<1> QED  BY ONLY <1>1, <1>2 DEF Backoff

\* At the end of the count the delay has reached its limit.
LEMMA BackoffEnds == Backoff(MaxFails) = MaxDelay /\ Backoff(0) = BaseDelay
<1>1. Doubled[MaxFails] \in Nat /\ Doubled[0] = BaseDelay
  BY DoubledFacts, Limits
<1> QED  BY <1>1, AgentLinkAssumption DEF Backoff

\* The steps that touch the delay keep the backoff exact.
LEMMA BackoffStep ==
    ASSUME IInv, BInv, [Next]_vars
    PROVE  BInv'
<1>1. BackoffExact = (delay # 0 => delay = Backoff(fails))
  BY DEF BackoffExact, Backoff
<1>2. BackoffExact' = (delay' # 0 => delay' = Backoff(fails'))
  BY DEF BackoffExact, Backoff
<1>3. /\ MaxDelay \in Nat /\ MaxFails \in Nat /\ BaseDelay \in Nat /\ BaseDelay > 0 /\ BaseDelay <= MaxDelay
      /\ delay \in 0 .. MaxDelay /\ fails \in 0 .. MaxFails
  BY AgentLinkAssumption DEF IInv, TypeOK
<1>4. CASE tm_agent_disconnect /\ ~shut
  <2>1. connecting \/ connected
    BY <1>4 DEF tm_agent_disconnect, IInv, PhasesSound
  <2>2. delay # 0 /\ delay = Backoff(fails)
    BY <2>1, <1>1, <1>4, Zenon DEF BInv
  <2>3. /\ delay' = IF delay * 2 > MaxDelay THEN MaxDelay ELSE delay * 2
        /\ fails' = IF fails = MaxFails THEN fails ELSE fails + 1
    BY <1>4 DEF tm_agent_disconnect, NextDelay
  <2>4. CASE fails = MaxFails
    <3>1. delay = MaxDelay
      BY ONLY <2>2, <2>4, BackoffEnds
    <3>2. MaxDelay \in Nat /\ MaxDelay > 0
      BY AgentLinkAssumption
    <3>3. delay' = MaxDelay /\ fails' = MaxFails
      BY ONLY <3>1, <3>2, <2>3, <2>4
    <3>4. delay' # 0
      BY ONLY <3>2, <3>3
    <3> QED  BY ONLY <3>3, <3>4, <1>2, BackoffEnds, Zenon DEF BInv
  <2>5. CASE fails # MaxFails
    <3>1. fails \in 0 .. MaxFails - 1 /\ fails' = fails + 1
      BY ONLY <1>3, <2>3, <2>5
    <3>2. delay' = Backoff(fails + 1)
      BY ONLY <3>1, <2>2, <2>3, BackoffDoubles
    <3>3. delay' # 0
      BY ONLY <2>2, <2>3, <1>3
    <3> QED  BY ONLY <3>1, <3>2, <3>3, <1>2, Zenon DEF BInv
  <2> QED  BY <2>4, <2>5
<1>5. CASE reconnect_timer_cb
  <2>1. /\ delay' = (IF delay = 0 THEN BaseDelay ELSE delay) /\ fails' = fails
    BY <1>5 DEF reconnect_timer_cb, tm_agent_connect
  <2>2. delay' # 0
    BY ONLY <2>1, <1>3
  <2>3. delay' = Backoff(fails')
    BY ONLY BInv, <1>1, <2>1, BackoffEnds, Zenon DEF BInv
  <2> QED  BY ONLY <2>2, <2>3, <1>2, Zenon DEF BInv
<1>6. CASE ReadRegisterOk
  <2>1. delay' = BaseDelay /\ fails' = 0
    BY <1>6 DEF ReadRegisterOk
  <2>2. delay' # 0
    BY ONLY <2>1, AgentLinkAssumption
  <2> QED  BY ONLY <2>1, <2>2, <1>2, BackoffEnds, Zenon DEF BInv
<1>7. CASE ctl_connected \/ ctl_setup_fails
  <2>1. delay' = delay /\ fails' = fails /\ connecting /\ ~shut
    BY <1>7 DEF ctl_connected, ctl_setup_fails, timers
  <2>2. delay # 0
    BY <2>1 DEF BInv
  <2> QED  BY ONLY BInv, <2>1, <2>2, <1>1, <1>2 DEF BInv
<1>8. CASE /\ UNCHANGED <<delay, fails, connecting, connected>>
           /\ shut' = shut \/ shut' = TRUE
  BY ONLY BInv, <1>1, <1>2, <1>8 DEF BInv
<1>9. \/ tm_agent_disconnect /\ ~shut
      \/ reconnect_timer_cb \/ ReadRegisterOk \/ ctl_connected \/ ctl_setup_fails
      \/ UNCHANGED <<delay, fails, connecting, connected>> /\ (shut' = shut \/ shut' = TRUE)
  <2>1. CASE ctl_connect_failed \/ ctl_handshake_timeout \/ ctl_eof \/ ctl_error
    BY <2>1 DEF ctl_connect_failed, ctl_handshake_timeout, ctl_eof, ctl_error
  <2>2. CASE ctl_handshake_done
    BY <2>2 DEF ctl_handshake_done, tm_agent_send_frame
  <2>3. CASE ctl_read
    BY <2>3 DEF ctl_read, ReadHelloAck, ReadEnds, ReadPing, ReadOpenStream, ReadCloseStream, Reads,
       tm_agent_send_frame, timers, flags
  <2>4. CASE agent_hb_timer_cb
    BY <2>4 DEF agent_hb_timer_cb, tm_agent_send_frame, flags
  <2>5. CASE \/ \E s \in Sids : StreamEnds(s)
             \/ UdpEnds \/ tm_agent_shutdown
             \/ BrokerGoes \/ BrokerComes \/ Acknowledged \/ Silence
    BY <2>5 DEF StreamEnds, UdpEnds, tm_agent_shutdown, BrokerGoes, BrokerComes, Acknowledged, Silence,
       timers, flags
  <2>6. CASE Stopped \/ UNCHANGED vars
    BY <2>6 DEF Stopped, vars, timers, flags
  <2> QED  BY <2>1, <2>2, <2>3, <2>4, <2>5, <2>6, Zenon DEF Next
<1> QED  BY ONLY <1>4, <1>5, <1>6, <1>7, <1>8, <1>9, Zenon

\* The backoff is exact in every reachable state.
LEMMA AlwaysBackoff == Spec => []BInv
<1>1. Init => BInv
  BY DEF Init, BInv, BackoffExact
<1>2. IInv /\ BInv /\ [Next]_vars => BInv'
  BY BackoffStep
<1> QED  BY <1>1, <1>2, AlwaysInv, PTL DEF Spec

----------------------------------------------------------------------------
(* Theorems *)

\* The agent is never left without a way back: while it runs, exactly one of the
\* reconnect timer, a connection attempt and a connection is pending, whatever
\* order failures, timeouts and answers come in (ctl_setup_fails excepted).
THEOREM NeverIsStranded == Spec => []NeverStranded
BY AlwaysInv, PTL DEF IInv

\* The phases of a connection follow each other, and the handshake timer runs
\* exactly while the handshake does.
THEOREM PhasesAreSound == Spec => []PhasesSound
BY AlwaysInv, PTL DEF IInv

\* No stream outlives the registration it was opened under.
THEOREM StreamsAlwaysEnd == Spec => []StreamsEnd
BY AlwaysInv, PTL DEF IInv

\* The delay and the timer stay within their limits, jitter included.
THEOREM TypeCorrect == Spec => []TypeOK
BY AlwaysInv, PTL DEF IInv

\* After any history of losses the delay is the configured one, doubled once for
\* every connection lost since the last REGISTER_OK, up to the limit; and flags,
\* io, timers and delay fit together.
THEOREM LinkIsSound == Spec => []LinkSound
<1>1. IInv /\ BInv => LinkSound
  BY DEF IInv, BInv, LinkSound
<1> QED  BY <1>1, AlwaysInv, AlwaysBackoff, PTL
=============================================================================
