------------------------------- MODULE EndUdp -------------------------------
(***************************************************************************)
(* The UDP plane of the two programs at the ends of a tunnel: the agent    *)
(* (agent/src/udp.c) and the peer (peer/src/udp.c).  Both keep one DTLS    *)
(* session with the broker, authenticate on it, and translate flow ids:    *)
(* the agent has a local socket for every flow id of the broker, the peer  *)
(* a flow id for every local address.                                      *)
(*                                                                         *)
(* The broker and the network are the environment.  A message is lost when *)
(* Lossy allows it; the broker may forget the session, which it tells      *)
(* nobody.  The DTLS library is external: a handshake is hello, flight,    *)
(* finish, done; the library retransmits nothing unless it is asked to.    *)
(***************************************************************************)
EXTENDS Integers, Sequences, FiniteSets

CONSTANTS
    Roles,      \* a subset of {"agent", "peer"}
    Locals,     \* local addresses that use the peer
    BrokerIds,  \* flow ids the broker uses towards the agent
    IdSpace,    \* flow ids of the peer are taken modulo this number
    QueueMax,   \* udp_outq_packets limit
    MaxFlows,   \* udp_max_flows
    MaxDelay,   \* reconnect_max_delay_ms
    Lossy       \* whether the network loses messages

ASSUME EndUdpAssumption ==
    /\ Roles \subseteq {"agent", "peer"} /\ Lossy \in BOOLEAN
    /\ QueueMax \in Nat \ {0} /\ MaxFlows \in Nat /\ MaxDelay \in Nat
    /\ IdSpace \in Nat /\ IdSpace > MaxFlows + 1 /\ BrokerIds \subseteq Nat \ {0}

VARIABLES
    role,
    ssl,      \* udp_ssl: "none", "hs" (handshake) or "done"
    authed,   \* udp_authed
    closing,  \* udp_closing, which only the peer sets
    q,        \* udp_outq
    flows,    \* udp_flows
    next,     \* next_flow_id
    sweep,    \* the timer of flow_sweep_cb is armed
    rt,       \* reconnect_timer of the peer: its delay, or Off
    delay,    \* reconnect_delay_ms of the peer
    reg,      \* the agent is registered
    shut,     \* shutting_down
    failed,   \* ghost: the last start failed
    bs,       \* the broker's session: "none", "hs", "done" or "authed"
    up, down  \* messages to the broker and from it

session == <<ssl, authed, closing, q, flows, sweep>>
net == <<bs, up, down>>
vars == <<role, session, next, rt, delay, reg, shut, failed, net>>

Off == -1

(* Messages; id is the flow id of a datagram. *)
Msg(k, id) == [k |-> k, id |-> id]
Handshakes == {Msg(k, 0) : k \in {"hello", "flight", "finish", "done"}}
Auths == {Msg(k, 0) : k \in {"auth", "ok", "err", "keepalive"}}
SetOf(s) == {s[k] : k \in DOMAIN s}

(* What becomes of the messages a program sends: the broker's answers to
   datagrams and keepalives are BrokerSends, so that only AUTH_REQ is kept. *)
Sent(s) == SetOf(s) \cap {Msg("auth", 0)}

Ids == {f.id : f \in flows}

\* main has started the session
Init ==
    /\ role \in Roles
    /\ ssl = "hs" /\ authed = FALSE /\ closing = FALSE /\ q = <<>> /\ flows = {} /\ sweep = TRUE
    /\ next = 0 /\ rt = Off /\ delay = 0
    /\ reg = FALSE /\ shut = FALSE /\ failed = FALSE
    /\ bs = "none" /\ up = {Msg("hello", 0)} /\ down = {}

----------------------------------------------------------------------------
(* Stop and start *)

\* a new session has a new socket: what the old one left in the network is lost
SessionEnds ==
    /\ ssl' = "none" /\ authed' = FALSE /\ q' = <<>> /\ flows' = {} /\ sweep' = FALSE
    /\ bs' = "none" /\ up' = {} /\ down' = {}

tm_agent_udp_stop ==
    /\ role = "agent"
    /\ SessionEnds
    /\ UNCHANGED <<closing, rt, delay>>

NextDelay == IF delay * 2 > MaxDelay THEN MaxDelay ELSE delay * 2

\* the reconnect timer is not started
tm_peer_udp_stop_only ==
    /\ role = "peer"
    /\ SessionEnds
    /\ closing' = TRUE
    /\ UNCHANGED <<rt, delay>>

tm_peer_udp_stop ==
    /\ role = "peer"
    /\ SessionEnds
    /\ closing' = TRUE
    /\ IF shut' THEN UNCHANGED <<rt, delay>>
       ELSE LET d == NextDelay IN
            /\ delay' = d
            /\ rt' \in {d - d \div 5 + s : s \in 0 .. 2 * (d \div 5)}

Stop == tm_agent_udp_stop \/ tm_peer_udp_stop

\* pump_out sends what SSL_write takes of the queue, stops where it wants to be
\* called again, and gives the session up when it fails
agent_pump_out(s, Rest) ==
    /\ role = "agent"
    /\ \/ \E k \in 0 .. Len(s) :
            up' = up \cup Sent(SubSeq(s, 1, k)) /\ q' = SubSeq(s, k + 1, Len(s)) /\ Rest
       \/ s # <<>> /\ tm_agent_udp_stop

peer_pump_out(s, Rest) ==
    /\ role = "peer"
    /\ \/ \E k \in 0 .. Len(s) :
            up' = up \cup Sent(SubSeq(s, 1, k)) /\ q' = SubSeq(s, k + 1, Len(s)) /\ Rest
       \/ s # <<>> /\ tm_peer_udp_stop

\* dropped when the queue is full
Queued(m) == IF Len(q) >= QueueMax THEN q ELSE Append(q, m)

agent_udp_queue(m, Rest) == agent_pump_out(Queued(m), Rest)
peer_udp_queue(m, Rest) == peer_pump_out(Queued(m), Rest)

\* the sweep is not started
StartsUnswept ==
    /\ ssl' = "hs" /\ up' = {Msg("hello", 0)}
    /\ UNCHANGED <<authed, q, flows, sweep, bs, down>>

\* the ClientHello goes out and the sweep starts
Starts ==
    /\ ssl' = "hs" /\ sweep' = TRUE /\ up' = {Msg("hello", 0)}
    /\ UNCHANGED <<authed, q, flows, bs, down>>

\* an address, a socket or SSL_new fails: there is no session
StartFails == UNCHANGED <<ssl, authed, q, flows, sweep, net>>

\* nothing to do when a session runs
tm_agent_udp_start ==
    /\ role = "agent"
    /\ \/ ssl # "none" /\ StartFails /\ UNCHANGED failed
       \/ ssl = "none" /\ Starts /\ failed' = FALSE
       \/ ssl = "none" /\ StartFails /\ failed' = TRUE
    /\ UNCHANGED <<closing, rt>>

tm_peer_udp_start ==
    /\ role = "peer"
    /\ \/ Starts /\ closing' = FALSE /\ failed' = FALSE
       \/ StartFails /\ failed' = TRUE /\ UNCHANGED closing
    /\ rt' = Off

\* the timer is closed and the session started
udp_reconnect ==
    /\ rt # Off /\ ~shut
    /\ tm_peer_udp_start
    /\ UNCHANGED <<role, next, delay, reg, shut>>

----------------------------------------------------------------------------
(* Messages of the session: udp_recv_cb of both programs *)

Fixed == UNCHANGED <<role, reg, shut, failed>>
Taken(m) == down' = down \ {m}
Kept == UNCHANGED <<closing, rt, delay, bs, sweep>>

Pump(s, Rest) == agent_pump_out(s, Rest) \/ peer_pump_out(s, Rest)

\* a flight is answered, or refused and the session given up
RecvFlight ==
    LET m == Msg("flight", 0) IN
    /\ ssl = "hs" /\ m \in down
    /\ Fixed /\ UNCHANGED next
    /\ \/ /\ up' = up \cup {Msg("finish", 0)} /\ Taken(m) /\ Kept
          /\ UNCHANGED <<ssl, authed, q, flows>>
       \/ Stop

\* the handshake is complete: AUTH_REQ, once
RecvDone ==
    LET m == Msg("done", 0) IN
    /\ ssl = "hs" /\ m \in down
    /\ Fixed /\ UNCHANGED next
    /\ Pump(Queued(Msg("auth", 0)),
            ssl' = "done" /\ Taken(m) /\ Kept /\ UNCHANGED <<authed, flows>>)

RecvAuthOk ==
    LET m == Msg("ok", 0) IN
    /\ ssl = "done" /\ m \in down
    /\ Fixed /\ UNCHANGED next
    /\ Pump(q, authed' = TRUE /\ Taken(m) /\ Kept /\ UNCHANGED <<ssl, flows>>)

RecvAuthErr ==
    /\ ssl = "done" /\ Msg("err", 0) \in down
    /\ Fixed /\ UNCHANGED next
    /\ Stop

agent_udp_recv_cb == role = "agent" /\ (RecvFlight \/ RecvDone \/ RecvAuthOk \/ RecvAuthErr)
peer_udp_recv_cb == role = "peer" /\ (RecvFlight \/ RecvDone \/ RecvAuthOk \/ RecvAuthErr)

----------------------------------------------------------------------------
(* Flows of the agent: [id, src, idle], src the flow's own socket *)

Touched(f) == (flows \ {f}) \cup {[f EXCEPT !.idle = FALSE]}
NewFlow(id, a) == flows \cup {[id |-> id, src |-> a, idle |-> FALSE]}

\* found, made (unless the socket fails), or refused at the limit
EnvFlow(id) ==
    IF id \in Ids THEN {Touched(f) : f \in {g \in flows : g.id = id}}
    ELSE IF Cardinality(flows) < MaxFlows THEN {NewFlow(id, id), flows} ELSE {flows}

agent_handle_broker_env(id) ==
    LET m == Msg("data", id) IN
    /\ role = "agent" /\ ssl = "done" /\ m \in down
    /\ Fixed /\ UNCHANGED next
    /\ agent_pump_out(q, flows' \in EnvFlow(id) /\ Taken(m) /\ Kept /\ UNCHANGED <<ssl, authed>>)

\* the local service answers
agent_flow_recv_cb(f) ==
    /\ role = "agent" /\ authed
    /\ Fixed /\ UNCHANGED next
    /\ agent_udp_queue(Msg("data", f.id),
            flows' = Touched(f) /\ Kept /\ UNCHANGED <<ssl, authed, down>>)

----------------------------------------------------------------------------
(* Flows of the peer *)

\* ids in use are not skipped
flow_id_next == IF next = 0 THEN 1 ELSE next

\* the next id that is neither 0 nor in use
flow_id_new ==
    LET At(j) == (next + j) % IdSpace
        Good(j) == At(j) # 0 /\ At(j) \notin Ids IN
    At(CHOOSE j \in 0 .. IdSpace - 1 : Good(j) /\ \A i \in 0 .. j - 1 : ~Good(i))

\* a local application sends; past the limit its datagram is dropped
local_recv_cb(a) ==
    LET found == {f \in flows : f.src = a} IN
    /\ role = "peer" /\ ~closing /\ authed
    /\ Fixed
    /\ \/ \E f \in found :
            /\ UNCHANGED next
            /\ peer_udp_queue(Msg("data", f.id),
                    flows' = Touched(f) /\ Kept /\ UNCHANGED <<ssl, authed, down>>)
       \/ /\ found = {} /\ Cardinality(flows) < MaxFlows
          /\ next' = (flow_id_new + 1) % IdSpace
          /\ peer_udp_queue(Msg("data", flow_id_new),
                    flows' = NewFlow(flow_id_new, a) /\ Kept /\ UNCHANGED <<ssl, authed, down>>)

\* a reply of the broker, for a flow that may be gone
peer_handle_broker_env(id) ==
    LET m == Msg("data", id) IN
    /\ role = "peer" /\ ssl = "done" /\ m \in down
    /\ Fixed /\ UNCHANGED next
    /\ peer_pump_out(q,
            /\ flows' \in {Touched(f) : f \in {g \in flows : g.id = id}}
                           \cup (IF id \in Ids THEN {} ELSE {flows})
            /\ Taken(m) /\ Kept /\ UNCHANGED <<ssl, authed>>)

keepalive_cb ==
    /\ role = "peer" /\ ~closing /\ authed
    /\ Fixed /\ UNCHANGED next
    /\ peer_udp_queue(Msg("keepalive", 0), Kept /\ UNCHANGED <<ssl, authed, flows, down>>)

----------------------------------------------------------------------------
(* The sweep, which a repeating timer makes in both programs *)

Sweep ==
    /\ sweep
    /\ flows' = {f \in flows : ~f.idle}
    /\ UNCHANGED <<role, ssl, authed, closing, q, next, sweep, rt, delay, reg, shut, failed, net>>

agent_flow_sweep_cb == role = "agent" /\ Sweep
peer_flow_sweep_cb == role = "peer" /\ Sweep

\* nothing passed on a flow for udp_flow_idle_timeout_ms
FallsIdle(f) ==
    /\ flows' = (flows \ {f}) \cup {[f EXCEPT !.idle = TRUE]}
    /\ UNCHANGED <<role, ssl, authed, closing, q, next, sweep, rt, delay, reg, shut, failed, net>>

----------------------------------------------------------------------------
(* The agent's control connection, and shutdown *)

\* REGISTER_OK starts the session when none runs
Register ==
    /\ role = "agent" /\ ~reg /\ ~shut
    /\ reg' = TRUE
    /\ tm_agent_udp_start
    /\ UNCHANGED <<role, next, delay, shut>>

\* the control connection is lost
Unregister ==
    /\ role = "agent" /\ reg /\ ~shut
    /\ reg' = FALSE
    /\ tm_agent_udp_stop
    /\ UNCHANGED <<role, next, shut, failed>>

\* the loop stops
Shutdown ==
    /\ ~shut /\ shut' = TRUE
    /\ Stop
    /\ UNCHANGED <<role, next, reg, failed>>

Stopped == shut /\ UNCHANGED vars

----------------------------------------------------------------------------
(* The broker and the network *)

Client == <<role, session, next, rt, delay, reg, shut, failed>>

BrokerAnswers(m, st, r) ==
    /\ m \in up
    /\ up' = up \ {m} /\ bs' = st /\ down' = down \cup r
    /\ UNCHANGED Client

BrokerHello == BrokerAnswers(Msg("hello", 0), "hs", {Msg("flight", 0)})
BrokerFinish == bs = "hs" /\ BrokerAnswers(Msg("finish", 0), "done", {Msg("done", 0)})
BrokerAuthOk == bs = "done" /\ BrokerAnswers(Msg("auth", 0), "authed", {Msg("ok", 0)})
BrokerAuthErr == bs = "done" /\ BrokerAnswers(Msg("auth", 0), "done", {Msg("err", 0)})

\* a datagram for the agent on any flow, for the peer on a flow id it may have
\* used; one at a time is on its way
BrokerSends(id) ==
    /\ bs = "authed" /\ \A m \in down : m.k # "data"
    /\ down' = down \cup {Msg("data", id)}
    /\ UNCHANGED <<Client, bs, up>>

\* what a broker without a session drops
BrokerDrops(m) ==
    /\ bs = "none" /\ m.k # "hello"
    /\ up' = up \ {m}
    /\ UNCHANGED <<Client, bs, down>>

\* closed as idle, replaced, or lost with the broker
BrokerForgets ==
    /\ bs # "none"
    /\ bs' = "none"
    /\ UNCHANGED <<Client, up, down>>

Lose(m) ==
    /\ Lossy
    /\ up' = up \ {m} /\ down' = down \ {m}
    /\ UNCHANGED <<Client, bs>>

Broker ==
    \/ BrokerHello \/ BrokerFinish \/ BrokerAuthOk \/ BrokerAuthErr \/ BrokerForgets
    \/ \E id \in IF role = "agent" THEN BrokerIds ELSE 1 .. IdSpace - 1 : BrokerSends(id)
    \/ \E m \in up : BrokerDrops(m)
    \/ \E m \in up \cup down : Lose(m)

Receives ==
    \/ agent_udp_recv_cb \/ peer_udp_recv_cb
    \/ \E id \in BrokerIds : agent_handle_broker_env(id)
    \/ \E id \in 1 .. IdSpace - 1 : peer_handle_broker_env(id)

Next ==
    \/ ~shut /\ Receives
    \/ ~shut /\ \E f \in flows : agent_flow_recv_cb(f) \/ FallsIdle(f)
    \/ ~shut /\ \E a \in Locals : local_recv_cb(a)
    \/ ~shut /\ (keepalive_cb \/ agent_flow_sweep_cb \/ peer_flow_sweep_cb)
    \/ udp_reconnect \/ Register \/ Unregister \/ Shutdown \/ Stopped
    \/ ~shut /\ Broker

Spec == Init /\ [][Next]_vars

(* Timers fire, and what arrives is read; the broker answers what reaches it,
   and accepts a credential that is sent to it again and again. *)
Fairness ==
    /\ WF_vars(udp_reconnect) /\ WF_vars(Sweep)
    /\ WF_vars(BrokerHello) /\ WF_vars(BrokerFinish) /\ SF_vars(BrokerAuthOk)
    /\ WF_vars(~shut /\ Receives)

FairSpec == Spec /\ Fairness

----------------------------------------------------------------------------
(* Properties *)

Msgs == Handshakes \cup Auths \cup {Msg("data", id) : id \in BrokerIds \cup 1 .. IdSpace - 1}

(* The UDP state of tm_agent_app and tm_peer. *)
TypeOK ==
    /\ role \in Roles /\ ssl \in {"none", "hs", "done"}
    /\ \A b \in {authed, closing, sweep, reg, shut, failed} : b \in BOOLEAN
    /\ q \in Seq(Msgs) /\ next \in 0 .. IdSpace - 1
    /\ flows \subseteq [id : BrokerIds \cup 1 .. IdSpace - 1, src : Locals \cup BrokerIds,
                        idle : BOOLEAN]
    /\ rt \in {Off} \cup 0 .. MaxDelay + MaxDelay \div 5 /\ delay \in 0 .. MaxDelay
    /\ bs \in {"none", "hs", "done", "authed"} /\ up \subseteq Handshakes \cup Auths /\ down \subseteq Msgs

(* The flow table stays one to one through reuse of ids after the counter has
   wrapped: no two flows share an id or an address, none has id 0, the limit
   holds; no flow outlives the session its id belongs to; and the idle sweep
   runs whenever there is a flow to find, also in a session after a reconnect. *)
FlowsSound ==
    /\ Cardinality(flows) <= MaxFlows /\ 0 \notin Ids
    /\ \A f, g \in flows : f.id = g.id \/ f.src = g.src => f = g
    /\ flows # {} => ssl = "done" /\ sweep

(* Datagrams wait within the limit, and only on a session that was
   authenticated; before AUTH_OK the queue holds at most the AUTH_REQ. *)
QueueSound ==
    /\ Len(q) <= QueueMax
    /\ q # <<>> => ssl = "done"
    /\ ~authed => SetOf(q) \subseteq {Msg("auth", 0)}

(* What an end keeps for its session belongs to that session: flows, ids, sweep
   and queue, over every loss and restart. *)
SessionSound == TypeOK /\ FlowsSound /\ QueueSound

(* A peer without a session has its reconnect timer armed, and one with a
   session does not, unless it could not start. *)
PeerRetries ==
    role = "peer" /\ ~shut /\ ~failed =>
        (ssl = "none" <=> rt # Off) /\ (closing <=> ssl = "none")

(* A flow that falls idle and stays so is closed. *)
FlowsExpire ==
    \A id \in BrokerIds \cup 1 .. IdSpace - 1 :
        (\E f \in flows : f.id = id /\ f.idle) ~> (shut \/ ~\E f \in flows : f.id = id /\ f.idle)

(* A registered agent whose session the broker has closed makes a new one.  It
   does not hold: the agent sends no keepalives, is not told that its idle
   session was closed, and starts another one only after the control connection
   was lost. *)
Reestablished == (reg /\ authed /\ bs = "none") ~> (bs = "authed" \/ ~reg \/ shut)

(* A peer waits before it reconnects.  It does not hold: nothing gives
   reconnect_delay_ms of the peer its configured value, and 0 doubles to 0. *)
BacksOff == role = "peer" /\ rt # Off => rt > 0
=============================================================================
