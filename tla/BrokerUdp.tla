----------------------------- MODULE BrokerUdp -----------------------------
(***************************************************************************)
(* The UDP plane of one tunnel (broker/src/udp.c): the DTLS sessions on    *)
(* its public socket, keyed by source address; the session of the agent;   *)
(* the flows that translate between clients or peers and the flow ids the  *)
(* agent sees; and the sends in flight on the socket.                      *)
(*                                                                         *)
(* The network delivers what it likes, so a received datagram is any       *)
(* message of the protocol from any address, and loss, duplication and     *)
(* reordering need no actions of their own.  DTLS itself is external: a    *)
(* handshake message is answered by a flight of at most one datagram,      *)
(* completes the handshake, or is ignored.  A payload is the owner of the  *)
(* flow it belongs to: the source address and, behind a peer, the peer's   *)
(* flow id.  The rate limits drop datagrams at will.                       *)
(***************************************************************************)
EXTENDS Integers, Sequences, FiniteSets

CONSTANTS
    Modes,       \* kinds of tunnel: a subset of {"open", "closed"}
    Addrs,       \* source addresses
    PeerFlows,   \* flow ids a peer uses
    Slots,       \* memory for sessions: a set of positive numbers
    QueueMax,    \* udp_queue_packets
    MaxFlows,    \* udp_max_flows_per_tunnel
    MaxFlowId,   \* bound on the flow ids the broker assigns
    DtlsAddrs,   \* bound: the addresses that open sessions
    MaxSessions, \* bound on the sessions of each mode of tunnel
    SendFails,   \* whether uv_udp_send may fail
    SslWants     \* whether SSL_write may want to read first (a renegotiation)

ASSUME BrokerUdpAssumption ==
    /\ Modes \subseteq {"open", "closed"}
    /\ Slots \subseteq Nat \ {0} /\ PeerFlows \subseteq Nat \ {0}
    /\ \A m \in Modes : MaxSessions[m] \in Nat
    /\ DtlsAddrs \subseteq Addrs /\ {SendFails, SslWants} \subseteq BOOLEAN
    /\ QueueMax \in Nat \ {0} /\ MaxFlows \in Nat \ {0} /\ MaxFlowId \in Nat

VARIABLES
    mode,     \* "open" or "closed" tunnel
    open,     \* udp_open: the socket receives
    sess,     \* the sessions, by the memory they occupy
    agent,    \* agent_session, 0 for NULL
    flows,    \* udp_flows
    next,     \* next_flow_id
    owner,    \* the owner each flow id was assigned for
    sends,    \* sends in flight on the socket, in order
    raw       \* udp_raw_inflight

vars == <<mode, open, sess, agent, flows, next, owner, sends, raw>>

Owners == Addrs \X ({0} \cup PeerFlows)
NoOwner == <<>>

(* What a queue or a datagram holds: "hs" and "ctl" (AUTH_OK, AUTH_ERR) carry
   no payload; an envelope carries a flow id and the payload. *)
Item(k, id, own) == [k |-> k, id |-> id, own |-> own]
Flight == Item("hs", 0, NoOwner)
Ctl == Item("ctl", 0, NoOwner)

(* st is "free", "live" or "closing".  q is outq, wb the datagrams that wait in
   wbio.  timer is "armed", "closing" or "closed".  Two ghosts: want, the queue
   was left because SSL_write wanted to read; dropped, the send that inflight is
   set for was dropped. *)
FreeSession == [st |-> "free"]
NewSession(a) ==
    [st |-> "live", peer |-> a, hs |-> FALSE, role |-> "none", q |-> <<>>, wb |-> <<>>,
     inflight |-> FALSE, timer |-> "armed", want |-> FALSE, dropped |-> FALSE]

LiveSess(i) == sess[i].st = "live"

Init ==
    /\ mode \in Modes /\ open = TRUE
    /\ sess = [i \in Slots |-> FreeSession]
    /\ agent = 0 /\ flows = {} /\ next = 1
    /\ owner = [n \in 1 .. MaxFlowId |-> NoOwner]
    /\ sends = <<>> /\ raw = 0

----------------------------------------------------------------------------
(* Sending.  A world is the sessions and the sends; the operators return the
   worlds a call can lead to. *)

World == [sess |-> sess, sends |-> sends, raw |-> raw]
Becomes(w) == sess' = w.sess /\ sends' = w.sends /\ raw' = w.raw

\* dropped at the cap, or when uv_udp_send fails
udp_send_raw(w, i, dst, x) ==
    IF w.raw >= QueueMax THEN {w}
    ELSE {[w EXCEPT !.sends = Append(@, [slot |-> i, dst |-> dst, item |-> x]), !.raw = @ + 1]}
           \cup IF SendFails THEN {w} ELSE {}

\* the envelopes that SSL_write takes off the queue: one, or none when it wants
\* to read first
Written(s) == IF s.q = <<>> THEN {0} ELSE {1} \cup IF SslWants THEN {0} ELSE {}

Encrypt(s, n) == [s EXCEPT !.q = SubSeq(@, n + 1, Len(@)), !.wb = @ \o SubSeq(s.q, 1, n)]

\* one datagram is sent, if there is one; inflight is set whatever became of it
Emit(w, i, s) ==
    IF s.wb = <<>> THEN {[w EXCEPT !.sess[i] = [s EXCEPT !.want = s.q # <<>>]]}
    ELSE {[v EXCEPT !.sess[i] = [s EXCEPT !.wb = Tail(@), !.inflight = TRUE, !.want = FALSE,
                                          !.dropped = (v.sends = w.sends)]] :
            v \in udp_send_raw(w, i, s.peer, Head(s.wb))}

pump_out(w, i) ==
    LET s == w.sess[i] IN
    IF s.st # "live" \/ s.inflight THEN {w}
    ELSE UNION {Emit(w, i, Encrypt(s, n)) : n \in Written(s)}

session_queue(w, i, x) ==
    IF w.sess[i].st # "live" \/ Len(w.sess[i].q) >= QueueMax THEN {w}
    ELSE pump_out([w EXCEPT !.sess[i].q = Append(@, x)], i)

\* a handshake flight of f datagrams (0 or 1) waits in wbio
WithFlight(w, i, f) == [w EXCEPT !.sess[i].wb = IF f = 1 /\ @ = <<>> THEN <<Flight>> ELSE @]

----------------------------------------------------------------------------
(* Closing a session *)

\* frees without waiting for the send in flight
session_freed_early(s) == IF s.st = "closing" /\ s.timer = "closed" THEN FreeSession ELSE s

session_maybe_free(s) ==
    IF s.st = "closing" /\ ~s.inflight /\ s.timer = "closed" THEN FreeSession ELSE s

\* what becomes of a session; nothing of it is looked at again but these fields
ClosingSession(s) ==
    [s EXCEPT !.st = "closing", !.timer = "closing", !.q = <<>>, !.wb = <<>>]

CloseSlots(w, I) ==
    [w EXCEPT !.sess = [i \in Slots |-> IF i \in I THEN ClosingSession(@[i]) ELSE @[i]]]

\* the flows of closed sessions stay
FlowsKept(I) == flows

\* the flows that survive tm_udp_session_close of the sessions I
FlowsWithout(I) == {f \in flows : f.slot \notin I}

tm_udp_session_close(i) ==
    /\ Becomes(CloseSlots(World, {i}))
    /\ flows' = FlowsWithout({i})
    /\ agent' = IF agent = i THEN 0 ELSE agent
    /\ UNCHANGED <<mode, open, next, owner>>

session_timer_closed(i) ==
    /\ sess[i].st = "closing" /\ sess[i].timer = "closing"
    /\ sess' = [sess EXCEPT ![i] = session_maybe_free([@ EXCEPT !.timer = "closed"])]
    /\ UNCHANGED <<mode, open, agent, flows, next, owner, sends, raw>>

\* a completed send does not pump the queue
SendDoneOnly ==
    /\ sends # <<>>
    /\ LET i == Head(sends).slot
           w == [World EXCEPT !.sends = Tail(@), !.raw = @ - 1] IN
       IF i = 0 THEN Becomes(w)
       ELSE Becomes([w EXCEPT !.sess[i] = session_maybe_free([@ EXCEPT !.inflight = FALSE])])
    /\ UNCHANGED <<mode, open, agent, flows, next, owner>>

\* the first send in flight completes, or is cancelled with its socket
send_done ==
    /\ sends # <<>>
    /\ LET i == Head(sends).slot
           w == [World EXCEPT !.sends = Tail(@), !.raw = @ - 1] IN
       IF i = 0 THEN Becomes(w)
       ELSE IF sess[i].st = "closing"
            THEN Becomes([w EXCEPT !.sess[i] = session_maybe_free([@ EXCEPT !.inflight = FALSE])])
            ELSE \E v \in pump_out([w EXCEPT !.sess[i].inflight = FALSE], i) : Becomes(v)
    /\ UNCHANGED <<mode, open, agent, flows, next, owner>>

\* closes a session that was silent for long enough; otherwise retransmits while
\* the handshake lasts, and starts the timer again
session_timer_cb(i) ==
    /\ LiveSess(i) /\ sess[i].timer = "armed"
    /\ \/ tm_udp_session_close(i)
       \/ /\ ~sess[i].hs
          /\ \E f \in {0, 1} : \E w \in pump_out(WithFlight(World, i, f), i) : Becomes(w)
          /\ UNCHANGED <<mode, open, agent, flows, next, owner>>

----------------------------------------------------------------------------
(* Flows.  slot is peer_session, 0 for an internet client; sf is src_flow_id;
   used says that a datagram passed since the one that made the flow. *)

flow_find(id) == {f \in flows : f.id = id}
flow_find_peer(i, sf) == {f \in flows : f.slot = i /\ f.sf = sf}
flow_find_src(a) == {f \in flows : f.slot = 0 /\ f.src = a}

Touched(f) == (flows \ {f}) \cup {[f EXCEPT !.used = TRUE]}

\* ids are handed out in order; the table is limited
flow_new(i, sf, a) ==
    /\ Cardinality(flows) < MaxFlows
    /\ next <= MaxFlowId
    /\ flows' = flows \cup {[id |-> next, slot |-> i, sf |-> sf, src |-> a, used |-> FALSE]}
    /\ next' = next + 1
    /\ owner' = [owner EXCEPT ![next] = <<a, sf>>]

\* the timer runs once from flow_new, whatever passed since
flow_idle_cb(f) ==
    /\ flows' = flows \ {f}
    /\ UNCHANGED <<mode, open, sess, agent, next, owner, sends, raw>>

\* not wanted without an agent session
forward_to_agent(w, id, own) ==
    IF agent = 0 THEN {w} ELSE session_queue(w, agent, Item("req", id, own))

forward_to_peer(w, f, own) ==
    IF f.slot # 0 THEN session_queue(w, f.slot, Item("rep", f.sf, own))
    ELSE udp_send_raw(w, 0, f.src, Item("rep", 0, own))

\* behind whatever a record on session i led to, pump_in pumps out once more;
\* there is none behind a client's datagram (0)
ThenPump(W, i) ==
    \E w \in W : IF i = 0 THEN Becomes(w) ELSE \E v \in pump_out(w, i) : Becomes(v)

\* a datagram of owner <<a, sf>>, on a known flow or a new one
FromSource(found, i, sf, a) ==
    \/ \E f \in found :
        /\ flows' = Touched(f)
        /\ ThenPump(forward_to_agent(World, f.id, <<a, sf>>), i)
        /\ UNCHANGED <<next, owner>>
    \/ /\ found = {}
       /\ flow_new(i, sf, a)
       /\ ThenPump(forward_to_agent(World, next, <<a, sf>>), i)

----------------------------------------------------------------------------
(* What on_udp_packet makes of a datagram *)

open_client_datagram(a) ==
    /\ open /\ mode = "open"
    /\ FromSource(flow_find_src(a), 0, 0, a)
    /\ UNCHANGED <<mode, open, agent>>

SessionsOf(a) == {i \in Slots : LiveSess(i) /\ sess[i].peer = a}

session_create(a) ==
    /\ open /\ SessionsOf(a) = {}
    /\ \E i \in Slots :
        /\ sess[i].st = "free" /\ i <= MaxSessions[mode]
        /\ \E f \in {0, 1} :
             \E w \in pump_out(WithFlight([World EXCEPT !.sess[i] = NewSession(a)], i, f), i) :
                Becomes(w)
    /\ UNCHANGED <<mode, open, agent, flows, next, owner>>

\* a handshake message that is answered, or the last one; one that is fatal to
\* the handshake changes nothing, the session stays until its timer
pump_in(i) ==
    /\ LiveSess(i) /\ ~sess[i].hs
    /\ \/ \E f \in {0, 1} : \E w \in pump_out(WithFlight(World, i, f), i) : Becomes(w)
       \/ \E w \in pump_out(WithFlight([World EXCEPT !.sess[i].hs = TRUE], i, 1), i) :
            Becomes(w)
    /\ UNCHANGED <<mode, open, agent, flows, next, owner>>

\* a record nothing comes of: a keep-alive, no AUTH_REQ where one must come, an
\* envelope of an unknown flow, or of a new one where none may be made
Ignored(i) ==
    /\ LiveSess(i) /\ sess[i].hs
    /\ \E w \in pump_out(World, i) : Becomes(w)
    /\ UNCHANGED <<mode, open, agent, flows, next, owner>>

\* AUTH_REQ with a credential that is not good for this tunnel: the session
\* stays, not authenticated
AuthRefused(i) ==
    /\ LiveSess(i) /\ sess[i].hs /\ sess[i].role = "none"
    /\ ThenPump(session_queue(World, i, Ctl), i)
    /\ UNCHANGED <<mode, open, agent, flows, next, owner>>

\* the shared token, on a closed tunnel
PeerAuthed(i) ==
    /\ LiveSess(i) /\ sess[i].hs /\ sess[i].role = "none" /\ mode = "closed"
    /\ ThenPump(session_queue([World EXCEPT !.sess[i].role = "peer"], i, Ctl), i)
    /\ UNCHANGED <<mode, open, agent, flows, next, owner>>

\* the session that was the agent's stays
AgentAuthedKept(i) ==
    /\ LiveSess(i) /\ sess[i].hs /\ sess[i].role = "none"
    /\ ThenPump(session_queue([World EXCEPT !.sess[i].role = "agent"], i, Ctl), i)
    /\ agent' = i
    /\ UNCHANGED <<mode, open, flows, next, owner>>

\* the agent's secret: the session that was the agent's is closed
AgentAuthed(i) ==
    /\ LiveSess(i) /\ sess[i].hs /\ sess[i].role = "none"
    /\ LET w0 == IF agent = 0 THEN World ELSE [World EXCEPT !.sess[agent] = ClosingSession(@)] IN
       ThenPump(session_queue([w0 EXCEPT !.sess[i].role = "agent"], i, Ctl), i)
    /\ agent' = i
    /\ flows' = FlowsWithout({agent} \cap Slots)
    /\ UNCHANGED <<mode, open, next, owner>>

\* a reply for the flow the agent knows as id; dropped when the flow is gone
agent_session_env(i, id) ==
    /\ LiveSess(i) /\ sess[i].role = "agent"
    /\ \E f \in flow_find(id) :
        /\ flows' = Touched(f)
        /\ ThenPump(forward_to_peer(World, f, owner[id]), i)
    /\ UNCHANGED <<mode, open, agent, next, owner>>

peer_session_env(i, sf) ==
    /\ LiveSess(i) /\ sess[i].role = "peer"
    /\ FromSource(flow_find_peer(i, sf), i, sf, sess[i].peer)
    /\ UNCHANGED <<mode, open, agent>>

----------------------------------------------------------------------------
(* The socket *)

tm_udp_stop ==
    /\ open
    /\ open' = FALSE
    /\ Becomes(CloseSlots(World, {i \in Slots : LiveSess(i)}))
    /\ flows' = {} /\ agent' = 0
    /\ UNCHANGED <<mode, next, owner>>

\* once the old socket is closed, which cancels its sends
tm_udp_start ==
    /\ ~open /\ sends = <<>>
    /\ open' = TRUE
    /\ UNCHANGED <<mode, sess, agent, flows, next, owner, sends, raw>>

Receives ==
    \/ \E a \in Addrs : open_client_datagram(a)
    \/ \E a \in DtlsAddrs : session_create(a)
    \/ \E i \in Slots :
        \/ pump_in(i) \/ Ignored(i) \/ AuthRefused(i) \/ PeerAuthed(i) \/ AgentAuthed(i)
        \/ \E id \in 1 .. MaxFlowId : agent_session_env(i, id)
        \/ \E sf \in PeerFlows : peer_session_env(i, sf)

Next ==
    \/ Receives
    \/ send_done
    \/ \E i \in Slots : session_timer_cb(i) \/ session_timer_closed(i)
    \/ \E f \in flows : flow_idle_cb(f)
    \/ tm_udp_stop \/ tm_udp_start

Spec == Init /\ [][Next]_vars

----------------------------------------------------------------------------
(* Properties *)

Items == [k : {"hs", "ctl"}, id : {0}, own : {NoOwner}]
           \cup [k : {"req"}, id : 1 .. MaxFlowId, own : Owners]
           \cup [k : {"rep"}, id : {0} \cup PeerFlows, own : Owners]

Sessions == [st : {"live", "closing"}, peer : Addrs, hs : BOOLEAN, role : {"none", "agent", "peer"},
             q : Seq(Items), wb : Seq(Items), inflight : BOOLEAN,
             timer : {"armed", "closing", "closed"}, want : BOOLEAN, dropped : BOOLEAN]

(* The state of the UDP plane of a tunnel, as broker.h declares it. *)
TypeOK ==
    /\ mode \in Modes /\ open \in BOOLEAN
    /\ sess \in [Slots -> Sessions \cup {FreeSession}]
    /\ agent \in {0} \cup Slots
    /\ flows \subseteq [id : 1 .. MaxFlowId, slot : {0} \cup Slots, sf : {0} \cup PeerFlows,
                        src : Addrs, used : BOOLEAN]
    /\ next \in 1 .. MaxFlowId + 1
    /\ owner \in [1 .. MaxFlowId -> Owners \cup {NoOwner}]
    /\ sends \in Seq([slot : {0} \cup Slots, dst : Addrs, item : Items])
    /\ raw \in Nat

Mine(x, dst) ==
    /\ x.k = "rep" => x.own = <<dst, x.id>>
    /\ x.k = "req" => x.own = owner[x.id]

(* A datagram goes to its owner only: what the broker sends to a client or a
   peer, however late, is a reply on the flow of that address (and flow id),
   and a request reaches the agent under the id its source was given.  It
   holds across expired flows, closed sessions, reused memory and late replies
   of the agent. *)
NoCrossTalk ==
    /\ \A k \in DOMAIN sends : Mine(sends[k].item, sends[k].dst)
    /\ \A i \in Slots : LiveSess(i) =>
        \A k \in DOMAIN sess[i].q : Mine(sess[i].q[k], sess[i].peer)

(* The flow table is a bijection: one flow per id and one per source, at most
   udp_max_flows_per_tunnel, each with its owner's address; and the session of
   a peer's flow is a live authenticated one, which forward_to_peer follows. *)
FlowsSound ==
    /\ Cardinality(flows) <= MaxFlows
    /\ \A f, g \in flows : f.id = g.id \/ <<f.slot, f.src, f.sf>> = <<g.slot, g.src, g.sf>> => f = g
    /\ \A f \in flows :
        /\ owner[f.id] = <<f.src, f.sf>>
        /\ f.slot # 0 => LiveSess(f.slot) /\ sess[f.slot].role = "peer" /\ sess[f.slot].peer = f.src

(* The demultiplexer finds one live session for an address, the one that made
   the keys; and agent_session is the only live session that authenticated as
   the agent, so two agents never both reply on the flows of a tunnel.  Its
   timer is armed, so that the idle sweep finds a session whose address falls
   silent, whatever its handshake has come to. *)
SessionsSound ==
    /\ \A i, j \in Slots : LiveSess(i) /\ LiveSess(j) /\ sess[i].peer = sess[j].peer => i = j
    /\ \A i \in Slots : LiveSess(i) /\ sess[i].role = "agent" <=> agent = i
    /\ \A i \in Slots : LiveSess(i) => sess[i].timer = "armed"

(* What on_udp_packet and the forwarding functions look up is there and is the
   right one, in the table of flows as in the list of sessions. *)
TablesSound == TypeOK /\ FlowsSound /\ SessionsSound

SendOf(i) == {k \in DOMAIN sends : sends[k].slot = i}

(* The completion of a send finds its session: a session with a send in flight
   is not freed, has inflight set, and has no second one; udp_raw_inflight
   counts the sends exactly and stays within the cap.  A closed session that is
   not freed yet waits for its timer to close or is marked in flight; whether a
   send stands behind the mark is QueueSound's. *)
SendsSound ==
    /\ raw = Len(sends) /\ raw <= QueueMax
    /\ \A k \in DOMAIN sends : LET i == sends[k].slot IN
        i # 0 => /\ sess[i].st # "free" /\ sess[i].inflight /\ sess[i].peer = sends[k].dst
                 /\ \A l \in DOMAIN sends : sends[l].slot = i => l = k
    /\ \A i \in Slots : sess[i].st = "closing" => sess[i].timer = "closing" \/ sess[i].inflight

(* No lost wakeup but for the two reasons the code has.  What waits in a queue,
   which is within udp_queue_packets, waits for the mark inflight to be cleared,
   or was left there because SSL_write wanted to read, in which case the next
   record or envelope of the session pumps it out; what waits in wbio waits for
   the mark.  Behind the mark is a send that will complete, or one that was
   dropped: then nothing clears it, the session is wedged and, once closed, never
   freed (NeverWedged). *)
QueueSound ==
    /\ \A i \in Slots : LiveSess(i) =>
        /\ Len(sess[i].q) <= QueueMax
        /\ sess[i].q # <<>> => sess[i].inflight \/ sess[i].want
        /\ sess[i].wb # <<>> => sess[i].inflight
    /\ \A i \in Slots : sess[i].st # "free" /\ sess[i].inflight =>
        sess[i].dropped \/ SendOf(i) # {}

(* The send a session waits for was dropped, at the cap or by uv_udp_send. *)
Wedged(i) ==
    sess[i].st # "free" /\ sess[i].inflight /\ SendOf(i) = {}

(* A dropped datagram is only dropped: a session that waits for a send has one
   to wait for.  It does not hold: pump_out sets inflight although
   udp_send_raw dropped the datagram at the cap, and no completion comes. *)
NeverWedged == \A i \in Slots : ~Wedged(i)

(* A mapping is reclaimed when it was idle.  It does not hold: flow_idle_cb
   does not look at last_seen_ms. *)
ReclaimedIdle == [][\A f \in flows : flow_idle_cb(f) => ~f.used]_vars
=============================================================================
