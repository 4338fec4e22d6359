------------------------------ MODULE Control ------------------------------
(***************************************************************************)
(* The broker's control port and the life of its TCP streams:              *)
(* broker/src/control.c, on_public_accept of tcp.c, stream creation and    *)
(* closing in relay.c, and the IPC operations of ipc.c that touch them.    *)
(* Every action is one callback: a frame, a connection event, a timer, an  *)
(* IPC request.  What flows through a bound stream is Relay.               *)
(*                                                                         *)
(* A secret is a pair of its tunnel and a version: nobody guesses one, an  *)
(* old version is the one before a rotation.  Frames the broker rejects as *)
(* malformed only close their connection (conn_close).                     *)
(***************************************************************************)
EXTENDS Integers, FiniteSets, Sequences

CONSTANTS
    Order,         \* the tunnels, in the order of the list b->tunnels
    ClosedTuns,    \* those that are closed (reached through peers)
    Conns,         \* blocks for connections on the control port
    Slots,         \* blocks for streams
    MaxStreams, MaxPerTunnel, MaxPending, MaxConns,    \* the caps of the broker
    IdMod,         \* stream ids are taken modulo this: 2^31
    MaxOpens,      \* bound: number of streams each of the two counters numbers
    MaxVersion     \* bound: number of rotations of each secret

Tuns == {Order[i] : i \in DOMAIN Order}
OpenTuns == Tuns \ ClosedTuns
Versions == 0 .. MaxVersion
None == "none"
Kinds == {"open", "closed"}

ASSUME ControlAssumption ==
    /\ \A i, j \in DOMAIN Order : Order[i] = Order[j] => i = j
    /\ ClosedTuns \subseteq Tuns
    /\ {MaxStreams, MaxPerTunnel, MaxPending, MaxConns, MaxOpens, MaxVersion} \subseteq Nat
    /\ IdMod \in Nat \ {0, 1}
    /\ None \notin Conns /\ None \notin Tuns /\ IsFiniteSet(Slots)

VARIABLES
    tun,          \* tunnels: registered, enabled, secret, token, agent, agent_online, streams_active
    conn,         \* connections: role, hs (handshake timer armed), tunnel and secret version
    strm,         \* streams: tunnel (or None), number, id, bound, and the OPEN_STREAM
                  \* that the data connection bound to it answers (a ghost)
    opened,       \* the tunnel of each OPEN_STREAM so far, for the two counters that
                  \* number them: sid_counter (open) and sid_counter2 (closed)
    stream_count,
    phase,        \* "up", "shutting" (shutting_down), "down" (cleaned_up)
    corrupt       \* a deleted tunnel was used

vars == <<tun, conn, strm, opened, stream_count, phase, corrupt>>

NoTunnel == [reg |-> FALSE, enabled |-> FALSE, secret |-> 0, token |-> 0,
             agent |-> None, online |-> FALSE, active |-> 0]    \* a freed block
NoConn == [role |-> "free", hs |-> FALSE, tun |-> None, ver |-> 0]
NoOpen == [tun |-> None, no |-> 0]
NoStream == [tun |-> None, no |-> 0, id |-> 0, bound |-> FALSE, by |-> NoOpen]

Running == phase # "down" /\ ~corrupt
Streams(t) == {s \in Slots : strm[s].tun = t}
Pending(t) == {s \in Streams(t) : ~strm[s].bound}
Waiting == {c \in Conns : conn[c].role \in {"new", "hello", "peer"}}    \* b->conns

Init ==
    /\ tun = [t \in Tuns |-> [NoTunnel EXCEPT !.reg = TRUE, !.enabled = TRUE]]
    /\ conn = [c \in Conns |-> NoConn]
    /\ strm = [s \in Slots |-> NoStream]
    /\ opened = [k \in Kinds |-> <<>>]
    /\ stream_count = 0
    /\ phase = "up" /\ corrupt = FALSE

----------------------------------------------------------------------------
(* Connections on the control port *)

on_control_accept(c) ==
    /\ Running /\ phase = "up"
    /\ conn[c].role = "free" /\ Cardinality(Waiting) < MaxConns
    /\ conn' = [conn EXCEPT ![c] = [NoConn EXCEPT !.role = "new", !.hs = TRUE]]
    /\ UNCHANGED <<tun, strm, opened, stream_count, phase, corrupt>>

\* the TLS handshake is complete
conn_ready(c) ==
    /\ Running /\ conn[c].role = "new" /\ conn[c].hs
    /\ conn' = [conn EXCEPT ![c].hs = FALSE]
    /\ UNCHANGED <<tun, strm, opened, stream_count, phase, corrupt>>

\* end or error of a connection, a timeout, or a frame that is not accepted
conn_close(c) ==
    /\ Running /\ c \in Waiting
    /\ conn' = [conn EXCEPT ![c] = NoConn]
    /\ UNCHANGED <<tun, strm, opened, stream_count, phase, corrupt>>

\* a frame may be read on c
Ready(c, role) == Running /\ conn[c].role = role /\ ~conn[c].hs

hello(c) ==
    /\ Ready(c, "new")
    /\ conn' = [conn EXCEPT ![c].role = "hello"]
    /\ UNCHANGED <<tun, strm, opened, stream_count, phase, corrupt>>

----------------------------------------------------------------------------
(* Agents.  The state after tm_agent_drop of tunnel t's agent. *)

WithoutAgent(t) == [tun EXCEPT ![t].agent = None, ![t].online = FALSE]
Released(t) == [c \in Conns |-> IF c = tun[t].agent THEN NoConn ELSE conn[c]]

\* mutant of agent_register: the replaced agent keeps its connection
RegisterBeside(c, t, v) ==
    /\ Ready(c, "hello")
    /\ IF tun[t].reg /\ tun[t].enabled /\ v = tun[t].secret
       THEN /\ conn' = [conn EXCEPT ![c] = [NoConn EXCEPT !.role = "agent", !.tun = t, !.ver = v]]
            /\ tun' = [tun EXCEPT ![t].agent = c, ![t].online = TRUE]
       ELSE conn' = [conn EXCEPT ![c] = NoConn] /\ UNCHANGED tun
    /\ UNCHANGED <<strm, opened, stream_count, phase, corrupt>>

\* the connection becomes the agent of t; an agent that is there is dropped
agent_register(c, t, v) ==
    /\ Ready(c, "hello")
    /\ IF tun[t].reg /\ tun[t].enabled /\ v = tun[t].secret
       THEN /\ conn' = [Released(t) EXCEPT ![c] = [NoConn EXCEPT !.role = "agent", !.tun = t, !.ver = v]]
            /\ tun' = [tun EXCEPT ![t].agent = c, ![t].online = TRUE]
       ELSE conn' = [conn EXCEPT ![c] = NoConn] /\ UNCHANGED tun
    /\ UNCHANGED <<strm, opened, stream_count, phase, corrupt>>

\* end, error, malformed frame or idle timeout
tm_agent_drop(t) ==
    /\ Running /\ tun[t].agent # None
    /\ tun' = WithoutAgent(t) /\ conn' = Released(t)
    /\ UNCHANGED <<strm, opened, stream_count, phase, corrupt>>

\* tm_agent_send_frame of OPEN_STREAM, after the changes cn and tn; the
\* write may fail
SendOpen(t, cn, tn) ==
    \/ conn' = cn /\ tun' = tn
    \/ /\ conn' = [cn EXCEPT ![tn[t].agent] = NoConn]
       /\ tun' = [tn EXCEPT ![t].agent = None, ![t].online = FALSE]

----------------------------------------------------------------------------
(* Streams *)

\* tm_stream_create_open, tm_stream_create_closed
HasRoom(t) == stream_count < MaxStreams /\ tun[t].active < MaxPerTunnel
Kind(t) == IF t \in ClosedTuns THEN "closed" ELSE "open"
Number(t) == Len(opened[Kind(t)]) + 1    \* the counter before it is stepped
IdOf(n) == IF n % IdMod = 0 THEN 1 ELSE n % IdMod
NewStream(t) ==
    [tun |-> t, no |-> Number(t), id |-> IdOf(Number(t)), bound |-> FALSE, by |-> NoOpen]

Create(t, s, cn) ==
    /\ s \in Slots /\ strm[s].tun = None
    /\ Number(t) <= MaxOpens
    /\ strm' = [strm EXCEPT ![s] = NewStream(t)]
    /\ opened' = [opened EXCEPT ![Kind(t)] = Append(@, t)]
    /\ stream_count' = stream_count + 1
    /\ SendOpen(t, cn, [tun EXCEPT ![t].active = @ + 1])

\* mutant of CloseStreams: the deletion of a tunnel counts one stream
CloseStreamsOne(S) ==
    /\ strm' = [s \in Slots |-> IF s \in S THEN NoStream ELSE strm[s]]
    /\ stream_count' = IF S = {} THEN stream_count ELSE stream_count - 1

\* tm_stream_close of the streams S
CloseStreams(S) ==
    /\ strm' = [s \in Slots |-> IF s \in S THEN NoStream ELSE strm[s]]
    /\ stream_count' = stream_count - Cardinality(S)

LessActive(tn, t, n) == [tn EXCEPT ![t].active = IF @ > n THEN @ - n ELSE 0]

on_public_accept(t, s) ==
    /\ Running /\ phase = "up" /\ t \in OpenTuns
    /\ tun[t].reg /\ tun[t].enabled /\ tun[t].online
    /\ HasRoom(t)
    /\ Create(t, s, conn)
    /\ UNCHANGED <<phase, corrupt>>

peer_auth(c, t, v) ==
    /\ Ready(c, "hello")
    /\ conn' = [conn EXCEPT ![c] =
         IF tun[t].reg /\ tun[t].enabled /\ t \in ClosedTuns /\ v = tun[t].token
         THEN [NoConn EXCEPT !.role = "peer", !.tun = t, !.ver = v] ELSE NoConn]
    /\ UNCHANGED <<tun, strm, opened, stream_count, phase, corrupt>>

\* DATA_BIND(0) of a peer, whose connection becomes leg A
Admits(t) == tun[t].online /\ Cardinality(Pending(t)) < MaxPending /\ HasRoom(t)

peer_open_stream(c, s) ==
    /\ Ready(c, "peer")
    /\ LET t == conn[c].tun  gone == [conn EXCEPT ![c] = NoConn] IN
       \/ ~tun[t].reg /\ corrupt' = TRUE /\ UNCHANGED <<tun, conn, strm, opened, stream_count>>
       \/ tun[t].reg /\ Admits(t) /\ Create(t, s, gone) /\ UNCHANGED corrupt
       \/ /\ tun[t].reg /\ ~Admits(t)
          /\ conn' = gone /\ UNCHANGED <<tun, strm, opened, stream_count, corrupt>>
    /\ UNCHANGED phase

\* DATA_BIND as the first frame of a connection.  It answers an OPEN_STREAM
\* frame, perhaps late, or again, or from an agent that has been replaced since,
\* with the id that frame had and a secret of the tunnel it was about.  The first
\* tunnel that has a stream of that id decides.
Found(id) ==
    LET has == {i \in DOMAIN Order : tun[Order[i]].reg /\ \E s \in Streams(Order[i]) : strm[s].id = id}
    IN IF has = {} THEN {}
       ELSE {s \in Streams(Order[CHOOSE i \in has : \A j \in has : i <= j]) : strm[s].id = id}

\* mutant of Binds: the secret of any tunnel will do
BindsAny(s, t, v) == ~strm[s].bound /\ tun[strm[s].tun].enabled /\ v = tun[t].secret

Binds(s, t, v) ==
    /\ ~strm[s].bound /\ tun[strm[s].tun].enabled
    /\ strm[s].tun = t /\ v = tun[t].secret

\* the answer to OPEN_STREAM number n of kind k, with secret version v
data_conn_first_frame(c, k, n, v) ==
    /\ Ready(c, "new") /\ n \in DOMAIN opened[k]
    /\ conn' = [conn EXCEPT ![c] = NoConn]
    /\ LET id == IdOf(n)  t == opened[k][n] IN
       \/ Found(id) = {} /\ UNCHANGED strm
       \/ \E s \in Found(id) :
            IF Binds(s, t, v)
            THEN strm' = [strm EXCEPT ![s].bound = TRUE, ![s].by = [tun |-> t, no |-> n]]
            ELSE UNCHANGED strm
    /\ UNCHANGED <<tun, opened, stream_count, phase, corrupt>>

CloseOne(s) ==
    LET t == strm[s].tun IN
    /\ CloseStreams({s})
    /\ tun' = LessActive(tun, t, 1)
    /\ UNCHANGED <<conn, opened, phase, corrupt>>

\* mutant of stream_bind_timer_cb: a stream waits for its agent to come back
BindTimerOnline(s) ==
    /\ Running /\ strm[s].tun # None /\ ~strm[s].bound /\ tun[strm[s].tun].online
    /\ CloseOne(s)

stream_bind_timer_cb(s) ==
    /\ Running /\ strm[s].tun # None /\ ~strm[s].bound
    /\ CloseOne(s)

\* the relay is over, an OPEN_STREAM_ERROR or CLOSE_STREAM frame of the agent
\* or of a peer of its tunnel, or kill_stream
tm_stream_close(s) ==
    /\ Running /\ strm[s].tun # None
    /\ CloseOne(s)

----------------------------------------------------------------------------
(* IPC and shutdown *)

\* mutant of disable_tunnel: the agent stays
DisableKeepsAgent(t) ==
    /\ Running /\ tun[t].reg /\ tun[t].enabled
    /\ tun' = [tun EXCEPT ![t].enabled = FALSE]
    /\ UNCHANGED <<conn, strm, opened, stream_count, phase, corrupt>>

disable_tunnel(t) ==
    /\ Running /\ tun[t].reg /\ tun[t].enabled
    /\ tun' = [WithoutAgent(t) EXCEPT ![t].enabled = FALSE]
    /\ conn' = Released(t)
    /\ UNCHANGED <<strm, opened, stream_count, phase, corrupt>>

enable_tunnel(t) ==
    /\ Running /\ tun[t].reg /\ ~tun[t].enabled
    /\ tun' = [tun EXCEPT ![t].enabled = TRUE]
    /\ UNCHANGED <<conn, strm, opened, stream_count, phase, corrupt>>

\* mutant of rotate_agent_secret: the agent stays
RotateKeepsAgent(t) ==
    /\ Running /\ tun[t].reg /\ tun[t].secret < MaxVersion
    /\ tun' = [tun EXCEPT ![t].secret = @ + 1]
    /\ UNCHANGED <<conn, strm, opened, stream_count, phase, corrupt>>

rotate_agent_secret(t) ==
    /\ Running /\ tun[t].reg /\ tun[t].secret < MaxVersion
    /\ tun' = [WithoutAgent(t) EXCEPT ![t].secret = @ + 1]
    /\ conn' = Released(t)
    /\ UNCHANGED <<strm, opened, stream_count, phase, corrupt>>

rotate_shared_token(t) ==
    /\ Running /\ tun[t].reg /\ tun[t].token < MaxVersion
    /\ tun' = [tun EXCEPT ![t].token = @ + 1]
    /\ UNCHANGED <<conn, strm, opened, stream_count, phase, corrupt>>

delete_tunnel(t) ==
    /\ Running /\ tun[t].reg
    /\ CloseStreams(Streams(t))
    /\ tun' = [tun EXCEPT ![t] = NoTunnel]
    /\ conn' = Released(t)
    /\ UNCHANGED <<opened, phase, corrupt>>

\* GOING_AWAY is sent to every agent; those of D cannot be written to
tm_broker_shutdown ==
    /\ Running /\ phase = "up" /\ phase' = "shutting"
    /\ \E D \in SUBSET {t \in Tuns : tun[t].online} :
         /\ tun' = [t \in Tuns |-> IF t \in D THEN WithoutAgent(t)[t] ELSE tun[t]]
         /\ conn' = [c \in Conns |-> IF \E t \in D : tun[t].agent = c THEN NoConn ELSE conn[c]]
    /\ UNCHANGED <<strm, opened, stream_count, corrupt>>

broker_cleanup ==
    /\ Running /\ phase = "shutting" /\ phase' = "down"
    /\ tun' = [t \in Tuns |-> NoTunnel] /\ conn' = [c \in Conns |-> NoConn]
    /\ CloseStreams({s \in Slots : strm[s].tun # None})
    /\ UNCHANGED <<opened, corrupt>>

Next ==
    \/ \E c \in Conns : on_control_accept(c) \/ conn_ready(c) \/ conn_close(c) \/ hello(c)
    \/ \E c \in Conns, t \in Tuns, v \in Versions : agent_register(c, t, v) \/ peer_auth(c, t, v)
    \/ \E c \in Conns, s \in Slots : peer_open_stream(c, s)
    \/ \E c \in Conns, k \in Kinds, n \in 1 .. MaxOpens, v \in Versions :
         data_conn_first_frame(c, k, n, v)
    \/ \E t \in Tuns, s \in Slots : on_public_accept(t, s)
    \/ \E s \in Slots : stream_bind_timer_cb(s) \/ tm_stream_close(s)
    \/ \E t \in Tuns :
         \/ tm_agent_drop(t) \/ disable_tunnel(t) \/ enable_tunnel(t)
         \/ rotate_agent_secret(t) \/ rotate_shared_token(t) \/ delete_tunnel(t)
    \/ tm_broker_shutdown \/ broker_cleanup

Spec == Init /\ [][Next]_vars

\* every stream has a bind timer, which libuv fires
FairSpec == Spec /\ \A s \in Slots : WF_vars(stream_bind_timer_cb(s))
----------------------------------------------------------------------------
(* Properties *)

TunnelType == [reg : BOOLEAN, enabled : BOOLEAN, secret : Versions, token : Versions,
               agent : Conns \cup {None}, online : BOOLEAN, active : Nat]
ConnType == [role : {"free", "new", "hello", "peer", "agent"}, hs : BOOLEAN,
             tun : Tuns \cup {None}, ver : Versions]
OpenType == [tun : Tuns \cup {None}, no : Nat]
StreamType == [tun : Tuns \cup {None}, no : Nat, id : 0 .. IdMod - 1, bound : BOOLEAN, by : OpenType]

\* Every variable of the control port stays in its type.
TypeOK ==
    /\ tun \in [Tuns -> TunnelType] /\ conn \in [Conns -> ConnType] /\ strm \in [Slots -> StreamType]
    /\ opened \in [Kinds -> Seq(Tuns)]
    /\ stream_count \in Nat
    /\ phase \in {"up", "shutting", "down"} /\ corrupt \in BOOLEAN

\* A tunnel is online exactly while it has an agent, and the agents of the
\* tunnels are exactly the connections that registered and are still up: a
\* replaced, dropped or expelled agent leaves neither a stale pointer in its
\* tunnel nor a connection without one.
AgentExact ==
    /\ \A t \in Tuns : tun[t].online <=> tun[t].agent # None
    /\ \A t \in Tuns : tun[t].agent # None =>
         conn[tun[t].agent].role = "agent" /\ conn[tun[t].agent].tun = t
    /\ \A c \in Conns : conn[c].role = "agent" => tun[conn[c].tun].agent = c

\* An online agent belongs to a registered, enabled tunnel and presented the
\* secret that is valid now: disabling, deleting or rotating expels it at once
\* ("force the agent to re-authenticate").
AgentAuthorised == \A t \in Tuns : tun[t].online =>
    /\ tun[t].reg /\ tun[t].enabled
    /\ conn[tun[t].agent].ver = tun[t].secret

\* stream_count and streams_active count the streams that are open, so that
\* the caps hold, however streams end: by their relay, the bind timer, a frame
\* of the agent, kill_stream, or the deletion of their tunnel.
CountsExact ==
    /\ stream_count = Cardinality({s \in Slots : strm[s].tun # None}) /\ stream_count <= MaxStreams
    /\ \A t \in Tuns : tun[t].active = Cardinality(Streams(t)) /\ tun[t].active <= MaxPerTunnel
    /\ \A t \in Tuns : ~tun[t].reg => Streams(t) = {}

\* An answer reaches the stream it answers: a data connection is bound to the
\* stream whose OPEN_STREAM it was opened for, although that stream may have
\* timed out or its agent been replaced in between, and although the two counters
\* give the same id to streams of different tunnels (data_conn_first_frame looks
\* the id up over all tunnels and then checks the secret).  Ids are reused once a
\* counter has passed 2^31, of which this says nothing: see BoundToItsOpenEver.
BoundToItsOpen == \A s \in Slots :
    strm[s].bound /\ strm[s].no < IdMod /\ strm[s].by.no < IdMod =>
        strm[s].by = [tun |-> strm[s].tun, no |-> strm[s].no]

\* The pending-stream cap holds for closed tunnels (peer_open_stream).
PendingCapClosed == \A t \in ClosedTuns : Cardinality(Pending(t)) <= MaxPending

\* The accounts behind the caps are right, however streams and agents come and go.
AccountsExact == TypeOK /\ CountsExact /\ PendingCapClosed

\* While a tunnel is disabled it gets no new stream, not even from a peer that
\* authenticated before (peer_open_stream asks only for an agent, and disabling
\* drops it), and none of its pending streams is bound.
QuietWhenDisabled ==
    [][\A s \in Slots :
         /\ strm[s].tun = None /\ strm'[s].tun # None => tun[strm'[s].tun].enabled
         /\ ~strm[s].bound /\ strm'[s].bound => tun[strm[s].tun].enabled]_vars

\* A stream never stays pending: an agent binds it or it is closed.
PendingResolved == \A s \in Slots :
    (strm[s].tun # None /\ ~strm[s].bound) ~> (strm[s].tun = None \/ strm[s].bound \/ corrupt)

----------------------------------------------------------------------------
(* Statements of the documentation that the code does not keep *)

\* "a pending-stream cap"; "Streams accepted but not yet bound by an agent."
PendingCap == \A t \in Tuns : Cardinality(Pending(t)) <= MaxPending

\* "the agent opens a fresh TLS data connection and binds it to the stream id":
\* the id in OPEN_STREAM leads back to the stream it was sent for.
IdsResolve == \A s \in Slots :
    strm[s].tun # None /\ ~strm[s].bound => s \in Found(strm[s].id)

\* The same when ids come round: the OPEN_STREAM a data connection answers is the
\* one of the stream it is bound to.  The counter value 2^31 has id 0, which is
\* replaced by 1, and so has its successor: two streams in a row share an id.
BoundToItsOpenEver == \A s \in Slots :
    strm[s].bound => strm[s].by = [tun |-> strm[s].tun, no |-> strm[s].no]

\* "close everything belonging to the tunnel (listeners, sessions, streams)": no
\* session of a peer uses its tunnel after the tunnel was deleted.
NoUseAfterDelete == ~corrupt

\* "Deadline for completing TLS and the first frame."
FirstFrameDeadline == \A c \in Conns : conn[c].role = "new" => conn[c].hs

\* "The broker marks the tunnel offline ... and closes every orphaned stream."
OrphansClosed == \A t \in Tuns :
    (~tun[t].online /\ Streams(t) # {}) ~> (tun[t].online \/ Streams(t) = {} \/ corrupt)
=============================================================================
