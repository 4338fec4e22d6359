----------------------------- MODULE AgentLink -----------------------------
(***************************************************************************)
(* The agent's control connection (agent/src/control.c, the shutdown of    *)
(* agent/src/main.c): connect, TLS handshake, HELLO and REGISTER, the      *)
(* heartbeat, and reconnection with backoff; with the streams and the UDP  *)
(* session that live and die with a registration.                          *)
(*                                                                         *)
(* The broker is the environment: it comes and goes, and when it goes the  *)
(* connection ends (FIN or RST arrives) or is dead (nothing arrives any    *)
(* more).  The kernel reports a dead connection only when bytes it sent    *)
(* stay unacknowledged.                                                    *)
(***************************************************************************)
EXTENDS Integers

CONSTANTS
    Protos,      \* a subset of {"tcp", "udp"}
    Sids,        \* stream ids the broker uses
    BaseDelay,   \* reconnect_delay_ms of the configuration
    MaxDelay,    \* reconnect_max_delay_ms
    MaxFails     \* where the ghost count of failures saturates

\* the configured delay, doubled n times
Doubled[n \in 0 .. MaxFails] == IF n = 0 THEN BaseDelay ELSE 2 * Doubled[n - 1]

ASSUME AgentLinkAssumption ==
    /\ Protos \subseteq {"tcp", "udp"}
    /\ BaseDelay \in Nat \ {0} /\ MaxDelay \in Nat /\ MaxDelay >= BaseDelay
    /\ MaxFails \in Nat /\ Doubled[MaxFails] >= MaxDelay

VARIABLES
    proto,
    connecting, connected, hello, registered,   \* the flags of tm_agent_app
    io,        \* ctl_io: "none", "tls" (handshake) or "open"
    rt,        \* reconnect_timer: its delay, or Off
    ht, hb,    \* hs_timer, hb_timer: armed
    delay,     \* reconnect_delay_ms, 0 before the first attempt
    fails,     \* ghost: connections lost since the last REGISTER_OK
    streams,   \* ids of the streams
    udp,       \* the UDP session runs (udp_ssl)
    shut,      \* shutting_down
    lost,      \* ghost: the TLS client could not be set up
    up,        \* the broker is reachable
    far,       \* the broker's end: "none", "live", "ended" or "dead"
    unacked,   \* bytes of the agent are not acknowledged
    quiet      \* nothing was read for idle_timeout_ms

flags == <<connecting, connected, hello, registered, io>>
timers == <<rt, ht, hb, delay, fails>>
children == <<streams, udp>>
wire == <<up, far, unacked, quiet>>
vars == <<proto, flags, timers, children, shut, lost, wire>>

Off == -1

----------------------------------------------------------------------------
(* Backoff *)

\* the delays the timer is started with: a fifth more or less
reconnect_with_jitter(d) ==
    LET spread == d \div 5 IN {d - spread + s : s \in 0 .. 2 * spread}

NextDelay == IF delay * 2 > MaxDelay THEN MaxDelay ELSE delay * 2

\* resolving or uv_tcp_connect fails at once: the timer again, the same delay
ConnectFails(d) ==
    /\ rt' \in reconnect_with_jitter(d)
    /\ UNCHANGED connecting

tm_agent_connect ==
    LET d == IF delay = 0 THEN BaseDelay ELSE delay IN
    /\ delay' = d
    /\ \/ connecting' = TRUE /\ rt' = Off
       \/ ConnectFails(d)
    /\ UNCHANGED <<proto, connected, hello, registered, io, ht, hb, fails, children, shut, lost, wire>>

Init ==
    /\ proto \in Protos
    /\ connecting = FALSE /\ connected = FALSE /\ hello = FALSE /\ registered = FALSE
    /\ io = "none" /\ rt = 0 /\ ht = FALSE /\ hb = FALSE /\ delay = 0 /\ fails = 0
    /\ streams = {} /\ udp = (proto = "udp") /\ shut = FALSE /\ lost = FALSE
    /\ up \in BOOLEAN /\ far = "none" /\ unacked = FALSE /\ quiet = FALSE

\* a later attempt, or the first one, which main makes
reconnect_timer_cb ==
    /\ rt # Off /\ ~shut
    /\ tm_agent_connect

\* the streams survive the connection
ChildrenKept == UNCHANGED streams /\ udp' = (udp /\ ~registered)

\* what was opened under a registration ends with it
ChildrenEnd ==
    IF registered THEN streams' = {} /\ udp' = FALSE ELSE UNCHANGED children

\* the reconnect timer is not started when the connection was not registered
DisconnectSilently ==
    /\ connecting \/ connected \/ registered
    /\ connecting' = FALSE /\ connected' = FALSE /\ hello' = FALSE /\ registered' = FALSE
    /\ io' = "none" /\ ht' = FALSE /\ hb' = FALSE
    /\ far' = "none" /\ unacked' = FALSE /\ quiet' = FALSE
    /\ ChildrenEnd
    /\ delay' = NextDelay /\ fails' = IF fails = MaxFails THEN fails ELSE fails + 1
    /\ IF registered THEN rt' \in reconnect_with_jitter(NextDelay) ELSE UNCHANGED rt
    /\ UNCHANGED <<proto, shut, lost, up>>

tm_agent_disconnect ==
    /\ connecting \/ connected \/ registered
    /\ connecting' = FALSE /\ connected' = FALSE /\ hello' = FALSE /\ registered' = FALSE
    /\ io' = "none" /\ ht' = FALSE /\ hb' = FALSE
    /\ far' = "none" /\ unacked' = FALSE /\ quiet' = FALSE
    /\ ChildrenEnd
    /\ delay' = NextDelay /\ fails' = IF fails = MaxFails THEN fails ELSE fails + 1
    /\ rt' \in reconnect_with_jitter(NextDelay)
    /\ UNCHANGED <<proto, shut, lost, up>>

----------------------------------------------------------------------------
(* Connecting *)

ctl_connect_failed ==
    /\ connecting /\ ~shut
    /\ tm_agent_disconnect

\* the handshake is not timed
ctl_connected_untimed ==
    /\ connecting /\ up /\ ~shut
    /\ connecting' = FALSE /\ connected' = TRUE /\ io' = "tls" /\ far' = "live"
    /\ UNCHANGED <<proto, hello, registered, timers, children, shut, lost, up, unacked, quiet>>

\* an error inside tm_io_handshake is reported while neither connecting nor
\* connected is set, so that it is lost and the connection is as good as dead
ctl_connected ==
    /\ connecting /\ up /\ ~shut
    /\ connecting' = FALSE /\ connected' = TRUE /\ io' = "tls" /\ far' \in {"live", "dead"}
    /\ ht' = TRUE
    /\ UNCHANGED <<proto, hello, registered, rt, hb, delay, fails, children, shut, lost, up,
                   unacked, quiet>>

\* SSL_new or the set-up of host verification fails: with connecting already
\* reset, tm_agent_disconnect returns at once
ctl_setup_fails ==
    /\ connecting /\ up /\ ~shut
    /\ connecting' = FALSE /\ lost' = TRUE
    /\ UNCHANGED <<proto, connected, hello, registered, io, timers, children, shut, wire>>

ctl_handshake_timeout ==
    /\ ht /\ connected /\ ~shut
    /\ tm_agent_disconnect

\* a frame is written, or the write fails and the connection is given up
tm_agent_send_frame(Rest) ==
    \/ unacked' = TRUE /\ Rest
    \/ tm_agent_disconnect

ctl_handshake_done ==
    /\ io = "tls" /\ far = "live" /\ ~shut
    /\ tm_agent_send_frame(
        /\ io' = "open" /\ ht' = FALSE /\ quiet' = FALSE
        /\ UNCHANGED <<proto, connecting, connected, hello, registered, rt, hb, delay, fails,
                       children, shut, lost, up, far>>)

----------------------------------------------------------------------------
(* Frames: ctl_read.  The broker answers what it was sent. *)

Reads == io = "open" /\ far = "live" /\ ~shut

ReadHelloAck ==
    /\ Reads /\ ~hello
    /\ tm_agent_send_frame(
        /\ hello' = TRUE /\ quiet' = FALSE
        /\ UNCHANGED <<proto, connecting, connected, registered, io, timers, children, shut, lost,
                       up, far>>)

\* the backoff goes on from where it was
ReadRegisterOkNoReset ==
    /\ Reads /\ hello /\ ~registered
    /\ registered' = TRUE /\ hb' = TRUE /\ udp' = (udp \/ proto = "udp")
    /\ fails' = 0 /\ quiet' = FALSE
    /\ UNCHANGED <<proto, connecting, connected, hello, io, rt, ht, delay, streams, shut, lost, up,
                   far, unacked>>

ReadRegisterOk ==
    /\ Reads /\ hello /\ ~registered
    /\ registered' = TRUE /\ hb' = TRUE /\ udp' = (udp \/ proto = "udp")
    /\ delay' = BaseDelay /\ fails' = 0 /\ quiet' = FALSE
    /\ UNCHANGED <<proto, connecting, connected, hello, io, rt, ht, streams, shut, lost, up, far,
                   unacked>>

\* REGISTER_ERROR, GOING_AWAY or a malformed frame
ReadEnds ==
    /\ Reads
    /\ tm_agent_disconnect

ReadPing ==
    /\ Reads /\ registered
    /\ tm_agent_send_frame(
        /\ quiet' = FALSE
        /\ UNCHANGED <<proto, flags, timers, children, shut, lost, up, far>>)

\* also a PONG or a frame the agent does not know
ReadOpenStream(s) ==
    /\ Reads /\ registered /\ proto = "tcp"
    /\ streams' = streams \cup {s} /\ quiet' = FALSE
    /\ UNCHANGED <<proto, flags, timers, udp, shut, lost, up, far, unacked>>

ReadCloseStream(s) ==
    /\ Reads /\ s \in streams
    /\ streams' = streams \ {s} /\ quiet' = FALSE
    /\ UNCHANGED <<proto, flags, timers, udp, shut, lost, up, far, unacked>>

ctl_read ==
    \/ ReadHelloAck \/ ReadRegisterOk \/ ReadEnds \/ ReadPing
    \/ \E s \in Sids : ReadOpenStream(s) \/ ReadCloseStream(s)

ctl_eof ==
    /\ io # "none" /\ far = "ended" /\ ~shut
    /\ tm_agent_disconnect

\* the kernel gives up on a dead connection with unacknowledged bytes
ctl_error ==
    /\ io = "open" /\ far = "dead" /\ unacked /\ ~shut
    /\ tm_agent_disconnect

\* one look at last_rx_ms and one PING; the timer is not started again
agent_hb_timer_cb ==
    /\ hb /\ ~shut
    /\ \/ quiet /\ tm_agent_disconnect
       \/ /\ ~quiet
          /\ tm_agent_send_frame(
              /\ hb' = FALSE
              /\ UNCHANGED <<proto, flags, rt, ht, delay, fails, children, shut, lost, up, far, quiet>>)

----------------------------------------------------------------------------
(* The end of a stream, of the UDP session, of the agent; and the broker *)

StreamEnds(s) ==
    /\ s \in streams /\ ~shut
    /\ streams' = streams \ {s}
    /\ UNCHANGED <<proto, flags, timers, udp, shut, lost, wire>>

\* tm_agent_udp_stop after a DTLS failure or AUTH_ERR
UdpEnds ==
    /\ udp /\ ~shut
    /\ udp' = FALSE
    /\ UNCHANGED <<proto, flags, timers, streams, shut, lost, wire>>

\* the flags are left as they are: the loop stops
tm_agent_shutdown ==
    /\ ~shut
    /\ shut' = TRUE /\ rt' = Off /\ ht' = FALSE /\ hb' = FALSE
    /\ io' = "none" /\ far' = "none" /\ unacked' = FALSE /\ quiet' = FALSE
    /\ streams' = {} /\ udp' = FALSE
    /\ UNCHANGED <<proto, connecting, connected, hello, registered, delay, fails, lost, up>>

Stopped == shut /\ UNCHANGED vars

BrokerGoes ==
    /\ up /\ ~shut
    /\ up' = FALSE
    /\ far' \in IF far = "live" THEN {"ended", "dead"} ELSE {far}
    /\ UNCHANGED <<proto, flags, timers, children, shut, lost, unacked, quiet>>

BrokerComes ==
    /\ ~up /\ ~shut
    /\ up' = TRUE
    /\ UNCHANGED <<proto, flags, timers, children, shut, lost, far, unacked, quiet>>

Acknowledged ==
    /\ unacked /\ far = "live"
    /\ unacked' = FALSE
    /\ UNCHANGED <<proto, flags, timers, children, shut, lost, up, far, quiet>>

Silence ==
    /\ io = "open" /\ ~quiet /\ ~shut
    /\ quiet' = TRUE
    /\ UNCHANGED <<proto, flags, timers, children, shut, lost, up, far, unacked>>

Next ==
    \/ reconnect_timer_cb \/ ctl_connect_failed \/ ctl_connected \/ ctl_setup_fails
    \/ ctl_handshake_timeout \/ ctl_handshake_done
    \/ ctl_read \/ ctl_eof \/ ctl_error \/ agent_hb_timer_cb
    \/ \E s \in Sids : StreamEnds(s)
    \/ UdpEnds \/ tm_agent_shutdown \/ Stopped
    \/ BrokerGoes \/ BrokerComes \/ Acknowledged \/ Silence

Spec == Init /\ [][Next]_vars

(* libuv delivers: armed timers fire, a connection attempt ends, the end of a
   connection is read, the kernel gives up in the end.  The broker does what it
   is there for: tried again and again, a connection, a handshake and a
   registration succeed. *)
Fairness ==
    /\ WF_vars(reconnect_timer_cb) /\ SF_vars(reconnect_timer_cb /\ connecting')
    /\ WF_vars(ctl_connect_failed) /\ SF_vars(ctl_connected /\ far' = "live")
    /\ WF_vars(ctl_handshake_timeout) /\ SF_vars(ctl_handshake_done /\ io' = "open")
    /\ SF_vars(ReadHelloAck /\ hello') /\ SF_vars(ReadRegisterOk)
    /\ WF_vars(ctl_eof) /\ WF_vars(ctl_error) /\ WF_vars(agent_hb_timer_cb)

FairSpec == Spec /\ Fairness

----------------------------------------------------------------------------
(* Properties *)

(* The state of tm_agent_app; the delay never exceeds its limit. *)
TypeOK ==
    /\ proto \in Protos
    /\ \A b \in {connecting, connected, hello, registered, ht, hb, udp, shut, up, unacked, quiet} :
        b \in BOOLEAN
    /\ io \in {"none", "tls", "open"} /\ far \in {"none", "live", "ended", "dead"}
    /\ delay \in 0 .. MaxDelay /\ fails \in 0 .. MaxFails
    /\ rt \in {Off} \cup 0 .. MaxDelay + MaxDelay \div 5
    /\ streams \subseteq Sids

(* The phases of a connection follow each other: registered only on an open
   connection whose HELLO was answered, the heartbeat only when registered, and
   the handshake timer exactly while the handshake lasts. *)
PhasesSound ==
    ~shut => /\ registered => hello
             /\ hello => io = "open"
             /\ io # "none" <=> connected
             /\ hb => registered
             /\ ht <=> io = "tls"

(* The agent always waits for exactly one thing that brings it back: the
   reconnect timer, a connection attempt, or a connection.  Never none, after
   which it would stay offline for good, and never two, which would race for
   ctl_sock.  The exception is ctl_setup_fails: tm_agent_disconnect finds no flag
   set and returns. *)
NeverStranded ==
    ~shut /\ ~lost =>
        /\ rt # Off \/ connecting \/ connected
        /\ rt # Off => ~connecting /\ ~connected
        /\ ~(connecting /\ connected)

(* Streams end with the registration they were opened under, however the
   connection ends; a later registration never finds one left. *)
StreamsEnd == streams # {} => registered /\ ~shut

(* The backoff: the delay doubles with every connection lost since the last
   REGISTER_OK, up to the limit, whatever phase it was lost in. *)
BackoffExact == delay # 0 => delay = IF Doubled[fails] > MaxDelay THEN MaxDelay ELSE Doubled[fails]

(* Flags, io, timers and delay fit together after any history of losses. *)
LinkSound == TypeOK /\ PhasesSound /\ BackoffExact

(* A handshake ends, also with a broker that has gone silent. *)
HandshakeEnds == io = "tls" ~> io # "tls"

(* After a loss it noticed, an agent that is not shut down registers again once
   the broker stays reachable. *)
ComesBack == <>[](up /\ far # "dead" /\ ~shut /\ ~lost) => []<>registered

(* The agent recovers: no handshake is waited for in vain, and the agent
   registers again. *)
Recovers == HandshakeEnds /\ ComesBack

(* An agent whose broker has gone silent gives the connection up.  It does not
   hold: agent_hb_timer_cb looks once and is not started again. *)
DeadNoticed == (registered /\ far = "dead") ~> ~registered \/ shut
=============================================================================
