------------------------------ MODULE EndRelay -----------------------------
(***************************************************************************)
(* One stream at the far side of the broker: tm_astream of the agent       *)
(* (agent/src/tcp.c), which reaches the local service, or tm_psess of the  *)
(* peer (peer/src/tcp.c), which serves a local consumer of a closed        *)
(* tunnel.  Both dial the broker, introduce themselves and then relay      *)
(* between the TLS connection to the broker and a local TCP connection     *)
(* (Io).  The two programs differ in the order of the steps: the peer has  *)
(* its local connection first; the agent connects to the local service     *)
(* only when the broker has bound the stream, and holds back what the      *)
(* broker sends until then.                                                *)
(*                                                                         *)
(* Data are numbered chunks, as in Relay.  Every action is one libuv       *)
(* callback.  The frames of the opening dialogue are small and leave the   *)
(* write buffer before they are answered.                                  *)
(***************************************************************************)
EXTENDS Io

CONSTANTS
    Roles,     \* the programs considered: a subset of {"agent", "peer"}
    MaxSend    \* chunks the far end of each leg may send: [Legs -> Nat]

Legs == {"broker", "local"}
Other(l) == IF l = "broker" THEN "local" ELSE "broker"
Handles == {"broker_sock", "local_sock", "timer"}

ASSUME EndRelayAssumption ==
    /\ Roles \subseteq {"agent", "peer"}
    /\ MaxSend \in [Legs -> Nat]
    /\ HighWater \in Nat \ {0, 1}    \* more than one read: 256 KiB and 64 KiB
    /\ LowWater \in Nat

VARIABLES
    role,     \* the program
    ph,       \* how far the stream has come, see Phases
    conn,     \* the uv_connect in flight: "none", "broker" or "local"
    timer,    \* connect_timer of the agent, hs_timer of the peer is armed
    closing,  \* handles whose close callback is still to come
    refs,     \* closing_refs
    leg,      \* broker_io and local_io: kind and write side of each leg
    pend,     \* pending_buf (for "local") and pend_buf (for "broker")
    eof,      \* broker_eof, local_eof
    fin,      \* local_fin, broker_fin: the end of this leg was passed on
    paused,   \* broker_paused, local_paused: reading from this leg is stopped
    rd,       \* chunks read from each leg so far
    got,      \* chunks handed to the far end of each leg
    far,      \* far end of each leg: "open", "fin", "closed", "reset"
    cut       \* the local end mark was sent with chunks still held back

connVars == <<conn, timer>>
handleVars == <<closing, refs>>
dataVars == <<leg, pend, eof, fin, paused, rd, got>>
vars == <<role, ph, conn, timer, closing, refs, leg, pend, eof, fin, paused, rd, got, far, cut>>

(* "new", then "dial" until the TCP connection to the broker is up, "tls",
   the answers the program waits for ("hello", "auth", "bind"), "connecting" to
   the local service, and "bound".  A closed stream is "drained" when it closed
   by itself behind its last chunk, "aborted" otherwise; "freed" is the end.  A
   session of the peer may also be "dropped", freed at once because uv_accept
   failed, and the whole peer may be "crashed". *)
Greeting == {"tls", "hello", "auth", "bind"}
Relaying == {"connecting", "bound"}
Closed == {"drained", "aborted"}
Gone == {"freed", "dropped", "crashed"}
Phases == {"new", "dial"} \cup Gone \cup Greeting \cup Relaying \cup Closed
Live == ph \notin {"new"} \cup Closed \cup Gone

\* one reference too few
CloseShort(why) ==
    /\ ph' = why
    /\ timer' = FALSE
    /\ closing' = Handles /\ refs' = 2

\* tm_astream_close and tm_psess_close: the ios and the buffers are freed, and
\* three handles are being closed.  Nothing of the stream is looked at again.
CloseAs(why) ==
    /\ ph' = why
    /\ timer' = FALSE
    /\ closing' = Handles /\ refs' = 3

CloseStream == CloseAs("aborted")
KeepOpen == UNCHANGED <<ph, timer, closing, refs>>

\* closes as soon as both ends have come, whatever is still to be written
SettledEarly == eof["broker"] /\ eof["local"] /\ pend["broker"] = <<>> /\ pend["local"] = <<>>

\* astream_maybe_close and psess_maybe_close close in such a state
Settled ==
    /\ eof["broker"] /\ eof["local"]
    /\ \A l \in Legs : ~Null(leg[l]) => Drained(leg[l])
    /\ pend["broker"] = <<>> /\ pend["local"] = <<>>

maybe_close == IF Settled' THEN CloseAs("drained") ELSE KeepOpen

Init ==
    /\ role \in Roles
    /\ ph = "new" /\ conn = "none" /\ timer = FALSE
    /\ closing = {} /\ refs = 0
    /\ leg = [l \in Legs |-> NewIo("none")]
    /\ pend = [l \in Legs |-> <<>>]
    /\ eof = [l \in Legs |-> FALSE]
    /\ fin = [l \in Legs |-> FALSE]
    /\ paused = [l \in Legs |-> FALSE]
    /\ rd = [l \in Legs |-> 0]
    /\ got = [l \in Legs |-> <<>>]
    /\ far = [l \in Legs |-> "open"]
    /\ cut = FALSE

----------------------------------------------------------------------------
(* Opening *)

\* the stream exists: the broker is dialled, or the connect fails at once
Dial ==
    \/ ph' = "dial" /\ conn' = "broker" /\ UNCHANGED <<timer, handleVars>>
    \/ CloseStream /\ UNCHANGED conn

\* uv_accept fails: the close of the timer is asked for and the block is freed
\* around it; local_sock, which is initialised, is not closed at all
DropUnaccepted ==
    /\ ph' = "dropped" /\ closing' = {"timer"}
    /\ UNCHANGED <<conn, timer, refs>>

\* the broker's name does not resolve: tm_tcp_connect returns before it has
\* initialised broker_sock, and the uv_close of that handle, which libuv does
\* not know, ends the program
CloseUninitialised ==
    /\ ph' = "crashed"
    /\ UNCHANGED <<connVars, handleVars>>

tm_astream_open ==
    /\ role = "agent" /\ ph = "new"
    /\ Dial
    /\ UNCHANGED <<role, dataVars, far, cut>>

on_local_accept ==
    /\ role = "peer" /\ ph = "new"
    /\ Dial \/ DropUnaccepted \/ CloseUninitialised
    /\ UNCHANGED <<role, dataVars, far, cut>>

\* the timer of the dialogue is not started
BrokerConnectedUntimed(armed) ==
    /\ conn = "broker" /\ ph = "dial"
    /\ conn' = "none"
    /\ ph' = "tls"
    /\ leg' = [leg EXCEPT !["broker"] = NewIo("tls")]
    /\ UNCHANGED <<role, timer, handleVars, pend, eof, fin, paused, rd, got, far, cut>>

\* the connect callback; on a closing stream libuv calls it with an error
BrokerConnected(armed) ==
    /\ conn = "broker"
    /\ conn' = "none"
    /\ \/ /\ ph = "dial"
          /\ ph' = "tls" /\ timer' = armed
          /\ leg' = [leg EXCEPT !["broker"] = NewIo("tls")]
          /\ UNCHANGED handleVars
       \/ /\ ph = "dial"
          /\ CloseStream /\ UNCHANGED leg
       \/ /\ ph \in Closed
          /\ KeepOpen /\ UNCHANGED leg
    /\ UNCHANGED <<role, pend, eof, fin, paused, rd, got, far, cut>>

data_conn_connected == role = "agent" /\ BrokerConnected(FALSE)
broker_connected == role = "peer" /\ BrokerConnected(TRUE)

\* the TLS handshake is done: the agent sends DATA_BIND, the peer HELLO
Ready(next) ==
    /\ ph = "tls" /\ far["broker"] = "open"
    /\ ph' = next
    /\ UNCHANGED <<role, connVars, handleVars, dataVars, far, cut>>

data_conn_ready == role = "agent" /\ Ready("bind")
sess_ready == role = "peer" /\ Ready("hello")

\* the broker answers with an error frame, or with a frame that does not parse
Refused ==
    /\ ph \in Greeting \ {"tls"} /\ far["broker"] = "open"
    /\ CloseStream
    /\ UNCHANGED <<role, conn, dataVars, far, cut>>

\* HELLO_ACK is answered with AUTH, AUTH_OK with DATA_BIND
Answered ==
    /\ far["broker"] = "open"
    /\ \/ ph = "hello" /\ ph' = "auth"
       \/ ph = "auth" /\ ph' = "bind"
    /\ UNCHANGED <<role, connVars, handleVars, dataVars, far, cut>>

\* the chunks that came in the same read as DATA_BIND_OK
Leftover == {x \in {<<>>, <<1>>} : Len(x) <= MaxSend["broker"]}

\* DATA_BIND_OK at the agent: what came with it is kept, the local service is dialled
DialLocal ==
    /\ ph = "bind" /\ far["broker"] = "open"
    /\ \E x \in Leftover :
         /\ pend' = [pend EXCEPT !["local"] = x]
         /\ rd' = [rd EXCEPT !["broker"] = Len(x)]
    /\ \/ /\ ph' = "connecting" /\ conn' = "local" /\ timer' = TRUE
          /\ UNCHANGED handleVars
       \/ /\ CloseStream /\ UNCHANGED conn
    /\ UNCHANGED <<role, leg, eof, fin, paused, got, far, cut>>

\* DATA_BIND_OK at the peer: what came with it is written to the consumer
BindLocal ==
    /\ ph = "bind" /\ far["broker"] = "open"
    /\ \E x \in Leftover :
         /\ leg' = [leg EXCEPT !["local"] = Accept(NewIo("tcp"), x, FALSE)]
         /\ rd' = [rd EXCEPT !["broker"] = Len(x)]
    /\ ph' = "bound" /\ timer' = FALSE
    /\ UNCHANGED <<role, conn, handleVars, pend, eof, fin, paused, got, far, cut>>

data_conn_pre_read == role = "agent" /\ (Refused \/ DialLocal)
sess_pre_read == role = "peer" /\ (Refused \/ Answered \/ BindLocal)

\* the broker's connection ends or fails before the stream is bound
GreetingEnds(how) ==
    /\ ph \in Greeting /\ far["broker"] \in how
    /\ CloseStream
    /\ UNCHANGED <<role, conn, dataVars, far, cut>>

data_conn_eof == role = "agent" /\ GreetingEnds({"fin", "closed"})
data_conn_error == role = "agent" /\ GreetingEnds({"reset"})
sess_eof == role = "peer" /\ GreetingEnds({"fin", "closed"})
sess_error == role = "peer" /\ GreetingEnds({"reset"})

\* a timeout that finds the stream bound or closing does nothing
Timeout(when) ==
    /\ timer
    /\ timer' = FALSE
    /\ IF ph \in when THEN ph' = "aborted" /\ closing' = Handles /\ refs' = 3
                      ELSE UNCHANGED <<ph, handleVars>>
    /\ UNCHANGED <<role, conn, dataVars, far, cut>>

local_connect_timeout == role = "agent" /\ Timeout({"connecting"})
sess_hs_timeout == role = "peer" /\ Timeout(Greeting)

\* the local service answers: what was held back goes out as far as it fits,
\* and the end mark at once when the broker's side is over already
LocalUp ==
    /\ ph = "connecting"
    /\ ph' = "bound" /\ timer' = FALSE
    /\ \E f \in flush_pend(NewIo("tcp"), pend["local"]) :
         /\ pend' = [pend EXCEPT !["local"] = f.rest]
         /\ paused' = [paused EXCEPT !["broker"] = f.rest # <<>>]
         /\ leg' = [leg EXCEPT !["local"] = IF eof["broker"] THEN Shut(f.side) ELSE f.side]
         /\ cut' = (eof["broker"] /\ f.rest # <<>>)
    /\ UNCHANGED handleVars

local_connected ==
    /\ role = "agent" /\ conn = "local"
    /\ conn' = "none"
    /\ \/ LocalUp
       \/ ph = "connecting" /\ CloseStream /\ UNCHANGED <<leg, pend, paused, cut>>
       \/ ph \in Closed /\ KeepOpen /\ UNCHANGED <<leg, pend, paused, cut>>
    /\ UNCHANGED <<role, eof, fin, rd, got, far>>

----------------------------------------------------------------------------
(* Relaying *)

Reading(l) == ph \in Relaying /\ ~Null(leg[l]) /\ ~paused[l]

\* leg l delivers its next chunk x
Arrives(l, x) ==
    /\ Reading(l) /\ far[l] = "open"
    /\ rd[l] < MaxSend[l]
    /\ x = rd[l] + 1
    /\ rd' = [rd EXCEPT ![l] = x]

\* x is written to the other leg, behind everything that already waits for it
PassOn(l, x) ==
    LET m == Other(l)  s == leg[m] IN
    IF pend[m] = <<>> /\ s.fin # "none"
    THEN CloseStream /\ UNCHANGED <<leg, pend, paused>>
    ELSE /\ KeepOpen
         /\ \/ /\ pend[m] = <<>> /\ Len(s.q) < Capacity(s)
               /\ \E lo \in LowAfter(s, 1, FALSE) :
                    leg' = [leg EXCEPT ![m] = Accept(s, <<x>>, lo)]
               /\ UNCHANGED <<pend, paused>>
            \/ /\ pend[m] # <<>> \/ s.q # <<>>
               /\ leg' = [leg EXCEPT ![m].low = IF pend[m] = <<>> THEN s.kind = "tls" ELSE @]
               /\ pend' = [pend EXCEPT ![m] = Append(@, x)]
               /\ paused' = [paused EXCEPT ![l] = TRUE]

\* goes on reading from the broker
HoldBackReading(x) ==
    /\ pend' = [pend EXCEPT !["local"] = Append(@, x)]
    /\ UNCHANGED <<leg, paused>>

\* the agent holds x back while it connects to the local service
HoldBack(x) ==
    /\ pend' = [pend EXCEPT !["local"] = Append(@, x)]
    /\ paused' = [paused EXCEPT !["broker"] = @ \/ Len(pend["local"]) + 1 >= HighWater]
    /\ UNCHANGED leg

BrokerRead ==
    \E x \in 1 .. MaxSend["broker"] :
      /\ Arrives("broker", x)
      /\ \/ /\ Null(leg["local"])
            /\ IF Len(pend["local"]) + 1 > HighWater + 1
               THEN CloseStream /\ UNCHANGED <<leg, pend, paused>>
               ELSE HoldBack(x) /\ KeepOpen
         \/ /\ ~Null(leg["local"])
            /\ PassOn("broker", x)
      /\ UNCHANGED <<role, conn, eof, fin, got, far, cut>>

LocalRead ==
    \E x \in 1 .. MaxSend["local"] :
      /\ Arrives("local", x)
      /\ PassOn("local", x)
      /\ UNCHANGED <<role, conn, eof, fin, got, far, cut>>

agent_relay_broker_read == role = "agent" /\ BrokerRead
agent_relay_local_read == role = "agent" /\ LocalRead
peer_relay_broker_read == role = "peer" /\ BrokerRead
peer_relay_local_read == role = "peer" /\ LocalRead

\* the FIN or close_notify of the far end; on TLS the later end of the TCP
\* connection calls eof_cb once more
EndOf(l) ==
    /\ Reading(l)
    /\ far[l] \in {"fin", "closed"}
    /\ eof[l] => leg[l].kind = "tls" /\ far[l] = "closed"
    /\ eof' = [eof EXCEPT ![l] = TRUE]
    /\ UNCHANGED <<role, conn, paused, rd, got, far, cut>>

\* what is held back for the other leg is flushed, and the end follows once nothing is
PassEnd(l) ==
    LET m == Other(l) IN
    \E f \in flush_pend(leg[m], pend[m]) :
      /\ pend' = [pend EXCEPT ![m] = f.rest]
      /\ leg' = [leg EXCEPT ![m] = IF f.rest = <<>> THEN Shut(f.side) ELSE f.side]
      /\ fin' = [fin EXCEPT ![l] = @ \/ f.rest = <<>>]

BrokerEof ==
    /\ EndOf("broker")
    /\ \/ /\ Null(leg["local"])
          /\ KeepOpen /\ UNCHANGED <<leg, pend, fin>>
       \/ /\ ~Null(leg["local"])
          /\ \E f \in flush_pend(leg["local"], pend["local"]),
                g \in flush_pend(leg["broker"], pend["broker"]) :
               /\ pend' = [broker |-> g.rest, local |-> f.rest]
               /\ leg' = [broker |-> g.side,
                          local |-> IF f.rest = <<>> THEN Shut(f.side) ELSE f.side]
               /\ fin' = [fin EXCEPT !["broker"] = @ \/ f.rest = <<>>]
          /\ maybe_close

LocalEof == EndOf("local") /\ PassEnd("local") /\ maybe_close

agent_relay_broker_eof == role = "agent" /\ BrokerEof
agent_relay_local_eof == role = "agent" /\ LocalEof
peer_relay_broker_eof == role = "peer" /\ BrokerEof
peer_relay_local_eof == role = "peer" /\ LocalEof

\* a read or a write on leg l fails: the whole stream goes
Error(l) ==
    /\ ph \in Relaying /\ ~Null(leg[l])
    /\ \/ far[l] = "reset" /\ (Reading(l) \/ ~Drained(leg[l]))
       \/ far[l] = "closed" /\ ~Drained(leg[l])
    /\ CloseStream
    /\ UNCHANGED <<role, conn, dataVars, far, cut>>

agent_relay_broker_error == role = "agent" /\ Error("broker")
agent_relay_local_error == role = "agent" /\ Error("local")
peer_relay_broker_error == role = "peer" /\ Error("broker")
peer_relay_local_error == role = "peer" /\ Error("local")

\* the other leg is not resumed
LowStaysPaused(l, s) ==
    LET m == Other(l) IN
    /\ \E f \in flush_pend(s, pend[l]) :
         /\ pend' = [pend EXCEPT ![l] = f.rest]
         /\ leg' = [leg EXCEPT ![l] = IF f.rest = <<>> /\ eof[m] /\ ~fin[m]
                                      THEN Shut(f.side) ELSE f.side]
         /\ fin' = [fin EXCEPT ![m] = @ \/ (f.rest = <<>> /\ eof[m])]
    /\ UNCHANGED paused
    /\ maybe_close

\* relay_broker_low, relay_local_low for leg l whose io s has drained
Low(l, s) ==
    LET m == Other(l) IN
    /\ \E f \in flush_pend(s, pend[l]) :
         /\ pend' = [pend EXCEPT ![l] = f.rest]
         /\ IF f.rest # <<>>
            THEN leg' = [leg EXCEPT ![l] = f.side] /\ UNCHANGED <<fin, paused>>
            ELSE /\ leg' = [leg EXCEPT ![l] = IF eof[m] /\ ~fin[m] THEN Shut(f.side) ELSE f.side]
                 /\ fin' = [fin EXCEPT ![m] = @ \/ eof[m]]
                 /\ paused' = [paused EXCEPT ![m] = FALSE]
    /\ maybe_close

\* tcp_write_done, on_write_done
WriteDone(l) ==
    /\ ph = "bound" /\ ~Null(leg[l]) /\ ~Drained(leg[l])
    /\ far[l] \in {"open", "fin"}
    /\ got' = [got EXCEPT ![l] = @ \o SubSeq(leg[l].q, 1, leg[l].infl)]
    /\ UNCHANGED <<role, conn, eof, rd, far, cut>>
    /\ LET s == Complete(leg[l]) IN
       \/ CallsLow(s) /\ Low(l, [s EXCEPT !.low = FALSE])
       \/ /\ ~CallsLow(s)
          /\ leg' = [leg EXCEPT ![l] = s]
          /\ KeepOpen /\ UNCHANGED <<pend, fin, paused>>

agent_relay_broker_low == role = "agent" /\ WriteDone("broker")
agent_relay_local_low == role = "agent" /\ WriteDone("local")
peer_relay_broker_low == role = "peer" /\ WriteDone("broker")
peer_relay_local_low == role = "peer" /\ WriteDone("local")

----------------------------------------------------------------------------
(* Closing *)

\* the program stops, or the agent loses its control connection or is told
\* to close the stream
tm_peer_shutdown ==
    /\ Live
    /\ CloseStream
    /\ UNCHANGED <<role, conn, dataVars, far, cut>>

\* the close callback of a handle; libuv first cancels the connect in flight on it
SockClosed(h) ==
    /\ ph \in Closed /\ h \in closing
    /\ h = "broker_sock" => conn # "broker"
    /\ h = "local_sock" => conn # "local"
    /\ closing' = closing \ {h}
    /\ refs' = refs - 1
    /\ ph' = IF refs = 1 THEN "freed" ELSE ph
    /\ UNCHANGED <<role, connVars, dataVars, far, cut>>

stream_sock_closed == role = "agent" /\ \E h \in Handles : SockClosed(h)
sess_sock_closed == role = "peer" /\ \E h \in Handles : SockClosed(h)

----------------------------------------------------------------------------
(* The far ends: the broker, and the local service or consumer *)

FarStep(l, from, to) ==
    /\ Live /\ ~Null(leg[l]) /\ far[l] \in from
    /\ far' = [far EXCEPT ![l] = to]
    /\ UNCHANGED <<role, ph, connVars, handleVars, dataVars, cut>>

FarFin(l) == FarStep(l, {"open"}, "fin")
FarClose(l) == FarStep(l, {"open", "fin"}, "closed")
FarReset(l) == FarStep(l, {"open", "fin", "closed"}, "reset")

Agent ==
    \/ tm_astream_open \/ data_conn_connected \/ data_conn_ready \/ data_conn_pre_read
    \/ data_conn_eof \/ data_conn_error \/ local_connected \/ local_connect_timeout
    \/ agent_relay_broker_read \/ agent_relay_local_read
    \/ agent_relay_broker_eof \/ agent_relay_local_eof
    \/ agent_relay_broker_error \/ agent_relay_local_error
    \/ agent_relay_broker_low \/ agent_relay_local_low
    \/ stream_sock_closed

Peer ==
    \/ on_local_accept \/ broker_connected \/ sess_ready \/ sess_pre_read
    \/ sess_eof \/ sess_error \/ sess_hs_timeout
    \/ peer_relay_broker_read \/ peer_relay_local_read
    \/ peer_relay_broker_eof \/ peer_relay_local_eof
    \/ peer_relay_broker_error \/ peer_relay_local_error
    \/ peer_relay_broker_low \/ peer_relay_local_low
    \/ sess_sock_closed

Next ==
    \/ Agent \/ Peer \/ tm_peer_shutdown
    \/ \E l \in Legs : FarFin(l) \/ FarClose(l) \/ FarReset(l)

Spec == Init /\ [][Next]_vars

(* Fairness.  libuv runs every callback that is due: a connect completes or
   fails (the kernel gives up on an unanswered one), an armed timer fires, a
   write completes or fails, an end or an error is delivered while the leg is
   read, and the handles of a closed stream are closed.  A far end that has been
   told the other one is over ends its own direction some day, and closes a
   connection that is over in both.  The broker need not answer anything. *)
Fairness ==
    /\ WF_vars(data_conn_connected) /\ WF_vars(broker_connected) /\ WF_vars(local_connected)
    /\ WF_vars(local_connect_timeout) /\ WF_vars(sess_hs_timeout)
    /\ WF_vars(stream_sock_closed) /\ WF_vars(sess_sock_closed)
    /\ WF_vars(BrokerEof) /\ WF_vars(LocalEof)
    /\ \A l \in Legs :
         /\ WF_vars(WriteDone(l)) /\ WF_vars(Error(l))
         /\ WF_vars(leg[l].fin = "sent" /\ FarFin(l))
         /\ WF_vars(far[l] = "fin" /\ leg[l].fin = "sent" /\ FarClose(l))

FairSpec == Spec /\ Fairness

----------------------------------------------------------------------------
(* Properties *)

Upto(n) == [i \in 1 .. n |-> i]
Whole(l) == l = "local" => ~cut

IoType == [kind : {"none", "gone", "tcp", "tls"}, q : Seq(Nat), infl : Nat,
           low : BOOLEAN, fin : {"none", "queued", "sent"}]

\* Every variable of a stream stays in its type.
TypeOK ==
    /\ role \in {"agent", "peer"} /\ ph \in Phases
    /\ conn \in {"none", "broker", "local"} /\ timer \in BOOLEAN
    /\ closing \subseteq Handles /\ refs \in 0 .. 3
    /\ leg \in [Legs -> IoType] /\ pend \in [Legs -> Seq(Nat)]
    /\ eof \in [Legs -> BOOLEAN] /\ fin \in [Legs -> BOOLEAN] /\ paused \in [Legs -> BOOLEAN]
    /\ rd \in [Legs -> Nat] /\ got \in [Legs -> Seq(Nat)]
    /\ far \in [Legs -> {"open", "fin", "closed", "reset"}]
    /\ cut \in BOOLEAN

\* Nothing is lost, duplicated or reordered between the broker and the local
\* side: what a far end got, followed by the io queue and the held-back chunks,
\* is what was read from the other leg, in order, also across the switch from
\* the opening dialogue to the relay ("Never overtake bytes already queued in
\* pending_buf").  The exception is the stream whose end mark local_connected
\* sent ahead of held-back chunks.
InOrder == Live => \A l \in Legs :
    Whole(l) => got[l] \o (leg[l].q \o pend[l]) = Upto(rd[Other(l)])

\* The end of a direction is passed on only behind its whole tail: an end mark
\* on the wire means that the other leg ended and the far end has every chunk
\* that was read (relay_broker_eof, relay_local_eof and the low callbacks).
FinAfterTail == Live => \A l \in Legs :
    Whole(l) /\ leg[l].fin # "none" =>
        /\ eof[Other(l)] /\ pend[l] = <<>>
        /\ leg[l].fin = "sent" => got[l] = Upto(rd[Other(l)])

\* A stream that closes by itself has delivered everything it read ("dropping a
\* leg with unsent data loses the tail"), but for the end mark sent too early.
NoTailLost == ph = "drained" => \A l \in Legs : Whole(l) => got[l] = Upto(rd[Other(l)])

\* What a stream delivers is what it was given: in order, each end behind its
\* tail, and all of it when the stream closes by itself.
Faithful == TypeOK /\ InOrder /\ FinAfterTail /\ NoTailLost

\* The memory of a stream is bounded whatever the two ends do: each io holds at
\* most its high-water mark, and beside it one chunk waits, or on the agent
\* what came before the local service answered.
BoundedQueues ==
    /\ \A l \in Legs : Len(leg[l].q) <= Capacity(leg[l])
    /\ Len(pend["broker"]) <= 1
    /\ Len(pend["local"]) <= IF role = "agent" THEN HighWater ELSE 1

\* No lost wakeup: while chunks are held back for a leg, or the other leg is
\* stopped for its sake, a write is in flight on it whose completion calls
\* low_cb, or a timed connect to the local service is.
NoLostWakeup ==
    /\ ph = "bound" => \A l \in Legs :
         pend[l] # <<>> \/ paused[Other(l)] =>
             leg[l].q # <<>> /\ (leg[l].kind = "tls" => leg[l].low)
    /\ ph = "connecting" => timer /\ conn = "local"

\* Flow control: memory within the watermarks, and whoever was stopped for that
\* has a callback coming that wakes it up.
FlowControl == BoundedQueues /\ NoLostWakeup

NothingDue == closing = {} /\ conn = "none" /\ ~timer

\* A stream that got as far as dialling the broker is freed when no callback can
\* come any more that would look at it: every handle is closed, no connect is in
\* flight and no timer is armed, from whatever phase and by whomever it was
\* closed (closing_refs counts the three handles).  A session that uv_accept
\* fails for is "dropped" and not covered: see FreedLastEver.
FreedLast == ph = "freed" => NothingDue

\* Backpressure ends: a stopped leg is read again, or the stream ends, as long
\* as the other far end takes what is written to it.
Resumes == \A l \in Legs : paused[l] ~> (~paused[l] \/ ~Live)

\* Half-close: the end of a leg is passed on to the other one eventually,
\* unless the stream goes first.
HalfClose == \A l \in Legs : eof[l] ~> (~Live \/ leg[Other(l)].fin = "sent")

\* A stream both of whose legs ended is closed and freed eventually.
ClosesWhenOver == (eof["broker"] /\ eof["local"]) ~> (ph = "freed")

\* A stream gets on: backpressure ends, an end is passed on, and a stream that
\* has ended both ways is closed.
Progress == Resumes /\ HalfClose /\ ClosesWhenOver

\* An opening comes to an end even when the broker falls silent: hs_timer of the
\* peer covers the whole dialogue, connect_timer of the agent the local connect.
OpensOrCloses == ph \in (IF role = "peer" THEN {"dial"} \cup Greeting ELSE {"dial", "connecting"})
                    ~> (ph \in {"bound", "freed"} \/ (role = "agent" /\ ph \in Greeting))

\* NoTailLost for a stream whose end mark was sent too early as well: the agent
\* delivers everything before it closes by itself.
NoTailLostEver == ph = "drained" => \A l \in Legs : got[l] = Upto(rd[Other(l)])

\* FreedLast for a session whose uv_accept failed as well: every session is
\* freed by the last of its close callbacks ("freed via sess_sock_closed",
\* peer/src/tcp.c:353).  on_local_accept frees such a session around a timer
\* that is still closing.
FreedLastEver == ph \in {"freed", "dropped"} => NothingDue

\* A name that does not resolve costs the session and not the program.
ResolveFailureContained == ph # "crashed"
=============================================================================
