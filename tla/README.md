# TunnelMate: a TLA+ verification development

TunnelMate exposes services behind NAT. An *agent* next to the service keeps a
TLS control connection to the *broker*; a consumer reaches the service through a
public port of the broker (open tunnel) or through a *peer* program that
authenticates with a shared token (closed tunnel). For every consumer connection
the broker sends `OPEN_STREAM` to the agent, which answers with a fresh TLS data
connection (`DATA_BIND`); the broker then relays bytes between the two. UDP
tunnels carry datagrams over DTLS sessions with flow ids instead. An HTTP API
(Python) keeps tunnels in SQLite and drives the broker over a local socket (IPC).
Broker, agent and peer are one libuv loop each: every callback runs to its end
before the next begins, so one callback is one action. The API is one asyncio
loop: a handler runs from one `await` to the next, and each such part is one
action.

## Parts of the system

| part | source | module | proofs |
|---|---|---|---|
| relay of one stream in the broker | `broker/src/relay.c` | `Relay` | `RelayProofs` |
| what such a stream promises | (abstract) | `Pipe`, mapping in `RelayPipe` | `RelayProofs` |
| buffered TCP and TLS writes | `common/src/io.c`, `tls.c` | `Io`, used by `Relay` and `EndRelay` | |
| streams of agent and peer | `agent/src/tcp.c`, `peer/src/tcp.c` | `EndRelay` | |
| tunnels, ports, listeners | `broker/src/registry.c`, `tcp.c` | `Tunnels` | `TunnelsProofs` |
| control port: agents, peers, data connections | `broker/src/control.c` | `Control` | `ControlProofs` |
| frames and their hand-over to the relay | `common/src/frame.c` and its callers | `FrameReader` | `FrameReaderProofs` |
| control connection of the agent | `agent/src/control.c`, `main.c` | `AgentLink` | `AgentLinkProofs` |
| UDP sessions and flows in the broker | `broker/src/udp.c` | `BrokerUdp` | `BrokerUdpProofs` |
| UDP sessions of agent and peer | `agent/src/udp.c`, `peer/src/udp.c` | `EndUdp` | `EndUdpProofs` |
| API, database and broker registry | `control/tunnelmate_api/main.py`, `broker.py`, `broker/src/ipc.c` | `ControlPlane` | |

How they fit together: `ControlPlane` decides which tunnels exist; `Tunnels` is
their memory, ports and listeners in the broker; `Control` is who may use them and
which stream belongs to whom; `FrameReader` is how any of the control connections
gets from bytes to frames and from frames to a stream; `Relay` is the inside of
one bound stream of `Control`, and `EndRelay` the same stream seen from the agent
or the peer. `AgentLink` is the other end of an agent's connection of `Control`.
`BrokerUdp` and `EndUdp` are the two ends of a DTLS session. The modules share the
names of the operations they have in common (`disable_tunnel`,
`tm_broker_shutdown`, `stream_bind_timer_cb`, ...). Each treats its neighbours as
an environment that may do anything the neighbour's code can do, and more.

`PROJECT.json` lists every part with what is left out of it, the source lines
behind every definition, and the hazards the properties are aimed at.

## Modules

**`Io`**: the write side of one connection. Data are chunks numbered in the order
they were sent; watermarks count chunks. How many chunks an io takes before
`TM_ERR_BUSY` depends on byte sizes and buffer layout, so the model allows every
amount the mark allows. `Complete` is a write completion with its low callback
condition, `flush_pend` the loop both relays use.

**`Relay`**: one stream. `leg` is `io_a` and `io_b`, `pend` the buffers `pend_a` and
`pend_b`, `preq` the pre-bind queue; `eof`, `fin` and `paused` are the flags of the
same names. `far` is the program at the other end of each leg: it may send, end
its direction, close or reset at any time. The two read callbacks share `PassOn`,
the ends and errors share `Ended`, the low callbacks share `Low`: the code has
them twice, once per leg.

**`Pipe`**, **`RelayPipe`**: two one-way channels with an end mark; the refinement
mapping hides queues, flow control and sockets.

**`EndRelay`**: a stream of the agent (dial the broker, bind, then connect to the
service) or a session of the peer (accept, dial, authenticate, open), with
`closing` the handles whose close callbacks are due and `refs` the count that
frees the block. A stream begins in phase `new`: its opening may fail in each of
the ways the code has, of which two leave the life cycle. When `uv_accept` fails the
peer frees the block around its handles (`dropped`), and when the broker's name
does not resolve it closes a handle that was never initialised (`crashed`). The
dialogue's frames are small and leave the buffer before they are answered.

**`Tunnels`**: `tun` are the memory blocks of tunnels, `handle` what the loop knows
of the libuv handle inside each. `uv_close` and its callback (`Closed`) are
separate steps, which is where the difficulty lies: deferred listener starts,
`close_refs`, blocks freed by the last callback. `calm` remembers that no bind has
failed and no UDP tunnel was made. Agents and streams dropped by the same
operations are `Control`'s.

**`Control`**: TCP tunnels with their secrets (as versions), connections of the
control port by role, streams with id and binding. The timers and network events
that end a connection may happen at any time. `opened` lists the `OPEN_STREAM`s of
the two counters (one for open, one for closed tunnels), each with its tunnel; a
`DATA_BIND` answers one of them, late, twice or from an agent that was replaced,
with any secret its tunnel ever had, and a bound stream remembers (`by`) which one.
When two streams of a tunnel have the same id (after the counter wrapped) either
may be found; the code takes the newer. A step that uses the memory of a
deleted tunnel sets `corrupt`, after which nothing is claimed. The public rate
limit (which only refuses) is left out. Identifiers are taken to fit the
broker's buffers.

**`FrameReader`**: the bytes of one connection, in cells (a header field or a byte
of payload), cut into reads at any place. `buf` is the reader's buffer, `busy` the
caller inside its loop, `frames` what it was given, `raw` what the relay got. The
type of a frame stands for what the caller does on it: go on, bind, end, or turn
the connection into an agent's. `tm_env_encode` and `tm_env_decode` are the UDP
envelope, byte by byte with the shifts of `wr_u64` and `rd_u64`; `MCFrameReader`
has TLC evaluate them on both sides of every byte boundary below 2^31 (its integers
end there) and on overwritten and cut datagrams.

**`AgentLink`**: the flags, io and three timers of the agent's control connection;
the broker comes and goes, and a connection can end visibly or fall silent.

**`BrokerUdp`**: one UDP tunnel. Sessions occupy memory slots and are found by
address; a received datagram is any message of the protocol from any address, so
loss, duplication and reordering need no actions. A payload is the owner of its
flow (`owner` and the `src` of a peer's flow are ghosts), which is what cross-talk
would confuse. `pump_out` encrypts at most one envelope and sends at most one
datagram; `SSL_write` may want to read first (`SslWants`), and the send may be
dropped. The ghosts `want` and `dropped` remember which of the two happened. A
record is handled and then pumped out behind (`ThenPump`), as `pump_in` does. An
`AUTH_REQ` with data behind it is a sequence of steps.

**`EndUdp`**: one DTLS session of the agent or the peer, with flows, sweep timer,
queue and, for the peer, the reconnect timer; the broker's session and the
network are the environment.

**`ControlPlane`**: rows of the table against the broker's registry. A handler is
the part before its await, the broker's own step, and the part after it. A call
may time out although the broker handles it, perhaps later; statements may fail;
either process may crash or be restarted. `unsettled` names the tunnels a failed
call or statement was about, `overlapped` those two handlers worked on at a time,
`unrestored` that the broker lost its registry since the last complete
`restore_runtime`, `skipped` the rows whose lease was over when the API last started
and which the broker did not serve: `restore_runtime` leaves them out, and their
owners may renew them.

## Runs

| run | asks | result |
|---|---|---|
| `relay` | order, ends behind their tail, nothing lost at close, bounded memory, no lost wakeup; paused legs resume, ends are passed on, finished streams close; refinement of `Pipe` on open tunnels | holds, 86,616 states |
| `end_relay` | the same for agent and peer; the block of a stream that dialled is freed by the last handle; an opening ends | holds, 214,163 |
| `tunnels` | ports, counts, allocation, close references; listening iff enabled, handles never reused too early, deferred start happens, blocks reclaimed | holds, 61,062 |
| `control_safety` | agent pointers, counts and caps, data connections reach the stream they were opened for, disabled tunnels stay quiet | holds, 124,112 |
| `control_liveness` | agents hold the current secret, pending streams are resolved | holds, 40,772 |
| `frame_reader` | nothing lost or invented by any cut, at the hand-over included; prompt; refusals justified; same frames as reading all at once; the envelope, as an assumption of the instance | holds, 22,927 |
| `agent_link` | phases sound, never stranded, streams end with the registration, backoff exact, handshakes end, comes back | holds, 845 |
| `broker_udp` | no cross-talk, flows, sessions and sends sound, sweep armed, nothing waits in a queue without a reason the code has | holds, 685,160 |
| `end_udp` | flows, sweep and queue sound over restarts; peers retry; idle flows go | holds, 38,484 |
| `control_plane` | no orphans, live tunnels served, table and broker agree (each but for what its comment names), start-up ends, expired tunnels reaped | holds, 163,181 |
| `control_peer_after_delete` | no session uses a deleted tunnel | violated |
| `control_plane_restore` | a broker that returns gets its tunnels back | violated |

Related statements are checked under one name: `Faithful`, `FlowControl` and
`Progress` (both relays), `RegistryExact` (`Tunnels`), `AccountsExact` (`Control`),
`TablesSound` (`BrokerUdp`), `SessionSound` (`EndUdp`), `LinkSound` and `Recovers`
(`AgentLink`), `Consistent` and `GetsDone` (`ControlPlane`). The definition of each
lists its parts, which keep their own names and comments; a trace that violates
one shows which part by evaluating them in its last state.

What the two violated statements show is in `PROJECT.json` under `findings`, with
the line of the documentation or the comment each contradicts.

### Statements the code does not keep

The modules hold more statements that documents or comments make and that TLC
refutes. They have no run in the list above; several have a configuration of
their own, and for the others put the name in place of a property of the module's
configuration to see the trace.

| statement | configuration | what happens |
|---|---|---|
| `Relay!ClosesAfterError` | `MCRelayError.cfg` | a leg fails while the other is paused behind data held back for it; nothing resumes the survivor |
| `Relay!HalfCloseAlways` | `MCRelayHalfClosed.cfg` | an end before the bind of a closed tunnel's stream is forgotten |
| `Relay!NeverReopened` | | a leg of a closed tunnel that failed before the bind is wrapped again |
| `EndRelay!NoTailLostEver` | `MCEndRelayTail.cfg` | the service connects after the broker's end, with data still held back: the end mark is sent first (`agent/src/tcp.c:281`) |
| `EndRelay!FreedLastEver` | `MCEndRelayAccept.cfg` | `uv_accept` fails: the block is freed around a timer whose close is pending and a socket that is not closed (`peer/src/tcp.c:393`) |
| `EndRelay!ResolveFailureContained` | | the broker's name does not resolve: the peer closes a handle that was not initialised |
| `Tunnels!NoReinit` | `MCTunnelsUdp.cfg` | the UDP socket is initialised while its close is in flight |
| `Tunnels!NoDangling` | | a failed bind leaves a handle behind |
| `Control!PendingCap` | `MCControlPending.cfg` | open tunnels skip the pending cap |
| `Control!IdsResolve` | `MCControlIds.cfg` | streams of two tunnels carry one id and the lookup takes the first |
| `Control!BoundToItsOpenEver` | | ids come round after 2^31 streams, and the two around the wrap share id 1: a late answer binds the wrong one |
| `Control!FirstFrameDeadline`, `OrphansClosed` | | no deadline for the first frame; bound streams outlive the control connection |
| `FrameReader!PermittedAccepted` | | a frame of maximal length with more bytes behind it in one read is refused |
| `AgentLink!DeadNoticed` | `MCAgentLinkDead.cfg` | the heartbeat timer fires once and is not started again |
| `BrokerUdp!NeverWedged` | `MCBrokerUdpWedge.cfg` | a dropped send leaves its session in flight for ever |
| `BrokerUdp!ReclaimedIdle` | `MCBrokerUdpIdle.cfg` | a flow expires a fixed time after it was made, in use or not |
| `EndUdp!Reestablished` | `MCEndUdpIdle.cfg` | an agent whose idle session the broker closed does not make another |
| `EndUdp!BacksOff` | `MCEndUdpBackoff.cfg` | the peer's delay starts at 0 and doubles to 0 |
| `ControlPlane!RenewedServed` | `MCControlPlaneRenew.cfg` | a row that was over at the last start is renewed: it is live, and the broker does not have it |
| `ControlPlane!AlwaysReaped`, `RenewalKept`, `PortKept`, `PerIpCap` | | the reaper dies of a failing statement; a renewal during its await is deleted; a restored tunnel may get another port; two creations at a time exceed the cap |

The passing properties are stated so that they claim nothing in exactly these
cases, and everything outside them.

### Bounds

* `relay`: high water 2, low water 1, 4 chunks one way and 2 back, both kinds of
  tunnel: every queue fills, overflows into the held-back buffer and drains while
  the other direction is busy. The proofs remove these bounds.
* `end_relay`: high water 3, 4 chunks towards the service and 2 back, both
  programs: data are held back before and after the local connect.
* `tunnels`: 2 ids, 3 blocks (one may still be closing), a cap of 2 tunnels, all
  three kinds; one port and a counter that wraps at 2, because ports are proved
  for every range and width.
* `control_*`: one open and one closed tunnel, 2 connections, 3 streams, 3
  `OPEN_STREAM`s of each counter over ids that wrap at 3, caps of 3, 2 and 1; one rotation of each secret on the closed
  tunnel in the liveness run.
* `frame_reader`: payloads of up to 14 cells and reads of up to 9, so that a read
  can hold two frames and a frame can need three reads; two or three frames of all
  kinds, malformed ones and one that is cut off included.
* `agent_link`: delays 5 to 15, so that two failures reach the maximum; 2 streams.
* `broker_udp`: 2 addresses that are clients, agent or peers, 2 slots, queue of 2, 2
  flows at a time and ids up to 3, so that flows are replaced. An open tunnel has one
  session (its agent's) in its life, a closed one two. Sends are dropped at the cap of
  2; that `uv_udp_send` may fail as well (`SendFails`), which has the same effect at
  other moments, is in the proofs and was checked once in a larger instance
  (3 addresses, 1,515,861 states).
* `end_udp`: 3 local addresses or broker ids over a limit of 2 flows, peer ids
  modulo 4, queue of 2, a network that loses.
* `control_plane`: one tunnel, two requests at a time beside the reaper and the
  start-up, one rotation, one fault (crash, lost answer, failing statement) and any
  number of orderly restarts of the API. The safety properties were also run
  with one request at a time and two tunnels over two ports (4,824,944 states), and
  one tunnel with three faults (212,664).

`control_safety` and `broker_udp` use symmetry; runs with liveness use none.
Deadlock is not checked where the system may stop for good: a closed stream, a
broker or an API that was shut down, a connection all of whose bytes were read.

### Fairness

* `Relay`, `EndRelay`: libuv reports completed or failed connects and writes, ends
  and errors, fires timers and runs close callbacks. A far end that was told the
  other direction is over ends its own and closes at some point. Nothing is
  assumed of binding, answers, resets or abrupt closes, nor that a far end stops
  sending.
* `Tunnels`: libuv runs the callback of every close.
* `Control`: the bind timer of every stream fires. No message, registration or
  answer is assumed ever to come.
* `AgentLink`: timers fire, a connection attempt ends, an end is read. Strong
  fairness stands for a broker that does its work when it is tried again and
  again; `ComesBack` assumes in addition that it stays reachable.
* `EndUdp`: timers fire, what arrives is read, the broker answers what reaches it
  (strongly fair for the credential, which can be lost on every attempt).
* `ControlPlane`: both loops run, both processes are started again (`Restart=` of
  the systemd units), and the reaper's sleep ends.

## Proofs

All theorems are for every value of the constants that the module's assumption
allows. The assumptions say no more than that limits are positive, that the
maximal delay is not below the first one, that a read is shorter than the largest
frame, that a wrapping counter has more values than there can be live ids, and
that there are finitely many memory blocks.

Each module follows the same plan: an inductive invariant (`IndInv`, `IInv`), which
TLC first checked as an invariant of the run of the component; one lemma per
callback, or per group of callbacks that change the same part of the state, that
the step keeps it; and the theorems, which it implies.

Where an argument is by induction over numbers (the wrapped flow counter, the
doubled delay, the frames of a byte stream) it is done with least elements: a
non-empty set of natural numbers has a least member (`Least`, from the
well-foundedness of inclusion among finite sets), so the least counterexample has
none below it.

**`RelayProofs`** (from `RelayAssumption`). `Faithful` is not inductive: that no chunk
is lost at a close depends on what every queue holds before it. `IndInv` (in `Relay`)
says for each leg that what the far end got, what its io holds and what is held
back or queued before the bind are together exactly what was read from the other
leg; that held-back data mean a write in flight and a paused reader; that an end
mark is set only behind everything; and that each queue has its bound.
`Invariance` proves it callback by callback, `AlwaysFaithful` and `FlowIsControlled`
follow from it. The last part is the refinement: on an open tunnel every step of
the relay is a step of `Pipe` or leaves its state alone. `EndsOK` draws from
`IndInv` what the ends can tell; `StepSimulation` compares the steps. `RefinesPipe`
proves `ImplementsPipe`, and `OpenStreamIsPipe` states it for streams that start on
an open tunnel.

**`TunnelsProofs`** (from `TunnelsAssumption`). `IInv` has three parts: the types; as
long as no handle was misused, the close references of every block are those of
its handle; and until the shutdown is over, `Books`: taken ports are those of
registered tunnels, no two share one, the tunnel count is the number of registered
tunnels, and `ports_used` is, modulo its width, the number of ports taken. The last
needs cardinalities and the lemmas on `%`. `ScanFinds` shows that the search from
the rotating cursor misses no free port. `RegistryIsExact` and
`RefsAreExact` follow. `ListensExactly` and `HandlesAreSafe` need a second
invariant, `CInv`, on flags and handles of TCP listeners while no bind has failed.

**`ControlProofs`** (from `ControlAssumption`). `IInv` joins the properties about
agents, counts and bindings with `Named`: a connection that has a role has a tunnel.
Without it an agent could not be told from one of no tunnel when its connection
goes. The counts are cardinalities: a stream that is made or closed moves one
block between `Used`, `Streams` of one tunnel and `Pending` of that tunnel, and no
other. `AgentsAreExact`, `AgentsAreAuthorised`, `AccountsAreExact` and
`AnswersReachTheirStreams` (`BoundToItsOpen`) follow. The last needs `Numbered`: the
id of a stream is that of its number. Below the wrap the number can be read off the
id, the secret tells the tunnels apart, and a tunnel has one counter; `StaysQuiet` is an action property and uses that an online agent's tunnel is
enabled, since a bind asks for the agent only.

**`FrameReaderProofs`** (from `FrameAssumption`). `IInv` adds `Holds`: while frames are
read the relay has nothing, and what is left behind a `REGISTER` is less than one
read, so the next read cannot overflow because of it. `NothingLost`,
`FramesArePrompt` and `RejectionsJustified` follow. `EnvelopesAreExact` proves the
two conversions of the UDP envelope inverse to each other for every flow id of 64
bits, every payload and every datagram, from what a shift and a mask do to one byte
up (`ByteOff`, `ByteOn`, `FourBytes`, `HeaderWritten`, `HeaderRead`). `CutsNeverMatter` compares the frames with the
reference `Frames`, a recursive function over the positions of the whole byte
stream. `CutsInv` says of every longer prefix of the stream that its frames are
those handed out already followed by those from the reader's position on. It is
kept because the function satisfies its recursion equation (shown with the least
position where it would not) and because one turn of the reader's loop takes
exactly the frame the equation takes.

**`AgentLinkProofs`** (from `AgentLinkAssumption`). `IInv` adds to the phases that
timer, attempt and connection exclude each other. `Jitter` shows that a delay with
jitter is never negative, so that an armed timer is never mistaken for an idle one.
`NeverIsStranded`, `StreamsAlwaysEnd` and `PhasesAreSound` follow. `LinkIsSound` adds
the backoff: `BInv` says that the delay is the first one doubled as often as there
were failures in a row, or the maximum once that is exceeded.

**`BrokerUdpProofs`** (from `BrokerUdpAssumption`). `NoCrossTalk` is about what is sent;
it holds because of what every queue holds. `IInv` says of every queued or buffered
item (`SessionOK`) and of every send that it carries the owner its flow was given
and an id below the next one; of sends (`Linked`) that a session's completion finds
it, once; of flows (`FlowsOK`) that id and source are one to one and that the
session of a peer's flow is live with the flow's address; of sessions
(`SessionsOK`) that a live one is alone at its address, has its timer armed, and is
the tunnel's agent exactly if it says so; (`Calm`) that nothing is left in a queue
unless the session is marked in flight or `SSL_write` wanted to read; and (`Backed`)
that behind the mark there is a send of the session, or one that was dropped. An id is given once, so an item queued before its
flow went is still its owner's. The functions that send are proved first, each
as a change of one session (`Moved`) that the tables do not see; then come closing,
the beginning of sessions, authentication and forwarding.

**`EndUdpProofs`** (from `EndUdpAssumption`). `IInv` says that flows, queue and
credential belong to an established session (`SessionOK`), that a queue holds
nothing but `AUTH_REQ` before the session is authenticated, that the agent knows a
flow by its id alone, and (`PeerOK`) that a running peer without a session has its
timer armed. `NewId` is about `flow_id_new`: fewer flows than ids leave a free one
(a pigeonhole argument with cardinalities), and the search that steps over used
ids from the wrapped counter stops at one. `SessionsAreSound` and
`PeerAlwaysRetries` follow.

Only model-checked:

* liveness, which needs fairness: `Progress`, `OpensOrCloses`, `ListensAgain`,
  `Reclaimed`, `PendingResolved`, `FlowsExpire`, `Recovers`, `GetsDone`;
* the safety properties of `EndRelay` (`Faithful`, `FlowControl`, `FreedLast`) and of
  `ControlPlane` (`NoOrphan`, `LiveServed`, `Consistent`), which are not proved yet.

## Not modelled

* Start-up, command lines and configuration files of the three programs; logging
  and metrics.
* The inside of TLS and DTLS (OpenSSL), certificates, digests and tokens: a
  credential is right or wrong. JSON text, and the inside of libuv and SQLite.
* The state in the middle of a callback, such as an io that is closed by the very
  low callback it has just called (`common/src/io.c:100`).
* Fatal errors of `SSL_write` after a DTLS handshake.
* The IPC operations that only read (`get_*`, `ping`), the buffering of its
  requests and replies (`ipc_send` drops a reply while another is being written;
  the API opens a connection per request), and the table of the public rate limit.
* In the API: `rotate_token` (the handler of `rotate_secret` on the other column;
  the broker's side of it is in `Control`), announcements, administrator sessions,
  blocked addresses, download pages and releases: handlers that touch the
  database only, or do not touch tunnels.
* The length of the broker's answers: one longer than the 64 KiB `readline` accepts
  raises a `ValueError` that `BrokerClient.call` does not turn into its own errors.
* The client libraries and deployment files. (The API's unit has `Requires=` on the
  broker's, so that systemd may start both again together; `ControlPlane` also has
  the API that stays up, which `docs/failure-cases.md` describes.)

None of these changes the state the properties are about, except where
`PROJECT.json` says so in the note of a hazard.
