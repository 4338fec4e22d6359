------------------------------ MODULE Tunnels ------------------------------
(***************************************************************************)
(* The broker's tunnel registry: broker/src/registry.c, the listeners of   *)
(* tcp.c and udp.c, the tunnel operations of ipc.c, and the shutdown of    *)
(* main.c.  A tunnel is a block of memory that holds its own libuv handle; *)
(* uv_close is asynchronous, so a block outlives its deletion until the    *)
(* close callback has run.  Every action is one IPC request, one close     *)
(* callback or one signal.  Agents, streams and UDP sessions are dropped   *)
(* by the same operations; those of TCP tunnels are state of Control.      *)
(*                                                                         *)
(* A request that is refused changes nothing and is not an action.         *)
(***************************************************************************)
EXTENDS Integers, FiniteSets

CONSTANTS
    Ids,          \* tunnel ids the control plane uses
    Blocks,       \* blocks tm_xcalloc can return for a tm_tunnel
    Kinds,        \* kinds of tunnel created: records [proto, closed]
    NPorts,       \* size of the public port range
    MaxTunnels,   \* max_tunnels
    CounterMod,   \* ports_used is a uint16_t: 2^16
    Free          \* content of a block that is not allocated

Protos == {"tcp", "udp"}
Ports == 1 .. NPorts

TunnelType ==
    [id : Ids, proto : Protos, closed : BOOLEAN, enabled : BOOLEAN,
     port : Ports \cup {0}, open : BOOLEAN, closing : BOOLEAN, restart : BOOLEAN,
     refs : Int, deleting : BOOLEAN]

ASSUME TunnelsAssumption ==
    /\ IsFiniteSet(Blocks) /\ NPorts \in Nat \ {0} /\ MaxTunnels \in Nat /\ CounterMod \in Nat \ {0}
    /\ Kinds \subseteq [proto : Protos, closed : BOOLEAN]
    /\ Free \notin TunnelType

VARIABLES
    tun,           \* content of each block
    handle,        \* the libuv handle in each block, as the loop knows it
    taken,         \* ports_tcp, ports_udp
    ports_used,
    cursor,        \* the rotating cursor of tm_port_alloc
    tunnel_count,
    phase,         \* "running", "shutting" (shutting_down) or "over" (cleaned_up)
    calm           \* history: only TCP tunnels so far, and no bind or listen failed

vars == <<tun, handle, taken, ports_used, cursor, tunnel_count, phase, calm>>

Allocated == {s \in Blocks : tun[s] # Free}
Registered == {s \in Allocated : ~tun[s].deleting}     \* the list b->tunnels

\* "broken": initialised while the loop still knew it; "stale": its block was
\* freed while the loop still knew it.  Nothing is said of what happens next.
Corrupt == \E s \in Blocks : handle[s] \in {"broken", "stale"}
Up == phase # "over" /\ ~Corrupt

Init ==
    /\ tun = [s \in Blocks |-> Free]
    /\ handle = [s \in Blocks |-> "none"]
    /\ taken = [p \in Protos |-> {}]
    /\ ports_used = 0 /\ cursor = 0 /\ tunnel_count = 0
    /\ phase = "running" /\ calm = TRUE

----------------------------------------------------------------------------
(* Ports *)

\* the first free port from the cursor on, in a table that has one
NextFree(t) ==
    LET At(i) == 1 + ((cursor + i) % NPorts)
        n == CHOOSE i \in 0 .. NPorts - 1 : At(i) \notin t /\ \A j \in 0 .. i - 1 : At(j) \in t
    IN At(n)

\* the port tm_port_alloc returns; 0 when it fails
tm_port_alloc(p, prefer) ==
    CASE ports_used >= 2 * NPorts -> 0
      [] ports_used < 2 * NPorts /\ prefer \in Ports \ taken[p] -> prefer
      [] OTHER -> IF Ports \subseteq taken[p] THEN 0 ELSE NextFree(taken[p])

TakePort(p, port, prefer) ==
    /\ taken' = [taken EXCEPT ![p] = @ \cup {port}]
    /\ ports_used' = (ports_used + 1) % CounterMod
    /\ cursor' = IF port = prefer THEN cursor ELSE port % NPorts

\* frees in the TCP table whatever the protocol
PortFreeTcp(p, port) ==
    /\ ports_used' = IF port \in taken["tcp"] THEN (ports_used - 1) % CounterMod ELSE ports_used
    /\ taken' = [taken EXCEPT !["tcp"] = @ \ {port}]

tm_port_free(p, port) ==
    /\ ports_used' = IF port \in taken[p] THEN (ports_used - 1) % CounterMod ELSE ports_used
    /\ taken' = [taken EXCEPT ![p] = @ \ {port}]

----------------------------------------------------------------------------
(* Listeners.  x = [t, h] is a tunnel with its handle; the operators give   *)
(* the possible results.                                                    *)

\* uv_tcp_init or uv_udp_init, then bind and listen, which may fail
Bind(x) ==
    {[t |-> [x.t EXCEPT !.open = ok], h |-> IF x.h = "none" THEN "up" ELSE "broken"]
        : ok \in BOOLEAN}

\* a start does not wait for the close in flight
ListenerStartNow(x) ==
    IF x.t.proto # "tcp" \/ x.t.open \/ x.t.closed \/ x.t.deleting THEN {x} ELSE Bind(x)

tm_tunnel_listener_start(x) ==
    IF x.t.proto # "tcp" \/ x.t.open \/ x.t.closed \/ x.t.deleting THEN {x}
    ELSE IF x.t.closing THEN {[t |-> [x.t EXCEPT !.restart = TRUE], h |-> x.h]}
    ELSE Bind(x)

tm_udp_start(x) == IF x.t.proto # "udp" \/ x.t.open THEN {x} ELSE Bind(x)

Start(x) == IF x.t.proto = "tcp" THEN tm_tunnel_listener_start(x) ELSE tm_udp_start(x)

\* close_refs is not counted
CloseUncounted(x, closing) ==
    [t |-> [x.t EXCEPT !.closing = closing, !.open = FALSE], h |-> "closing"]

\* uv_close of an open handle
Close(x, closing) ==
    [t |-> [x.t EXCEPT !.refs = @ + 1, !.closing = closing, !.open = FALSE], h |-> "closing"]

\* a deferred start survives the stop
ListenerStopKeepsRestart(x) ==
    IF x.t.proto = "tcp" /\ x.t.open THEN Close(x, TRUE) ELSE x

tm_tunnel_listener_stop(x) ==
    LET y == [t |-> [x.t EXCEPT !.restart = FALSE], h |-> x.h] IN
    IF x.t.proto = "tcp" /\ x.t.open THEN Close(y, TRUE) ELSE y

tm_udp_stop(x) == IF x.t.proto = "udp" /\ x.t.open THEN Close(x, FALSE) ELSE x

\* block s, its tunnel changed to t
Block(s, t) == [t |-> t, h |-> handle[s]]
Store(s, x) ==
    /\ tun' = [tun EXCEPT ![s] = x.t]
    /\ handle' = [handle EXCEPT ![s] = x.h]
    /\ calm' = (calm /\ x.t.proto = "tcp" /\ (x.h = "up" => x.t.open))

\* free(t): a handle the loop still knows is left dangling
FreeBlock(s, h) ==
    /\ tun' = [tun EXCEPT ![s] = Free]
    /\ handle' = [handle EXCEPT ![s] = IF h = "none" THEN "none" ELSE "stale"]
    /\ UNCHANGED calm

----------------------------------------------------------------------------
(* Operations *)

tm_tunnel_create(s, id, k, prefer) ==
    /\ Up /\ phase = "running" /\ tun[s] = Free
    /\ tunnel_count < MaxTunnels
    /\ \A o \in Registered : tun[o].id # id
    /\ LET needs == ~(k.closed /\ k.proto = "tcp")
           port == IF needs THEN tm_port_alloc(k.proto, prefer) ELSE 0
           t == [id |-> id, proto |-> k.proto, closed |-> k.closed, enabled |-> TRUE,
                 port |-> port, open |-> FALSE, closing |-> FALSE, restart |-> FALSE,
                 refs |-> 0, deleting |-> FALSE]
       IN /\ needs => port # 0
          /\ IF needs THEN TakePort(k.proto, port, prefer) ELSE UNCHANGED <<taken, ports_used, cursor>>
          /\ \E x \in Start([t |-> t, h |-> "none"]) : Store(s, x)
    /\ tunnel_count' = tunnel_count + 1
    /\ UNCHANGED phase

\* tm_tunnel_delete with tm_tunnel_teardown
tm_tunnel_delete(s) ==
    /\ Up /\ s \in Registered
    /\ LET x == Block(s, [tun[s] EXCEPT !.deleting = TRUE])
           y == IF x.t.proto = "tcp" THEN tm_tunnel_listener_stop(x) ELSE tm_udp_stop(x)
       IN /\ tm_port_free(x.t.proto, x.t.port)
          /\ IF y.t.refs = 0 THEN FreeBlock(s, y.h) ELSE Store(s, y)
    /\ tunnel_count' = tunnel_count - 1
    /\ UNCHANGED <<cursor, phase>>

disable_tunnel(s) ==
    /\ Up /\ s \in Registered /\ tun[s].enabled
    /\ Store(s, tm_udp_stop(tm_tunnel_listener_stop(Block(s, [tun[s] EXCEPT !.enabled = FALSE]))))
    /\ UNCHANGED <<taken, ports_used, cursor, tunnel_count, phase>>

enable_tunnel(s) ==
    /\ Up /\ s \in Registered /\ ~tun[s].enabled
    /\ \E x \in Start(Block(s, [tun[s] EXCEPT !.enabled = TRUE])) : Store(s, x)
    /\ UNCHANGED <<taken, ports_used, cursor, tunnel_count, phase>>

\* the callback forgets the deferred start
ClosedNoRestart(s) ==
    /\ Up /\ handle[s] = "closing"
    /\ LET t == [tun[s] EXCEPT !.closing = FALSE, !.refs = @ - 1] IN
       IF t.deleting /\ t.refs = 0 THEN FreeBlock(s, "none") ELSE Store(s, [t |-> t, h |-> "none"])
    /\ UNCHANGED <<taken, ports_used, cursor, tunnel_count, phase>>

\* the callback does not free a deleted tunnel
ClosedNoFree(s) ==
    /\ Up /\ handle[s] = "closing"
    /\ LET t == [tun[s] EXCEPT !.closing = FALSE, !.refs = @ - 1, !.restart = FALSE] IN
       \E x \in IF tun[s].restart THEN tm_tunnel_listener_start([t |-> t, h |-> "none"])
                ELSE {[t |-> t, h |-> "none"]} : Store(s, x)
    /\ UNCHANGED <<taken, ports_used, cursor, tunnel_count, phase>>

\* tunnel_listener_closed, tunnel_udp_closed
Closed(s) ==
    /\ Up /\ handle[s] = "closing"
    /\ LET t == [tun[s] EXCEPT !.closing = FALSE, !.refs = @ - 1] IN
       IF t.deleting
       THEN IF t.refs = 0 THEN FreeBlock(s, "none") ELSE Store(s, [t |-> t, h |-> "none"])
       ELSE \E x \in IF t.restart
                     THEN tm_tunnel_listener_start([t |-> [t EXCEPT !.restart = FALSE], h |-> "none"])
                     ELSE {[t |-> t, h |-> "none"]} : Store(s, x)
    /\ UNCHANGED <<taken, ports_used, cursor, tunnel_count, phase>>

tm_broker_shutdown ==
    /\ Up /\ phase = "running"
    /\ phase' = "shutting"
    /\ UNCHANGED <<tun, handle, taken, ports_used, cursor, tunnel_count, calm>>

\* shutdown_timer_cb: the loop is stopped and everything torn down
broker_cleanup ==
    /\ Up /\ phase = "shutting"
    /\ phase' = "over"
    /\ LET Torn(s) == IF s \notin Registered THEN Block(s, tun[s])
                      ELSE tm_udp_stop(tm_tunnel_listener_stop(Block(s, tun[s])))
       IN /\ tun' = [s \in Blocks |-> Torn(s).t]
          /\ handle' = [s \in Blocks |-> Torn(s).h]
    /\ taken' = [p \in Protos |-> {}]
    /\ ports_used' = 0
    /\ UNCHANGED <<cursor, tunnel_count, calm>>

Next ==
    \/ \E s \in Blocks, id \in Ids, k \in Kinds, prefer \in {0} \cup Ports :
         tm_tunnel_create(s, id, k, prefer)
    \/ \E s \in Blocks :
         tm_tunnel_delete(s) \/ disable_tunnel(s) \/ enable_tunnel(s) \/ Closed(s)
    \/ tm_broker_shutdown \/ broker_cleanup

Spec == Init /\ [][Next]_vars

\* libuv runs the close callback of every handle that is being closed
FairSpec == Spec /\ \A s \in Blocks : WF_vars(Closed(s))

----------------------------------------------------------------------------
(* Properties *)

\* Every variable of the registry stays in its type.
TypeOK ==
    /\ tun \in [Blocks -> TunnelType \cup {Free}]
    /\ handle \in [Blocks -> {"none", "up", "closing", "broken", "stale"}]
    /\ taken \in [Protos -> SUBSET Ports]
    /\ ports_used \in 0 .. CounterMod - 1
    /\ cursor \in 0 .. NPorts - 1
    /\ tunnel_count \in Int
    /\ phase \in {"running", "shutting", "over"} /\ calm \in BOOLEAN

\* A port is taken exactly while one registered tunnel of that protocol owns
\* it: tm_tunnel_create and tm_tunnel_teardown never leak, share or free a
\* port twice, and a closed TCP tunnel owns none ("it must not consume a
\* public port").
PortsExclusive == phase # "over" =>
    /\ \A p \in Protos :
         taken[p] = {tun[s].port : s \in {r \in Registered : tun[r].proto = p}} \ {0}
    /\ \A r, s \in Registered :
         r # s /\ tun[r].proto = tun[s].proto /\ tun[r].port # 0 => tun[r].port # tun[s].port
    /\ \A s \in Registered : tun[s].port = 0 <=> tun[s].closed /\ tun[s].proto = "tcp"

\* Ids are unique among the registered tunnels and tunnel_count counts them,
\* so the cap max_tunnels is exact.
CountExact == phase # "over" =>
    /\ tunnel_count = Cardinality(Registered) /\ tunnel_count <= MaxTunnels
    /\ \A r, s \in Registered : tun[r].id = tun[s].id => r = s

\* tm_port_alloc fails only when the table of the protocol is full, and never
\* returns a port in use, whatever the width of ports_used.
AllocExact == phase # "over" => \A p \in Protos, prefer \in {0} \cup Ports :
    LET port == tm_port_alloc(p, prefer) IN
    /\ port = 0 <=> Ports \subseteq taken[p]
    /\ port \notin taken[p]

\* The books of the registry are right after any sequence of creations and
\* deletions: ports, the count behind the cap, and what the allocator finds.
RegistryExact == TypeOK /\ PortsExclusive /\ CountExact /\ AllocExact

\* close_refs is the number of uv_close calls in flight ("It is incremented
\* whenever a close is issued and decremented in the callback"): a block is
\* freed once, after its last close callback, and a freed block has no handle.
RefsExact == ~Corrupt => \A s \in Blocks :
    IF tun[s] = Free THEN handle[s] = "none"
    ELSE /\ tun[s].refs = IF handle[s] = "closing" THEN 1 ELSE 0
         /\ tun[s].deleting => handle[s] = "closing"

\* A TCP tunnel listens, or will as soon as its old listener is closed, while
\* it is enabled and open, and never otherwise: in particular a closed tunnel
\* has no public listener at all.  As long as no bind has failed.
ListensIffEnabled == Up /\ calm => \A s \in Registered :
    LET t == tun[s] IN
    t.proto = "tcp" =>
        /\ (t.open \/ t.restart) <=> (t.enabled /\ ~t.closed)
        /\ t.closed => handle[s] = "none"
        /\ t.open => handle[s] = "up"
        /\ t.restart => handle[s] = "closing"

\* No handle is initialised again or freed while the loop still knows it, as
\* long as all tunnels are TCP and no bind has failed: a listener that is
\* disabled and enabled in quick succession waits for its close callback.
HandlesSafe == calm => ~Corrupt

\* "the handle memory may not be re-initialised until its close callback runs"
NoReinit == \A s \in Blocks : handle[s] # "broken"

\* A deleted tunnel leaves nothing in the loop ("close everything belonging to
\* the tunnel (listeners, sessions, streams)").
NoDangling == \A s \in Blocks : handle[s] # "stale"

\* A tunnel that is enabled again listens again, however soon after it was
\* disabled (tunnel_listener_closed starts the deferred listener).
ListensAgain == \A s \in Blocks :
    (s \in Registered /\ tun[s].restart) ~>
        (s \notin Registered \/ tun[s].open \/ ~tun[s].enabled \/ ~Up \/ ~calm)

\* The block of a deleted tunnel is freed eventually.
Reclaimed == \A s \in Blocks :
    (s \in Allocated /\ tun[s].deleting) ~> (tun[s] = Free \/ ~Up)
=============================================================================
