---------------------------- MODULE ControlPlane ----------------------------
(***************************************************************************)
(* The control plane over the broker: the tunnel handlers, restore_runtime *)
(* and lease_reaper of control/tunnelmate_api/main.py, BrokerClient.call,  *)
(* the table `tunnels` of SQLite, and the registry of the broker as its    *)
(* IPC operations (broker/src/ipc.c) change it.                            *)
(*                                                                         *)
(* asyncio runs a handler without interruption from one await to the next, *)
(* and the only awaits are broker calls.  A handler is therefore two or    *)
(* more actions: the part that reads the row and asks the broker, the      *)
(* broker's own step, and the part that uses the answer.  Between them     *)
(* other handlers run, rows expire, a call times out although the broker   *)
(* handles it (perhaps later), and either process crashes.  The database   *)
(* survives every crash; the broker's registry survives none of its own.   *)
(*                                                                         *)
(* A tunnel here is one that owns a public port (Tunnels has the others),  *)
(* all come from one source address, and of its two secrets the agent's    *)
(* is kept: rotate_token is the same handler on the other column.          *)
(***************************************************************************)
EXTENDS Naturals, FiniteSets

CONSTANTS
    Ids,           \* tunnel ids public_id can draw
    Workers,       \* requests the API works on at a time
    NPorts,        \* size of the public port range
    MaxPerIp,      \* max_tunnels_per_ip
    MaxRotations,  \* bound: secrets minted for a tunnel after its first
    MaxFaults,     \* bound: crashes, calls without an answer, failing statements
    None,          \* no row, no tunnel, no request
    Gone           \* a row with deleted=1, whose other columns are never read again

Ports == 1 .. NPorts
Secrets == 0 .. MaxRotations
Callers == Workers \cup {"startup", "reaper"}

ASSUME ControlPlaneAssumption ==
    /\ {NPorts, MaxPerIp, MaxRotations, MaxFaults} \subseteq Nat
    /\ None \notin Ids /\ Workers \cap {"startup", "reaper", None} = {}

VARIABLES
    rows,        \* the table: rows of tunnels ever created
    reg,         \* the broker's registry
    up,          \* the broker runs
    api,         \* "down", "starting" (restore_runtime) or "serving"
    reaper,      \* the reaper task has not died
    job,         \* what each caller is doing, and what it read before its await
    wire,        \* its broker call: none, the request, or the answer
    late,        \* requests whose caller no longer waits
    minted,      \* secrets drawn for each tunnel so far
    faults,      \* faults so far
    unsettled,   \* history: tunnels of which a call or statement has failed, or a
                 \*   crash of the API cut the handler off
    overlapped,  \* history: tunnels two handlers worked on at a time
    skipped,     \* history: rows that were over, and not served, at the last startup
    unrestored   \* history: the broker lost its registry and no startup has read it since

vars == <<rows, reg, up, api, reaper, job, wire, late, minted, faults,
          unsettled, overlapped, skipped, unrestored>>

\* `todo`: the rows the loops of restore_runtime and lease_reaper have read and
\* not yet visited
Idle == [op |-> None, id |-> None, todo |-> {}]
Job(op, id, todo) == [op |-> op, id |-> id, todo |-> todo]

Quiet == [st |-> None]
Ask(op, id, secret, prefer) == [st |-> "asked", op |-> op, id |-> id, secret |-> secret, prefer |-> prefer]
Answer(st, val) == [st |-> st, val |-> val]

Present(id) == rows[id] \notin {None, Gone}
Live(id) == Present(id) /\ ~rows[id].expired
Served(id) == reg[id] # None
Busy(id) == \E c \in Callers : job[c].id = id

Init ==
    /\ rows = [i \in Ids |-> None] /\ reg = [i \in Ids |-> None]
    /\ up = TRUE /\ api = "down" /\ reaper = TRUE
    /\ job = [c \in Callers |-> Idle] /\ wire = [c \in Callers |-> Quiet]
    /\ late = {} /\ minted = [i \in Ids |-> 0] /\ faults = 0
    /\ unsettled = {} /\ overlapped = {} /\ skipped = {} /\ unrestored = FALSE

----------------------------------------------------------------------------
(* The broker *)

\* the port of tm_port_alloc: the preferred one if it is free, else some free one
Alloc(prefer) ==
    LET free == Ports \ {reg[i].port : i \in {j \in Ids : Served(j)}} IN
    IF prefer \in free THEN {prefer} ELSE free

\* ipc_handle_op: the registries and answers a request can lead to
Outcome(q) ==
    LET Put(t, val) == [reg |-> [reg EXCEPT ![q.id] = t], ans |-> Answer("ok", val)]
        Refuse(why) == {[reg |-> reg, ans |-> Answer(why, None)]}
        Known(op) == q.op = op /\ Served(q.id)
    IN CASE q.op = "get_tunnels" ->
              {[reg |-> reg, ans |-> Answer("ok", {i \in Ids : Served(i)})]}
         [] q.op = "create_tunnel" ->
              IF Served(q.id) \/ Alloc(q.prefer) = {} THEN Refuse("refused")
              ELSE {LET t == [enabled |-> TRUE, port |-> p, secret |-> q.secret] IN Put(t, t)
                      : p \in Alloc(q.prefer)}
         [] Known("delete_tunnel") -> {Put(None, None)}
         [] Known("disable_tunnel") ->
              IF reg[q.id].enabled THEN {Put([reg[q.id] EXCEPT !.enabled = FALSE], None)}
              ELSE Refuse("refused")
         [] Known("enable_tunnel") ->
              IF reg[q.id].enabled THEN Refuse("refused")
              ELSE {Put([reg[q.id] EXCEPT !.enabled = TRUE], None)}
         [] Known("rotate_agent_secret") ->
              {Put([reg[q.id] EXCEPT !.secret = q.secret], q.secret)}
         [] OTHER -> Refuse("not found")

Serve(c) ==
    /\ up /\ wire[c].st = "asked"
    /\ \E o \in Outcome(wire[c]) : reg' = o.reg /\ wire' = [wire EXCEPT ![c] = o.ans]
    /\ unrestored' = (unrestored /\ wire[c].op # "get_tunnels")
    /\ UNCHANGED <<rows, up, api, reaper, job, late, minted, faults, unsettled, overlapped, skipped>>

\* ipc_conn_read gets what was written before the caller closed its end
ServeLate(q) ==
    /\ up /\ q \in late
    /\ \E o \in Outcome(q) : reg' = o.reg
    /\ late' = late \ {q}
    /\ UNCHANGED <<rows, up, api, reaper, job, wire, minted, faults, unsettled, overlapped, skipped, unrestored>>

----------------------------------------------------------------------------
(* Handlers: up to the call, and after it *)

\* BrokerClient.call, up to its await
Call(c, q) == wire' = [wire EXCEPT ![c] = IF up THEN q ELSE Answer("failed", None)]

Answered(c, op) == job[c].op = op /\ wire[c].st \notin {None, "asked"}
Return(c) == job' = [job EXCEPT ![c] = Idle] /\ wire' = [wire EXCEPT ![c] = Quiet]

\* a statement of the database, which may fail
Execute(id, row) ==
    /\ rows' = IF rows[id] = Gone THEN rows ELSE [rows EXCEPT ![id] = row]
    /\ UNCHANGED <<faults, unsettled>>
ExecuteFails(id) ==
    /\ faults < MaxFaults /\ faults' = faults + 1
    /\ unsettled' = unsettled \cup {id}
    /\ UNCHANGED rows

Begin(c, op, q) ==
    /\ api = "serving" /\ job[c] = Idle
    /\ job' = [job EXCEPT ![c] = Job(op, q.id, {})]
    /\ Call(c, q)
    /\ overlapped' = IF \E d \in Workers : job[d].id = q.id THEN overlapped \cup {q.id} ELSE overlapped
    /\ UNCHANGED <<rows, reg, up, api, reaper, late, faults, unsettled, skipped, unrestored>>

\* public_id draws an id nobody has used
create_tunnel(c, id) ==
    /\ rows[id] = None /\ ~Served(id) /\ ~Busy(id) /\ id \notin unsettled
    /\ Cardinality({i \in Ids : Live(i)}) < MaxPerIp
    /\ Begin(c, "create", Ask("create_tunnel", id, 0, 0))
    /\ UNCHANGED minted

\* nothing undoes a tunnel the table has no row for
create_answered_no_undo(c) ==
    /\ Answered(c, "create")
    /\ LET id == job[c].id  t == wire[c].val IN
       /\ IF wire[c].st # "ok" THEN UNCHANGED <<rows, faults, unsettled>>
          ELSE \/ Execute(id, [enabled |-> TRUE, expired |-> FALSE,
                               secret |-> t.secret, port |-> t.port])
               \/ faults < MaxFaults /\ faults' = faults + 1 /\ UNCHANGED <<rows, unsettled>>
       /\ Return(c)
    /\ UNCHANGED <<reg, up, api, reaper, late, minted, overlapped, skipped, unrestored>>

create_answered(c) ==
    /\ Answered(c, "create")
    /\ LET id == job[c].id  t == wire[c].val IN
       \/ wire[c].st # "ok" /\ Return(c) /\ UNCHANGED <<rows, faults, unsettled>>
       \/ /\ wire[c].st = "ok"
          /\ Execute(id, [enabled |-> TRUE, expired |-> FALSE,
                          secret |-> t.secret, port |-> t.port])
          /\ Return(c)
       \/ /\ wire[c].st = "ok" /\ faults < MaxFaults /\ faults' = faults + 1
          /\ job' = [job EXCEPT ![c].op = "undo"] /\ Call(c, Ask("delete_tunnel", id, 0, 0))
          /\ UNCHANGED <<rows, unsettled>>
    /\ UNCHANGED <<reg, up, api, reaper, late, minted, overlapped, skipped, unrestored>>

undo_answered(c) ==
    /\ Answered(c, "undo") /\ Return(c)
    /\ UNCHANGED <<rows, reg, up, api, reaper, late, minted, faults, unsettled, overlapped, skipped, unrestored>>

update_tunnel(c, id, enabled) ==
    /\ Present(id) /\ rows[id].enabled # enabled
    /\ Begin(c, IF enabled THEN "enable" ELSE "disable",
             Ask(IF enabled THEN "enable_tunnel" ELSE "disable_tunnel", id, 0, 0))
    /\ UNCHANGED minted

update_answered(c, enabled) ==
    /\ Answered(c, IF enabled THEN "enable" ELSE "disable")
    /\ LET id == job[c].id IN
       \/ wire[c].st # "ok" /\ UNCHANGED <<rows, faults, unsettled>>
       \/ wire[c].st = "ok" /\ Execute(id, [rows[id] EXCEPT !.enabled = enabled])
       \/ wire[c].st = "ok" /\ ExecuteFails(id)
    /\ Return(c)
    /\ UNCHANGED <<reg, up, api, reaper, late, minted, overlapped, skipped, unrestored>>

rotate_agent_secret(c, id) ==
    /\ Present(id) /\ minted[id] < MaxRotations
    /\ minted' = [minted EXCEPT ![id] = @ + 1]
    /\ Begin(c, "rotate", Ask("rotate_agent_secret", id, minted[id] + 1, 0))

rotate_answered(c) ==
    /\ Answered(c, "rotate")
    /\ LET id == job[c].id IN
       \/ wire[c].st # "ok" /\ UNCHANGED <<rows, faults, unsettled>>
       \/ wire[c].st = "ok" /\ Execute(id, [rows[id] EXCEPT !.secret = wire[c].val])
       \/ wire[c].st = "ok" /\ ExecuteFails(id)
    /\ Return(c)
    /\ UNCHANGED <<reg, up, api, reaper, late, minted, overlapped, skipped, unrestored>>

delete_tunnel(c, id) ==
    /\ Present(id) /\ Begin(c, "delete", Ask("delete_tunnel", id, 0, 0))
    /\ UNCHANGED minted

\* a tunnel the broker does not know counts as deleted
delete_answered(c) ==
    /\ Answered(c, "delete")
    /\ LET id == job[c].id  gone == wire[c].st \in {"ok", "not found"} IN
       \/ ~gone /\ UNCHANGED <<rows, faults, unsettled>>
       \/ gone /\ Execute(id, Gone)
       \/ gone /\ ExecuteFails(id)
    /\ Return(c)
    /\ UNCHANGED <<reg, up, api, reaper, late, minted, overlapped, skipped, unrestored>>

\* no await: tunnel_for_owner does not ask whether the lease is over
renew_tunnel(id) ==
    /\ api = "serving" /\ Present(id) /\ rows[id].expired
    /\ Execute(id, [rows[id] EXCEPT !.expired = FALSE])
    /\ UNCHANGED <<reg, up, api, reaper, job, wire, late, minted, overlapped, skipped, unrestored>>

----------------------------------------------------------------------------
(* lease_reaper *)

reaper_wakes ==
    /\ api = "serving" /\ reaper /\ job["reaper"] = Idle
    /\ LET over == {i \in Ids : Present(i) /\ rows[i].expired} IN
       \E i \in over :
           /\ job' = [job EXCEPT !["reaper"] = Job("reap", i, over \ {i})]
           /\ Call("reaper", Ask("delete_tunnel", i, 0, 0))
    /\ UNCHANGED <<rows, reg, up, api, reaper, late, minted, faults, unsettled, overlapped, skipped, unrestored>>

\* the next row of the loop
reap_next ==
    LET todo == job["reaper"].todo IN
    IF todo = {} THEN Return("reaper")
    ELSE \E i \in todo :
           /\ job' = [job EXCEPT !["reaper"] = Job("reap", i, todo \ {i})]
           /\ Call("reaper", Ask("delete_tunnel", i, 0, 0))

\* a tunnel the broker does not know is left in the table
reap_answered_known(c) ==
    /\ Answered(c, "reap")
    /\ IF wire[c].st = "ok" THEN Execute(job[c].id, Gone)
       ELSE UNCHANGED <<rows, faults, unsettled>>
    /\ reap_next /\ UNCHANGED reaper
    /\ UNCHANGED <<reg, up, api, late, minted, overlapped, skipped, unrestored>>

\* the row goes whatever the broker answered; an exception ends the task
reap_answered(c) ==
    /\ Answered(c, "reap")
    /\ \/ Execute(job[c].id, Gone) /\ reap_next /\ UNCHANGED reaper
       \/ ExecuteFails(job[c].id) /\ Return(c) /\ reaper' = FALSE
    /\ UNCHANGED <<reg, up, api, late, minted, overlapped, skipped, unrestored>>

----------------------------------------------------------------------------
(* restore_runtime, before the first request is served *)

\* a row that is over is not restored, though its owner may still renew it
startup ==
    /\ api = "down" /\ api' = "starting" /\ reaper' = TRUE
    /\ job' = [job EXCEPT !["startup"] = Job("list", None, {i \in Ids : Live(i)})]
    /\ Call("startup", Ask("get_tunnels", None, 0, 0))
    /\ skipped' = {i \in Ids : Present(i) /\ rows[i].expired /\ ~Served(i)}
    /\ UNCHANGED <<rows, reg, up, late, minted, faults, unsettled, overlapped, unrestored>>

\* the next row of the loop, or the API serves
restore_next(todo) ==
    \/ todo = {} /\ Return("startup") /\ api' = "serving"
    \/ \E i \in todo :
         /\ job' = [job EXCEPT !["startup"] = Job("restore", i, todo \ {i})]
         /\ Call("startup", Ask("create_tunnel", i, rows[i].secret, rows[i].port))
         /\ UNCHANGED api

\* the rows the broker has are restored, and the others are not
list_answered_existing(c) ==
    /\ Answered(c, "list")
    /\ IF wire[c].st = "ok" THEN restore_next(job[c].todo \cap wire[c].val) /\ UNCHANGED unrestored
       ELSE restore_next({}) /\ unrestored' = TRUE
    /\ UNCHANGED <<rows, reg, up, reaper, late, minted, faults, unsettled, overlapped, skipped>>

list_answered(c) ==
    /\ Answered(c, "list")
    /\ IF wire[c].st = "ok" THEN restore_next(job[c].todo \ wire[c].val) /\ UNCHANGED unrestored
       ELSE restore_next({}) /\ unrestored' = TRUE
    /\ UNCHANGED <<rows, reg, up, reaper, late, minted, faults, unsettled, overlapped, skipped>>

\* a disabled tunnel is restored like any other
restore_answered_enabled(c) ==
    /\ Answered(c, "restore") /\ restore_next(job[c].todo)
    /\ unsettled' = IF wire[c].st = "refused" THEN unsettled \cup {job[c].id} ELSE unsettled
    /\ UNCHANGED <<rows, reg, up, reaper, late, minted, faults, overlapped, skipped, unrestored>>

restore_answered(c) ==
    /\ Answered(c, "restore")
    /\ LET i == job[c].id IN
       IF wire[c].st = "ok" /\ ~rows[i].enabled
       THEN /\ job' = [job EXCEPT ![c].op = "redisable"]
            /\ Call(c, Ask("disable_tunnel", i, 0, 0))
            /\ UNCHANGED <<api, unsettled>>
       ELSE /\ restore_next(job[c].todo)
            /\ unsettled' = IF wire[c].st = "refused" THEN unsettled \cup {i} ELSE unsettled
    /\ UNCHANGED <<rows, reg, up, reaper, late, minted, faults, overlapped, skipped, unrestored>>

redisable_answered(c) ==
    /\ Answered(c, "redisable") /\ restore_next(job[c].todo)
    /\ UNCHANGED <<rows, reg, up, reaper, late, minted, faults, unsettled, overlapped, skipped, unrestored>>

----------------------------------------------------------------------------
(* Time and faults *)

Expire(id) ==
    /\ Live(id)
    /\ rows' = [rows EXCEPT ![id].expired = TRUE]
    /\ UNCHANGED <<reg, up, api, reaper, job, wire, late, minted, faults, unsettled, overlapped, skipped, unrestored>>

Fault == faults < MaxFaults /\ faults' = faults + 1

\* BrokerClient.call gives up: the request was handled, will be, or never is
Unanswered(c) ==
    /\ Fault /\ up /\ wire[c].st \notin {None, "failed"}
    /\ wire' = [wire EXCEPT ![c] = Answer("failed", None)]
    /\ late' \in {late} \cup IF wire[c].st = "asked" THEN {late \cup {wire[c]}} ELSE {}
    /\ unsettled' = unsettled \cup ({job[c].id} \cap Ids)
    /\ UNCHANGED <<rows, reg, up, api, reaper, job, minted, overlapped, skipped, unrestored>>

\* Answers already written can still be read.
broker_crashes ==
    /\ Fault /\ up /\ up' = FALSE
    /\ reg' = [i \in Ids |-> None] /\ unrestored' = TRUE
    /\ wire' = [c \in Callers |-> IF wire[c].st = "asked" THEN Answer("failed", None) ELSE wire[c]]
    /\ late' = {}
    /\ UNCHANGED <<rows, api, reaper, job, minted, unsettled, overlapped, skipped>>

broker_restarts ==
    /\ ~up /\ up' = TRUE
    /\ UNCHANGED <<rows, reg, api, reaper, job, wire, late, minted, faults, unsettled, overlapped, skipped, unrestored>>

api_crashes ==
    /\ Fault /\ api # "down" /\ api' = "down"
    /\ job' = [c \in Callers |-> Idle] /\ wire' = [c \in Callers |-> Quiet]
    /\ \E sent \in SUBSET {wire[c] : c \in {d \in Callers : wire[d].st = "asked"}} : late' = late \cup sent
    /\ unsettled' = unsettled \cup ({job[c].id : c \in Callers} \cap Ids)
    /\ unrestored' = (unrestored \/ api = "starting")
    /\ UNCHANGED <<rows, reg, up, reaper, minted, overlapped, skipped>>

\* SIGTERM, between requests
api_stops ==
    /\ api = "serving" /\ \A c \in Callers : job[c] = Idle
    /\ api' = "down"
    /\ UNCHANGED <<rows, reg, up, reaper, job, wire, late, minted, faults, unsettled, overlapped, skipped, unrestored>>

Resume(c) ==
    \/ create_answered(c) \/ undo_answered(c) \/ rotate_answered(c) \/ delete_answered(c)
    \/ \E e \in BOOLEAN : update_answered(c, e)
    \/ reap_answered(c) \/ list_answered(c) \/ restore_answered(c) \/ redisable_answered(c)

Next ==
    \/ \E c \in Workers, id \in Ids :
         \/ create_tunnel(c, id) \/ delete_tunnel(c, id) \/ rotate_agent_secret(c, id)
         \/ \E e \in BOOLEAN : update_tunnel(c, id, e)
    \/ \E id \in Ids : renew_tunnel(id) \/ Expire(id)
    \/ \E c \in Callers : Serve(c) \/ Resume(c) \/ Unanswered(c)
    \/ \E q \in late : ServeLate(q)
    \/ startup \/ reaper_wakes
    \/ broker_crashes \/ broker_restarts \/ api_crashes \/ api_stops

Spec == Init /\ [][Next]_vars

\* The loops of both processes run, systemd restarts both, and the reaper
\* sleeps for a bounded time.
FairSpec ==
    /\ Spec
    /\ \A c \in Callers : WF_vars(Serve(c)) /\ WF_vars(Resume(c))
    /\ WF_vars(reaper_wakes) /\ WF_vars(startup) /\ WF_vars(broker_restarts)

----------------------------------------------------------------------------
(* Properties *)

Tunnel == [enabled : BOOLEAN, port : Ports, secret : Secrets]
Row == [enabled : BOOLEAN, expired : BOOLEAN, secret : Secrets, port : Ports]

\* The table, the registry and the tasks of the API stay in their types.
TypeOK ==
    /\ rows \in [Ids -> Row \cup {None, Gone}] /\ reg \in [Ids -> Tunnel \cup {None}]
    /\ up \in BOOLEAN /\ api \in {"down", "starting", "serving"} /\ reaper \in BOOLEAN
    /\ \A c \in Callers :
         /\ job[c].id \in Ids \cup {None} /\ job[c].todo \subseteq Ids
         /\ wire[c].st \in {None, "asked", "ok", "refused", "not found", "failed"}
    /\ minted \in [Ids -> Secrets] /\ faults \in 0 .. MaxFaults
    /\ {unsettled, overlapped, skipped} \subseteq SUBSET Ids /\ unrestored \in BOOLEAN

\* The broker serves no tunnel the table does not know as present, except while
\* a handler is at work on it, however handlers, the reaper and restarts
\* interleave.  Only a call or a statement that failed, or a crash of the API
\* during a handler, can leave one behind: create_tunnel undoes a creation it
\* cannot record, and nothing undoes one that a crash cut off.
NoOrphan == \A id \in Ids :
    Served(id) /\ ~Present(id) => Busy(id) \/ id \in unsettled

\* The broker serves the tunnel, or somebody is deleting it.
ServedOrEnding(id) ==
    Served(id) \/ \E c \in Callers : job[c].id = id /\ job[c].op \in {"delete", "reap"}

\* While the API serves, the broker serves every live tunnel that is not being
\* deleted, unless it crashed after the last startup, a call or statement about
\* the tunnel failed (or a crash of the API cut its handler off), or its lease
\* was over at the last startup and was renewed since: restore_runtime leaves
\* out no row that is live, and no handler or reaper removes a tunnel and keeps
\* its row.
LiveServed == api = "serving" /\ ~unrestored =>
    \A id \in Ids \ (unsettled \cup skipped) : Live(id) => ServedOrEnding(id)

\* When nobody works on a live tunnel, the table and the broker agree on whether
\* it is enabled and on the secret of its agent, unless a call failed or two
\* handlers worked on it at a time.
Agreed == api = "serving" /\ ~unrestored => \A id \in Ids \ (unsettled \cup overlapped) :
    Live(id) /\ Served(id) /\ ~Busy(id) =>
        rows[id].enabled = reg[id].enabled /\ rows[id].secret = reg[id].secret

\* Table and registry are well formed and agree on every tunnel at rest.
Consistent == TypeOK /\ Agreed

\* restore_runtime ends, whatever the broker answers or fails to answer while it
\* runs, and the API serves or has crashed.  (An answer longer than readline's
\* limit raises a ValueError that BrokerClient.call does not turn into its own
\* errors; the length of answers is not modelled.)
StartupEnds == (api = "starting") ~> (api # "starting")

\* A tunnel whose lease is over is deleted, unless it is renewed, the API goes
\* down or the reaper has died of a failing statement.
Reaped == \A id \in Ids :
    (Present(id) /\ rows[id].expired) ~>
        (~Present(id) \/ ~rows[id].expired \/ api # "serving" \/ ~reaper)

\* The background work gets done: restore_runtime ends and leases are collected,
\* whatever the broker does meanwhile.
GetsDone == StartupEnds /\ Reaped

----------------------------------------------------------------------------
(* Statements of the documentation that the code does not keep *)

\* "The control plane recreates runtime tunnels": after a crash of the broker
\* every live tunnel is served again.
RegistryRestored == \A id \in Ids :
    (Live(id) /\ unrestored) ~> (Served(id) \/ ~Live(id) \/ id \in unsettled)

\* "extend by the configured lease": a renewed tunnel is served.  Fails for a row
\* that was over at the last startup and that its owner renews before the reaper
\* has seen it: restore_runtime skipped it, and renew_tunnel asks no broker.
RenewedServed == api = "serving" /\ ~unrestored =>
    \A id \in Ids \ unsettled : Live(id) => ServedOrEnding(id)

\* "The lease reaper deletes expired tunnels on its next pass."
AlwaysReaped == \A id \in Ids :
    (Present(id) /\ rows[id].expired) ~> (~Present(id) \/ ~rows[id].expired)

\* "extend by the configured lease": a row the reaper deletes is over.
RenewalKept == [][\A id \in Ids :
    Live(id) /\ ~Present(id)' => \E c \in Workers : job[c].op = "delete" /\ job[c].id = id]_vars

\* "Live tunnels per source IP."
PerIpCap == Cardinality({i \in Ids : Live(i)}) <= MaxPerIp

\* The address handed out for a tunnel leads to that tunnel.
PortKept == \A id \in Ids : Live(id) /\ Served(id) => rows[id].port = reg[id].port
=============================================================================
