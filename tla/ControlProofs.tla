-------------------------- MODULE ControlProofs --------------------------
(***************************************************************************)
(* Proofs about the control port (module Control), for every list of       *)
(* tunnels, every number of connections and streams and all caps: agents,  *)
(* bindings, counts.                                                       *)
(***************************************************************************)
EXTENDS Control, FiniteSetTheorems, TLAPS

----------------------------------------------------------------------------
(* The inductive invariant *)

\* The connections that have a tunnel have one of the list.
Named == \A c \in Conns : conn[c].role \in {"peer", "agent"} => conn[c].tun \in Tuns

Agents == AgentExact /\ AgentAuthorised /\ Named
Books == CountsExact /\ PendingCapClosed

\* The id of a stream is that of its number.
Numbered == \A s \in Slots : strm[s].tun # None =>
    strm[s].no # 0 /\ strm[s].id = IdOf(strm[s].no)

Bindings == BoundToItsOpen /\ Numbered

IInv == TypeOK /\ Agents /\ Books /\ Bindings

----------------------------------------------------------------------------
(* Types *)

\* The free blocks are well typed.
LEMMA FreeTypes ==
    /\ NoTunnel \in TunnelType /\ ~NoTunnel.reg /\ NoTunnel.online = FALSE
    /\ NoTunnel.agent = None /\ NoTunnel.active = 0
    /\ NoConn \in ConnType /\ NoConn.role = "free"
    /\ NoStream \in StreamType /\ NoStream.tun = None /\ ~NoStream.bound
<1>1. 0 \in Versions /\ 0 \in 0 .. IdMod - 1
  BY ControlAssumption DEF Versions
<1>2. NoTunnel \in TunnelType
  BY <1>1 DEF NoTunnel, TunnelType
<1>3. NoConn \in ConnType
  BY <1>1 DEF NoConn, ConnType
<1>4. NoStream \in StreamType
  BY <1>1 DEF NoStream, NoOpen, StreamType, OpenType
<1> QED  BY <1>2, <1>3, <1>4 DEF NoTunnel, NoConn, NoStream

\* A connection that was given a role on a tunnel.
InRole(r, t, v) == [NoConn EXCEPT !.role = r, !.tun = t, !.ver = v]

\* It is well typed.
LEMMA RoleTypes ==
    ASSUME NEW r \in {"peer", "agent"}, NEW t \in Tuns, NEW v \in Versions
    PROVE  /\ InRole(r, t, v) \in ConnType /\ InRole(r, t, v).role = r
           /\ InRole(r, t, v).tun = t /\ InRole(r, t, v).ver = v
<1>1. 0 \in Versions
  BY ControlAssumption DEF Versions
<1> QED  BY <1>1, Zenon DEF NoConn, ConnType, InRole

\* The fields of tunnels, connections and streams have their types.
LEMMA Fields ==
    ASSUME TypeOK
    PROVE  /\ \A t \in Tuns :
                /\ tun[t] \in TunnelType /\ tun[t].reg \in BOOLEAN /\ tun[t].enabled \in BOOLEAN
                /\ tun[t].secret \in Versions /\ tun[t].token \in Versions
                /\ tun[t].agent \in Conns \cup {None} /\ tun[t].online \in BOOLEAN /\ tun[t].active \in Nat
           /\ \A c \in Conns : conn[c] \in ConnType /\ conn[c].tun \in Tuns \cup {None}
           /\ \A s \in Slots :
                /\ strm[s] \in StreamType /\ strm[s].tun \in Tuns \cup {None}
                /\ strm[s].bound \in BOOLEAN
<1>1. \A t \in Tuns : tun[t] \in TunnelType
  BY DEF TypeOK
<1>2. \A c \in Conns : conn[c] \in ConnType
  BY DEF TypeOK
<1>3. \A s \in Slots : strm[s] \in StreamType
  BY DEF TypeOK
<1> QED  BY <1>1, <1>2, <1>3 DEF TunnelType, ConnType, StreamType

\* The fields of a tunnel that decide who its agent may be.
Same(x, y) == x.reg = y.reg /\ x.enabled = y.enabled /\ x.secret = y.secret

\* The assignments of agent and agent_online.
WithAgent(x, a, o) == [[x EXCEPT !.agent = a] EXCEPT !.online = o]

\* They leave the rest of a tunnel alone.
LEMMA SetAgent ==
    ASSUME NEW x \in TunnelType, NEW a \in Conns \cup {None}, NEW o \in BOOLEAN
    PROVE  /\ WithAgent(x, a, o) \in TunnelType /\ Same(WithAgent(x, a, o), x)
           /\ WithAgent(x, a, o).agent = a /\ WithAgent(x, a, o).online = o
           /\ WithAgent(x, a, o).active = x.active
<1> DEFINE y == [x EXCEPT !.agent = a]
           z == [y EXCEPT !.online = o]
<1>1. y \in TunnelType /\ Same(y, x) /\ y.agent = a /\ y.active = x.active
  BY DEF TunnelType, Same
<1> HIDE DEF y
<1>2. z \in TunnelType /\ Same(z, x) /\ z.agent = a /\ z.online = o /\ z.active = x.active
  BY <1>1 DEF TunnelType, Same
<1> QED  BY <1>2 DEF WithAgent, y

\* The assignment of streams_active.
WithActive(x, n) == [x EXCEPT !.active = n]

\* It leaves the rest of a tunnel alone.
LEMMA SetActive ==
    ASSUME NEW x \in TunnelType, NEW n \in Nat
    PROVE  LET z == WithActive(x, n) IN
           /\ z \in TunnelType /\ Same(z, x) /\ z.agent = x.agent /\ z.online = x.online
           /\ z.active = n
BY DEF TunnelType, Same, WithActive

----------------------------------------------------------------------------
(* Agents *)

\* A step that makes no new agent keeps agents exact and authorised, when every
\* tunnel it leaves an agent is left the rest of what the agent depends on, and
\* every agent's connection it leaves stays that of its tunnel.
LEMMA AgentsKept ==
    ASSUME TypeOK, Agents,
           \A t \in Tuns :
              \/ tun'[t].agent = None /\ tun'[t].online = FALSE
              \/ /\ tun'[t].agent = tun[t].agent /\ tun'[t].online = tun[t].online
                 /\ Same(tun'[t], tun[t])
                 /\ tun[t].agent # None => conn'[tun[t].agent] = conn[tun[t].agent],
           \A c \in Conns : conn'[c].role = "agent" =>
              conn'[c] = conn[c] /\ tun'[conn[c].tun].agent = tun[conn[c].tun].agent,
           \A c \in Conns : conn'[c].role = "peer" => conn'[c].tun \in Tuns
    PROVE  Agents'
<1>1. \A t \in Tuns : tun[t].agent \in Conns \cup {None} /\ tun[t].online \in BOOLEAN
  BY Fields
<1>2. AgentExact'
  BY <1>1 DEF Agents, AgentExact, Named
<1>3. AgentAuthorised'
  BY <1>1 DEF Agents, AgentExact, AgentAuthorised, Same
<1>4. Named'
  BY DEF Agents, Named
<1> QED  BY <1>2, <1>3, <1>4 DEF Agents

\* As AgentsKept, for a step that gives the block of a connection that is not an
\* agent's another role.
LEMMA ConnKept ==
    ASSUME TypeOK, Agents, NEW c \in Conns, conn[c].role # "agent", NEW r \in ConnType,
           r.role # "agent", r.role = "peer" => r.tun \in Tuns,
           conn' = [conn EXCEPT ![c] = r],
           \A t \in Tuns :
              Same(tun'[t], tun[t]) /\ tun'[t].agent = tun[t].agent /\ tun'[t].online = tun[t].online
    PROVE  Agents' /\ conn' \in [Conns -> ConnType]
<1>1. conn \in [Conns -> ConnType] /\ conn'[c] = r /\ \A d \in Conns \ {c} : conn'[d] = conn[d]
  BY DEF TypeOK
<1>2. \A t \in Tuns : tun[t].agent # None => tun[t].agent \in Conns \ {c}
  BY Fields DEF Agents, AgentExact
<1>3. \A d \in Conns : conn'[d].role = "agent" =>
         conn'[d] = conn[d] /\ tun'[conn[d].tun].agent = tun[conn[d].tun].agent
  BY <1>1 DEF Agents, Named
<1>4. \A d \in Conns : conn'[d].role = "peer" => conn'[d].tun \in Tuns
  BY <1>1 DEF Agents, Named
<1>5. \A t \in Tuns : tun[t].agent # None => conn'[tun[t].agent] = conn[tun[t].agent]
  BY <1>1, <1>2
<1> QED  BY <1>1, <1>3, <1>4, <1>5, AgentsKept, Zenon

\* As AgentsKept, for tm_agent_drop of tunnel t, whatever else becomes of t.
LEMMA AgentDropped ==
    ASSUME TypeOK, Agents, NEW t \in Tuns, conn' = Released(t), NEW r \in TunnelType,
           r.agent = None, r.online = FALSE, tun' = [tun EXCEPT ![t] = r]
    PROVE  Agents' /\ conn' \in [Conns -> ConnType] /\ tun' \in [Tuns -> TunnelType]
<1>1. /\ conn' \in [Conns -> ConnType]
      /\ \A c \in Conns : conn'[c] = IF c = tun[t].agent THEN NoConn ELSE conn[c]
  BY FreeTypes, Fields DEF Released
<1>2. tun' \in [Tuns -> TunnelType] /\ tun'[t] = r /\ \A u \in Tuns \ {t} : tun'[u] = tun[u]
  BY DEF TypeOK
<1>3. \A u \in Tuns \ {t} : tun[u].agent # None => tun[u].agent \in Conns /\ tun[u].agent # tun[t].agent
  BY Fields DEF Agents, AgentExact
<1>4. \A u \in Tuns \ {t} : tun[u].agent # None => conn'[tun[u].agent] = conn[tun[u].agent]
  BY <1>1, <1>3
<1>5. \A c \in Conns : conn'[c].role = "agent" => conn'[c] = conn[c] /\ conn[c].tun # t
  BY <1>1, FreeTypes DEF Agents, AgentExact
<1>6. \A c \in Conns : conn'[c].role = "agent" => tun'[conn[c].tun].agent = tun[conn[c].tun].agent
  BY <1>2, <1>5 DEF Agents, Named
<1>7. \A c \in Conns : conn'[c].role = "peer" => conn'[c].tun \in Tuns
  BY <1>1, FreeTypes DEF Agents, Named
<1> QED  BY <1>1, <1>2, <1>4, <1>5, <1>6, <1>7, AgentsKept, Zenon DEF Same

\* A connection that registers becomes the one agent of its tunnel.
LEMMA AgentMade ==
    ASSUME TypeOK, Agents, NEW c \in Conns, NEW t \in Tuns, NEW r \in ConnType,
           conn[c].role # "agent", tun[t].reg, tun[t].enabled,
           r.role = "agent", r.tun = t, r.ver = tun[t].secret,
           conn' = [Released(t) EXCEPT ![c] = r],
           tun' = [tun EXCEPT ![t].agent = c, ![t].online = TRUE]
    PROVE  /\ Agents' /\ conn' \in [Conns -> ConnType] /\ tun' \in [Tuns -> TunnelType]
           /\ \A u \in Tuns : tun'[u].reg = tun[u].reg /\ tun'[u].active = tun[u].active
<1>1. /\ conn' \in [Conns -> ConnType] /\ conn'[c] = r
      /\ \A d \in Conns \ {c} : conn'[d] = IF d = tun[t].agent THEN NoConn ELSE conn[d]
  BY FreeTypes, Fields DEF Released
<1>2. /\ tun' \in [Tuns -> TunnelType] /\ \A u \in Tuns \ {t} : tun'[u] = tun[u]
      /\ tun'[t].agent = c /\ tun'[t].online = TRUE /\ Same(tun'[t], tun[t])
      /\ tun'[t].active = tun[t].active
  <2>1. tun \in [Tuns -> TunnelType] /\ tun' = [tun EXCEPT ![t] = WithAgent(tun[t], c, TRUE)]
    BY Zenon DEF TypeOK, WithAgent
  <2> DEFINE z == WithAgent(tun[t], c, TRUE)
  <2>2. tun[t] \in TunnelType /\ c \in Conns \cup {None} /\ TRUE \in BOOLEAN
    BY <2>1
  <2>3. z \in TunnelType /\ Same(z, tun[t]) /\ z.agent = c /\ z.online = TRUE /\ z.active = tun[t].active
    BY <2>2, SetAgent, Zenon
  <2> QED  BY ONLY t \in Tuns, <2>1, <2>3, Zenon
<1>3. c # None
  BY ControlAssumption
<1>4. \A u \in Tuns \ {t} : tun[u].agent # None =>
         tun[u].agent \in Conns \ {c} /\ tun[u].agent # tun[t].agent
  BY Fields DEF Agents, AgentExact
<1>5. \A u \in Tuns \ {t} : tun[u].agent # None => conn'[tun[u].agent] = conn[tun[u].agent]
  BY <1>1, <1>4
<1>6. \A d \in Conns \ {c} : conn'[d].role = "agent" => conn'[d] = conn[d] /\ conn[d].tun \in Tuns \ {t}
  BY <1>1, FreeTypes DEF Agents, AgentExact, Named
<1>7. AgentExact'
  <2>1. \A u \in Tuns : tun'[u].online <=> tun'[u].agent # None
    BY <1>2, <1>3 DEF Agents, AgentExact
  <2>2. \A u \in Tuns : tun'[u].agent # None =>
           conn'[tun'[u].agent].role = "agent" /\ conn'[tun'[u].agent].tun = u
    BY <1>1, <1>2, <1>5 DEF Agents, AgentExact
  <2>3. \A d \in Conns : conn'[d].role = "agent" => tun'[conn'[d].tun].agent = d
    BY <1>1, <1>2, <1>6 DEF Agents, AgentExact
  <2> QED  BY <2>1, <2>2, <2>3, Zenon DEF AgentExact
<1>8. AgentAuthorised'
  BY <1>1, <1>2, <1>5 DEF Agents, AgentExact, AgentAuthorised, Same
<1>9. Named'
  BY <1>1, <1>6, FreeTypes DEF Agents, Named
<1> QED  BY <1>1, <1>2, <1>7, <1>8, <1>9 DEF Agents, Same

\* OPEN_STREAM to the agent of t, after the block of a peer's connection was
\* perhaps released: the agent stays, or is dropped when the write fails.
LEMMA AgentTold ==
    ASSUME TypeOK, Agents, NEW t \in Tuns, tun[t].online, NEW cn \in [Conns -> ConnType],
           \A c \in Conns : cn[c] = conn[c] \/ (cn[c] = NoConn /\ conn[c].role # "agent"),
           SendOpen(t, cn, [tun EXCEPT ![t].active = @ + 1])
    PROVE  /\ Agents' /\ conn' \in [Conns -> ConnType] /\ tun' \in [Tuns -> TunnelType]
           /\ \A u \in Tuns : tun'[u].reg = tun[u].reg
           /\ \A u \in Tuns : tun'[u].active = IF u = t THEN tun[u].active + 1 ELSE tun[u].active
<1> DEFINE tn == [tun EXCEPT ![t].active = @ + 1]
           a == tun[t].agent
<1>1. a \in Conns /\ conn[a].role = "agent" /\ conn[a].tun = t
  BY Fields DEF Agents, AgentExact
<1>2. /\ tn \in [Tuns -> TunnelType] /\ \A u \in Tuns \ {t} : tn[u] = tun[u]
      /\ tn[t].agent = a /\ tn[t].online = tun[t].online /\ Same(tn[t], tun[t])
      /\ tn[t].active = tun[t].active + 1
  <2>1. tun[t].active + 1 \in Nat
    BY Fields
  <2>2. tun \in [Tuns -> TunnelType] /\ tn = [tun EXCEPT ![t] = WithActive(tun[t], tun[t].active + 1)]
    BY DEF TypeOK, WithActive
  <2> HIDE DEF tn
  <2> QED  BY <2>1, <2>2, SetActive, Zenon
<1>3. \A u \in Tuns : tun[u].agent # None => tun[u].agent \in Conns /\ cn[tun[u].agent] = conn[tun[u].agent]
  BY Fields DEF Agents, AgentExact
<1>4. \A c \in Conns : cn[c].role \in {"agent", "peer"} => cn[c] = conn[c] /\ conn[c].tun \in Tuns
  BY FreeTypes DEF Agents, Named
<1> HIDE DEF tn
<1>5. CASE conn' = cn /\ tun' = tn
  <2>1. Agents'
    BY <1>2, <1>3, <1>4, <1>5, AgentsKept, Zenon DEF Same
  <2> QED  BY <1>2, <1>5, <2>1 DEF Same
<1>6. CASE conn' = [cn EXCEPT ![a] = NoConn] /\ tun' = [tn EXCEPT ![t].agent = None, ![t].online = FALSE]
  <2>1. /\ conn' \in [Conns -> ConnType] /\ conn'[a] = NoConn /\ \A c \in Conns \ {a} : conn'[c] = cn[c]
    BY <1>1, <1>6, FreeTypes
  <2>2. /\ tun' \in [Tuns -> TunnelType] /\ \A u \in Tuns \ {t} : tun'[u] = tun[u]
        /\ tun'[t].agent = None /\ tun'[t].online = FALSE /\ tun'[t].reg = tun[t].reg
        /\ tun'[t].active = tun[t].active + 1
    <3>1. tun' = [tn EXCEPT ![t] = WithAgent(tn[t], None, FALSE)]
      BY <1>2, <1>6, Zenon DEF WithAgent
    <3> DEFINE z == WithAgent(tn[t], None, FALSE)
    <3>2. tn[t] \in TunnelType /\ None \in Conns \cup {None} /\ FALSE \in BOOLEAN
      BY <1>2
    <3>3. z \in TunnelType /\ Same(z, tn[t]) /\ z.agent = None /\ z.online = FALSE /\ z.active = tn[t].active
      BY <3>2, SetAgent, Zenon
    <3> QED  BY <1>2, <3>1, <3>3, Zenon DEF Same
  <2>3. \A u \in Tuns \ {t} : tun[u].agent # None => conn'[tun[u].agent] = conn[tun[u].agent]
    BY <1>1, <1>3, <2>1 DEF Agents, AgentExact
  <2>4. \A c \in Conns : conn'[c].role = "agent" => conn'[c] = conn[c] /\ conn[c].tun \in Tuns \ {t}
    BY <1>1, <1>4, <2>1, FreeTypes DEF Agents, AgentExact
  <2>5. \A c \in Conns : conn'[c].role = "peer" => conn'[c].tun \in Tuns
    BY <1>4, <2>1, FreeTypes
  <2>6. Agents'
    BY <2>2, <2>3, <2>4, <2>5, AgentsKept, Zenon DEF Same
  <2> QED  BY <2>1, <2>2, <2>6
<1> QED  BY <1>2, <1>5, <1>6 DEF SendOpen, tn
----------------------------------------------------------------------------
(* Counts *)

\* The streams that exist.
Used == {s \in Slots : strm[s].tun # None}

\* The sets that are counted are finite, and their members are blocks.
LEMMA Finite ==
    /\ IsFiniteSet(Used) /\ Cardinality(Used) \in Nat
    /\ \A t : Streams(t) \subseteq Slots /\ IsFiniteSet(Streams(t)) /\ Cardinality(Streams(t)) \in Nat
    /\ \A t : Pending(t) \subseteq Streams(t) /\ IsFiniteSet(Pending(t)) /\ Cardinality(Pending(t)) \in Nat
<1>1. Used \subseteq Slots /\ \A t : Streams(t) \subseteq Slots /\ Pending(t) \subseteq Slots
  BY DEF Used, Streams, Pending
<1>2. \A S : S \subseteq Slots => IsFiniteSet(S) /\ Cardinality(S) \in Nat
  BY ControlAssumption, FS_Subset, FS_CardinalityType
<1> QED  BY <1>1, <1>2 DEF Pending

\* Nothing is counted anew when no stream comes, goes or becomes pending.
LEMMA SameCounts ==
    ASSUME TypeOK, Books, stream_count' = stream_count,
           \A s \in Slots : strm'[s].tun = strm[s].tun /\ (strm[s].bound => strm'[s].bound),
           \A t \in Tuns : tun'[t].active = tun[t].active /\ tun'[t].reg = tun[t].reg
    PROVE  Books'
<1>1. Used' = Used /\ \A t : Streams(t)' = Streams(t)
  BY DEF Used, Streams
<1>2. \A t : Pending(t)' \subseteq Pending(t)
  BY DEF Pending, Streams
<1>3. CountsExact'
  BY <1>1, Zenon DEF Books, CountsExact, Used
<1>4. \A t : Cardinality(Pending(t)') <= Cardinality(Pending(t))
  BY <1>2, Finite, FS_Subset
<1>5. \A t : Cardinality(Pending(t)') \in Nat
  BY <1>2, Finite, FS_Subset, FS_CardinalityType
<1>6. PendingCapClosed'
  <2> SUFFICES ASSUME NEW t \in ClosedTuns
               PROVE  Cardinality(Pending(t)') <= MaxPending
    BY DEF PendingCapClosed
  <2> QED  BY <1>4, <1>5, Finite, ControlAssumption DEF Books, PendingCapClosed
<1> QED  BY <1>3, <1>6 DEF Books
\* A new stream is counted once, within the caps that were looked at.
LEMMA CreatedCounts ==
    ASSUME TypeOK, Books, NEW t \in Tuns, NEW s \in Slots, strm[s].tun = None,
           tun[t].reg, HasRoom(t), t \in ClosedTuns => Cardinality(Pending(t)) < MaxPending,
           NEW r \in StreamType, r.tun = t, strm' = [strm EXCEPT ![s] = r],
           stream_count' = stream_count + 1,
           \A u \in Tuns : tun'[u].reg = tun[u].reg,
           \A u \in Tuns : tun'[u].active = IF u = t THEN tun[u].active + 1 ELSE tun[u].active
    PROVE  Books'
<1>1. /\ strm'[s] = r /\ \A x \in Slots \ {s} : strm'[x] = strm[x]
      /\ t # None
  BY ControlAssumption DEF TypeOK
<1>2. /\ Used' = Used \cup {s} /\ s \notin Used /\ Streams(t)' = Streams(t) \cup {s} /\ s \notin Streams(t)
      /\ \A u \in Tuns \ {t} : Streams(u)' = Streams(u)
  <2>1. \A x \in Slots : strm'[x].tun = IF x = s THEN t ELSE strm[x].tun
    BY <1>1
  <2>2. Used' = Used \cup {s} /\ s \notin Used
    BY <1>1, <2>1 DEF Used
  <2>3. \A u \in Tuns : Streams(u)' = IF u = t THEN Streams(t) \cup {s} ELSE Streams(u)
    BY <2>1, ControlAssumption DEF Streams
  <2>4. s \notin Streams(t)
    BY <1>1 DEF Streams
  <2> QED  BY <2>2, <2>3, <2>4
<1>3. /\ Pending(t)' \subseteq Pending(t) \cup {s} /\ s \notin Pending(t)
      /\ \A u \in Tuns \ {t} : Pending(u)' = Pending(u)
  BY <1>1, <1>2 DEF Pending, Streams
<1>4. Cardinality(Used') = Cardinality(Used) + 1 /\ Cardinality(Streams(t)') = Cardinality(Streams(t)) + 1
  <2>1. /\ Cardinality(Used \cup {s}) = Cardinality(Used) + 1
        /\ Cardinality(Streams(t) \cup {s}) = Cardinality(Streams(t)) + 1
    BY <1>2, Finite, FS_AddElement, Zenon
  <2> QED  BY <1>2, <2>1
<1>5. CountsExact'
  <2>1. /\ stream_count = Cardinality(Used) /\ stream_count < MaxStreams
        /\ tun[t].active = Cardinality(Streams(t)) /\ tun[t].active < MaxPerTunnel
        /\ MaxStreams \in Nat /\ MaxPerTunnel \in Nat
    BY ControlAssumption DEF Books, CountsExact, HasRoom, Used
  <2>2. stream_count' = Cardinality(Used') /\ stream_count' <= MaxStreams
    BY <1>4, <2>1, Finite
  <2>3. tun'[t].active = Cardinality(Streams(t)') /\ tun'[t].active <= MaxPerTunnel
    BY <1>4, <2>1, Finite
  <2>4. \A u \in Tuns \ {t} :
           /\ tun'[u].active = Cardinality(Streams(u)') /\ tun'[u].active <= MaxPerTunnel
           /\ ~tun'[u].reg => Streams(u)' = {}
    BY <1>2 DEF Books, CountsExact
  <2> QED  BY <2>2, <2>3, <2>4 DEF CountsExact, Used
<1>6. PendingCapClosed'
  <2> SUFFICES ASSUME NEW u \in ClosedTuns
               PROVE  Cardinality(Pending(u)') <= MaxPending
    BY DEF PendingCapClosed
  <2>1. CASE u = t
    <3>1. Cardinality(Pending(t) \cup {s}) = Cardinality(Pending(t)) + 1 /\ IsFiniteSet(Pending(t) \cup {s})
      BY <1>3, Finite, FS_AddElement
    <3>2. Cardinality(Pending(t)') <= Cardinality(Pending(t)) + 1 /\ Cardinality(Pending(t)') \in Nat
      BY <1>3, <3>1, FS_Subset, FS_CardinalityType
    <3> QED  BY <2>1, <3>2, Finite, ControlAssumption
  <2>2. CASE u # t
    BY <1>3, <2>2, ControlAssumption DEF Books, PendingCapClosed
  <2> QED  BY <2>1, <2>2
<1> QED  BY <1>5, <1>6 DEF Books

\* Streams of a tunnel that are closed are counted off, one by one or all.
LEMMA ClosedCounts ==
    ASSUME TypeOK, Books, NEW t \in Tuns, NEW S \in SUBSET Streams(t), CloseStreams(S),
           \A u \in Tuns \ {t} : tun'[u].active = tun[u].active /\ tun'[u].reg = tun[u].reg,
           tun'[t].active = tun[t].active - Cardinality(S),
           tun'[t].reg = tun[t].reg \/ S = Streams(t)
    PROVE  Books'
<1>1. \A x \in Slots : strm'[x] = IF x \in S THEN NoStream ELSE strm[x]
  BY DEF CloseStreams
<1>2. t # None /\ S \subseteq Used /\ IsFiniteSet(S) /\ Cardinality(S) \in Nat
  BY ControlAssumption, Finite, FS_Subset, FS_CardinalityType DEF Used, Streams
<1>3. /\ Used' = Used \ S /\ Streams(t)' = Streams(t) \ S
      /\ \A u \in Tuns \ {t} : Streams(u)' = Streams(u)
  BY <1>1, <1>2, FreeTypes, ControlAssumption DEF Used, Streams
<1>4. \A u \in Tuns : Pending(u)' \subseteq Pending(u)
  BY <1>1, FreeTypes, ControlAssumption DEF Pending, Streams
<1>5. /\ Cardinality(Used') = Cardinality(Used) - Cardinality(S)
      /\ Cardinality(Streams(t)') = Cardinality(Streams(t)) - Cardinality(S)
  <2>1. Used \cap S = S /\ Streams(t) \cap S = S
    BY <1>2
  <2>2. /\ Cardinality(Used \ S) = Cardinality(Used) - Cardinality(Used \cap S)
        /\ Cardinality(Streams(t) \ S) = Cardinality(Streams(t)) - Cardinality(Streams(t) \cap S)
    BY Finite, FS_Difference, Zenon
  <2> QED  BY <1>3, <2>1, <2>2, Zenon
<1>6. CountsExact'
  <2>1. /\ stream_count = Cardinality(Used) /\ stream_count <= MaxStreams
        /\ tun[t].active = Cardinality(Streams(t)) /\ tun[t].active <= MaxPerTunnel
        /\ MaxStreams \in Nat /\ MaxPerTunnel \in Nat
    BY ControlAssumption DEF Books, CountsExact, Used
  <2>2. stream_count' = Cardinality(Used') /\ stream_count' <= MaxStreams
    BY <1>2, <1>5, <2>1, Finite DEF CloseStreams
  <2>3. tun'[t].active = Cardinality(Streams(t)') /\ tun'[t].active <= MaxPerTunnel
    BY <1>2, <1>5, <2>1, Finite
  <2>4. \A u \in Tuns \ {t} :
           /\ tun'[u].active = Cardinality(Streams(u)') /\ tun'[u].active <= MaxPerTunnel
           /\ ~tun'[u].reg => Streams(u)' = {}
    BY <1>3 DEF Books, CountsExact
  <2>5. ~tun'[t].reg => Streams(t)' = {}
    BY <1>3 DEF Books, CountsExact
  <2> QED  BY <2>2, <2>3, <2>4, <2>5 DEF CountsExact, Used
<1>7. PendingCapClosed'
  <2> SUFFICES ASSUME NEW u \in ClosedTuns
               PROVE  Cardinality(Pending(u)') <= MaxPending
    BY DEF PendingCapClosed
  <2>1. Cardinality(Pending(u)') <= Cardinality(Pending(u)) /\ Cardinality(Pending(u)') \in Nat
    BY <1>4, Finite, FS_Subset, FS_CardinalityType, ControlAssumption
  <2> QED  BY <2>1, Finite, ControlAssumption DEF Books, PendingCapClosed
<1> QED  BY <1>6, <1>7 DEF Books
----------------------------------------------------------------------------
(* Every callback keeps the invariant *)

\* A callback that touches one connection which is not an agent's.
LEMMA ConnStep ==
    ASSUME IInv, NEW c \in Conns, conn[c].role # "agent", NEW r \in ConnType,
           r.role # "agent", r.role = "peer" => r.tun \in Tuns, conn' = [conn EXCEPT ![c] = r],
           UNCHANGED <<tun, strm, opened, stream_count, phase, corrupt>>
    PROVE  IInv'
<1>1. TypeOK /\ Agents /\ Books
  BY DEF IInv
<1>2. Agents' /\ conn' \in [Conns -> ConnType]
  BY <1>1, ConnKept, Zenon DEF Same
<1>3. Books'
  BY <1>1, SameCounts
<1>4. TypeOK'
  BY <1>1, <1>2 DEF TypeOK
<1> QED  BY <1>2, <1>3, <1>4 DEF IInv, Bindings, Numbered, BoundToItsOpen

\* A callback that drops the agent of t and sets other flags of t.
LEMMA DropStep ==
    ASSUME IInv, NEW t \in Tuns, conn' = Released(t), NEW r \in TunnelType,
           r.agent = None, r.online = FALSE, r.reg = tun[t].reg, r.active = tun[t].active,
           tun' = [tun EXCEPT ![t] = r], UNCHANGED <<strm, opened, stream_count, phase, corrupt>>
    PROVE  IInv'
<1>1. TypeOK /\ Agents /\ Books
  BY DEF IInv
<1>2. Agents' /\ conn' \in [Conns -> ConnType] /\ tun' \in [Tuns -> TunnelType]
  BY <1>1, AgentDropped, Zenon
<1>3. \A u \in Tuns : tun'[u].active = tun[u].active /\ tun'[u].reg = tun[u].reg
  BY <1>1 DEF TypeOK
<1>4. Books'
  BY <1>1, <1>3, SameCounts
<1>5. TypeOK'
  BY <1>1, <1>2 DEF TypeOK
<1> QED  BY <1>2, <1>4, <1>5 DEF IInv, Bindings, Numbered, BoundToItsOpen

\* An accepted connection, the end of its handshake, its end, and HELLO.
LEMMA ConnectionSteps ==
    ASSUME IInv, NEW c \in Conns,
           on_control_accept(c) \/ conn_ready(c) \/ conn_close(c) \/ hello(c)
    PROVE  IInv'
<1>1. conn \in [Conns -> ConnType] /\ conn[c] \in ConnType
  BY DEF IInv, TypeOK
<1>2. CASE on_control_accept(c)
  <2> DEFINE r == [NoConn EXCEPT !.role = "new", !.hs = TRUE]
  <2>1. r \in ConnType /\ r.role = "new"
    BY FreeTypes, Zenon DEF ConnType
  <2>2. conn' = [conn EXCEPT ![c] = r] /\ conn[c].role # "agent"
    BY <1>2 DEF on_control_accept
  <2>3. UNCHANGED <<tun, strm, opened, stream_count, phase, corrupt>>
    BY <1>2 DEF on_control_accept
  <2> HIDE DEF r
  <2> QED  BY <2>1, <2>2, <2>3, ConnStep, Zenon
<1>3. CASE conn_ready(c)
  <2> DEFINE r == [conn[c] EXCEPT !.hs = FALSE]
  <2>1. r \in ConnType /\ r.role = conn[c].role
    BY <1>1, Zenon DEF ConnType
  <2>2. conn' = [conn EXCEPT ![c] = r] /\ conn[c].role = "new"
    BY <1>3 DEF conn_ready
  <2>3. UNCHANGED <<tun, strm, opened, stream_count, phase, corrupt>>
    BY <1>3 DEF conn_ready
  <2> HIDE DEF r
  <2> QED  BY <2>1, <2>2, <2>3, ConnStep, Zenon
<1>4. CASE conn_close(c)
  <2>1. conn' = [conn EXCEPT ![c] = NoConn] /\ conn[c].role # "agent"
    BY <1>4 DEF conn_close, Waiting
  <2>2. UNCHANGED <<tun, strm, opened, stream_count, phase, corrupt>>
    BY <1>4 DEF conn_close
  <2> QED  BY <2>1, <2>2, ConnStep, FreeTypes, Zenon
<1>5. CASE hello(c)
  <2> DEFINE r == [conn[c] EXCEPT !.role = "hello"]
  <2>1. r \in ConnType /\ r.role = "hello"
    BY <1>1 DEF ConnType
  <2>2. conn' = [conn EXCEPT ![c] = r] /\ conn[c].role = "new"
    BY <1>5 DEF hello, Ready
  <2>3. UNCHANGED <<tun, strm, opened, stream_count, phase, corrupt>>
    BY <1>5 DEF hello
  <2> HIDE DEF r
  <2> QED  BY <2>1, <2>2, <2>3, ConnStep, Zenon
<1> QED  BY <1>2, <1>3, <1>4, <1>5

\* REGISTER, accepted or refused.
LEMMA RegisterStep ==
    ASSUME IInv, NEW c \in Conns, NEW t \in Tuns, NEW v \in Versions, agent_register(c, t, v)
    PROVE  IInv'
<1> DEFINE r == InRole("agent", t, v)
<1>1. r \in ConnType /\ r.role = "agent" /\ r.tun = t /\ r.ver = v
  BY RoleTypes
<1> HIDE DEF r
<1>2. conn[c].role # "agent" /\ UNCHANGED <<strm, opened, stream_count, phase, corrupt>>
  BY DEF agent_register, Ready
<1>3. TypeOK /\ Agents /\ Books
  BY DEF IInv
<1>4. CASE tun[t].reg /\ tun[t].enabled /\ v = tun[t].secret
  <2>1. /\ conn' = [Released(t) EXCEPT ![c] = r]
        /\ tun' = [tun EXCEPT ![t].agent = c, ![t].online = TRUE]
    BY <1>4 DEF agent_register, r, InRole
  <2>2. /\ Agents' /\ conn' \in [Conns -> ConnType] /\ tun' \in [Tuns -> TunnelType]
        /\ \A u \in Tuns : tun'[u].reg = tun[u].reg /\ tun'[u].active = tun[u].active
    BY <1>1, <1>2, <1>3, <1>4, <2>1, AgentMade, Zenon
  <2>3. Books'
    BY <1>2, <1>3, <2>2, SameCounts
  <2>4. TypeOK'
    BY <1>2, <1>3, <2>2 DEF TypeOK
  <2> QED  BY <1>2, <2>2, <2>3, <2>4 DEF IInv, Bindings, Numbered, BoundToItsOpen
<1>5. CASE ~(tun[t].reg /\ tun[t].enabled /\ v = tun[t].secret)
  <2>1. conn' = [conn EXCEPT ![c] = NoConn] /\ UNCHANGED tun
    BY <1>5 DEF agent_register
  <2> QED  BY <1>2, <2>1, ConnStep, FreeTypes, Zenon
<1> QED  BY <1>4, <1>5

\* PEER_AUTH, accepted or refused.
LEMMA PeerStep ==
    ASSUME IInv, NEW c \in Conns, NEW t \in Tuns, NEW v \in Versions, peer_auth(c, t, v)
    PROVE  IInv'
<1> DEFINE p == InRole("peer", t, v)
           r == IF tun[t].reg /\ tun[t].enabled /\ t \in ClosedTuns /\ v = tun[t].token THEN p ELSE NoConn
<1>1. p \in ConnType /\ p.role = "peer" /\ p.tun = t
  BY RoleTypes
<1>2. conn' = [conn EXCEPT ![c] = r]
  BY DEF peer_auth, InRole
<1> HIDE DEF p
<1>3. r \in ConnType /\ r.role # "agent" /\ (r.role = "peer" => r.tun \in Tuns)
  BY <1>1, FreeTypes
<1> HIDE DEF r
<1>4. conn[c].role # "agent" /\ UNCHANGED <<tun, strm, opened, stream_count, phase, corrupt>>
  BY DEF peer_auth, Ready
<1> QED  BY <1>2, <1>3, <1>4, ConnStep, Zenon
\* The agent of t goes: it fails, the tunnel is disabled or its secret rotated.
LEMMA DropSteps ==
    ASSUME IInv, NEW t \in Tuns, tm_agent_drop(t) \/ disable_tunnel(t) \/ rotate_agent_secret(t)
    PROVE  IInv'
<1> DEFINE x == WithAgent(tun[t], None, FALSE)
<1>1. tun \in [Tuns -> TunnelType] /\ tun[t] \in TunnelType /\ tun[t].secret \in Versions
  BY Fields DEF IInv, TypeOK
<1>2. x \in TunnelType /\ Same(x, tun[t]) /\ x.agent = None /\ x.online = FALSE /\ x.active = tun[t].active
  <2>1. None \in Conns \cup {None} /\ FALSE \in BOOLEAN
    OBVIOUS
  <2> QED  BY <1>1, <2>1, SetAgent, Zenon
<1>3. conn' = Released(t) /\ UNCHANGED <<strm, opened, stream_count, phase, corrupt>>
  BY DEF tm_agent_drop, disable_tunnel, rotate_agent_secret
<1>4. CASE tm_agent_drop(t)
  <2>1. tun' = [tun EXCEPT ![t] = x]
    BY <1>1, <1>4, Zenon DEF tm_agent_drop, WithoutAgent, WithAgent
  <2> HIDE DEF x
  <2> QED  BY <1>2, <1>3, <2>1, DropStep, Zenon DEF Same
<1>5. CASE disable_tunnel(t)
  <2> DEFINE y == [x EXCEPT !.enabled = FALSE]
  <2>1. tun' = [tun EXCEPT ![t] = y]
    BY <1>1, <1>5, Zenon DEF disable_tunnel, WithoutAgent, WithAgent
  <2> HIDE DEF x
  <2>2. /\ y \in TunnelType /\ y.reg = x.reg /\ y.agent = None /\ y.online = FALSE
        /\ y.active = tun[t].active
    BY <1>2, Zenon DEF TunnelType
  <2> HIDE DEF y
  <2> QED  BY <1>2, <1>3, <2>1, <2>2, DropStep, Zenon DEF Same
<1>6. CASE rotate_agent_secret(t)
  <2> DEFINE y == [x EXCEPT !.secret = tun[t].secret + 1]
  <2>1. tun[t].secret + 1 \in Versions
    BY <1>1, <1>6, ControlAssumption DEF rotate_agent_secret, Versions
  <2>2. tun' = [tun EXCEPT ![t] = y]
    <3>1. WithoutAgent(t) = [tun EXCEPT ![t] = x]
      BY <1>1, Zenon DEF WithoutAgent, WithAgent
    <3>2. tun' = [WithoutAgent(t) EXCEPT ![t].secret = @ + 1]
      BY <1>6 DEF rotate_agent_secret
    <3> HIDE DEF x
    <3>3. x.secret = tun[t].secret
      BY <1>2 DEF Same
    <3> QED  BY <1>1, <3>1, <3>2, <3>3, Zenon
  <2> HIDE DEF x
  <2>3. /\ y \in TunnelType /\ y.reg = x.reg /\ y.agent = None /\ y.online = FALSE
        /\ y.active = tun[t].active
    BY <1>2, <2>1 DEF TunnelType
  <2> HIDE DEF y
  <2> QED  BY <1>2, <1>3, <2>2, <2>3, DropStep, Zenon DEF Same
<1> QED  BY <1>4, <1>5, <1>6

\* The tunnel is enabled, when it has no agent, or its token is rotated, which
\* is nothing to its agent.
LEMMA FlagSteps ==
    ASSUME IInv, NEW t \in Tuns, enable_tunnel(t) \/ rotate_shared_token(t)
    PROVE  IInv'
<1>1. /\ TypeOK /\ Agents /\ Books /\ tun \in [Tuns -> TunnelType]
      /\ tun[t] \in TunnelType /\ tun[t].token \in Versions /\ tun[t].online \in BOOLEAN
  BY Fields DEF IInv, TypeOK
<1>2. UNCHANGED <<conn, strm, opened, stream_count, phase, corrupt>>
  BY DEF enable_tunnel, rotate_shared_token
<1>3. /\ tun' \in [Tuns -> TunnelType] /\ \A u \in Tuns \ {t} : tun'[u] = tun[u]
      /\ tun'[t].reg = tun[t].reg /\ tun'[t].active = tun[t].active
      /\ tun'[t].agent = tun[t].agent /\ tun'[t].online = tun[t].online
      /\ Same(tun'[t], tun[t]) \/ tun[t].agent = None
  <2>1. CASE enable_tunnel(t)
    <3> DEFINE y == [tun[t] EXCEPT !.enabled = TRUE]
    <3>1. tun' = [tun EXCEPT ![t] = y] /\ ~tun[t].enabled
      BY <2>1 DEF enable_tunnel
    <3>2. /\ y \in TunnelType /\ y.reg = tun[t].reg /\ y.agent = tun[t].agent
          /\ y.online = tun[t].online /\ y.active = tun[t].active
      BY <1>1, Zenon DEF TunnelType
    <3> HIDE DEF y
    <3>3. tun[t].agent = None
      BY <1>1, <3>1 DEF Agents, AgentExact, AgentAuthorised
    <3> QED  BY <1>1, <3>1, <3>2, <3>3
  <2>2. CASE rotate_shared_token(t)
    <3> DEFINE y == [tun[t] EXCEPT !.token = tun[t].token + 1]
    <3>1. tun' = [tun EXCEPT ![t] = y]
      BY <2>2 DEF rotate_shared_token
    <3>2. tun[t].token + 1 \in Versions
      BY <1>1, <2>2, ControlAssumption DEF rotate_shared_token, Versions
    <3>3. /\ y \in TunnelType /\ Same(y, tun[t]) /\ y.reg = tun[t].reg /\ y.agent = tun[t].agent
          /\ y.online = tun[t].online /\ y.active = tun[t].active
      BY <1>1, <3>2 DEF TunnelType, Same
    <3> HIDE DEF y
    <3> QED  BY <1>1, <3>1, <3>3
  <2> QED  BY <2>1, <2>2
<1>4. Agents'
  <2>1. tun'[t].agent = None => tun'[t].online = FALSE
    BY <1>1, <1>3, Zenon DEF Agents, AgentExact
  <2> QED  BY <1>1, <1>2, <1>3, <2>1, AgentsKept, Zenon DEF Same, Agents, Named
<1>5. Books'
  BY <1>1, <1>2, <1>3, SameCounts
<1>6. TypeOK'
  BY <1>1, <1>2, <1>3 DEF TypeOK
<1> QED  BY <1>2, <1>4, <1>5, <1>6 DEF IInv, Bindings, Numbered, BoundToItsOpen
\* The number of a new stream and its id have their types, and so has the
\* history of OPEN_STREAM frames afterwards.
LEMMA IdTypes ==
    ASSUME TypeOK, NEW t \in Tuns
    PROVE  /\ Number(t) \in Nat \ {0} /\ IdOf(Number(t)) \in 0 .. IdMod - 1
           /\ [opened EXCEPT ![Kind(t)] = Append(@, t)] \in [Kinds -> Seq(Tuns)]
<1>1. IdMod \in Nat /\ IdMod > 1
  BY ControlAssumption
<1>2. \A n \in Nat : n % IdMod \in 0 .. IdMod - 1
  BY <1>1
<1>3. Kind(t) \in Kinds /\ opened[Kind(t)] \in Seq(Tuns) /\ opened \in [Kinds -> Seq(Tuns)]
  BY DEF TypeOK, Kind, Kinds
<1>4. Append(opened[Kind(t)], t) \in Seq(Tuns)
  BY <1>3
<1>5. Number(t) \in Nat \ {0}
  BY <1>3 DEF Number
<1>6. IdOf(Number(t)) \in 0 .. IdMod - 1
  BY <1>1, <1>2, <1>5 DEF IdOf
<1> QED  BY <1>3, <1>4, <1>5, <1>6

\* Numbers below 2^31 are told apart by their ids.
LEMMA IdsDiffer ==
    ASSUME NEW n \in Nat \ {0}, NEW m \in Nat \ {0}, n < IdMod, m < IdMod, IdOf(n) = IdOf(m)
    PROVE  n = m
<1>1. IdMod \in Nat /\ IdMod > 1
  BY ControlAssumption
<1>2. n % IdMod = n /\ m % IdMod = m
  BY <1>1
<1> QED  BY <1>2 DEF IdOf

\* A new stream on a tunnel with an agent, from a public connection or from a
\* peer, whose connection becomes its leg.
LEMMA CreateStep ==
    ASSUME IInv, NEW t \in Tuns, NEW s \in Slots, NEW cn \in [Conns -> ConnType],
           \A c \in Conns : cn[c] = conn[c] \/ (cn[c] = NoConn /\ conn[c].role # "agent"),
           tun[t].reg, tun[t].online, HasRoom(t),
           t \in ClosedTuns => Cardinality(Pending(t)) < MaxPending,
           Create(t, s, cn), UNCHANGED <<phase, corrupt>>
    PROVE  IInv'
<1> DEFINE r == NewStream(t)
<1>1. TypeOK /\ Agents /\ Books /\ Bindings
  BY DEF IInv
<1>2. r \in StreamType /\ r.tun = t /\ ~r.bound /\ r.no # 0 /\ r.id = IdOf(r.no)
  <2>1. Number(t) \in Nat /\ Number(t) # 0 /\ IdOf(Number(t)) \in 0 .. IdMod - 1
    BY <1>1, IdTypes
  <2>2. NoOpen \in OpenType
    BY DEF NoOpen, OpenType
  <2> QED  BY <2>1, <2>2, Zenon DEF StreamType, NewStream
<1>3. /\ strm[s].tun = None /\ strm' = [strm EXCEPT ![s] = r] /\ stream_count' = stream_count + 1
      /\ opened' = [opened EXCEPT ![Kind(t)] = Append(@, t)]
      /\ SendOpen(t, cn, [tun EXCEPT ![t].active = @ + 1])
  BY DEF Create
<1> HIDE DEF r
<1>4. /\ Agents' /\ conn' \in [Conns -> ConnType] /\ tun' \in [Tuns -> TunnelType]
      /\ \A u \in Tuns : tun'[u].reg = tun[u].reg
      /\ \A u \in Tuns : tun'[u].active = IF u = t THEN tun[u].active + 1 ELSE tun[u].active
  BY <1>1, <1>3, AgentTold, Zenon
<1>5. Books'
  BY <1>1, <1>2, <1>3, <1>4, CreatedCounts, Zenon
<1>6. strm' \in [Slots -> StreamType] /\ Bindings'
  BY <1>1, <1>2, <1>3 DEF TypeOK, Bindings, Numbered, BoundToItsOpen
<1>7. TypeOK'
  <2>1. opened' \in [Kinds -> Seq(Tuns)]
    BY <1>1, <1>3, IdTypes
  <2>2. stream_count' \in Nat
    BY <1>1, <1>3 DEF TypeOK
  <2> QED  BY <1>1, <1>4, <1>6, <2>1, <2>2 DEF TypeOK
<1> QED  BY <1>4, <1>5, <1>6, <1>7 DEF IInv

\* A connection is accepted on the public port of an open tunnel.
LEMMA AcceptStep ==
    ASSUME IInv, NEW t \in Tuns, NEW s \in Slots, on_public_accept(t, s)
    PROVE  IInv'
<1>1. /\ tun[t].reg /\ tun[t].online /\ HasRoom(t) /\ Create(t, s, conn) /\ UNCHANGED <<phase, corrupt>>
      /\ t \notin ClosedTuns
  BY DEF on_public_accept, OpenTuns
<1>2. conn \in [Conns -> ConnType]
  BY DEF IInv, TypeOK
<1> QED  BY <1>1, <1>2, CreateStep

\* A peer opens a stream, is refused, or has outlived its tunnel.
LEMMA PeerOpenStep ==
    ASSUME IInv, NEW c \in Conns, NEW s \in Slots, peer_open_stream(c, s)
    PROVE  IInv'
<1> DEFINE t == conn[c].tun
           cn == [conn EXCEPT ![c] = NoConn]
<1>1. TypeOK /\ Agents /\ Books /\ Bindings
  BY DEF IInv
<1>2. conn[c].role = "peer" /\ t \in Tuns /\ UNCHANGED phase
  BY <1>1, Zenon DEF peer_open_stream, Ready, Agents, Named
<1>3. /\ cn \in [Conns -> ConnType]
      /\ \A d \in Conns : cn[d] = conn[d] \/ (cn[d] = NoConn /\ conn[d].role # "agent")
  BY <1>1, <1>2, FreeTypes DEF TypeOK
<1>4. CASE corrupt' = TRUE /\ UNCHANGED <<tun, conn, strm, opened, stream_count>>
  <2>1. TypeOK'
    BY <1>1, <1>2, <1>4 DEF TypeOK
  <2>2. Agents'
    BY <1>1, <1>4, Zenon DEF Agents, AgentExact, AgentAuthorised, Named
  <2>3. Books'
    BY <1>1, <1>4, SameCounts
  <2> QED  BY <1>1, <1>4, <2>1, <2>2, <2>3 DEF IInv, Bindings, Numbered, BoundToItsOpen
<1>5. CASE tun[t].reg /\ Admits(t) /\ Create(t, s, cn) /\ UNCHANGED corrupt
  <2>1. tun[t].online /\ HasRoom(t) /\ Cardinality(Pending(t)) < MaxPending
    BY <1>5 DEF Admits
  <2> HIDE DEF t, cn
  <2> QED  BY <1>2, <1>3, <1>5, <2>1, CreateStep, Zenon
<1>6. CASE conn' = cn /\ UNCHANGED <<tun, strm, opened, stream_count, corrupt>>
  BY <1>2, <1>6, ConnStep, FreeTypes, Zenon
<1> QED  BY <1>4, <1>5, <1>6, Zenon DEF peer_open_stream

\* What DATA_BIND changes when it answers number n on tunnel t.
BindsTo(s, t, n, v) ==
    Binds(s, t, v) /\ strm' = [strm EXCEPT ![s].bound = TRUE, ![s].by = [tun |-> t, no |-> n]]

\* DATA_BIND of a data connection: the stream it finds is bound or left alone.
LEMMA BindStep ==
    ASSUME IInv, NEW c \in Conns, NEW k \in Kinds, NEW n \in 1 .. MaxOpens, NEW v \in Versions,
           data_conn_first_frame(c, k, n, v)
    PROVE  IInv'
<1> DEFINE id == IdOf(n)
           t == opened[k][n]
<1>1. TypeOK /\ Agents /\ Books /\ Bindings
  BY DEF IInv
<1>2. /\ conn[c].role # "agent" /\ conn' = [conn EXCEPT ![c] = NoConn]
      /\ UNCHANGED <<tun, opened, stream_count, phase, corrupt>>
  BY DEF data_conn_first_frame, Ready
<1>0. t \in Tuns /\ n \in Nat \ {0}
  <2>1. n \in DOMAIN opened[k] /\ opened[k] \in Seq(Tuns)
    BY <1>1 DEF data_conn_first_frame, TypeOK
  <2>2. n \in Nat \ {0}
    BY ControlAssumption
  <2> QED  BY <2>1, <2>2
<1>3. CASE UNCHANGED strm
  BY <1>2, <1>3, ConnStep, FreeTypes, Zenon
<1>4. CASE \E s \in Found(id) : BindsTo(s, t, n, v)
  <2>1. PICK s \in Found(id) : BindsTo(s, t, n, v)
    BY <1>4, Zenon
  <2>2. s \in Slots
    BY DEF Found, Streams
  <2> DEFINE x == [strm[s] EXCEPT !.bound = TRUE]
             o == [tun |-> t, no |-> n]
             y == [x EXCEPT !.by = o]
  <2> HIDE DEF t, id
  <2>3. strm[s] \in StreamType /\ strm[s].tun = t
    BY <1>1, <2>1, <2>2 DEF TypeOK, BindsTo, Binds
  <2>4. strm' = [strm EXCEPT ![s] = y]
    BY <1>1, <2>1, <2>2, Zenon DEF TypeOK, BindsTo
  <2>5. x \in StreamType /\ x.tun = t /\ x.bound /\ x.no = strm[s].no /\ x.id = strm[s].id
    BY <2>3, Zenon DEF StreamType
  <2>12. strm[s].id = id /\ strm[s].no \in Nat \ {0} /\ id = IdOf(strm[s].no)
    <3>1. strm[s].id = id
      BY DEF Found
    <3>2. strm[s].tun # None /\ strm[s].no \in Nat
      BY <1>0, <2>3, ControlAssumption DEF StreamType
    <3> QED  BY <1>1, <2>2, <3>1, <3>2 DEF Bindings, Numbered
  <2>13. o \in OpenType /\ o.no = n
    BY <1>0 DEF OpenType
  <2> HIDE DEF x, o
  <2>6. /\ y \in StreamType /\ y.tun = t /\ y.bound /\ y.by = o
        /\ y.no = strm[s].no /\ y.id = strm[s].id
    BY <2>5, <2>13 DEF StreamType
  <2> HIDE DEF y
  <2>7. /\ strm' \in [Slots -> StreamType] /\ strm'[s] = y
        /\ \A z \in Slots \ {s} : strm'[z] = strm[z]
    BY <1>1, <2>2, <2>4, <2>6 DEF TypeOK
  <2>8. Bindings'
    <3>1. strm[s].no < IdMod /\ n < IdMod => n = strm[s].no
      BY <1>0, <2>12, IdsDiffer DEF id
    <3>2. strm[s].no < IdMod /\ n < IdMod => o = [tun |-> t, no |-> strm[s].no]
      BY <3>1 DEF o
    <3>3. BoundToItsOpen'
      BY <1>1, <2>6, <2>7, <2>13, <3>2 DEF Bindings, BoundToItsOpen
    <3>4. Numbered'
      BY <1>1, <2>3, <2>6, <2>7, Zenon DEF Bindings, Numbered
    <3> QED  BY <3>3, <3>4 DEF Bindings
  <2>9. Agents' /\ conn' \in [Conns -> ConnType]
    BY <1>1, <1>2, ConnKept, FreeTypes, Zenon DEF Same
  <2>10. Books'
    BY <1>1, <1>2, <2>3, <2>6, <2>7, SameCounts, Zenon
  <2>11. TypeOK'
    BY <1>1, <1>2, <2>7, <2>9 DEF TypeOK
  <2> QED  BY <2>8, <2>9, <2>10, <2>11 DEF IInv
<1> QED  BY <1>3, <1>4 DEF data_conn_first_frame, BindsTo

\* Closed streams leave the others as they were.
LEMMA ClosedStreams ==
    ASSUME TypeOK, Bindings, NEW S \in SUBSET Slots, CloseStreams(S)
    PROVE  strm' \in [Slots -> StreamType] /\ Bindings'
<1>1. \A x \in Slots : strm'[x] = IF x \in S THEN NoStream ELSE strm[x]
  BY DEF CloseStreams
<1>2. strm' \in [Slots -> StreamType]
  BY FreeTypes, Fields DEF CloseStreams
<1> QED  BY <1>1, <1>2, FreeTypes, Zenon DEF Bindings, Numbered, BoundToItsOpen

\* One stream ends, by its bind timer, its relay or a frame.
LEMMA CloseStep ==
    ASSUME IInv, NEW s \in Slots, stream_bind_timer_cb(s) \/ tm_stream_close(s)
    PROVE  IInv'
<1> DEFINE t == strm[s].tun
           n == tun[t].active
<1>1. TypeOK /\ Agents /\ Books /\ Bindings
  BY DEF IInv
<1>2. /\ t \in Tuns /\ CloseStreams({s}) /\ tun' = LessActive(tun, t, 1)
      /\ UNCHANGED <<conn, opened, phase, corrupt>>
  BY <1>1, Fields DEF stream_bind_timer_cb, tm_stream_close, CloseOne
<1>3. s \in Streams(t) /\ {s} \in SUBSET Streams(t) /\ Cardinality({s}) = 1
  BY FS_Singleton DEF Streams
<1>4. n \in Nat /\ n > 0
  <2>1. n = Cardinality(Streams(t))
    BY <1>1, <1>2, Zenon DEF Books, CountsExact
  <2>2. IsFiniteSet(Streams(t)) /\ Cardinality(Streams(t)) \in Nat
    BY Finite, Zenon
  <2>3. Cardinality(Streams(t)) # 0
    BY ONLY <1>3, <2>2, FS_EmptySet
  <2> QED  BY ONLY <2>1, <2>2, <2>3
<1>5. tun \in [Tuns -> TunnelType] /\ tun' = [tun EXCEPT ![t] = WithActive(tun[t], n - 1)]
  <2>1. tun \in [Tuns -> TunnelType]
    BY <1>1 DEF TypeOK
  <2>2. (IF n > 1 THEN n - 1 ELSE 0) = n - 1
    BY <1>4
  <2>3. tun' = [tun EXCEPT ![t] = WithActive(tun[t], IF n > 1 THEN n - 1 ELSE 0)]
    BY <1>2, <2>1 DEF LessActive, WithActive
  <2> QED  BY <2>1, <2>2, <2>3, Zenon
<1> HIDE DEF t
<1>6. n - 1 \in Nat /\ tun[t] \in TunnelType
  BY <1>2, <1>4, <1>5
<1>7. /\ tun' \in [Tuns -> TunnelType] /\ \A u \in Tuns \ {t} : tun'[u] = tun[u]
      /\ Same(tun'[t], tun[t]) /\ tun'[t].agent = tun[t].agent /\ tun'[t].online = tun[t].online
      /\ tun'[t].active = n - 1
  <2> DEFINE z == WithActive(tun[t], n - 1)
  <2> HIDE DEF n
  <2>1. /\ z \in TunnelType /\ Same(z, tun[t]) /\ z.agent = tun[t].agent /\ z.online = tun[t].online
        /\ z.active = n - 1
    BY <1>6, SetActive
  <2> HIDE DEF z
  <2>2. tun' = [tun EXCEPT ![t] = z]
    BY <1>5 DEF z
  <2> QED  BY ONLY <1>2, <1>5, <2>1, <2>2
<1>8. Agents'
  BY <1>1, <1>2, <1>7, AgentsKept, Zenon DEF Same, Agents, Named
<1>9. Books'
  <2>1. \A u \in Tuns \ {t} : tun'[u].active = tun[u].active /\ tun'[u].reg = tun[u].reg
    BY <1>7, Zenon
  <2>2. tun'[t].active = tun[t].active - Cardinality({s}) /\ tun'[t].reg = tun[t].reg
    BY <1>3, <1>7 DEF Same
  <2> QED  BY <1>1, <1>2, <1>3, <2>1, <2>2, ClosedCounts, Zenon
<1>10. strm' \in [Slots -> StreamType] /\ Bindings'
  BY <1>1, <1>2, ClosedStreams
<1>11. TypeOK'
  <2>1. stream_count' \in Nat
    BY <1>9, FS_CardinalityType, Finite, ControlAssumption, FS_Subset, Zenon DEF Books, CountsExact
  <2> QED  BY <1>1, <1>2, <1>7, <1>10, <2>1 DEF TypeOK
<1> QED  BY <1>8, <1>9, <1>10, <1>11 DEF IInv
\* A tunnel is deleted: its agent goes, and all its streams.
LEMMA DeleteStep ==
    ASSUME IInv, NEW t \in Tuns, delete_tunnel(t)
    PROVE  IInv'
<1>1. TypeOK /\ Agents /\ Books /\ Bindings /\ tun \in [Tuns -> TunnelType]
  BY DEF IInv, TypeOK
<1>2. /\ CloseStreams(Streams(t)) /\ tun' = [tun EXCEPT ![t] = NoTunnel] /\ conn' = Released(t)
      /\ UNCHANGED <<opened, phase, corrupt>>
  BY DEF delete_tunnel
<1>3. Agents' /\ conn' \in [Conns -> ConnType] /\ tun' \in [Tuns -> TunnelType]
  BY <1>1, <1>2, FreeTypes, AgentDropped, Zenon
<1>4. Books'
  <2>1. \A u \in Tuns \ {t} : tun'[u].active = tun[u].active /\ tun'[u].reg = tun[u].reg
    BY <1>1, <1>2
  <2>2. tun'[t].active = tun[t].active - Cardinality(Streams(t))
    <3>1. tun[t].active = Cardinality(Streams(t)) /\ tun'[t].active = 0
      BY <1>1, <1>2, FreeTypes DEF Books, CountsExact
    <3> QED  BY <3>1, Finite
  <2> QED  BY <1>1, <1>2, <2>1, <2>2, ClosedCounts
<1>5. strm' \in [Slots -> StreamType] /\ Bindings'
  BY <1>1, <1>2, Finite, ClosedStreams
<1>6. TypeOK'
  <2>1. stream_count' \in Nat
    BY <1>4, FS_CardinalityType, ControlAssumption, FS_Subset DEF Books, CountsExact
  <2> QED  BY <1>1, <1>2, <1>3, <1>5, <2>1 DEF TypeOK
<1> QED  BY <1>3, <1>4, <1>5, <1>6 DEF IInv

\* The shutdown begins: some agents cannot be told, and are dropped.
LEMMA ShutdownStep ==
    ASSUME IInv, tm_broker_shutdown
    PROVE  IInv'
<1>1. TypeOK /\ Agents /\ Books /\ tun \in [Tuns -> TunnelType] /\ conn \in [Conns -> ConnType]
  BY DEF IInv, TypeOK
<1>2. PICK D \in SUBSET {t \in Tuns : tun[t].online} :
         /\ tun' = [t \in Tuns |-> IF t \in D THEN WithoutAgent(t)[t] ELSE tun[t]]
         /\ conn' = [c \in Conns |-> IF \E t \in D : tun[t].agent = c THEN NoConn ELSE conn[c]]
  BY Zenon DEF tm_broker_shutdown
<1>3. phase' = "shutting" /\ UNCHANGED <<strm, opened, stream_count, corrupt>>
  BY DEF tm_broker_shutdown
<1>4. \A t \in Tuns : WithoutAgent(t)[t] = WithAgent(tun[t], None, FALSE)
  BY <1>1 DEF WithoutAgent, WithAgent
<1>5. \A t \in Tuns : LET x == WithAgent(tun[t], None, FALSE) IN
         /\ x \in TunnelType /\ Same(x, tun[t]) /\ x.agent = None /\ x.online = FALSE
         /\ x.active = tun[t].active
  <2>1. None \in Conns \cup {None} /\ FALSE \in BOOLEAN /\ \A t \in Tuns : tun[t] \in TunnelType
    BY <1>1
  <2> QED  BY <2>1, SetAgent, Zenon
<1>6. /\ tun' \in [Tuns -> TunnelType]
      /\ \A t \in Tuns \ D : tun'[t] = tun[t]
      /\ \A t \in D : Same(tun'[t], tun[t]) /\ tun'[t].agent = None /\ tun'[t].online = FALSE
                      /\ tun'[t].active = tun[t].active
  BY <1>1, <1>2, <1>4, <1>5, Zenon
<1>7. /\ conn' \in [Conns -> ConnType]
      /\ \A c \in Conns : conn'[c] = IF \E t \in D : tun[t].agent = c THEN NoConn ELSE conn[c]
  BY <1>1, <1>2, FreeTypes
<1>8. Agents'
  <2>1. \A t \in Tuns \ D : tun[t].agent # None => conn'[tun[t].agent] = conn[tun[t].agent]
    <3> SUFFICES ASSUME NEW t \in Tuns \ D, tun[t].agent # None
                 PROVE  conn'[tun[t].agent] = conn[tun[t].agent]
      OBVIOUS
    <3>1. tun[t].agent \in Conns /\ ~\E u \in D : tun[u].agent = tun[t].agent
      <4>1. tun[t].agent \in Conns
        BY <1>1, Fields
      <4>2. AgentExact
        BY <1>1 DEF Agents
      <4> QED  BY <4>1, <4>2, SMTT(30) DEF AgentExact
    <3> QED  BY <1>7, <3>1
  <2>2. \A c \in Conns : conn'[c].role = "agent" => conn'[c] = conn[c] /\ conn[c].tun \in Tuns \ D
    <3> SUFFICES ASSUME NEW c \in Conns, conn'[c].role = "agent"
                 PROVE  conn'[c] = conn[c] /\ conn[c].tun \in Tuns \ D
      OBVIOUS
    <3>1. conn'[c] = conn[c] /\ ~\E t \in D : tun[t].agent = c
      BY <1>7, FreeTypes
    <3>2. conn[c].tun \in Tuns /\ tun[conn[c].tun].agent = c
      BY <1>1, <3>1 DEF Agents, AgentExact, Named
    <3> QED  BY <3>1, <3>2
  <2>3. \A c \in Conns : conn'[c].role = "agent" => tun'[conn[c].tun].agent = tun[conn[c].tun].agent
    BY <1>6, <2>2
  <2>4. \A c \in Conns : conn'[c].role = "peer" => conn'[c].tun \in Tuns
    BY <1>1, <1>7, FreeTypes DEF Agents, Named
  <2> QED  BY <1>1, <1>6, <2>1, <2>2, <2>3, <2>4, AgentsKept, Zenon DEF Same
<1>9. Books'
  <2>1. \A t \in Tuns : tun'[t].active = tun[t].active /\ tun'[t].reg = tun[t].reg
    BY <1>6 DEF Same
  <2> QED  BY <1>1, <1>3, <2>1, SameCounts
<1>10. TypeOK'
  BY <1>1, <1>3, <1>6, <1>7 DEF TypeOK
<1> QED  BY <1>3, <1>8, <1>9, <1>10 DEF IInv, Bindings, Numbered, BoundToItsOpen

\* The broker is cleaned up.
LEMMA CleanupStep ==
    ASSUME IInv, broker_cleanup
    PROVE  IInv'
<1>1. TypeOK /\ Books /\ Bindings
  BY DEF IInv
<1>2. /\ tun' = [t \in Tuns |-> NoTunnel] /\ conn' = [c \in Conns |-> NoConn] /\ phase' = "down"
      /\ CloseStreams(Used) /\ UNCHANGED <<opened, corrupt>>
  BY DEF broker_cleanup, Used
<1>3. tun' \in [Tuns -> TunnelType] /\ conn' \in [Conns -> ConnType]
  BY <1>2, FreeTypes
<1>4. Agents'
  BY <1>2, FreeTypes DEF Agents, AgentExact, AgentAuthorised, Named
<1>5. strm' \in [Slots -> StreamType] /\ Bindings'
  BY <1>1, <1>2, ClosedStreams DEF Used
<1>6. \A s \in Slots : strm'[s].tun = None
  BY <1>2, FreeTypes DEF CloseStreams, Used
<1>7. Used' = {} /\ \A t \in Tuns : Streams(t)' = {} /\ Pending(t)' = {}
  BY <1>6, ControlAssumption DEF Used, Streams, Pending
<1>8. stream_count' = 0
  <2>1. stream_count = Cardinality(Used) /\ Cardinality(Used) \in Nat
    BY <1>1, Finite DEF Books, CountsExact, Used
  <2>2. stream_count' = stream_count - Cardinality(Used)
    BY <1>2 DEF CloseStreams
  <2> QED  BY ONLY <2>1, <2>2
<1>9. Books'
  <2>0. Cardinality({}) = 0
    BY FS_EmptySet, Zenon
  <2>1. CountsExact'
    <3>1. 0 <= MaxStreams /\ 0 <= MaxPerTunnel
      BY ONLY ControlAssumption, SMT
    <3>2. \A t \in Tuns : tun'[t].active = 0
      BY ONLY <1>2, FreeTypes, Zenon
    <3> QED  BY <1>7, <1>8, <2>0, <3>1, <3>2, Zenon DEF CountsExact, Used
  <2>2. PendingCapClosed'
    <3>1. 0 <= MaxPending /\ ClosedTuns \subseteq Tuns
      BY ONLY ControlAssumption, SMT
    <3> QED  BY <1>7, <2>0, <3>1, Zenon DEF PendingCapClosed
  <2> QED  BY <2>1, <2>2 DEF Books
<1>10. TypeOK'
  BY <1>1, <1>2, <1>3, <1>5, <1>8 DEF TypeOK
<1> QED  BY <1>4, <1>5, <1>9, <1>10 DEF IInv

----------------------------------------------------------------------------
(* Theorems *)

\* The broker starts with its tunnels, no agent and no stream.
LEMMA InitInv == Init => IInv
<1> SUFFICES ASSUME Init PROVE IInv
  OBVIOUS
<1> DEFINE x == [NoTunnel EXCEPT !.reg = TRUE, !.enabled = TRUE]
<1>1. x \in TunnelType /\ x.agent = None /\ x.online = FALSE /\ x.active = 0 /\ x.reg
  <2>1. 0 \in Versions
    BY ControlAssumption DEF Versions
  <2> QED  BY <2>1, Zenon DEF TunnelType, NoTunnel
<1>2. tun = [t \in Tuns |-> x]
  BY DEF Init
<1> HIDE DEF x
<1>3. TypeOK
  <2>1. opened \in [Kinds -> Seq(Tuns)]
    BY ControlAssumption DEF Init
  <2>2. tun \in [Tuns -> TunnelType] /\ conn \in [Conns -> ConnType] /\ strm \in [Slots -> StreamType]
    BY <1>1, <1>2, FreeTypes DEF Init
  <2> QED  BY <2>1, <2>2, Zenon DEF Init, TypeOK
<1>4. Agents
  <2>1. \A t \in Tuns : tun[t].agent = None /\ tun[t].online = FALSE
    BY <1>1, <1>2
  <2>2. \A c \in Conns : conn[c].role = "free"
    BY FreeTypes DEF Init
  <2> QED  BY <2>1, <2>2 DEF Agents, AgentExact, AgentAuthorised, Named
<1>5. Used = {} /\ \A t \in Tuns : Streams(t) = {} /\ Pending(t) = {}
  BY FreeTypes, ControlAssumption DEF Init, Used, Streams, Pending
<1>6. CountsExact
  <2>1. Cardinality({}) = 0 /\ 0 <= MaxStreams /\ 0 <= MaxPerTunnel
    BY FS_EmptySet, ControlAssumption
  <2>2. stream_count = 0
    BY DEF Init
  <2>3. \A t \in Tuns : tun[t].active = 0 /\ tun[t].reg
    BY <1>1, <1>2
  <2>4. stream_count = Cardinality({s \in Slots : strm[s].tun # None}) /\ stream_count <= MaxStreams
    BY ONLY <1>5, <2>1, <2>2 DEF Used
  <2>5. \A t \in Tuns : tun[t].active = Cardinality(Streams(t)) /\ tun[t].active <= MaxPerTunnel
    BY ONLY <1>5, <2>1, <2>3
  <2>6. \A t \in Tuns : Streams(t) = {}
    BY ONLY <1>5
  <2> QED  BY ONLY <2>4, <2>5, <2>6 DEF CountsExact
<1>7. PendingCapClosed
  BY <1>5, FS_EmptySet, ControlAssumption DEF PendingCapClosed
<1>8. Bindings
  BY FreeTypes DEF Init, Bindings, Numbered, BoundToItsOpen
<1> QED  BY <1>3, <1>4, <1>6, <1>7, <1>8 DEF IInv, Books

\* Every callback keeps the invariant.
LEMMA NextInv == IInv /\ [Next]_vars => IInv'
<1> SUFFICES ASSUME IInv, [Next]_vars PROVE IInv'
  OBVIOUS
<1>1. CASE UNCHANGED vars
  <2>1. TypeOK /\ Agents /\ Books /\ Bindings
    BY DEF IInv
  <2>2. UNCHANGED <<tun, conn, strm, opened, stream_count, phase, corrupt>>
    BY <1>1 DEF vars
  <2>3. TypeOK' /\ Agents'
    BY <2>1, <2>2, Zenon DEF TypeOK, Agents, AgentExact, AgentAuthorised, Named
  <2>4. Books'
    BY <2>1, <2>2, SameCounts
  <2> QED  BY <2>1, <2>2, <2>3, <2>4, Zenon DEF IInv, Bindings, Numbered, BoundToItsOpen
<1>2. CASE \E c \in Conns : on_control_accept(c) \/ conn_ready(c) \/ conn_close(c) \/ hello(c)
  BY <1>2, ConnectionSteps
<1>3. CASE \E c \in Conns, t \in Tuns, v \in Versions : agent_register(c, t, v) \/ peer_auth(c, t, v)
  BY <1>3, RegisterStep, PeerStep
<1>4. CASE \E c \in Conns, s \in Slots : peer_open_stream(c, s)
  BY <1>4, PeerOpenStep
<1>5. CASE \E c \in Conns, k \in Kinds, n \in 1 .. MaxOpens, v \in Versions :
              data_conn_first_frame(c, k, n, v)
  BY <1>5, BindStep
<1>6. CASE \E t \in Tuns, s \in Slots : on_public_accept(t, s)
  BY <1>6, AcceptStep
<1>7. CASE \E s \in Slots : stream_bind_timer_cb(s) \/ tm_stream_close(s)
  BY <1>7, CloseStep
<1>8. CASE \E t \in Tuns : tm_agent_drop(t) \/ disable_tunnel(t) \/ rotate_agent_secret(t)
  BY <1>8, DropSteps
<1>9. CASE \E t \in Tuns : enable_tunnel(t) \/ rotate_shared_token(t)
  BY <1>9, FlagSteps
<1>10. CASE \E t \in Tuns : delete_tunnel(t)
  BY <1>10, DeleteStep
<1>11. CASE tm_broker_shutdown \/ broker_cleanup
  BY <1>11, ShutdownStep, CleanupStep
<1> QED
  BY <1>1, <1>2, <1>3, <1>4, <1>5, <1>6, <1>7, <1>8, <1>9, <1>10, <1>11, Zenon DEF Next
\* The invariant holds whatever agents, peers and administrators do.
THEOREM Invariance == Spec => []IInv
<1>1. Init => IInv
  BY InitInv
<1>2. IInv /\ [Next]_vars => IInv'
  BY NextInv
<1> QED  BY <1>1, <1>2, PTL DEF Spec

\* Tunnels and their agents refer to each other, and nothing else is an agent.
THEOREM AgentsAreExact == Spec => []AgentExact
<1>1. IInv => AgentExact
  BY DEF IInv, Agents
<1> QED  BY <1>1, Invariance, PTL

\* An agent that is online presented the secret that is valid now.
THEOREM AgentsAreAuthorised == Spec => []AgentAuthorised
<1>1. IInv => AgentAuthorised
  BY DEF IInv, Agents
<1> QED  BY <1>1, Invariance, PTL

\* The counts of streams are exact and the caps hold, however streams end.
THEOREM AccountsAreExact == Spec => []AccountsExact
<1>1. IInv => AccountsExact
  BY DEF IInv, Books, AccountsExact
<1> QED  BY <1>1, Invariance, PTL

\* A data connection is bound to the stream whose OPEN_STREAM it answers,
\* whatever ids the two counters share, until a counter passes 2^31.
THEOREM AnswersReachTheirStreams == Spec => []BoundToItsOpen
<1>1. IInv => BoundToItsOpen
  BY DEF IInv, Bindings
<1> QED  BY <1>1, Invariance, PTL

\* What a step may not do to a stream of a disabled tunnel.
QuietStep == \A s \in Slots :
    /\ strm[s].tun = None /\ strm'[s].tun # None => tun[strm'[s].tun].enabled
    /\ ~strm[s].bound /\ strm'[s].bound => tun[strm[s].tun].enabled

\* A new stream on an enabled tunnel is no breach.
LEMMA QuietCreate ==
    ASSUME TypeOK, NEW t \in Tuns, tun[t].enabled, NEW s \in Slots, NEW cn, Create(t, s, cn)
    PROVE  QuietStep
<1> DEFINE r == NewStream(t)
<1>1. r.tun = t /\ ~r.bound
  BY DEF NewStream
<1>2. strm' = [strm EXCEPT ![s] = r] /\ strm \in [Slots -> StreamType]
  BY DEF Create, TypeOK
<1> HIDE DEF r
<1>3. strm'[s] = r /\ \A x \in Slots \ {s} : strm'[x] = strm[x]
  BY <1>2
<1> QED  BY <1>1, <1>3 DEF QuietStep

\* No callback makes or binds a stream on a disabled tunnel.
LEMMA NextQuiet == IInv /\ [Next]_vars => QuietStep
<1> SUFFICES ASSUME IInv, [Next]_vars PROVE QuietStep
  OBVIOUS
<1>1. TypeOK /\ Agents
  BY DEF IInv
<1>2. CASE strm' = strm
  BY <1>2 DEF QuietStep
<1>3. ASSUME NEW S \in SUBSET Slots, CloseStreams(S)
      PROVE  QuietStep
  <2>1. \A x \in Slots : strm'[x] = IF x \in S THEN NoStream ELSE strm[x]
    BY <1>3 DEF CloseStreams
  <2> QED  BY <2>1, FreeTypes DEF QuietStep
<1>4. ASSUME NEW c \in Conns, NEW s \in Slots, peer_open_stream(c, s)
      PROVE  QuietStep
  <2> DEFINE t == conn[c].tun
  <2>1. t \in Tuns
    BY <1>1, <1>4, Zenon DEF peer_open_stream, Ready, Agents, Named
  <2>2. CASE Admits(t) /\ Create(t, s, [conn EXCEPT ![c] = NoConn])
    <3>1. tun[t].enabled
      BY <1>1, <2>1, <2>2 DEF Admits, Agents, AgentAuthorised
    <3> HIDE DEF t
    <3> QED  BY <1>1, <2>1, <2>2, <3>1, QuietCreate, Zenon
  <2> QED  BY <1>2, <1>4, <2>2, Zenon DEF peer_open_stream
<1>5. ASSUME NEW t \in Tuns, NEW s \in Slots, on_public_accept(t, s)
      PROVE  QuietStep
  <2>1. tun[t].enabled /\ Create(t, s, conn)
    BY <1>5 DEF on_public_accept
  <2> QED  BY <1>1, <2>1, QuietCreate, Zenon
<1>6. ASSUME NEW c \in Conns, NEW k \in Kinds, NEW n \in 1 .. MaxOpens, NEW v \in Versions,
             data_conn_first_frame(c, k, n, v)
      PROVE  QuietStep
  <2>1. CASE \E s \in Found(IdOf(n)) : BindsTo(s, opened[k][n], n, v)
    <3>1. PICK s \in Found(IdOf(n)) : BindsTo(s, opened[k][n], n, v)
      BY <2>1, Zenon
    <3>2. s \in Slots /\ tun[strm[s].tun].enabled
      BY <3>1 DEF Found, Streams, BindsTo, Binds
    <3>3. \A x \in Slots : strm'[x].tun = strm[x].tun /\ (x # s => strm'[x] = strm[x])
      BY <1>1, <3>1, <3>2 DEF TypeOK, StreamType, BindsTo
    <3> QED  BY <3>2, <3>3, Zenon DEF QuietStep
  <2> QED  BY <1>2, <1>6, <2>1 DEF data_conn_first_frame, BindsTo
<1>7. ASSUME NEW s \in Slots, stream_bind_timer_cb(s) \/ tm_stream_close(s)
      PROVE  QuietStep
  <2>1. CloseStreams({s}) /\ {s} \in SUBSET Slots
    BY <1>7 DEF stream_bind_timer_cb, tm_stream_close, CloseOne
  <2> QED  BY <1>3, <2>1
<1>8. ASSUME NEW t \in Tuns, delete_tunnel(t)
      PROVE  QuietStep
  <2>1. CloseStreams(Streams(t)) /\ Streams(t) \in SUBSET Slots
    BY <1>8 DEF delete_tunnel, Streams
  <2> QED  BY <1>3, <2>1
<1>9. CASE broker_cleanup
  <2>1. CloseStreams(Used) /\ Used \in SUBSET Slots
    BY <1>9 DEF broker_cleanup, Used
  <2> QED  BY <1>3, <2>1
<1> QED
  BY <1>2, <1>4, <1>5, <1>6, <1>7, <1>8, <1>9, Zenon
     DEF Next, vars, on_control_accept, conn_ready, conn_close, hello, agent_register, peer_auth,
         tm_agent_drop, disable_tunnel, enable_tunnel, rotate_agent_secret, rotate_shared_token,
         tm_broker_shutdown

\* A disabled tunnel gets no stream, and none of its pending ones is bound.
THEOREM StaysQuiet == Spec => QuietWhenDisabled
<1>1. IInv /\ [Next]_vars => [QuietStep]_vars
  BY NextQuiet
<1>2. Spec => [][QuietStep]_vars
  BY <1>1, Invariance, PTL DEF Spec
<1> QED  BY <1>2 DEF QuietStep, QuietWhenDisabled
=============================================================================
