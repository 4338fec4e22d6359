---------------------------- MODULE FrameReader ----------------------------
(***************************************************************************)
(* The incremental reader of control frames (common/src/frame.c) and the   *)
(* loop all its callers run it in: the broker's connections and agents,    *)
(* the agent's control and data connections, the peer's sessions.  A read  *)
(* callback feeds what has arrived, handles the frames it gets, and asks   *)
(* for the next one until there is none, until a frame binds the           *)
(* connection to a stream (what is left in the reader is then relayed),    *)
(* makes it the control connection of an agent, or ends it.                *)
(*                                                                         *)
(* Data: a field of the header (version, type, length, stream id) is one   *)
(* cell, as is a byte of a payload.  The type of a frame stands for what   *)
(* the caller decides on it, which Control, AgentLink and EndRelay model:  *)
(* whether a DATA_BIND is granted or refused, whether a REGISTER has the   *)
(* right secret.  The envelope of a datagram, in the same file, is bytes.  *)
(***************************************************************************)
EXTENDS Integers, Sequences

CONSTANTS
    MaxPayload,   \* TM_MAX_FRAME_PAYLOAD
    MaxRead,      \* TM_SSL_INBUF_SIZE: cells one read callback delivers at most
    Binding,      \* types that bind the connection (DATA_BIND, DATA_BIND_OK)
    Ending,       \* types that make the caller close it (errors, GOING_AWAY, ...)
    Promoting,    \* types that make it the connection of an agent (REGISTER)
    Streams       \* the cell sequences the far end may send

Hdr == 4          \* TM_FRAME_HDR_LEN, in cells
EnvHdr == 11      \* bytes in front of a datagram: this length, flow id, flags
Version == 1      \* TM_PROTO_VERSION

ASSUME FrameAssumption ==
    /\ MaxPayload \in Nat /\ MaxRead \in Nat \ {0}
    /\ MaxRead <= MaxPayload /\ 2 * MaxRead <= MaxPayload + Hdr
    /\ Streams \subseteq Seq(Nat)
    /\ Promoting \cap (Binding \cup Ending) = {}

VARIABLES
    sent,     \* what the far end sends on this connection
    pos,      \* cells of it that were read so far
    buf,      \* r->buf, r->len
    busy,     \* the caller is in its loop and will ask for the next frame
    ph,       \* "frames", "bound" (relaying), "ended" or "rejected" (closed)
    prom,     \* promoted to an agent: "no", "now" (by the last read) or "yes"
    frames,   \* frames handed to the caller
    out,      \* the same, encoded
    raw       \* cells handed to the relay

vars == <<sent, pos, buf, busy, ph, prom, frames, out, raw>>

----------------------------------------------------------------------------
tm_frame_make(type, sid, payload) == [type |-> type, sid |-> sid, payload |-> payload]

tm_frame_encode(f) == <<Version, f.type, Len(f.payload), f.sid>> \o f.payload

\* the head of b is refused before anything is allocated for it
Bad(b) == Len(b) >= Hdr /\ (b[1] # Version \/ b[3] > MaxPayload)

\* b begins with a whole frame
Whole(b) == Len(b) >= Hdr /\ Len(b) >= Hdr + b[3]

\* the rest is cut at the end of the header
FrameOfShort(b) ==
    [frame |-> tm_frame_make(b[2], b[4], SubSeq(b, Hdr + 1, Hdr + b[3])),
     rest  |-> SubSeq(b, Hdr + 1, Len(b))]

\* the first frame of b, and what stays in the reader
FrameOf(b) ==
    [frame |-> tm_frame_make(b[2], b[4], SubSeq(b, Hdr + 1, Hdr + b[3])),
     rest  |-> SubSeq(b, Hdr + b[3] + 1, Len(b))]

\* the limit has no room for the header
TooLongPayload(d) == Len(buf) + Len(d) > MaxPayload

\* the reader holds at most one frame of maximal size
TooLong(d) == Len(buf) + Len(d) > MaxPayload + Hdr

----------------------------------------------------------------------------
(* The loop of the callers *)

Init ==
    /\ sent \in Streams /\ pos = 0
    /\ buf = <<>> /\ busy = FALSE
    /\ ph = "frames" /\ prom = "no"
    /\ frames = <<>> /\ out = <<>> /\ raw = <<>>

Aged == IF prom = "now" THEN "yes" ELSE prom

Rejected ==
    /\ ph' = "rejected" /\ busy' = FALSE
    /\ UNCHANGED <<buf, prom, frames, out, raw>>

Overflows(d) == TooLong(d) /\ Rejected

Incomplete(b) ==
    /\ buf' = b /\ busy' = FALSE /\ prom' = Aged
    /\ UNCHANGED <<ph, frames, out, raw>>

\* what is left in the reader at the bind is forgotten
BindsForgetful(b) == ph' = "bound" /\ raw' = <<>> /\ buf' = <<>> /\ busy' = FALSE /\ prom' = Aged

\* tm_frame_reader_drain, and the relay takes what it returns
Binds(b) == ph' = "bound" /\ raw' = b /\ buf' = <<>> /\ busy' = FALSE /\ prom' = Aged

Ends(b) == ph' = "ended" /\ buf' = b /\ busy' = FALSE /\ prom' = Aged /\ UNCHANGED raw

Promotes(b) == prom' = "now" /\ buf' = b /\ busy' = FALSE /\ UNCHANGED <<ph, raw>>

\* one frame for each read
GoesOnOnce(b) == buf' = b /\ busy' = FALSE /\ prom' = Aged /\ UNCHANGED <<ph, raw>>

GoesOn(b) == buf' = b /\ busy' = TRUE /\ prom' = Aged /\ UNCHANGED <<ph, raw>>

\* the caller handles f, with b left in the reader; an agent's connection
\* treats every type alike
Handle(f, b) ==
    /\ frames' = Append(frames, f)
    /\ out' = out \o tm_frame_encode(f)
    /\ LET other == prom # "no" \/ f.type \notin Binding \cup Ending \cup Promoting IN
       \/ other /\ GoesOn(b)
       \/ ~other /\ f.type \in Binding /\ Binds(b)
       \/ ~other /\ f.type \in Ending /\ Ends(b)
       \/ ~other /\ f.type \in Promoting /\ Promotes(b)

\* tm_frame_reader_feed when the reader holds b, and what the caller does next
Fed(b) ==
    \/ Bad(b) /\ Rejected
    \/ ~Bad(b) /\ ~Whole(b) /\ Incomplete(b)
    \/ ~Bad(b) /\ Whole(b) /\ Handle(FrameOf(b).frame, FrameOf(b).rest)

\* ... and when the chunk d is added to it first
tm_frame_reader_feed(d) ==
    \/ Overflows(d)
    \/ ~TooLong(d) /\ Fed(buf \o d)

Arrived(k) == SubSeq(sent, pos + 1, pos + k)

\* a read callback begins: conn_read, agent_conn_read, ctl_read,
\* data_conn_pre_read, sess_pre_read
read_cb ==
    /\ ph = "frames" /\ ~busy
    /\ \E k \in 1 .. MaxRead :
         /\ pos + k <= Len(sent)
         /\ pos' = pos + k
         /\ tm_frame_reader_feed(Arrived(k))
    /\ UNCHANGED sent

\* ... and asks for the next frame
next_frame ==
    /\ ph = "frames" /\ busy
    /\ Fed(buf)
    /\ UNCHANGED <<sent, pos>>

\* a bound connection is read by the relay
relay_read ==
    /\ ph = "bound"
    /\ \E k \in 1 .. MaxRead :
         /\ pos + k <= Len(sent)
         /\ pos' = pos + k
         /\ raw' = raw \o Arrived(k)
    /\ UNCHANGED <<sent, buf, busy, ph, prom, frames, out>>

Next == read_cb \/ next_frame \/ relay_read

Spec == Init /\ [][Next]_vars

----------------------------------------------------------------------------
(* The envelope of a datagram, byte by byte *)

Byte == 0 .. 255
Flags == 0 .. 15  \* TM_ENV_FLAG_ALL: the other four bits of the byte are clear

\* (uint8_t)v, h << 8 | c, v >> 8, v >> 16 and v >> 32
Low8(v) == v % 256
Shl8(h, c) == 256 * h + c
Shr8(v) == v \div 256
Shr16(v) == Shr8(Shr8(v))
Shr32(v) == Shr16(Shr16(v))

U64 == {v \in Nat : Shr32(Shr32(v)) = 0}

\* big-endian integers
wr_u16(v) == <<Low8(Shr8(v)), Low8(v)>>
wr_u32(v) == <<Low8(Shr8(Shr16(v))), Low8(Shr16(v)), Low8(Shr8(v)), Low8(v)>>
wr_u64(v) == wr_u32(Shr32(v)) \o wr_u32(v)

\* ... the one that begins at the i-th byte of b
rd_u16(b, i) == Shl8(b[i], b[i + 1])
rd_u32(b, i) == Shl8(Shl8(rd_u16(b, i), b[i + 2]), b[i + 3])
rd_u64(b, i) == Shl8(Shl8(Shl8(Shl8(rd_u32(b, i), b[i + 4]), b[i + 5]), b[i + 6]), b[i + 7])

tm_env_encode(flow, flags, payload) == ((wr_u16(11) \o wr_u64(flow)) \o <<flags>>) \o payload

EnvOK(b) == Len(b) >= EnvHdr /\ rd_u16(b, 1) = 11 /\ b[11] \in Flags

tm_env_decode(b) ==
    [flow |-> rd_u64(b, 3), flags |-> b[11], payload |-> SubSeq(b, EnvHdr + 1, Len(b))]

----------------------------------------------------------------------------
(* Properties *)

\* Every variable of a connection stays in its type, and the reader never
\* holds more than one frame of maximal size, whatever the far end sends
\* (the first check of tm_frame_reader_feed).
TypeOK ==
    /\ sent \in Seq(Nat) /\ pos \in 0 .. Len(sent)
    /\ buf \in Seq(Nat) /\ Len(buf) <= MaxPayload + Hdr
    /\ busy \in BOOLEAN
    /\ ph \in {"frames", "bound", "ended", "rejected"}
    /\ prom \in {"no", "now", "yes"}
    /\ frames \in Seq([type : Nat, sid : Nat, payload : Seq(Nat)])
    /\ out \in Seq(Nat) /\ raw \in Seq(Nat)

\* Nothing is lost, repeated or reordered on the way through the reader and
\* over to the relay: the frames handed out, what the reader holds and what
\* the relay got are together exactly what was read (tm_frame_reader_feed
\* moves the rest down, tm_frame_reader_drain hands it over at the bind).
Exact == ph \in {"frames", "bound"} => (out \o buf) \o raw = SubSeq(sent, 1, pos)

\* No frame waits in the reader for the next read, unless it came in the same
\* read as the REGISTER that made the connection an agent's ("Do not continue
\* parsing through the old owner").
Prompt == ph = "frames" /\ ~busy /\ prom # "now" => ~Whole(buf)

\* A connection is refused only for what it sent, never for how the bytes were
\* cut, as long as no frame comes within one read of the maximal length: the
\* next frame has a bad header or is that long.
RejectsOnly ==
    ph = "rejected" =>
        LET r == SubSeq(sent, Len(out) + 1, Len(sent)) IN
        Bad(r) \/ (Len(r) >= Hdr /\ r[3] + MaxRead > MaxPayload + 1)

\* The reference: the frames of the sequence s of cells, read in one piece, from
\* the i-th cell on; on an agent's connection, and on one that is not (yet)
Behind(s, i) == SubSeq(s, i + 1, Len(s))
First(b) == tm_frame_make(b[2], b[4], SubSeq(b, Hdr + 1, Hdr + b[3]))

AgentFrames(s) ==
    LET f[i \in 0 .. Len(s)] ==
          LET b == Behind(s, i) IN
          IF Bad(b) \/ ~Whole(b) THEN <<>> ELSE <<First(b)>> \o f[i + Hdr + b[3]]
    IN  f

ConnFrames(s) ==
    LET f[i \in 0 .. Len(s)] ==
          LET b == Behind(s, i) IN
          IF Bad(b) \/ ~Whole(b) THEN <<>>
          ELSE IF First(b).type \in Binding \cup Ending THEN <<First(b)>>
          ELSE IF First(b).type \in Promoting THEN <<First(b)>> \o AgentFrames(s)[i + Hdr + b[3]]
          ELSE <<First(b)>> \o f[i + Hdr + b[3]]
    IN  f

Frames(s) == ConnFrames(s)[0]

\* How the network and TLS cut what was sent makes no difference to the frames
\* the caller sees: they are those of the cells read so far, taken as one piece.
CutsDontMatter ==
    ~busy /\ prom # "now" /\ ph # "rejected" => frames = Frames(SubSeq(sent, 1, pos))

\* The codec of the envelope is exact both ways on given flow ids, payloads and
\* datagrams: tm_env_decode accepts what tm_env_encode builds and gives its parts
\* back, and what it accepts is what tm_env_encode builds from the parts it gives.
EnvelopeExact(flows, payloads, datagrams) ==
    /\ \A flow \in flows, flags \in Flags, p \in payloads :
         LET b == tm_env_encode(flow, flags, p) IN
         EnvOK(b) /\ tm_env_decode(b) = [flow |-> flow, flags |-> flags, payload |-> p]
    /\ \A b \in datagrams : EnvOK(b) =>
         LET e == tm_env_decode(b) IN
         e.flags \in Flags /\ tm_env_encode(e.flow, e.flags, e.payload) = b

----------------------------------------------------------------------------
(* Statements of the documentation that the code does not keep *)

\* Every frame of a permitted length is accepted ("max MAX_FRAME_PAYLOAD"):
\* fails for one of maximal length with more bytes behind it in the same read.
PermittedAccepted == ph = "rejected" => Bad(SubSeq(sent, Len(out) + 1, Len(sent)))
=============================================================================
