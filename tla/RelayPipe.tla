----------------------------- MODULE RelayPipe -----------------------------
(* A relayed stream of an open tunnel implements the two-way pipe. *)
EXTENDS Relay

\* what the two ends can tell of the stream, and each of its own leg
Seen == IF st = "drained" THEN "over" ELSE IF st = "aborted" THEN "cut" ELSE "yes"
OutOf(s) == IF s.kind = "gone" THEN "down" ELSE IF s.fin = "sent" THEN "ended" ELSE "up"

P == INSTANCE Pipe WITH
    open  <- Seen,
    taken <- rd,
    given <- got,
    ended <- eof,
    out   <- [l \in Legs |-> OutOf(leg[l])]

\* The two ends of a stream of an open tunnel see nothing of the relay but the
\* pipe: it starts as one, and every step of relay.c, io.c and tls.c is a step
\* of Pipe or invisible to it.
ImplementsPipe ==
    /\ mode = "open" => P!Init
    /\ [][mode = "open" => P!Next]_P!vars
=============================================================================
