--------------------------------- MODULE Io --------------------------------
(***************************************************************************)
(* The write side of a buffered connection: common/src/io.c for raw TCP,   *)
(* common/src/tls.c for TLS, and flush_pend, which all relays share.       *)
(*                                                                         *)
(* Data are chunks of at most 64 KiB; the watermarks count chunks.  How    *)
(* much of a buffer tm_io_write takes before it answers TM_ERR_BUSY        *)
(* depends on chunk sizes, on the consumed prefix of the buffer and on its *)
(* allocation.  The model lets it take any amount the high-water mark      *)
(* allows, at least one chunk when the buffer is empty.                    *)
(***************************************************************************)
EXTENDS Naturals, Sequences

CONSTANTS
    HighWater,   \* TM_IO_HIGH_WATER and TM_PQ_HIGH, in chunks
    LowWater     \* TM_PQ_LOW, in chunks

(* The write side of a leg.  kind is "none" before the io exists and "gone" *)
(* after it was closed: both are the NULL pointer in the code.  q holds the *)
(* accepted chunks that are not yet written, the first infl of them in      *)
(* flight.  fin is "queued" from tm_io_shutdown_send until the FIN (or the  *)
(* close_notify) is written.  low is above_low.                             *)

NewIo(k) == [kind |-> k, q |-> <<>>, infl |-> 0, low |-> FALSE, fin |-> "none"]

Null(s) == s.kind \in {"none", "gone"}

\* tm_io_drained: nothing queued and no write (or close_notify) in flight
Drained(s) == s.q = <<>> /\ s.fin # "queued"

\* bytes the high-water mark lets the io hold; a TLS record in flight has left pq
Capacity(s) == HighWater + (IF s.kind = "tls" THEN 1 ELSE 0)

\* above_low forgotten when the io answers TM_ERR_BUSY
LowAfterQuiet(s, n, busy) ==
    IF s.kind = "tls" /\ (s.low \/ Len(s.q) + n > LowWater + 1) THEN {TRUE} ELSE {FALSE}

\* above_low after n chunks were accepted (a TCP io reports every drain instead)
LowAfter(s, n, busy) ==
    CASE s.kind # "tls" -> {FALSE}
      [] s.kind = "tls" /\ (busy \/ s.low \/ Len(s.q) + n > LowWater + 1) -> {TRUE}
      [] OTHER -> IF s.q # <<>> /\ n > 0 THEN BOOLEAN ELSE {FALSE}

\* the io took the chunks x; an idle io starts writing the first of them
Accept(s, x, lo) ==
    [s EXCEPT !.q = @ \o x, !.low = lo,
              !.infl = IF x # <<>> /\ @ = 0 THEN 1 ELSE @]

\* tm_io_shutdown_send: TCP sends its FIN at once when idle; the TLS
\* close_notify is itself a write
Shut(s) ==
    [s EXCEPT !.fin = CASE @ # "none" -> @
                        [] s.kind = "tcp" /\ s.q = <<>> -> "sent"
                        [] OTHER -> "queued"]

\* the end mark leaves with the first completed write
CompleteEarly(s) ==
    LET q1 == SubSeq(s.q, s.infl + 1, Len(s.q)) IN
    [s EXCEPT !.q = q1, !.infl = IF q1 # <<>> THEN 1 ELSE 0,
              !.fin = IF @ = "queued" THEN "sent" ELSE @]

\* the write in flight completed: TCP then writes all that is queued, TLS
\* the next record, and each its end mark after the last chunk
Complete(s) ==
    LET q1 == SubSeq(s.q, s.infl + 1, Len(s.q)) IN
    [s EXCEPT !.q = q1,
              !.infl = IF s.kind = "tls" /\ q1 # <<>> THEN 1 ELSE Len(q1),
              !.fin = IF /\ @ = "queued"
                         /\ IF s.kind = "tcp" THEN q1 = <<>> ELSE s.q = <<>>
                      THEN "sent" ELSE @]

\* whether the completion calls low_cb
CallsLow(s) == Drained(s) /\ (s.kind = "tcp" \/ s.low)

\* flush_pend of the held-back chunks p into the io s: it takes n of them, and
\* above_low becomes lo.  After TM_ERR_BUSY a rest stays; after any other
\* error everything is discarded.
Moves(s, p) ==
    {mv \in [n : 0 .. Len(p), lo : BOOLEAN] :
        /\ mv.n > 0 => Len(s.q) + mv.n <= Capacity(s)
        /\ mv.n = 0 => p = <<>> \/ s.q # <<>>
        /\ mv.lo \in LowAfter(s, mv.n, mv.n < Len(p))}

flush_pend(s, p) ==
    IF s.fin # "none" THEN {[side |-> s, rest |-> <<>>]}
    ELSE {[side |-> Accept(s, SubSeq(p, 1, mv.n), mv.lo),
           rest |-> SubSeq(p, mv.n + 1, Len(p))] : mv \in Moves(s, p)}
=============================================================================
