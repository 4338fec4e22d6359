------------------------------- MODULE Relay -------------------------------
(***************************************************************************)
(* One relayed stream of the broker (broker/src/relay.c) over two buffered *)
(* connections (Io).  Leg "a" is the consumer: a raw public socket on an   *)
(* open tunnel, the TLS connection of a peer on a closed one.  Leg "b" is  *)
(* the agent's TLS data connection.  Every action is one libuv callback.   *)
(*                                                                         *)
(* Data: what a leg reads is a sequence of chunks, numbered 1, 2, ... in   *)
(* the order the far end sent them; one read callback delivers one chunk   *)
(* (at most 64 KiB).  The watermarks count chunks.                         *)
(***************************************************************************)
EXTENDS Io

CONSTANTS
    Modes,       \* the kinds of tunnel considered: a subset of {"open", "closed"}
    MaxSend      \* chunks the far end of each leg may send: [Legs -> Nat]

Legs == {"a", "b"}
Other(l) == IF l = "a" THEN "b" ELSE "a"

ASSUME RelayAssumption ==
    /\ Modes \subseteq {"open", "closed"}
    /\ MaxSend \in [Legs -> Nat]
    /\ HighWater \in Nat \ {0}
    /\ LowWater \in Nat

VARIABLES
    mode,     \* "open" or "closed" tunnel
    st,       \* "pending", "bound", "drained" or "aborted" (bound, closing)
    leg,      \* io_a and io_b: kind and write side of each leg
    pend,     \* pend_a, pend_b: chunks the relay holds back for each leg
    preq,     \* chunks of leg a read before the agent leg is bound
    eof,      \* a_eof, b_eof
    fin,      \* a_fin, b_fin: the end of this leg was passed to the other
    paused,   \* a_paused, b_paused: reading from this leg is stopped
    rd,       \* chunks read from each leg so far
    got,      \* chunks handed to the far end of each leg
    far       \* far end of each leg: "open", "fin" (sent its FIN), "closed", "reset"

vars == <<mode, st, leg, pend, preq, eof, fin, paused, rd, got, far>>

----------------------------------------------------------------------------
Live == st \in {"pending", "bound"}
Reading(l) == Live /\ ~Null(leg[l]) /\ ~paused[l]

\* what the ios still have to write is not looked at
SettledUndrained ==
    /\ eof["a"] /\ eof["b"]
    /\ pend["a"] = <<>> /\ pend["b"] = <<>> /\ preq = <<>>

\* stream_maybe_close closes in such a state
Settled ==
    /\ eof["a"] /\ eof["b"]
    /\ \A l \in Legs : ~Null(leg[l]) => Drained(leg[l])
    /\ pend["a"] = <<>> /\ pend["b"] = <<>> /\ preq = <<>>

stream_maybe_close == st' = IF Settled' THEN "drained" ELSE st

\* tm_stream_close: nothing of a closing stream is looked at again
tm_stream_close == st' = "aborted"

Init ==
    /\ mode \in Modes
    /\ st = "pending"
    /\ leg = [l \in Legs |-> NewIo(IF l = "a" /\ mode = "closed" THEN "tls" ELSE "none")]
    /\ pend = [l \in Legs |-> <<>>]
    /\ preq = <<>>
    /\ eof = [l \in Legs |-> FALSE]
    /\ fin = [l \in Legs |-> FALSE]
    /\ paused = [l \in Legs |-> FALSE]
    /\ rd = [l \in Legs |-> 0]
    /\ got = [l \in Legs |-> <<>>]
    /\ far = [l \in Legs |-> "open"]

----------------------------------------------------------------------------
(* Reads *)

\* leg l delivers its next chunk x
Arrives(l, x) ==
    /\ Reading(l) /\ far[l] = "open"
    /\ rd[l] < MaxSend[l]
    /\ x = rd[l] + 1
    /\ rd' = [rd EXCEPT ![l] = x]

\* the common part of relay_a_read and relay_b_read: write x to the other
\* leg, behind everything that already waits for it
PassOn(l, x) ==
    LET m == Other(l)  s == leg[m] IN
    IF pend[m] = <<>> /\ s.fin # "none"
    THEN tm_stream_close /\ UNCHANGED <<leg, pend, paused>>
    ELSE /\ UNCHANGED st
         /\ \/ /\ pend[m] = <<>> /\ Len(s.q) < Capacity(s)
               /\ \E lo \in LowAfter(s, 1, FALSE) :
                    leg' = [leg EXCEPT ![m] = Accept(s, <<x>>, lo)]
               /\ UNCHANGED <<pend, paused>>
            \/ /\ pend[m] # <<>> \/ s.q # <<>>
               /\ leg' = [leg EXCEPT ![m].low = IF pend[m] = <<>> THEN s.kind = "tls" ELSE @]
               /\ pend' = [pend EXCEPT ![m] = Append(@, x)]
               /\ paused' = [paused EXCEPT ![l] = TRUE]

relay_a_read ==
    \E x \in 1 .. MaxSend["a"] :
      /\ Arrives("a", x)
      /\ \/ /\ Null(leg["b"])
            /\ IF eof["b"] \/ Len(preq) + 1 > HighWater + 1
               THEN tm_stream_close /\ UNCHANGED <<preq, paused>>
               ELSE /\ preq' = Append(preq, x)
                    /\ paused' = [paused EXCEPT !["a"] = @ \/ Len(preq) + 1 >= HighWater]
                    /\ UNCHANGED st
            /\ UNCHANGED <<leg, pend>>
         \/ /\ ~Null(leg["b"])
            /\ PassOn("a", x)
            /\ UNCHANGED preq
      /\ UNCHANGED <<mode, eof, fin, got, far>>

relay_b_read ==
    \E x \in 1 .. MaxSend["b"] :
      /\ Arrives("b", x)
      /\ \/ Null(leg["a"]) /\ tm_stream_close /\ UNCHANGED <<leg, pend, paused>>
         \/ ~Null(leg["a"]) /\ PassOn("b", x)
      /\ UNCHANGED <<mode, preq, eof, fin, got, far>>

----------------------------------------------------------------------------
(* End of a leg *)

\* leg l has ended; lg are the two legs as the callback left them.  What is
\* held back for the other leg is flushed, and its end follows once nothing is.
Ended(l, lg) ==
    LET m == Other(l) IN
    /\ eof' = [eof EXCEPT ![l] = TRUE]
    /\ \/ Null(lg[m]) /\ leg' = lg /\ UNCHANGED <<pend, fin>>
       \/ /\ ~Null(lg[m])
          /\ \E f \in flush_pend(lg[m], pend[m]) :
               /\ pend' = [pend EXCEPT ![m] = f.rest]
               /\ leg' = [lg EXCEPT ![m] = IF f.rest = <<>> THEN Shut(f.side) ELSE f.side]
               /\ fin' = [fin EXCEPT ![l] = @ \/ f.rest = <<>>]
    /\ UNCHANGED <<mode, preq, paused, rd, got, far>>
    /\ stream_maybe_close

\* the FIN or close_notify of the far end; on TLS the later end of the TCP
\* connection calls eof_cb once more
Eof(l) ==
    /\ Reading(l)
    /\ far[l] \in {"fin", "closed"}
    /\ eof[l] => leg[l].kind = "tls" /\ far[l] = "closed"
    /\ Ended(l, leg)

relay_a_eof == Eof("a")
relay_b_eof == Eof("b")

\* a read or a write on leg l fails: the io is closed and its queue freed
Error(l) ==
    /\ Live /\ ~Null(leg[l])
    /\ \/ far[l] = "reset" /\ (Reading(l) \/ ~Drained(leg[l]))
       \/ far[l] = "closed" /\ ~Drained(leg[l])
    /\ Ended(l, [leg EXCEPT ![l] = NewIo("gone")])

relay_a_error == Error("a")
relay_b_error == Error("b")

----------------------------------------------------------------------------
(* Completed writes *)

\* the other leg is not resumed
LowStaysPaused(l, s) ==
    LET m == Other(l) IN
    /\ \E f \in flush_pend(s, pend[l]) :
         /\ pend' = [pend EXCEPT ![l] = f.rest]
         /\ leg' = [leg EXCEPT ![l] = IF f.rest = <<>> /\ eof[m] THEN Shut(f.side) ELSE f.side]
         /\ fin' = [fin EXCEPT ![m] = @ \/ (f.rest = <<>> /\ eof[m])]
    /\ UNCHANGED <<mode, preq, eof, paused, rd, far>>
    /\ stream_maybe_close

\* relay_a_low, relay_b_low for leg l whose io s has drained
Low(l, s) ==
    LET m == Other(l) IN
    /\ \E f \in flush_pend(s, pend[l]) :
         /\ pend' = [pend EXCEPT ![l] = f.rest]
         /\ IF f.rest # <<>>
            THEN /\ leg' = [leg EXCEPT ![l] = f.side]
                 /\ UNCHANGED <<fin, paused>>
            ELSE /\ leg' = [leg EXCEPT ![l] = IF eof[m] /\ ~fin[m] THEN Shut(f.side) ELSE f.side]
                 /\ fin' = [fin EXCEPT ![m] = @ \/ eof[m]]
                 /\ paused' = [paused EXCEPT ![m] = @ /\ Null(leg[m])]
    /\ UNCHANGED <<mode, preq, eof, rd, far>>
    /\ stream_maybe_close

\* tcp_write_done, on_write_done
WriteDone(l) ==
    /\ Live /\ ~Null(leg[l]) /\ ~Drained(leg[l])
    /\ far[l] \in {"open", "fin"}
    /\ got' = [got EXCEPT ![l] = @ \o SubSeq(leg[l].q, 1, leg[l].infl)]
    /\ LET s == Complete(leg[l]) IN
       \/ /\ CallsLow(s)
          /\ Low(l, [s EXCEPT !.low = FALSE])
       \/ /\ ~CallsLow(s)
          /\ leg' = [leg EXCEPT ![l] = s]
          /\ UNCHANGED <<mode, st, pend, preq, eof, fin, paused, rd, far>>

relay_a_low == WriteDone("a")
relay_b_low == WriteDone("b")

----------------------------------------------------------------------------
(* Binding and closing *)

\* tm_stream_relay_attach_agent and tm_stream_relay_start
relay_start ==
    /\ st = "pending"
    /\ st' = "bound"
    /\ \E f \in flush_pend(NewIo("tls"), preq) :
         /\ leg' = [a |-> IF Null(leg["a"]) THEN NewIo("tcp") ELSE leg["a"], b |-> f.side]
         /\ pend' = [pend EXCEPT !["b"] = f.rest]
         /\ paused' = [paused EXCEPT !["a"] = f.rest # <<>>]
    /\ preq' = <<>>
    /\ UNCHANGED <<mode, eof, fin, rd, got, far>>

stream_bind_timer_cb ==
    /\ st = "pending"
    /\ tm_stream_close
    /\ UNCHANGED <<mode, leg, pend, preq, eof, fin, paused, rd, got, far>>

\* kill_stream, or the deletion of the tunnel
kill_stream ==
    /\ Live
    /\ tm_stream_close
    /\ UNCHANGED <<mode, leg, pend, preq, eof, fin, paused, rd, got, far>>

----------------------------------------------------------------------------
(* The far ends: the consumer, and the agent *)

relayVars == <<mode, st, leg, pend, preq, eof, fin, paused, rd, got>>

FarFin(l) ==
    /\ Live /\ ~Null(leg[l]) /\ far[l] = "open"
    /\ far' = [far EXCEPT ![l] = "fin"]
    /\ UNCHANGED relayVars

\* it closes its connection, politely when it has sent and seen the end
Polite(l) == far[l] = "fin" /\ leg[l].fin = "sent"
FarClose(l) ==
    /\ Live /\ ~Null(leg[l]) /\ far[l] \in {"open", "fin"}
    /\ far' = [far EXCEPT ![l] = "closed"]
    /\ UNCHANGED relayVars

FarReset(l) ==
    /\ Live /\ ~Null(leg[l]) /\ far[l] # "reset"
    /\ far' = [far EXCEPT ![l] = "reset"]
    /\ UNCHANGED relayVars

Next ==
    \/ relay_a_read \/ relay_b_read
    \/ relay_a_eof \/ relay_b_eof
    \/ relay_a_error \/ relay_b_error
    \/ relay_a_low \/ relay_b_low
    \/ relay_start \/ stream_bind_timer_cb \/ kill_stream
    \/ \E l \in Legs : FarFin(l) \/ FarClose(l) \/ FarReset(l)

Spec == Init /\ [][Next]_vars

(* Fairness.  libuv reports what happened on a socket: a write completes or
   fails, an end or an error is delivered while the leg is being read, and the
   bind timer fires.  A far end that has been told the other one is over ends
   its own direction some day, and closes a connection that is over in both.
   Nothing is assumed of binding, killing, resets and abrupt closes, and no
   far end has to end before the other one does. *)
Fairness ==
    /\ \A l \in Legs :
         /\ WF_vars(WriteDone(l)) /\ WF_vars(Error(l)) /\ WF_vars(Eof(l))
         /\ WF_vars(leg[l].fin = "sent" /\ FarFin(l)) /\ WF_vars(Polite(l) /\ FarClose(l))
    /\ WF_vars(stream_bind_timer_cb)

FairSpec == Spec /\ Fairness

----------------------------------------------------------------------------
(* Properties *)

Upto(n) == [i \in 1 .. n |-> i]

IoType == [kind : {"none", "gone", "tcp", "tls"}, q : Seq(Nat), infl : Nat,
           low : BOOLEAN, fin : {"none", "queued", "sent"}]

\* Every variable of a stream stays in its type.
TypeOK ==
    /\ mode \in {"open", "closed"}
    /\ st \in {"pending", "bound", "drained", "aborted"}
    /\ leg \in [Legs -> IoType]
    /\ pend \in [Legs -> Seq(Nat)]
    /\ preq \in Seq(Nat)
    /\ eof \in [Legs -> BOOLEAN]
    /\ fin \in [Legs -> BOOLEAN]
    /\ paused \in [Legs -> BOOLEAN]
    /\ rd \in [Legs -> Nat]
    /\ got \in [Legs -> Seq(Nat)]
    /\ far \in [Legs -> {"open", "fin", "closed", "reset"}]

\* what was read from the other leg and waits, in order, to go out on leg l
Pre(l) == IF l = "b" THEN preq ELSE <<>>
Waiting(l) == (leg[l].q \o pend[l]) \o Pre(l)

\* Nothing is lost, duplicated or reordered: while a leg is up, what its far
\* end got, followed by the io queue, the held-back chunks and the pre-bind
\* queue, is exactly what was read from the other leg, in order (relay_x_read
\* queues behind pend, flush_pend moves a prefix, relay_start moves preq).
InOrder == Live => \A l \in Legs :
    leg[l].kind # "gone" => got[l] \o Waiting(l) = Upto(rd[Other(l)])

\* The end of one direction is passed on only behind its whole tail: once
\* tm_io_shutdown_send was called on a leg, the other leg has ended and no
\* chunk for this leg waits in the relay; once it is on the wire the far end
\* has every chunk that was read.
FinAfterTail == Live => \A l \in Legs :
    leg[l].fin # "none" =>
        /\ eof[Other(l)] /\ fin[Other(l)] /\ pend[l] = <<>>
        /\ leg[l].fin = "sent" => got[l] = Upto(rd[Other(l)])

\* A stream that stream_maybe_close closes has delivered everything it read
\* to every leg that did not fail ("dropping a leg with unsent data loses
\* the tail").
NoTailLost == st = "drained" => \A l \in Legs :
    leg[l].kind # "gone" => got[l] = Upto(rd[Other(l)]) /\ eof[Other(l)]

\* What a stream delivers is what it was given: in order, each end behind its
\* tail, and all of it when the stream closes by itself.
Faithful == TypeOK /\ InOrder /\ FinAfterTail /\ NoTailLost

\* The memory of a stream is bounded by the watermarks whatever the two ends
\* do: each io holds at most its high-water mark, the relay holds back one
\* chunk per leg, and for the agent leg what was read before the bind.
BoundedQueues ==
    /\ \A l \in Legs : Len(leg[l].q) <= Capacity(leg[l])
    /\ Len(pend["a"]) <= 1
    /\ Len(pend["b"]) <= HighWater /\ Len(preq) <= HighWater

\* No lost wakeup: chunks held back for a leg that is up always have a write
\* in flight on that leg whose completion calls low_cb, and reading from a
\* leg is stopped only while something is held back for the other one.
NoLostWakeup == st = "bound" => \A l \in Legs :
    ~Null(leg[l]) =>
        /\ pend[l] # <<>> => leg[l].q # <<>> /\ (leg[l].kind = "tls" => leg[l].low)
        /\ paused[Other(l)] /\ ~Null(leg[Other(l)]) => pend[l] # <<>>

\* Flow control: memory within the watermarks, and whoever was stopped for that
\* has a callback coming that wakes it up.
FlowControl == BoundedQueues /\ NoLostWakeup

\* Backpressure ends: a paused leg is read again, or ends with its stream,
\* once the other far end keeps taking what is written to it.
Resumes == \A l \in Legs :
    (paused[l] /\ ~Null(leg[l])) ~> (~paused[l] \/ ~Live \/ \E m \in Legs : Null(leg[m]))

\* A stream both of whose legs ended without an error is closed eventually,
\* with nothing left behind (stream_maybe_close is called again when the last
\* byte has gone).
ClosesWhenOver == (\A l \in Legs : eof[l] /\ ~Null(leg[l])) ~> (~Live \/ \E l \in Legs : Null(leg[l]))

\* Half-close: on an open tunnel the end of a leg is passed on to the other leg
\* eventually, unless the stream or that leg goes first ("Half-close is honored
\* in both directions").
HalfClose == \A l \in Legs :
    (mode = "open" /\ st = "bound" /\ eof[l])
        ~> (~Live \/ Null(leg[Other(l)]) \/ leg[Other(l)].fin = "sent")

\* A stream gets on: backpressure ends, an end is passed on, and a stream that
\* has ended both ways is closed.
Progress == Resumes /\ HalfClose /\ ClosesWhenOver

\* The same of every tunnel as HalfClose: fails for a consumer that ends its direction
\* before the agent leg is bound, because tm_stream_relay_start moves the
\* pre-bind queue and forgets the end.
HalfCloseAlways == \A l \in Legs :
    (st = "bound" /\ eof[l]) ~> (~Live \/ Null(leg[Other(l)]) \/ leg[Other(l)].fin = "sent")

\* A stream one of whose legs failed is closed eventually ("close it now, keep
\* relaying what the agent leg still has queued, then close once it drains").
ClosesAfterError == \A l \in Legs : leg[l].kind = "gone" ~> ~Live

\* A leg that was closed is never opened again ("A relay leg is set to NULL
\* the moment it is closed ... treats a NULL io as already gone").
NeverReopened == [][\A l \in Legs : leg[l].kind = "gone" => leg'[l].kind = "gone"]_vars

----------------------------------------------------------------------------
(* The inductive invariant behind the safety properties. *)

\* a write is in flight while chunks are queued, no chunk follows the end
\* mark, and an io that does not exist holds nothing
IoOK(s) ==
    /\ s.infl <= Len(s.q)
    /\ s.q # <<>> => s.infl > 0
    /\ s.fin = "sent" => s.q = <<>>
    /\ Null(s) => s.q = <<>> /\ s.fin = "none"
    /\ Len(s.q) <= Capacity(s)

\* nothing has reached the agent leg before it is bound
PendingOK ==
    /\ leg["b"].kind = "none"
    /\ leg["a"].q = <<>> /\ leg["a"].fin = "none"
    /\ pend["a"] = <<>> /\ pend["b"] = <<>>
    /\ got["a"] = <<>> /\ got["b"] = <<>>
    /\ rd["b"] = 0 /\ ~eof["b"] /\ ~paused["b"]
    /\ Len(preq) <= HighWater /\ (~paused["a"] => Len(preq) < HighWater)

\* chunks held back for leg l stop the other leg and are woken by leg l
HeldOK(l) ==
    /\ pend[l] # <<>> =>
         /\ leg[l].fin = "none"
         /\ ~Null(leg[l]) => leg[l].q # <<>> /\ (leg[l].kind = "tls" => leg[l].low)
         /\ ~Null(leg[Other(l)]) => paused[Other(l)]
    /\ paused[l] /\ ~Null(leg[l]) /\ ~Null(leg[Other(l)]) => pend[Other(l)] # <<>>
    /\ Len(pend[l]) <= IF l = "b" THEN HighWater ELSE 1

\* The invariant of one stream, strong enough that every callback keeps it.
IndInv ==
    /\ TypeOK
    /\ \A l \in Legs : IoOK(leg[l])
    /\ \A l \in Legs : (eof[l] => far[l] # "open") /\ (leg[l].kind = "gone" => eof[l])
    /\ st = "pending" => PendingOK
    /\ st \in {"bound", "drained"} =>
         /\ preq = <<>>
         /\ \A l \in Legs : leg[l].kind # "none" /\ HeldOK(l)
    /\ st # "aborted" => \A l \in Legs :
         /\ leg[l].kind # "gone" => got[l] \o Waiting(l) = Upto(rd[Other(l)])
         /\ leg[l].fin # "none" => eof[Other(l)] /\ fin[Other(l)]
    /\ st = "drained" => Settled
    /\ Len(preq) <= HighWater /\ Len(pend["a"]) <= 1 /\ Len(pend["b"]) <= HighWater
=============================================================================
