-------------------------------- MODULE Pipe --------------------------------
(***************************************************************************)
(* What a relayed stream promises to its two ends, without queues, flow    *)
(* control or sockets: two one-way channels.  Whatever goes in at one end  *)
(* comes out at the other in the same order; the end of a direction comes  *)
(* out only behind everything that went in; an end that failed stays down; *)
(* and a stream that closes by itself has kept all of this to the last     *)
(* chunk.  Relay implements it (RelayPipe).                                *)
(***************************************************************************)
EXTENDS Naturals, Sequences

VARIABLES
    open,    \* "yes", "over" (closed by itself) or "cut" (closed early)
    taken,   \* number of chunks taken from each end
    given,   \* chunks given to each end
    ended,   \* each end has ended its direction, or failed
    out      \* each end: "up", "ended" (was given the end mark) or "down" (failed)

vars == <<open, taken, given, ended, out>>

Ends == {"a", "b"}
Opposite(e) == IF e = "a" THEN "b" ELSE "a"
Chunks(n) == [i \in 1 .. n |-> i]
HasAll(g, t, e) == g[e] = Chunks(t[Opposite(e)])

Init ==
    /\ open = "yes"
    /\ taken = [e \in Ends |-> 0]
    /\ given = [e \in Ends |-> <<>>]
    /\ ended = [e \in Ends |-> FALSE]
    /\ out = [e \in Ends |-> "up"]

Take(e) ==
    /\ open = "yes" /\ ~ended[e]
    /\ taken' = [taken EXCEPT ![e] = @ + 1]
    /\ open' \in {"yes", "cut"}
    /\ UNCHANGED <<given, ended, out>>

\* out becomes o, or o with the end mark given to e: only behind everything
\* taken at the opposite end
MayMark(e, o) ==
    \/ out' = o
    \/ /\ out[e] = "up" /\ ended'[Opposite(e)] /\ HasAll(given', taken', e)
       /\ out' = [x \in Ends |-> IF x = e THEN "ended" ELSE o[x]]

\* the stream may close by itself once both ends have ended and every end
\* that is not down has everything
MayClose ==
    \/ open' = "yes"
    \/ open' = "over" /\ \A e \in Ends : ended'[e] /\ (out'[e] # "down" => HasAll(given', taken', e))

\* end e is given the next chunks
Give(e) ==
    /\ open = "yes" /\ out[e] = "up"
    /\ \E n \in Len(given[e]) .. taken[Opposite(e)] : given' = [given EXCEPT ![e] = Chunks(n)]
    /\ UNCHANGED <<taken, ended>>
    /\ MayMark(e, out)
    /\ MayClose

\* end e ends its direction or fails; the other one may get its end mark
End(e) ==
    /\ open = "yes"
    /\ ended' = [ended EXCEPT ![e] = TRUE]
    /\ UNCHANGED <<taken, given>>
    /\ \/ MayMark(Opposite(e), out)
       \/ MayMark(Opposite(e), [x \in Ends |-> IF x = e THEN "down" ELSE out[x]])
    /\ MayClose

Cut ==
    /\ open = "yes"
    /\ open' = "cut"
    /\ UNCHANGED <<taken, given, ended, out>>

Next == Cut \/ \E e \in Ends : Take(e) \/ Give(e) \/ End(e)

Spec == Init /\ [][Next]_vars
=============================================================================
