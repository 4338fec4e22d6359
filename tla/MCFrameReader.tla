--------------------------- MODULE MCFrameReader ---------------------------
(* Small instance of FrameReader for TLC. *)
EXTENDS FrameReader

Bind == {2}
End == {3}
Register == {4}

\* frames of every length and kind, and two that are refused
Parts == {<<1, 1, 0, 0>>, <<1, 1, 1, 0, 1>>, (<<1, 1, 14, 0>> \o [i \in 1 .. 14 |-> 1]),
          <<1, 2, 0, 5>>, <<1, 3, 0, 0>>, <<1, 4, 2, 0, 1, 0>>,
          <<0, 1, 0, 0>>, <<1, 1, 15, 0>>}

\* what follows looks like the beginning of another frame
Tails == {<<>>, <<1, 1, 0>>}

TwoOrThree == {(x \o y) \o t : x, y \in Parts, t \in Tails}
                \cup {(x \o y) \o z : x, y, z \in Parts}

\* on both sides of every byte boundary TLC's integers reach
ByteEdges == {0, 1, 255, 256, 65535, 65536, 16777215, 16777216, 2147483647}
SomePayloads == {<<>>, <<0>>, <<11, 255>>}

\* envelopes with one byte of length, flow id, flags or payload overwritten, and cut ones
Base == tm_env_encode(66051, 2, <<7>>)
Overwritten == {[Base EXCEPT ![i] = v] : i \in {1, 2, 8, 9, 10, 11, 12}, v \in {0, 1, 11, 15, 16, 255}}
Cut == {SubSeq(Base, 1, n) : n \in 0 .. 11}

\* The codec of the envelope, on these inputs
ASSUME EnvelopeExact(ByteEdges, SomePayloads, Overwritten \cup Cut)
=============================================================================
