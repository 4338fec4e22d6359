----------------------------- MODULE MCControl -----------------------------
(* Small instances of Control for TLC. *)
EXTENDS Control, TLC

CONSTANTS o, k, c1, c2, c3, s1, s2, s3
One == <<o>>
Both == <<o, k>>
ClosedOnly == <<k>>
KSet == {k}
NoTuns == {}
TwoConns == {c1, c2}
ThreeConns == {c1, c2, c3}
TwoSlots == {s1, s2}
ThreeSlots == {s1, s2, s3}

Symmetric == Permutations(ThreeConns) \cup Permutations(ThreeSlots)
=============================================================================
