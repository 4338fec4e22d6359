---------------------------- MODULE MCBrokerUdp ----------------------------
(* Small instances of BrokerUdp for TLC. *)
EXTENDS BrokerUdp, TLC

CONSTANTS a1, a2, a3

Both == {"open", "closed"}
OpenOnly == {"open"}
ClosedOnly == {"closed"}
TwoAddrs == {a1, a2}
ThreeAddrs == {a1, a2, a3}
TwoSlots == {1, 2}
OnePeerFlow == {1}
SessionBound == [open |-> 1, closed |-> 2]
Sym == Permutations(TwoAddrs)
=============================================================================
