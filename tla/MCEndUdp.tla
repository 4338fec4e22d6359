------------------------------ MODULE MCEndUdp ------------------------------
(* Small instances of EndUdp for TLC. *)
EXTENDS EndUdp

Both == {"agent", "peer"}
AgentOnly == {"agent"}
PeerOnly == {"peer"}
ThreeLocals == {11, 12, 13}
OneLocal == {11}
ThreeIds == {1, 2, 3}
OneId == {1}
=============================================================================
