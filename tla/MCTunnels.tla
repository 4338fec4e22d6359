----------------------------- MODULE MCTunnels -----------------------------
(* A small instance of Tunnels for TLC. *)
EXTENDS Tunnels

CONSTANTS i1, i2, b1, b2, b3
TwoIds == {i1, i2}
ThreeBlocks == {b1, b2, b3}

TcpOpen == [proto |-> "tcp", closed |-> FALSE]
TcpClosed == [proto |-> "tcp", closed |-> TRUE]
UdpOpen == [proto |-> "udp", closed |-> FALSE]
AllKinds == {TcpOpen, TcpClosed, UdpOpen}
=============================================================================
