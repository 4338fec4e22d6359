---------------------------- MODULE MCAgentLink ----------------------------
(* Small instances of AgentLink for TLC. *)
EXTENDS AgentLink

Both == {"tcp", "udp"}
TcpOnly == {"tcp"}
TwoSids == {1, 2}
=============================================================================
