----------------------------- MODULE MCEndRelay ----------------------------
(* Small instances of EndRelay for TLC. *)
EXTENDS EndRelay

Both == {"agent", "peer"}
AgentOnly == {"agent"}

\* more than the high watermark towards the local service, so that it is held back
\* before and after the connection; a write may also be refused the other way
Sends == [broker |-> 4, local |-> 2]
Down == [broker |-> 2, local |-> 0]
=============================================================================
