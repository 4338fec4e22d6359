------------------------------ MODULE MCRelay ------------------------------
(* Small instances of Relay for TLC. *)
EXTENDS RelayPipe, TLC

BothModes == {"open", "closed"}
ClosedModes == {"closed"}
OpenModes == {"open"}

\* more chunks than the watermarks hold on the way to the agent, and enough for
\* a refused write on the way back
Sends == [l \in Legs |-> IF l = "a" THEN 4 ELSE 2]
Two == [l \in Legs |-> 2]
=============================================================================
