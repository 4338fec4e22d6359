--------------------------- MODULE MCControlPlane ---------------------------
(* A small instance of ControlPlane for TLC. *)
EXTENDS ControlPlane

CONSTANTS tn, w1, w2
OneTunnel == {tn}
TwoWorkers == {w1, w2}
=============================================================================
