------------------------------ MODULE MCPaVolume ------------------------------
(***************************************************************************)
(* PaVolume for TLC: a sink with one available port, one with two.         *)
(***************************************************************************)
EXTENDS PaVolume

MCNumPorts == [k \in Sinks |-> IF k = CHOOSE s \in Sinks : TRUE THEN 1 ELSE 2]
===============================================================================
