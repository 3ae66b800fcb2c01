--------------------------- MODULE MCRIPPSMonitor ---------------------------
(* RIPPSMonitor for TLC: one host with two connections, of which one only   *)
(* brings data of the host.                                                 *)
EXTENDS RIPPSMonitor

CONSTANTS h1, c1, c2

MCHostOf == [c \in Conns |-> h1]
MCSizes == [c \in Conns |-> IF c = c1 THEN {1, 3} ELSE {}]
=============================================================================
