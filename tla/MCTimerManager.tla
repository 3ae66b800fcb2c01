--------------------------- MODULE MCTimerManager ---------------------------
(***************************************************************************)
(* Instance of TimerManager for TLC: the two timer threads the program     *)
(* starts, one module and a packet thread that adds timers.                *)
(***************************************************************************)
EXTENDS TimerManager

CONSTANTS t1, t2, packet, shaper, e1, e2
=============================================================================
