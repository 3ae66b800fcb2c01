-------------------------- MODULE MCPacketPipeline --------------------------
(***************************************************************************)
(* PacketPipeline for TLC: a dual-homed box.  Packets go from lan to wan    *)
(* past a tap, a module that only looks and a passthrough, and are tapped   *)
(* again before they are written; what wan captures is passed to lan and    *)
(* purged there, or written.                                                *)
(***************************************************************************)
EXTENDS PacketPipeline

CONSTANTS lan, wan, tap, tap2, look, pass, back, purge, write, write2

TwoTaps ==
    [w \in Workers |->
        CASE w = <<lan, "in">> -> <<tap, look, pass>>
          [] w = <<wan, "out">> -> <<tap2, write>>
          [] w = <<wan, "in">> -> <<back>>
          [] w = <<lan, "out">> -> <<purge, write2>>]

KindOf(m) ==
    CASE m \in {tap, tap2} -> "tap"
      [] m \in {pass, back} -> "pass"
      [] m \in {write, write2} -> "write"
      [] m = look -> "look"
      [] m = purge -> "purge"

MCKind == [m \in Modules |-> KindOf(m)]
MCTarget == [m \in {pass, back} |-> IF m = pass THEN wan ELSE lan]
=============================================================================
