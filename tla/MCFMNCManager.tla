--------------------------- MODULE MCFMNCManager ---------------------------
(***************************************************************************)
(* Instances of FMNCManager for TLC.                                        *)
(***************************************************************************)
EXTENDS FMNCManager, TLC

CONSTANTS a, b, s1, s2

Perms == Permutations(Clients) \cup Permutations(Slots)
=============================================================================
