---------------------------- MODULE MCMemoryPool ----------------------------
(***************************************************************************)
(* Instance of MemoryPool for TLC: the pool runs dry, grows and reaches its *)
(* limit in the middle of a growth, with the limit moved up and down.      *)
(***************************************************************************)
EXTENDS MemoryPool, TLC

CONSTANTS capture, process, packet

=============================================================================
