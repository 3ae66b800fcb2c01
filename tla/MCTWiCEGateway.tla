--------------------------- MODULE MCTWiCEGateway ---------------------------
(* TWiCEGateway for TLC: three packets that share parts of their content. *)
EXTENDS TWiCEGateway

CONSTANTS a1, a2, a3

MCPayloads == {<<0, 0, 1, 0, 0, 1>>, <<1, 0, 0, 1, 1, 1, 1>>, <<0, 1, 1, 1, 1, 0, 0>>}
=============================================================================
