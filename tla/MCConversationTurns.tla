------------------------- MODULE MCConversationTurns -------------------------
(***************************************************************************)
(* Instances of ConversationTurns for TLC.                                 *)
(***************************************************************************)
EXTENDS ConversationTurns, TLC

Symmetry == Permutations(Turn)
=============================================================================
