--------------------------- MODULE MCChatInference ---------------------------
(***************************************************************************)
(* Instances of ChatInference for TLC.                                     *)
(***************************************************************************)
EXTENDS ChatInferenceProperties, TLC

Symmetry == Permutations(Inference) \cup Permutations(CancelCall)
=============================================================================
