----------------------------- MODULE MCIngestion -----------------------------
(***************************************************************************)
(* Instances of IngestionPipeline for TLC.                                 *)
(***************************************************************************)
EXTENDS IngestionProperties, TLC

Symmetry == Permutations(Delivery) \cup Permutations(Slot)
=============================================================================
