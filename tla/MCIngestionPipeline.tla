------------------------- MODULE MCIngestionPipeline -------------------------
EXTENDS IngestionPipeline, TLC

(* Requests differ in nothing but their name until they are submitted.     *)
Symmetry == Permutations(Requests)
=============================================================================
