--------------------------- MODULE MCSemanticLock ---------------------------
(* SemanticLock with interchangeable sagas and keys. *)
EXTENDS SemanticLock, TLC
Symmetry == Permutations(Sagas) \cup Permutations(Keys)
=============================================================================
