--------------------------- MODULE MCEngineSession ---------------------------
(* Instances of EngineSession for TLC.                                      *)
EXTENDS EngineSession, TLC

Symmetry == Permutations(Gets) \cup Permutations(Writers)

=============================================================================
