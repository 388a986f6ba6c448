-------------------------- MODULE MCSocketRegistry --------------------------
(* Instances of SocketRegistry for TLC.                                     *)
EXTENDS SocketRegistry, TLC

Symmetry == Permutations(Tasks) \cup Permutations(Sockets) \cup Permutations(Engines)

=============================================================================
