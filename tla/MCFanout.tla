------------------------------ MODULE MCFanout ------------------------------
(* Instances of Fanout for TLC.                                             *)
EXTENDS Fanout, TLC

Symmetry == Permutations(Sockets)

=============================================================================
