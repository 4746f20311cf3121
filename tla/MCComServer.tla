---------------------------- MODULE MCComServer ----------------------------
(* The serial port server, for TLC: entities are told apart by nothing.    *)
EXTENDS ComServer, TLC

McSymmetry == Permutations(Names)
=============================================================================
