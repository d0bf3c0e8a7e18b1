---------------------------- MODULE MCPageCommands ----------------------------
(* Neither the submissions nor the values differ in anything but identity.  *)
EXTENDS PageCommands, TLC

Symmetry == Permutations(Act) \cup Permutations(Value)
=============================================================================
