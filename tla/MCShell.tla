------------------------------- MODULE MCShell --------------------------------
(* An instance of Shell with three interchangeable views. *)
EXTENDS Shell, TLC

Symmetry == Permutations(Views)
===============================================================================
