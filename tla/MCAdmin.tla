------------------------------- MODULE MCAdmin --------------------------------
(* Instances of Admin for TLC.                                             *)
EXTENDS Admin, TLC

Symmetry == Permutations(Keys) \cup Permutations(Handlers)
===============================================================================
