-------------------------------- MODULE MCAuth --------------------------------
(* Instances of Auth for TLC.                                              *)
EXTENDS Auth, TLC

Symmetry == Permutations(Keys) \cup Permutations(Emails)
               \cup Permutations(Passwords) \cup Permutations(Handlers)
===============================================================================
