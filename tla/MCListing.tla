------------------------------ MODULE MCListing ------------------------------
(* Instances of Listing for TLC.                                           *)
EXTENDS Listing, TLC

Symmetry == Permutations(Hosts) \cup Permutations(Prices)
               \cup Permutations(Modes) \cup Permutations(Workers)
==============================================================================
