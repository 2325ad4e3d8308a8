------------------------------ MODULE MCPayment ------------------------------
(* Instances of Payment for TLC.                                           *)
EXTENDS Payment, TLC

\* All bookings share one partition.
MCPartitionOf == [b \in Bookings |-> CHOOSE p \in Partitions : TRUE]

Symmetry == Permutations(Bookings) \cup Permutations(Consumers)
==============================================================================
