------------------------------- MODULE MCSaga --------------------------------
(* Instances of Saga for TLC.                                              *)
EXTENDS Saga, TLC

CONSTANT h1

MCHostOf == [v \in Vehicles |-> h1]

\* All bookings share one partition, the worst case for a blocked record.
MCPartitionOf == [b \in Bookings |-> CHOOSE p \in Partitions : TRUE]
==============================================================================
