------------------------------ MODULE MCBooking ------------------------------
(* Instances of Booking for TLC.                                           *)
EXTENDS Booking, TLC

CONSTANTS h1

MCHostOf == [v \in Vehicles |-> h1]

\* Bookings, workers and event ids are interchangeable.
Symmetry == Permutations(Bookings) \cup Permutations(Workers)
               \cup Permutations(EventIds)
==============================================================================
