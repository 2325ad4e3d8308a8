------------------------------ MODULE Lifecycle ------------------------------
(***************************************************************************)
(* What the booking service promises its users, with none of its           *)
(* machinery: a calendar of rentals, each of which moves through its       *)
(* phases one step at a time.  A request takes its slot only if no rental  *)
(* that still holds the vehicle meets it on any day; a rental that was     *)
(* rejected, cancelled or completed never moves again.                     *)
(*                                                                         *)
(* The module Booking (transactions, versions, an event log, consumers of  *)
(* payment events) is shown to implement this specification.               *)
(***************************************************************************)
EXTENDS Integers

CONSTANTS
    Bookings,   \* identifiers of rentals
    Vehicles,
    Days,       \* calendar days, integers
    NoRow       \* "this rental has not been requested"

VARIABLE rental

Phases == {"requested", "confirmed", "active", "completed",
           "cancelled", "rejected"}

Rental == [vehicle_id : Vehicles, start_date : Days, end_date : Days,
           phase : Phases]

\* The moves a rental can make; every phase not named on the left is final.
Moves == { <<"requested", "confirmed">>, <<"requested", "cancelled">>,
           <<"requested", "rejected">>, <<"confirmed", "active">>,
           <<"active", "completed">> }

HoldsVehicle(r) == r.phase \notin {"cancelled", "rejected"}

Meet(r, s) == /\ r.vehicle_id = s.vehicle_id
              /\ r.start_date <= s.end_date
              /\ s.start_date <= r.end_date

Init == rental = [b \in Bookings |-> NoRow]

Request(b, r) ==
    /\ rental[b] = NoRow
    /\ r.phase = "requested"
    /\ r.start_date < r.end_date
    /\ \A c \in Bookings : rental[c] # NoRow =>
          ~ (HoldsVehicle(rental[c]) /\ Meet(rental[c], r))
    /\ rental' = [rental EXCEPT ![b] = r]

Move(b, phase) ==
    /\ rental[b] # NoRow
    /\ <<rental[b].phase, phase>> \in Moves
    /\ rental' = [rental EXCEPT ![b].phase = phase]

Next == \E b \in Bookings : \/ \E r \in Rental : Request(b, r)
                            \/ \E phase \in Phases : Move(b, phase)

Spec == Init /\ [][Next]_rental
==============================================================================
