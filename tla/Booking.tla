------------------------------- MODULE Booking -------------------------------
(***************************************************************************)
(* The booking service (src/services/booking): HTTP handlers and the       *)
(* consumer of payment events, all working on one Postgres database.       *)
(*                                                                         *)
(* A worker is a request handler or a consumer task of some replica.  It   *)
(* runs one READ COMMITTED transaction at a time.  The transaction is two  *)
(* steps here: the read of the booking row with the check of its status    *)
(* (session[w] keeps what was read), and the append of the events, the     *)
(* update of the row, the outbox insert and the commit.  The second half   *)
(* is one step because what it writes is invisible until the commit and    *)
(* a second writer of the same unique key waits for that commit.           *)
(*                                                                         *)
(* The payment service is the environment: it publishes any payment event  *)
(* at any time and each one may be delivered any number of times, in any   *)
(* order.  The module Saga replaces it by the real payment service.        *)
(***************************************************************************)
EXTENDS Integers, Sequences, FiniteSets

CONSTANTS
    Bookings,      \* booking ids
    Vehicles,
    Hosts,
    HostOf,        \* the host of each vehicle, as the listing service says
    Days,          \* calendar days
    Prices,        \* daily_price_cents a listing may carry
    MileageLimits, \* daily_mileage_limit a listing may carry
    Odometers,     \* odometer readings a host may enter
    Workers,       \* concurrent transactions
    EventIds,      \* ids of payment events
    MaxVersion,    \* bound: the largest version the version column holds
    MaxInteger,    \* largest value of an INTEGER column
    NULL           \* SQL NULL, "no row" and "no transaction"

ASSUME ConstantsAssumption ==
    /\ HostOf \in [Vehicles -> Hosts]
    /\ Days \subseteq Int
    /\ Prices \subseteq Nat
    /\ MileageLimits \subseteq Nat
    /\ Odometers \subseteq Nat
    /\ MaxVersion \in Nat
    /\ MaxInteger \in Nat

VARIABLES
    bookings,        \* the table bookings: id -> row or NULL
    booking_events,  \* the table booking_events
    outbox,          \* the table outbox, in commit order
    inbox,           \* the table inbox: ids of the payment events handled
    published,       \* payment events published so far (environment)
    session          \* the open transaction of each worker, or NULL

vars == <<bookings, booking_events, outbox, inbox, published, session>>
-----------------------------------------------------------------------------
(* Tables and messages.                                                    *)

Statuses == {"requested", "confirmed", "active", "completed", "cancelled",
             "rejected"}

BookingState ==
    [vehicle_id : Vehicles, host_id : Hosts, start_date : Days,
     end_date : Days, daily_price_cents : Prices,
     daily_mileage_limit : MileageLimits, booking_mode : {"instant", "request"},
     status : Statuses, version : 1 .. MaxVersion,
     start_odometer : Odometers \cup {NULL},
     end_odometer : Odometers \cup {NULL}, overage_cents : 0 .. MaxInteger]

EventTypes ==
    {"booking_requested", "booking_request_accepted", "booking_rejected",
     "payment_authorized", "booking_confirmed",
     "payment_authorization_failed", "booking_cancelled",
     "booking_handover_recorded", "booking_return_recorded",
     "payment_captured", "booking_completed", "payment_capture_failed"}

BookingEvent == [booking_id : Bookings, version : Nat, event_type : EventTypes]

\* One shape for commands and domain events: an authorize command carries
\* amount_cents, a capture command the hold amount and the overage.
OutboxTypes ==
    {"authorize_payment_requested", "capture_payment_requested",
     "booking_rejected", "booking_confirmed", "booking_cancelled",
     "booking_completed", "booking_payment_capture_failed"}

OutboxRow == [booking_id : Bookings, event_type : OutboxTypes,
              amount_cents : Nat, overage_cents : Nat]

PaymentEventTypes == {"payment_authorized", "payment_authorization_failed",
                      "payment_captured", "payment_capture_failed"}

PaymentEvent == [event_id : EventIds, booking_id : Bookings,
                 event_type : PaymentEventTypes]

HostOps == {"accept", "reject", "handover", "return"}
Ops == HostOps \cup PaymentEventTypes

\* An open transaction: the operation, the row it read, the reading in the
\* request, and the payment event it has claimed.
Session == [op : Ops, booking_id : Bookings, state : BookingState,
            odometer : Odometers \cup {NULL}, event_id : EventIds \cup {NULL}]

ASSUME NullAssumption ==
    /\ NULL \notin Nat
    /\ NULL \notin EventIds
    /\ NULL \notin BookingState
    /\ NULL \notin Session
-----------------------------------------------------------------------------
(* Domain rules: the status an operation requires, the events it appends   *)
(* and the status they settle on.                                          *)

accept_request ==
    [from |-> "requested", events |-> <<"booking_request_accepted">>,
     to |-> "requested"]

reject_request ==
    [from |-> "requested", events |-> <<"booking_rejected">>,
     to |-> "rejected"]

confirm_after_payment_authorized ==
    [from |-> "requested",
     events |-> <<"payment_authorized", "booking_confirmed">>,
     to |-> "confirmed"]

cancel_after_payment_authorization_failed ==
    [from |-> "requested",
     events |-> <<"payment_authorization_failed", "booking_cancelled">>,
     to |-> "cancelled"]

\* Mutant: a car is handed over before the booking is confirmed.
HandoverWhenRequested ==
    [from |-> "requested", events |-> <<"booking_handover_recorded">>,
     to |-> "active"]

record_handover ==
    [from |-> "confirmed", events |-> <<"booking_handover_recorded">>,
     to |-> "active"]

record_return ==
    [from |-> "active", events |-> <<"booking_return_recorded">>,
     to |-> "active"]

\* Mutant: the status to complete from is not the one bookings reach.
CompleteFromConfirmed ==
    [from |-> "confirmed",
     events |-> <<"payment_captured", "booking_completed">>,
     to |-> "completed"]

complete_after_payment_captured ==
    [from |-> "active", events |-> <<"payment_captured", "booking_completed">>,
     to |-> "completed"]

note_payment_capture_failed ==
    [from |-> "active", events |-> <<"payment_capture_failed">>,
     to |-> "active"]

\* Operations of the host by route, of the consumer by event type.
Transition(op) ==
    CASE op = "accept"                       -> accept_request
      [] op = "reject"                       -> reject_request
      [] op = "handover"                     -> record_handover
      [] op = "return"                       -> record_return
      [] op = "payment_authorized"           -> confirm_after_payment_authorized
      [] op = "payment_authorization_failed" ->
            cancel_after_payment_authorization_failed
      [] op = "payment_captured"             -> complete_after_payment_captured
      [] op = "payment_capture_failed"       -> note_payment_capture_failed

\* The checks that raise InvalidBookingTransitionError.
Permitted(op, state) == /\ state.status = Transition(op).from
                        /\ op = "accept" => state.booking_mode = "request"

OVERAGE_RATE_CENTS_PER_MILE == 50

\* check_date_order admits only end_date > start_date, but the code keeps
\* the floor of one day.
rental_days(state) == LET d == state.end_date - state.start_date
                      IN  IF d < 1 THEN 1 ELSE d

\* Mutant: no floor at zero for a car driven less than allowed.
SignedOverage(state, odometer) ==
    (odometer - state.start_odometer
        - state.daily_mileage_limit * rental_days(state))
    * OVERAGE_RATE_CENTS_PER_MILE

compute_overage_cents(state, odometer) ==
    LET miles_driven  == odometer - state.start_odometer
        miles_allowed == state.daily_mileage_limit * rental_days(state)
    IN  IF miles_driven <= miles_allowed THEN 0
        ELSE (miles_driven - miles_allowed) * OVERAGE_RATE_CENTS_PER_MILE
-----------------------------------------------------------------------------
(* The outbox rows a handler writes.                                       *)

DomainEvent(b, type) == [booking_id |-> b, event_type |-> type,
                         amount_cents |-> 0, overage_cents |-> 0]

AuthorizeCommand(b, state) ==
    [booking_id |-> b, event_type |-> "authorize_payment_requested",
     amount_cents |-> state.daily_price_cents * rental_days(state),
     overage_cents |-> 0]

CaptureCommand(b, state, odometer) ==
    [booking_id |-> b, event_type |-> "capture_payment_requested",
     amount_cents |-> state.daily_price_cents * rental_days(state),
     overage_cents |-> compute_overage_cents(state, odometer)]

\* Mutant: publishes the last event of the log and sends no command.
EmitsLastEvent(s) ==
    LET events == Transition(s.op).events
    IN  IF s.op \in {"accept", "handover", "return"} THEN << >>
        ELSE <<DomainEvent(s.booking_id, events[Len(events)])>>

\* Handover is the one operation that tells nobody.
Emits(s) ==
    LET b == s.booking_id
    IN  CASE s.op = "accept"   -> <<AuthorizeCommand(b, s.state)>>
          [] s.op = "reject"   -> <<DomainEvent(b, "booking_rejected")>>
          [] s.op = "handover" -> << >>
          [] s.op = "return"   -> <<CaptureCommand(b, s.state, s.odometer)>>
          [] s.op = "payment_authorized" ->
                <<DomainEvent(b, "booking_confirmed")>>
          [] s.op = "payment_authorization_failed" ->
                <<DomainEvent(b, "booking_cancelled")>>
          [] s.op = "payment_captured" ->
                <<DomainEvent(b, "booking_completed")>>
          [] s.op = "payment_capture_failed" ->
                <<DomainEvent(b, "booking_payment_capture_failed")>>
-----------------------------------------------------------------------------
(* Requesting a booking.                                                   *)

Exists(b) == bookings[b] # NULL

HoldsVehicle(row) == row.status \notin {"cancelled", "rejected"}

\* daterange(start_date, end_date, '[]') &&: both end days are included.
Overlap(r, s) == /\ r.vehicle_id = s.vehicle_id
                 /\ r.start_date <= s.end_date
                 /\ s.start_date <= r.end_date

\* Mutant: only a confirmed booking keeps others from its days.
ExcludesConfirmedOnly(b, row) ==
    row.status = "confirmed" =>
        \A c \in Bookings \ {b} : Exists(c) =>
            ~ (bookings[c].status = "confirmed" /\ Overlap(bookings[c], row))

\* The exclusion constraint ex_bookings_no_overlap, when `row' is written
\* as the new row of b: Postgres checks it on insert and on update.
ex_bookings_no_overlap(b, row) ==
    HoldsVehicle(row) =>
        \A c \in Bookings \ {b} : Exists(c) =>
            ~ (HoldsVehicle(bookings[c]) /\ Overlap(bookings[c], row))

\* What ListingClient.get_vehicle may return at the time the handler asks: a
\* host can edit a listing and an admin can reject it later.
VehicleResponse ==
    [id : Vehicles, approval_status : {"pending", "approved", "rejected"},
     booking_mode : {"instant", "request"}, daily_price_cents : Prices,
     daily_mileage_limit : MileageLimits]

create_requested(vehicle, start, end) ==
    [vehicle_id |-> vehicle.id, host_id |-> HostOf[vehicle.id],
     start_date |-> start, end_date |-> end,
     daily_price_cents |-> vehicle.daily_price_cents,
     daily_mileage_limit |-> vehicle.daily_mileage_limit,
     booking_mode |-> vehicle.booking_mode, status |-> "requested",
     version |-> 2, start_odometer |-> NULL, end_odometer |-> NULL,
     overage_cents |-> 0]

\* POST /bookings.  The row is inserted with version 1 and the first event
\* takes it to 2; an overlap is a 409 that changes nothing.
request_booking(b, vehicle, start, end) ==
    /\ ~ Exists(b)
    /\ start < end
    /\ vehicle.approval_status = "approved"
    /\ LET row == create_requested(vehicle, start, end)
       IN  /\ row.version <= MaxVersion
           /\ ex_bookings_no_overlap(b, row)
           /\ bookings' = [bookings EXCEPT ![b] = row]
           /\ outbox' = IF row.booking_mode = "instant"
                        THEN Append(outbox, AuthorizeCommand(b, row))
                        ELSE outbox
    /\ booking_events' = booking_events \cup
           {[booking_id |-> b, version |-> 2, event_type |-> "booking_requested"]}
    /\ UNCHANGED <<inbox, published, session>>
-----------------------------------------------------------------------------
(* Transactions on an existing booking.                                    *)

\* get_by_id and the domain check on what it returned.  A missing booking
\* or a status that does not permit the operation ends the transaction
\* with no effect (404, 409, or the end of the consumer task).
Open(w, op, b, odometer, event_id) ==
    /\ session[w] = NULL
    /\ Exists(b)
    /\ Permitted(op, bookings[b])
    /\ session' = [session EXCEPT ![w] =
           [op |-> op, booking_id |-> b, state |-> bookings[b],
            odometer |-> odometer, event_id |-> event_id]]
    /\ UNCHANGED <<bookings, booking_events, outbox, inbox, published>>

\* The body of a host's request: only two of them carry a reading.
Readings(op) == IF op \in {"handover", "return"} THEN Odometers ELSE {NULL}

\* POST /bookings/{id}/accept, /reject, /handover and /return.
HostRequest(w, op, b, caller, odometer) ==
    /\ Exists(b)
    /\ bookings[b].host_id = caller
    /\ Open(w, op, b, odometer, NULL)

\* claim_event waits for another open claim of the same id, and finds
\* nothing to do when the id was claimed by a committed transaction.
claim_event(event_id) ==
    /\ event_id \notin inbox
    /\ \A v \in Workers : session[v] # NULL => session[v].event_id # event_id

\* postgres_inbox_processor with PAYMENT_EVENT_HANDLERS.
HandlePaymentEvent(w, e) ==
    /\ e \in published
    /\ claim_event(e.event_id)
    /\ Open(w, e.event_type, e.booking_id, NULL, e.event_id)

\* The events append_events inserts, numbered from the version it read.
NewEvents(s) ==
    {[booking_id |-> s.booking_id, version |-> s.state.version + i,
      event_type |-> Transition(s.op).events[i]] :
        i \in 1 .. Len(Transition(s.op).events)}

\* Mutant: the constraint is missing.
VersionUnchecked(s) == TRUE

\* UNIQUE (booking_id, version): nobody has committed any of these versions.
uq_booking_events_booking_version(s) ==
    \A x \in NewEvents(s), y \in booking_events :
        x.booking_id = y.booking_id => x.version # y.version

\* _apply_transition and the end of append_events: the columns that change.
Apply(row, s) ==
    [row EXCEPT
        !.status = Transition(s.op).to,
        !.version = s.state.version + Len(Transition(s.op).events),
        !.start_odometer = IF s.op = "handover" THEN s.odometer ELSE @,
        !.end_odometer = IF s.op = "return" THEN s.odometer ELSE @,
        !.overage_cents = IF s.op = "return"
                          THEN compute_overage_cents(s.state, s.odometer)
                          ELSE @]

\* append_events, the outbox insert, save and the commit (of guard.store
\* for a host's request, of the inbox processor for a payment event).
Commit(w) ==
    /\ session[w] # NULL
    /\ LET s == session[w]
       IN  /\ s.state.version + Len(Transition(s.op).events) <= MaxVersion
           /\ uq_booking_events_booking_version(s)
           /\ Apply(bookings[s.booking_id], s).overage_cents <= MaxInteger
           /\ ex_bookings_no_overlap(s.booking_id,
                                     Apply(bookings[s.booking_id], s))
           /\ booking_events' = booking_events \cup NewEvents(s)
           /\ bookings' = [bookings EXCEPT ![s.booking_id] = Apply(@, s)]
           /\ outbox' = outbox \o Emits(s)
           /\ inbox' = IF s.event_id = NULL THEN inbox
                       ELSE inbox \cup {s.event_id}
    /\ session' = [session EXCEPT ![w] = NULL]
    /\ UNCHANGED published

\* ConcurrentBookingUpdateError, an overage too large for its column, a lost
\* connection or a crash.
Rollback(w) ==
    /\ session[w] # NULL
    /\ session' = [session EXCEPT ![w] = NULL]
    /\ UNCHANGED <<bookings, booking_events, outbox, inbox, published>>

\* The environment: the payment service commits one more event.
Publish(e) ==
    /\ \A f \in published : f.event_id # e.event_id
    /\ published' = published \cup {e}
    /\ UNCHANGED <<bookings, booking_events, outbox, inbox, session>>
-----------------------------------------------------------------------------
Init ==
    /\ bookings = [b \in Bookings |-> NULL]
    /\ booking_events = {}
    /\ outbox = << >>
    /\ inbox = {}
    /\ published = {}
    /\ session = [w \in Workers |-> NULL]

Next ==
    \/ \E b \in Bookings, v \in VehicleResponse, start, end \in Days :
          request_booking(b, v, start, end)
    \/ \E w \in Workers, op \in HostOps, b \in Bookings, caller \in Hosts :
          \E odometer \in Readings(op) :   HostRequest(w, op, b, caller, odometer)
    \/ \E w \in Workers, e \in PaymentEvent : HandlePaymentEvent(w, e)
    \/ \E w \in Workers : Commit(w)
    \/ \E w \in Workers : Rollback(w)
    \/ \E e \in PaymentEvent : Publish(e)

Spec == Init /\ [][Next]_vars
-----------------------------------------------------------------------------
(* Properties.                                                             *)

\* Every table and every open transaction has its shape; in particular no
\* row rests in a status outside the CHECK constraint and overage_cents is
\* never negative and never outgrows its column, whatever readings the host
\* enters.
TypeOK ==
    /\ bookings \in [Bookings -> BookingState \cup {NULL}]
    /\ booking_events \subseteq BookingEvent
    /\ outbox \in Seq(OutboxRow)
    /\ inbox \subseteq EventIds
    /\ published \subseteq PaymentEvent
    /\ session \in [Workers -> Session \cup {NULL}]

\* Two bookings that hold the same vehicle share no day, the return day of
\* one and the pick-up day of the other included (the double-booking guard
\* of migrations/versions/0001_initial.py:64-72), although rows are written
\* by transactions that read them earlier.
NoDoubleBooking ==
    \A b, c \in Bookings :
        /\ b # c /\ Exists(b) /\ Exists(c)
        /\ bookings[b].vehicle_id = bookings[c].vehicle_id
        /\ HoldsVehicle(bookings[b]) /\ HoldsVehicle(bookings[c])
        => ~ \E d \in Days :
              /\ bookings[b].start_date <= d /\ d <= bookings[b].end_date
              /\ bookings[c].start_date <= d /\ d <= bookings[c].end_date

EventsOf(b) == {e \in booking_events : e.booking_id = b}

\* The status a booking rests in when an event is its last; the payment
\* facts are not resting points (models.py:16-18).
Settles ==
    [booking_requested |-> "requested", booking_request_accepted |-> "requested",
     booking_rejected |-> "rejected", booking_confirmed |-> "confirmed",
     booking_cancelled |-> "cancelled", booking_handover_recorded |-> "active",
     booking_return_recorded |-> "active", booking_completed |-> "completed",
     payment_capture_failed |-> "active"]

\* The row is the projection of the log (models.py:14-21, 55-57): the log of
\* a booking holds each version from 2 to the row's version exactly once,
\* and the row's status is the one its last event settles on, however the
\* transactions of handlers and consumers interleave.
RowProjectsLog ==
    \A b \in Bookings :
        /\ ~ Exists(b) => EventsOf(b) = {}
        /\ Exists(b) =>
             /\ {e.version : e \in EventsOf(b)} = 2 .. bookings[b].version
             /\ \A e, f \in EventsOf(b) : e.version = f.version => e = f
             /\ \A e \in EventsOf(b) : e.version = bookings[b].version =>
                  /\ e.event_type \in DOMAIN Settles
                  /\ bookings[b].status = Settles[e.event_type]

LogCount(b, type) == Cardinality({e \in EventsOf(b) : e.event_type = type})

OutboxCount(b, type) ==
    Cardinality({i \in DOMAIN outbox : /\ outbox[i].booking_id = b
                                       /\ outbox[i].event_type = type})

\* A payment event that is delivered many times, to several replicas, has
\* one effect in the log, and no effect without its claim (inbox.py:11-14).
EachPaymentEventOnce ==
    \A b \in Bookings, type \in PaymentEventTypes :
        LogCount(b, type) =
            Cardinality({e \in published : /\ e.event_id \in inbox
                                           /\ e.booking_id = b
                                           /\ e.event_type = type})

\* The outbox tells what the log records, as often as it records it: one
\* authorize command per instant request and per acceptance, one capture
\* command per return, one domain event per settled outcome.
OutboxTellsLog ==
    \A b \in Bookings :
        /\ OutboxCount(b, "authorize_payment_requested") =
              LogCount(b, "booking_request_accepted") +
              (IF Exists(b) /\ bookings[b].booking_mode = "instant"
               THEN 1 ELSE 0)
        /\ OutboxCount(b, "capture_payment_requested") =
              LogCount(b, "booking_return_recorded")
        /\ OutboxCount(b, "booking_payment_capture_failed") =
              LogCount(b, "payment_capture_failed")
        /\ \A type \in {"booking_rejected", "booking_confirmed",
                        "booking_cancelled", "booking_completed"} :
              OutboxCount(b, type) = LogCount(b, type)

\* The last capture command carries the overage the row shows: what the
\* renter is asked to pay follows the reading the host entered last.
RowShowsLastCapture ==
    \A i \in DOMAIN outbox :
        LET b == outbox[i].booking_id
        IN  /\ outbox[i].event_type = "capture_payment_requested"
            /\ \A j \in DOMAIN outbox :
                 j > i => \/ outbox[j].booking_id # b
                          \/ outbox[j].event_type # "capture_payment_requested"
            => outbox[i].overage_cents = bookings[b].overage_cents

\* What comes in and what goes out is what the log records, each once: the
\* payment events claimed in the inbox, the commands and events in the outbox,
\* and the overage last asked for; through redelivery, rollbacks, repeated
\* acceptances and returns (service.py:112-283).
MessagesTellLog ==
    EachPaymentEventOnce /\ OutboxTellsLog /\ RowShowsLastCapture

Terminal == {"completed", "cancelled", "rejected"}

TerminalAtRest ==
    \A b \in Bookings : Exists(b) =>
        (bookings[b].status \in Terminal =>
            bookings'[b] = bookings[b] /\ EventsOf(b)' = EventsOf(b))

\* A booking that was completed, cancelled or rejected never changes again:
\* not its row, not its log, not by a handler that read it before the
\* transaction of another one settled it (repository.py, append_events).
TerminalStays == [][TerminalAtRest]_vars

RentalOf(row) ==
    IF row = NULL THEN NULL
    ELSE [vehicle_id |-> row.vehicle_id, start_date |-> row.start_date,
          end_date |-> row.end_date, phase |-> row.status]

rental == [b \in Bookings |-> RentalOf(bookings[b])]

L == INSTANCE Lifecycle WITH NoRow <- NULL

ASSUME NoRentalAssumption == NULL \notin L!Rental

\* The service implements the calendar of rentals: each transaction, with
\* its stale read, its version check and its two writes, is one legal move
\* of one rental or no move at all.
ImplementsLifecycle == L!Spec
==============================================================================
