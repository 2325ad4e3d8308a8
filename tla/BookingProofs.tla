---------------------------- MODULE BookingProofs ----------------------------
(***************************************************************************)
(* Proofs about Booking, for any number of bookings, vehicles, workers and *)
(* payment events.                                                         *)
(*                                                                         *)
(* The heart of the argument is Snapshots: what an open transaction read   *)
(* is not newer than the row, and it is the row when the versions agree.   *)
(* Together with the log being gapless up to the row's version, the unique *)
(* constraint then lets only a transaction commit whose read is current.   *)
(***************************************************************************)
EXTENDS Booking, FiniteSetTheorems, TLAPS

\* The bookings that hold a vehicle do not overlap: NoDoubleBooking in the
\* form the exclusion constraint maintains.
NoOverlap ==
    \A b, c \in Bookings :
        /\ b # c /\ Exists(b) /\ Exists(c)
        /\ HoldsVehicle(bookings[b]) /\ HoldsVehicle(bookings[c])
        => ~ Overlap(bookings[b], bookings[c])

\* A booking whose car was handed over has its first reading.
HandedOverHasReading(row) ==
    row.status \in {"active", "completed"} => row.start_odometer \in Odometers

Readable == \A b \in Bookings : Exists(b) => HandedOverHasReading(bookings[b])

\* What an open transaction knows of the row it read.
Snapshots ==
    \A w \in Workers : session[w] # NULL =>
        LET s == session[w]
        IN  /\ Exists(s.booking_id)
            /\ s.state.version <= bookings[s.booking_id].version
            /\ s.state.version = bookings[s.booking_id].version =>
                  s.state = bookings[s.booking_id]
            /\ Permitted(s.op, s.state)
            /\ s.op \in {"handover", "return"} => s.odometer \in Odometers

IInv == /\ TypeOK
        /\ RowProjectsLog
        /\ NoOverlap
        /\ Readable
        /\ Snapshots
-----------------------------------------------------------------------------
(* Facts about the domain rules.                                           *)

\* Each domain transition appends one or two events of the log's vocabulary,
\* starts from and settles on a status of the CHECK constraint, and its last
\* event settles on the status it announces.
WellFormedTransition(t) ==
    /\ t.events \in Seq(EventTypes)
    /\ Len(t.events) \in {1, 2}
    /\ t.from \in {"requested", "confirmed", "active"}
    /\ t.to \in Statuses
    /\ t.events[Len(t.events)] \in DOMAIN Settles
    /\ Settles[t.events[Len(t.events)]] = t.to

\* Every operation of the booking service has a well-formed transition
\* (domain.py:60-150).
LEMMA TransitionFacts ==
    ASSUME NEW op \in Ops
    PROVE  WellFormedTransition(Transition(op))
<1> USE DEF WellFormedTransition, EventTypes, Statuses, Settles
<1>1. CASE op = "accept"
  <2>1. Transition(op) = accept_request
    BY <1>1 DEF Transition
  <2> QED BY <2>1 DEF accept_request
<1>2. CASE op = "reject"
  <2>1. Transition(op) = reject_request
    BY <1>2 DEF Transition
  <2> QED BY <2>1 DEF reject_request
<1>3. CASE op = "handover"
  <2>1. Transition(op) = record_handover
    BY <1>3 DEF Transition
  <2> QED BY <2>1 DEF record_handover
<1>4. CASE op = "return"
  <2>1. Transition(op) = record_return
    BY <1>4 DEF Transition
  <2> QED BY <2>1 DEF record_return
<1>5. CASE op = "payment_authorized"
  <2>1. Transition(op) = confirm_after_payment_authorized
    BY <1>5 DEF Transition
  <2> QED BY <2>1 DEF confirm_after_payment_authorized
<1>6. CASE op = "payment_authorization_failed"
  <2>1. Transition(op) = cancel_after_payment_authorization_failed
    BY <1>6 DEF Transition
  <2> QED BY <2>1 DEF cancel_after_payment_authorization_failed
<1>7. CASE op = "payment_captured"
  <2>1. Transition(op) = complete_after_payment_captured
    BY <1>7 DEF Transition
  <2> QED BY <2>1 DEF complete_after_payment_captured
<1>8. CASE op = "payment_capture_failed"
  <2>1. Transition(op) = note_payment_capture_failed
    BY <1>8 DEF Transition
  <2> QED BY <2>1 DEF note_payment_capture_failed
<1> QED BY <1>1, <1>2, <1>3, <1>4, <1>5, <1>6, <1>7, <1>8
        DEF Ops, HostOps, PaymentEventTypes

\* The columns of a row are numbers of the kind their table declares.
LEMMA RowFacts ==
    ASSUME NEW row \in BookingState
    PROVE  /\ row.start_date \in Int /\ row.end_date \in Int
           /\ row.daily_price_cents \in Nat
           /\ row.daily_mileage_limit \in Nat
           /\ row.version \in Nat /\ row.version >= 1
<1>1. row.start_date \in Int /\ row.end_date \in Int
  BY ConstantsAssumption DEF BookingState
<1>2. row.daily_price_cents \in Nat /\ row.daily_mileage_limit \in Nat
  BY ConstantsAssumption DEF BookingState
<1>3. row.version \in 1 .. MaxVersion
  BY DEF BookingState
<1> QED BY <1>1, <1>2, <1>3, ConstantsAssumption

\* rental_days is a positive number of days, whatever the two dates.
LEMMA DaysPositive ==
    ASSUME NEW row \in BookingState
    PROVE  rental_days(row) \in Nat /\ rental_days(row) >= 1
<1>1. row.start_date \in Int /\ row.end_date \in Int
  BY RowFacts
<1> QED BY <1>1 DEF rental_days

\* The product of two naturals is a natural.
LEMMA ProductNat == \A m, n \in Nat : m * n \in Nat
OBVIOUS

\* The price of a booking is a natural number.
LEMMA PriceNat ==
    ASSUME NEW row \in BookingState
    PROVE  row.daily_price_cents * rental_days(row) \in Nat
BY RowFacts, DaysPositive, ProductNat

\* The overage is never negative once the first reading is known, even when
\* the second reading is below the first.
LEMMA OverageNat ==
    ASSUME NEW row \in BookingState, row.start_odometer \in Odometers,
           NEW odometer \in Odometers
    PROVE  compute_overage_cents(row, odometer) \in Nat
<1> DEFINE driven == odometer - row.start_odometer
           allowed == row.daily_mileage_limit * rental_days(row)
<1>1. odometer \in Nat /\ row.start_odometer \in Nat
  BY ConstantsAssumption
<1>2. driven \in Int
  BY <1>1
<1>3. allowed \in Nat
  BY RowFacts, DaysPositive, ProductNat
<1>4. ~ (driven <= allowed) =>
         (driven - allowed) * OVERAGE_RATE_CENTS_PER_MILE \in Nat
  <2> HIDE DEF driven, allowed
  <2> QED BY <1>2, <1>3 DEF OVERAGE_RATE_CENTS_PER_MILE
<1> QED BY <1>2, <1>3, <1>4 DEF compute_overage_cents
-----------------------------------------------------------------------------
(* The transactions.                                                       *)

\* The optimistic concurrency check: a transaction whose new versions are
\* free still has the current row in hand (models.py:55-57).
LEMMA ReadIsCurrent ==
    ASSUME IInv, NEW w \in Workers, session[w] # NULL,
           uq_booking_events_booking_version(session[w])
    PROVE  /\ session[w] \in Session
           /\ session[w].booking_id \in Bookings
           /\ bookings[session[w].booking_id] \in BookingState
           /\ session[w].state = bookings[session[w].booking_id]
<1> DEFINE s == session[w]
           b == s.booking_id
           t == Transition(s.op)
           v == s.state.version
<1>1. s \in Session /\ b \in Bookings /\ s.op \in Ops
      /\ s.state \in BookingState
  BY DEF IInv, TypeOK, Session
<1>2. Exists(b) /\ bookings[b] \in BookingState
  BY <1>1 DEF IInv, TypeOK, Snapshots, Exists
<1>3. v \in Nat /\ v >= 1 /\ bookings[b].version \in Nat
  BY <1>1, <1>2, RowFacts
<1>4. v <= bookings[b].version
      /\ (v = bookings[b].version => s.state = bookings[b])
  BY DEF IInv, Snapshots
<1>5. 1 \in 1 .. Len(t.events)
  <2> DEFINE n == Len(t.events)
  <2>1. n \in {1, 2}
    BY <1>1, TransitionFacts DEF WellFormedTransition
  <2> HIDE DEF n
  <2>2. 1 \in 1 .. n
    BY <2>1
  <2> QED BY <2>2 DEF n
<1>6. [booking_id |-> b, version |-> v + 1, event_type |-> t.events[1]]
         \in NewEvents(s)
  BY <1>5 DEF NewEvents
<1>7. \A e \in EventsOf(b) : e.version # v + 1
  BY <1>6 DEF uq_booking_events_booking_version, EventsOf
<1>8. v + 1 \notin {e.version : e \in EventsOf(b)}
  BY <1>7
<1>9. {e.version : e \in EventsOf(b)} = 2 .. bookings[b].version
  BY <1>1, <1>2 DEF IInv, RowProjectsLog
<1>10. v = bookings[b].version
  <2> DEFINE current == bookings[b].version
  <2>1. v + 1 \notin 2 .. current
    BY <1>8, <1>9
  <2>2. v \in Nat /\ v >= 1 /\ current \in Nat /\ v <= current
    BY <1>3, <1>4
  <2> HIDE DEF v, current
  <2>3. v = current
    BY <2>1, <2>2
  <2> QED BY <2>3 DEF current
<1> QED BY <1>1, <1>2, <1>4, <1>10

\* The row append_events leaves behind is a row of the table.
LEMMA ApplyType ==
    ASSUME NEW s \in Session, s.state = bookings[s.booking_id],
           Permitted(s.op, s.state), HandedOverHasReading(s.state),
           s.op \in {"handover", "return"} => s.odometer \in Odometers,
           s.state.version + Len(Transition(s.op).events) <= MaxVersion,
           Apply(s.state, s).overage_cents <= MaxInteger
    PROVE  /\ Apply(s.state, s) \in BookingState
           /\ HandedOverHasReading(Apply(s.state, s))
           /\ Apply(s.state, s).version =
                 s.state.version + Len(Transition(s.op).events)
           /\ Apply(s.state, s).status = Transition(s.op).to
<1> DEFINE row == s.state
           t == Transition(s.op)
           new == Apply(row, s)
<1>1. row \in BookingState /\ s.op \in Ops
  BY DEF Session
<1>2. /\ Len(t.events) \in {1, 2}
      /\ t.to \in Statuses
      /\ row.status = t.from
  BY <1>1, TransitionFacts DEF WellFormedTransition, Permitted
<1>3. row.version + Len(t.events) \in 1 .. MaxVersion
  BY <1>1, <1>2, RowFacts, ConstantsAssumption
<1>4. s.op = "return" => compute_overage_cents(row, s.odometer) \in Nat
  <2> SUFFICES ASSUME s.op = "return"
               PROVE  compute_overage_cents(row, s.odometer) \in Nat
    OBVIOUS
  <2>1. row.status = "active"
    BY <1>2 DEF Transition, record_return
  <2>2. row.start_odometer \in Odometers
    BY <2>1 DEF HandedOverHasReading
  <2> QED BY <1>1, <2>2, OverageNat
<1>5. /\ new.vehicle_id = row.vehicle_id /\ new.host_id = row.host_id
      /\ new.start_date = row.start_date /\ new.end_date = row.end_date
      /\ new.status = t.to
      /\ new.version = row.version + Len(t.events)
      /\ new.start_odometer = IF s.op = "handover" THEN s.odometer
                              ELSE row.start_odometer
  BY <1>1 DEF Apply, BookingState
<1>6. new \in BookingState
  <2>1. new.overage_cents = IF s.op = "return"
                            THEN compute_overage_cents(row, s.odometer)
                            ELSE row.overage_cents
    BY <1>1 DEF Apply, BookingState
  <2>2. row.overage_cents \in 0 .. MaxInteger
    BY <1>1 DEF BookingState
  <2>3. new.overage_cents \in 0 .. MaxInteger
    <3> HIDE DEF new
    <3> QED BY <1>4, <2>1, <2>2, ConstantsAssumption DEF new
  <2> QED BY <1>1, <1>2, <1>3, <2>1, <2>3 DEF Apply, BookingState
<1>7. HandedOverHasReading(new)
  <2>1. CASE s.op = "handover"
    BY <1>5, <2>1 DEF HandedOverHasReading
  <2>2. CASE s.op \in {"return", "payment_captured", "payment_capture_failed"}
    <3>1. row.status = "active"
      BY <1>2, <2>2 DEF Transition, record_return,
         complete_after_payment_captured, note_payment_capture_failed
    <3> QED BY <1>5, <2>2, <3>1 DEF HandedOverHasReading
  <2>3. CASE s.op \in {"accept", "reject", "payment_authorized",
                       "payment_authorization_failed"}
    <3>1. t.to \notin {"active", "completed"}
      BY <2>3 DEF Transition, accept_request, reject_request,
         confirm_after_payment_authorized,
         cancel_after_payment_authorization_failed
    <3> QED BY <1>5, <3>1 DEF HandedOverHasReading
  <2> QED BY <1>1, <2>1, <2>2, <2>3 DEF Ops, HostOps, PaymentEventTypes
<1> QED BY <1>5, <1>6, <1>7

\* What a handler writes to the outbox are rows of the outbox.
LEMMA EmitsType ==
    ASSUME NEW s \in Session, Permitted(s.op, s.state),
           HandedOverHasReading(s.state),
           s.op \in {"handover", "return"} => s.odometer \in Odometers
    PROVE  Emits(s) \in Seq(OutboxRow)
<1>1. s.state \in BookingState /\ s.booking_id \in Bookings /\ s.op \in Ops
  BY DEF Session
<1>2. s.state.daily_price_cents * rental_days(s.state) \in Nat
  BY <1>1, PriceNat
<1>3. CASE s.op = "return"
  <2>1. s.state.status = "active"
    BY <1>3 DEF Permitted, Transition, record_return
  <2>2. compute_overage_cents(s.state, s.odometer) \in Nat
    BY <1>1, <1>3, <2>1, OverageNat DEF HandedOverHasReading
  <2>3. CaptureCommand(s.booking_id, s.state, s.odometer) \in OutboxRow
    BY <1>1, <1>2, <2>2 DEF CaptureCommand, OutboxRow, OutboxTypes
  <2>4. Emits(s) = <<CaptureCommand(s.booking_id, s.state, s.odometer)>>
    BY <1>3 DEF Emits
  <2> QED BY <2>3, <2>4
<1>4. CASE s.op = "accept"
  <2>1. AuthorizeCommand(s.booking_id, s.state) \in OutboxRow
    BY <1>1, <1>2 DEF AuthorizeCommand, OutboxRow, OutboxTypes
  <2>2. Emits(s) = <<AuthorizeCommand(s.booking_id, s.state)>>
    BY <1>4 DEF Emits
  <2> QED BY <2>1, <2>2
<1>5. CASE s.op = "handover"
  BY <1>5 DEF Emits
<1>6. ASSUME NEW type \in OutboxTypes
      PROVE  <<DomainEvent(s.booking_id, type)>> \in Seq(OutboxRow)
  BY <1>1 DEF DomainEvent, OutboxRow
<1>7. CASE s.op \in {"reject"} \cup PaymentEventTypes
  <2>1. \E type \in OutboxTypes : Emits(s) = <<DomainEvent(s.booking_id, type)>>
    BY <1>7 DEF Emits, PaymentEventTypes, OutboxTypes
  <2> QED BY <1>6, <2>1
<1> QED BY <1>1, <1>3, <1>4, <1>5, <1>7 DEF Ops, HostOps

\* The row create_requested inserts is a row of the table.
LEMMA CreatedRow ==
    ASSUME NEW v \in VehicleResponse, NEW start \in Days, NEW end \in Days,
           create_requested(v, start, end).version <= MaxVersion
    PROVE  create_requested(v, start, end) \in BookingState
<1>1. HostOf[v.id] \in Hosts
  BY ConstantsAssumption DEF VehicleResponse
<1>2. 2 \in 1 .. MaxVersion
  BY ConstantsAssumption DEF create_requested
<1>3. 0 \in 0 .. MaxInteger
  BY ConstantsAssumption
<1> QED BY <1>1, <1>2, <1>3
        DEF create_requested, BookingState, VehicleResponse, Statuses

\* POST /bookings keeps the invariant.
LEMMA RequestStep ==
    ASSUME IInv, NEW b \in Bookings, NEW v \in VehicleResponse,
           NEW start \in Days, NEW end \in Days,
           request_booking(b, v, start, end)
    PROVE  IInv'
<1> DEFINE row == create_requested(v, start, end)
           first == [booking_id |-> b, version |-> 2,
                     event_type |-> "booking_requested"]
<1> USE DEF IInv
<1>1. /\ ~ Exists(b) /\ row.version <= MaxVersion
      /\ ex_bookings_no_overlap(b, row)
      /\ bookings' = [bookings EXCEPT ![b] = row]
      /\ booking_events' = booking_events \cup {first}
      /\ UNCHANGED <<inbox, published, session>>
  BY DEF request_booking
<1>2. row \in BookingState
  BY <1>1, CreatedRow
<1>3. row # NULL
  BY <1>2, NullAssumption
<1>4. /\ bookings \in [Bookings -> BookingState \cup {NULL}]
      /\ bookings'[b] = row
      /\ \A c \in Bookings \ {b} : bookings'[c] = bookings[c]
  BY <1>1 DEF TypeOK
<1>5. TypeOK'
  <2>1. bookings' \in [Bookings -> BookingState \cup {NULL}]
    BY <1>1, <1>2, <1>4
  <2>2. booking_events' \subseteq BookingEvent
    BY <1>1 DEF TypeOK, BookingEvent, EventTypes
  <2>3. outbox' \in Seq(OutboxRow)
    <3>1. AuthorizeCommand(b, row) \in OutboxRow
      BY <1>2, PriceNat DEF AuthorizeCommand, OutboxRow, OutboxTypes
    <3>2. outbox' = outbox \/ outbox' = Append(outbox, AuthorizeCommand(b, row))
      BY DEF request_booking
    <3> QED BY <3>1, <3>2 DEF TypeOK
  <2> QED BY <1>1, <2>1, <2>2, <2>3 DEF TypeOK
<1>6. /\ EventsOf(b)' = EventsOf(b) \cup {first}
      /\ \A c \in Bookings \ {b} : EventsOf(c)' = EventsOf(c)
  BY <1>1 DEF EventsOf
<1>7. RowProjectsLog'
  <2>1. EventsOf(b)' = {first}
    BY <1>1, <1>6 DEF RowProjectsLog
  <2>2. {e.version : e \in {first}} = 2 .. 2
    OBVIOUS
  <2>3. bookings'[b].version = 2 /\ bookings'[b].status = "requested"
    BY <1>4 DEF create_requested
  <2>4. first.event_type \in DOMAIN Settles
        /\ Settles[first.event_type] = "requested"
    BY DEF Settles
  <2> QED BY <1>3, <1>4, <1>6, <2>1, <2>2, <2>3, <2>4
          DEF RowProjectsLog, Exists
<1>8. NoOverlap'
  <2>1. HoldsVehicle(row)
    BY DEF HoldsVehicle, create_requested
  <2>2. \A c \in Bookings \ {b} : bookings[c] # NULL =>
           ~ (HoldsVehicle(bookings[c]) /\ Overlap(bookings[c], row))
    BY <1>1, <2>1 DEF ex_bookings_no_overlap, Exists
  <2>3. \A r : Overlap(row, r) <=> Overlap(r, row)
    BY DEF Overlap
  <2> QED BY <1>4, <2>2, <2>3 DEF NoOverlap, Exists
<1>9. Readable'
  BY <1>4 DEF Readable, Exists, HandedOverHasReading, create_requested
<1>10. Snapshots'
  <2> SUFFICES ASSUME NEW w \in Workers, session[w] # NULL
               PROVE  session[w].booking_id \in Bookings \ {b}
    BY <1>1, <1>4 DEF Snapshots, Exists
  <2> QED BY <1>1 DEF Snapshots, TypeOK, Session
<1> QED BY <1>5, <1>7, <1>8, <1>9, <1>10

\* Reading a row to work on it keeps the invariant.
LEMMA OpenStep ==
    ASSUME IInv, NEW w \in Workers, NEW op \in Ops, NEW b \in Bookings,
           NEW odometer \in Odometers \cup {NULL},
           NEW event_id \in EventIds \cup {NULL},
           op \in {"handover", "return"} => odometer \in Odometers,
           Open(w, op, b, odometer, event_id)
    PROVE  IInv'
<1> DEFINE new == [op |-> op, booking_id |-> b, state |-> bookings[b],
                   odometer |-> odometer, event_id |-> event_id]
<1> USE DEF IInv
<1>1. /\ Exists(b) /\ Permitted(op, bookings[b])
      /\ session' = [session EXCEPT ![w] = new]
      /\ UNCHANGED <<bookings, booking_events, outbox, inbox, published>>
  BY DEF Open
<1>2. bookings[b] \in BookingState
  BY <1>1 DEF TypeOK, Exists
<1>3. new \in Session
  BY <1>2 DEF Session
<1>4. /\ session \in [Workers -> Session \cup {NULL}]
      /\ session'[w] = new
      /\ \A x \in Workers \ {w} : session'[x] = session[x]
  BY <1>1 DEF TypeOK
<1>5. TypeOK'
  BY <1>1, <1>3, <1>4 DEF TypeOK
<1>6. RowProjectsLog' /\ NoOverlap' /\ Readable'
  BY <1>1 DEF RowProjectsLog, NoOverlap, Readable, Exists, EventsOf
<1>7. Snapshots'
  <2>1. bookings[b].version \in Nat
    BY <1>2, RowFacts
  <2> QED BY <1>1, <1>4, <2>1 DEF Snapshots, Exists
<1> QED BY <1>5, <1>6, <1>7

\* Ending a transaction without effect keeps the invariant.
LEMMA RollbackStep ==
    ASSUME IInv, NEW w \in Workers, Rollback(w)
    PROVE  IInv'
<1> USE DEF IInv, Rollback
<1>1. TypeOK'
  BY DEF TypeOK
<1>2. RowProjectsLog' /\ NoOverlap' /\ Readable'
  BY DEF RowProjectsLog, NoOverlap, Readable, Exists, EventsOf
<1>3. Snapshots'
  <2>1. \A x \in Workers : session'[x] # NULL => session'[x] = session[x]
    BY DEF TypeOK
  <2> QED BY <2>1 DEF Snapshots, Exists
<1> QED BY <1>1, <1>2, <1>3

\* The environment's events do not touch the tables.
LEMMA PublishStep ==
    ASSUME IInv, NEW e \in PaymentEvent, Publish(e)
    PROVE  IInv'
BY DEF IInv, Publish, TypeOK, RowProjectsLog, NoOverlap, Readable, Snapshots,
       Exists, EventsOf

\* Versions ahead of the current one are new.
LEMMA Ahead ==
    \A m \in Nat, k \in {1, 2} :
        /\ m + k \notin 2 .. m
        /\ \A v \in Nat : v <= m => v < m + k
        /\ m >= 1 => 2 .. (m + k) = (2 .. m) \cup {m + i : i \in 1 .. k}
OBVIOUS

\* What a commit does, once its read is known to be current: the facts the
\* proofs about commits share.
LEMMA CommitFacts ==
    ASSUME IInv, NEW w \in Workers, Commit(w)
    PROVE  LET s == session[w]
               b == s.booking_id
               row == bookings[b]
               t == Transition(s.op)
               new == Apply(row, s)
           IN  /\ s \in Session /\ b \in Bookings /\ s.op \in Ops
               /\ row \in BookingState /\ s.state = row
               /\ Permitted(s.op, row) /\ row.status = t.from
               /\ WellFormedTransition(t)
               /\ new \in BookingState /\ new # NULL
               /\ HandedOverHasReading(new)
               /\ new.version = row.version + Len(t.events)
               /\ new.status = t.to
               /\ new.vehicle_id = row.vehicle_id
               /\ new.start_date = row.start_date
               /\ new.end_date = row.end_date
               /\ bookings'[b] = new
               /\ \A c \in Bookings \ {b} : bookings'[c] = bookings[c]
               /\ \A c \in Bookings : EventsOf(c)' =
                     IF c = b THEN EventsOf(c) \cup NewEvents(s)
                     ELSE EventsOf(c)
<1> DEFINE s == session[w]
           b == s.booking_id
           row == bookings[b]
           t == Transition(s.op)
           new == Apply(row, s)
<1>1. /\ session[w] # NULL
      /\ s.state.version + Len(t.events) <= MaxVersion
      /\ new.overage_cents <= MaxInteger
      /\ uq_booking_events_booking_version(s)
      /\ booking_events' = booking_events \cup NewEvents(s)
      /\ bookings' = [bookings EXCEPT ![b] = new]
  BY DEF Commit
<1>2. /\ s \in Session /\ b \in Bookings /\ row \in BookingState
      /\ s.state = row
  BY <1>1, ReadIsCurrent
<1>3. s.op \in Ops
  BY <1>2 DEF Session
<1>4. /\ Permitted(s.op, row)
      /\ s.op \in {"handover", "return"} => s.odometer \in Odometers
  BY <1>1, <1>2 DEF IInv, Snapshots
<1>5. WellFormedTransition(t) /\ row.status = t.from
  BY <1>3, <1>4, TransitionFacts DEF Permitted
<1>6. HandedOverHasReading(row)
  BY <1>1, <1>2 DEF IInv, Readable, Snapshots
<1>7. /\ new \in BookingState /\ HandedOverHasReading(new)
      /\ new.version = row.version + Len(t.events)
      /\ new.status = t.to
  BY <1>1, <1>2, <1>4, <1>6, ApplyType
<1>8. new # NULL
  BY <1>7, NullAssumption
<1>9. /\ new.vehicle_id = row.vehicle_id
      /\ new.start_date = row.start_date
      /\ new.end_date = row.end_date
  BY <1>2 DEF Apply, BookingState
<1>10. /\ bookings'[b] = new
       /\ \A c \in Bookings \ {b} : bookings'[c] = bookings[c]
  BY <1>1, <1>2 DEF IInv, TypeOK
<1>11. \A e \in NewEvents(s) : e.booking_id = b
  BY DEF NewEvents
<1>12. \A c \in Bookings : EventsOf(c)' =
          IF c = b THEN EventsOf(c) \cup NewEvents(s) ELSE EventsOf(c)
  <2> SUFFICES ASSUME NEW c \in Bookings
               PROVE  EventsOf(c)' = IF c = b THEN EventsOf(c) \cup NewEvents(s)
                                     ELSE EventsOf(c)
    OBVIOUS
  <2> HIDE DEF s, b
  <2>1. EventsOf(c)' = EventsOf(c) \cup {e \in NewEvents(s) : e.booking_id = c}
    BY <1>1 DEF EventsOf
  <2> QED BY <1>11, <2>1
<1> QED BY <1>2, <1>3, <1>4, <1>5, <1>7, <1>8, <1>9, <1>10, <1>12

\* A commit keeps the invariant.
LEMMA CommitStep ==
    ASSUME IInv, NEW w \in Workers, Commit(w)
    PROVE  IInv'
<1> DEFINE s == session[w]
<1>0. PICK b \in Bookings : b = s.booking_id
  BY CommitFacts
<1> DEFINE row == bookings[b]
           t == Transition(s.op)
           n == Len(t.events)
           new == Apply(row, s)
<1>1. /\ session[w] # NULL
      /\ ex_bookings_no_overlap(b, new)
      /\ booking_events' = booking_events \cup NewEvents(s)
      /\ bookings' = [bookings EXCEPT ![b] = new]
      /\ outbox' = outbox \o Emits(s)
      /\ inbox' = IF s.event_id = NULL THEN inbox ELSE inbox \cup {s.event_id}
      /\ session' = [session EXCEPT ![w] = NULL]
      /\ published' = published
  BY <1>0 DEF Commit
<1>2. /\ s \in Session /\ s.booking_id = b /\ s.op \in Ops
      /\ row \in BookingState /\ s.state = row
      /\ Permitted(s.op, row) /\ WellFormedTransition(t)
  BY <1>0, CommitFacts
<1>3. /\ new \in BookingState /\ new # NULL /\ HandedOverHasReading(new)
      /\ new.version = row.version + n
      /\ new.status = t.to
  BY <1>0, CommitFacts
<1>4. /\ bookings'[b] = new
      /\ \A c \in Bookings \ {b} : bookings'[c] = bookings[c]
      /\ EventsOf(b)' = EventsOf(b) \cup NewEvents(s)
      /\ \A c \in Bookings \ {b} : EventsOf(c)' = EventsOf(c)
  BY <1>0, CommitFacts
<1>5. row.version \in Nat /\ row.version >= 1 /\ n \in {1, 2}
  BY <1>2, RowFacts DEF WellFormedTransition
<1>6. Exists(b) /\ HandedOverHasReading(row)
      /\ (s.op \in {"handover", "return"} => s.odometer \in Odometers)
  BY <1>0, <1>1, <1>2 DEF IInv, Snapshots, Readable
<1>7. TypeOK'
  <2>1. bookings' \in [Bookings -> BookingState \cup {NULL}]
    BY <1>1, <1>3 DEF IInv, TypeOK
  <2>2. booking_events' \subseteq BookingEvent
    <3>1. t.events \in Seq(EventTypes)
      BY <1>2 DEF WellFormedTransition
    <3>2. NewEvents(s) \subseteq BookingEvent
      <4> SUFFICES ASSUME NEW i \in 1 .. Len(t.events)
                   PROVE  /\ s.state.version + i \in Nat
                          /\ t.events[i] \in EventTypes
        BY <1>2 DEF NewEvents, BookingEvent
      <4>1. t.events[i] \in EventTypes
        BY <3>1
      <4>2. i \in Nat
        BY <1>5
      <4> QED BY <1>2, <1>5, <4>1, <4>2
    <3> QED BY <1>1, <3>2 DEF IInv, TypeOK
  <2>3. outbox' \in Seq(OutboxRow)
    <3>1. Emits(s) \in Seq(OutboxRow)
      BY <1>2, <1>6, EmitsType
    <3> QED BY <1>1, <3>1 DEF IInv, TypeOK
  <2>4. inbox' \subseteq EventIds
    BY <1>1, <1>2 DEF IInv, TypeOK, Session
  <2>5. session' \in [Workers -> Session \cup {NULL}]
    BY <1>1 DEF IInv, TypeOK
  <2> QED BY <1>1, <2>1, <2>2, <2>3, <2>4, <2>5 DEF IInv, TypeOK
<1>8. RowProjectsLog'
  <2>1. /\ {e.version : e \in EventsOf(b)} = 2 .. row.version
        /\ \A e, f \in EventsOf(b) : e.version = f.version => e = f
    BY <1>2, <1>6 DEF IInv, RowProjectsLog
  <2>2. \A e \in EventsOf(b) : e.version \in 2 .. row.version
    BY <2>1
  <2>3. \A e \in NewEvents(s) :
           \E i \in 1 .. n : e = [booking_id |-> b, version |-> row.version + i,
                                  event_type |-> t.events[i]]
    BY <1>2 DEF NewEvents
  <2>4. \A i \in 1 .. n : [booking_id |-> b, version |-> row.version + i,
                           event_type |-> t.events[i]] \in NewEvents(s)
    BY <1>2 DEF NewEvents
  <2>5. {e.version : e \in EventsOf(b)'} = 2 .. bookings'[b].version
    <3>1. {e.version : e \in NewEvents(s)} \subseteq
             {row.version + i : i \in 1 .. n}
      BY <2>3
    <3>2. {row.version + i : i \in 1 .. n} \subseteq
             {e.version : e \in NewEvents(s)}
      <4> SUFFICES ASSUME NEW i \in 1 .. n
                   PROVE  \E e \in NewEvents(s) : e.version = row.version + i
        OBVIOUS
      <4> DEFINE e == [booking_id |-> b, version |-> row.version + i,
                       event_type |-> t.events[i]]
      <4>1. e \in NewEvents(s)
        BY <2>4
      <4>2. e.version = row.version + i
        OBVIOUS
      <4> QED BY <4>1, <4>2
    <3>3. {e.version : e \in EventsOf(b)'} =
             {e.version : e \in EventsOf(b)} \cup
             {e.version : e \in NewEvents(s)}
      BY <1>4
    <3>4. 2 .. (row.version + n) =
             (2 .. row.version) \cup {row.version + i : i \in 1 .. n}
      BY <1>5, Ahead
    <3>5. bookings'[b].version = row.version + n
      BY <1>3, <1>4
    <3> HIDE DEF s, row, n
    <3> QED BY <2>1, <3>1, <3>2, <3>3, <3>4, <3>5
  <2>6. \A e, f \in EventsOf(b)' : e.version = f.version => e = f
    <3>1. \A e \in EventsOf(b), f \in NewEvents(s) : e.version # f.version
      BY <2>2, <2>3, <1>5
    <3>2. \A e, f \in NewEvents(s) : e.version = f.version => e = f
      BY <2>3, <1>5
    <3> QED BY <1>4, <2>1, <3>1, <3>2
  <2>7. \A e \in EventsOf(b)' : e.version = bookings'[b].version =>
           /\ e.event_type \in DOMAIN Settles
           /\ bookings'[b].status = Settles[e.event_type]
    <3> SUFFICES ASSUME NEW e \in EventsOf(b)', e.version = row.version + n
                 PROVE  e.event_type = t.events[n]
      BY <1>2, <1>3, <1>4 DEF WellFormedTransition
    <3>1. e \in NewEvents(s)
      <4>1. row.version + n \notin 2 .. row.version
        BY <1>5, Ahead
      <4>2. e \notin EventsOf(b)
        BY <2>2, <4>1
      <4> QED BY <1>4, <4>2
    <3>2. PICK i \in 1 .. n : e = [booking_id |-> b, version |-> row.version + i,
                                   event_type |-> t.events[i]]
      BY <2>3, <3>1
    <3>3. i = n
      BY <1>5, <3>2
    <3> QED BY <3>2, <3>3
  <2> QED BY <1>3, <1>4, <2>5, <2>6, <2>7 DEF IInv, RowProjectsLog, Exists
<1>9. NoOverlap'
  <2>1. HoldsVehicle(new) => \A c \in Bookings \ {b} : bookings[c] # NULL =>
           ~ (HoldsVehicle(bookings[c]) /\ Overlap(bookings[c], new))
    BY <1>1 DEF ex_bookings_no_overlap, Exists
  <2>2. \A r : Overlap(new, r) <=> Overlap(r, new)
    BY DEF Overlap
  <2> QED BY <1>4, <2>1, <2>2 DEF IInv, NoOverlap, Exists
<1>10. Readable'
  BY <1>3, <1>4 DEF IInv, Readable, Exists
<1>11. Snapshots'
  <2> SUFFICES ASSUME NEW x \in Workers, session'[x] # NULL
               PROVE  LET r == session'[x]
                      IN  /\ bookings'[r.booking_id] # NULL
                          /\ r.state.version <= bookings'[r.booking_id].version
                          /\ r.state.version = bookings'[r.booking_id].version
                                => r.state = bookings'[r.booking_id]
                          /\ Permitted(r.op, r.state)
                          /\ r.op \in {"handover", "return"} =>
                                r.odometer \in Odometers
    BY DEF Snapshots, Exists
  <2> DEFINE r == session[x]
  <2>1. session'[x] = r /\ r # NULL
    BY <1>1 DEF IInv, TypeOK
  <2>2. r \in Session /\ r.booking_id \in Bookings /\ r.state \in BookingState
    BY <2>1 DEF IInv, TypeOK, Session
  <2>3. /\ bookings[r.booking_id] # NULL
        /\ r.state.version <= bookings[r.booking_id].version
        /\ r.state.version = bookings[r.booking_id].version
              => r.state = bookings[r.booking_id]
        /\ Permitted(r.op, r.state)
        /\ r.op \in {"handover", "return"} => r.odometer \in Odometers
    BY <2>1 DEF IInv, Snapshots, Exists
  <2>4. CASE r.booking_id # b
    BY <1>4, <2>1, <2>2, <2>3, <2>4
  <2>5. CASE r.booking_id = b
    <3>1. r.state.version \in Nat /\ r.state.version <= row.version
      BY <2>2, <2>3, <2>5, RowFacts
    <3>2. r.state.version < new.version
      BY <1>3, <1>5, <3>1, Ahead
    <3>3. new.version \in Nat
      BY <1>3, RowFacts
    <3> QED BY <1>3, <1>4, <2>1, <2>3, <2>5, <3>1, <3>2, <3>3
  <2> QED BY <2>4, <2>5
<1> QED BY <1>7, <1>8, <1>9, <1>10, <1>11 DEF IInv
-----------------------------------------------------------------------------
(* The invariant.                                                          *)

\* No booking, no event and no transaction: the invariant holds at first.
LEMMA InitInvariant == Init => IInv
<1> SUFFICES ASSUME Init PROVE IInv
  OBVIOUS
<1>1. TypeOK
  BY DEF Init, TypeOK
<1>2. RowProjectsLog
  BY DEF Init, RowProjectsLog, Exists, EventsOf
<1>3. NoOverlap /\ Readable /\ Snapshots
  BY DEF Init, NoOverlap, Readable, Snapshots, Exists
<1> QED BY <1>1, <1>2, <1>3 DEF IInv

\* Every operation of the service, and every answer of the payment service,
\* keeps the invariant.
LEMMA StepInvariant == IInv /\ [Next]_vars => IInv'
<1> SUFFICES ASSUME IInv, [Next]_vars PROVE IInv'
  OBVIOUS
<1>1. CASE \E b \in Bookings, v \in VehicleResponse, start, end \in Days :
              request_booking(b, v, start, end)
  BY <1>1, RequestStep
<1>2. CASE \E w \in Workers, op \in HostOps, b \in Bookings, caller \in Hosts :
              \E odometer \in Readings(op) :
                 HostRequest(w, op, b, caller, odometer)
  <2>1. PICK w \in Workers, op \in HostOps, b \in Bookings, caller \in Hosts :
                \E odometer \in Readings(op) :
                   HostRequest(w, op, b, caller, odometer)
    BY <1>2
  <2>2. PICK odometer \in Readings(op) :
                HostRequest(w, op, b, caller, odometer)
    BY <2>1
  <2>3. /\ op \in Ops /\ odometer \in Odometers \cup {NULL}
        /\ op \in {"handover", "return"} => odometer \in Odometers
    BY DEF Ops, Readings
  <2>4. Open(w, op, b, odometer, NULL)
    BY <2>2 DEF HostRequest
  <2> QED BY <2>3, <2>4, OpenStep
<1>3. CASE \E w \in Workers, e \in PaymentEvent : HandlePaymentEvent(w, e)
  <2>1. PICK w \in Workers, e \in PaymentEvent : HandlePaymentEvent(w, e)
    BY <1>3
  <2>2. /\ e.event_type \in Ops /\ e.event_type \notin {"handover", "return"}
        /\ e.booking_id \in Bookings /\ e.event_id \in EventIds
    BY DEF PaymentEvent, PaymentEventTypes, Ops
  <2>3. Open(w, e.event_type, e.booking_id, NULL, e.event_id)
    BY <2>1 DEF HandlePaymentEvent
  <2> QED BY <2>2, <2>3, OpenStep
<1>4. CASE \E w \in Workers : Commit(w)
  BY <1>4, CommitStep
<1>5. CASE \E w \in Workers : Rollback(w)
  BY <1>5, RollbackStep
<1>6. CASE \E e \in PaymentEvent : Publish(e)
  BY <1>6, PublishStep
<1>7. CASE UNCHANGED vars
  BY <1>7 DEF vars, IInv, TypeOK, RowProjectsLog, NoOverlap, Readable,
     Snapshots, Exists, EventsOf
<1> QED BY <1>1, <1>2, <1>3, <1>4, <1>5, <1>6, <1>7 DEF Next

\* IInv holds in every reachable state of the booking service.
THEOREM Invariance == Spec => []IInv
<1>1. Init => IInv
  BY InitInvariant
<1>2. IInv /\ [Next]_vars => IInv'
  BY StepInvariant
<1> QED BY <1>1, <1>2, PTL DEF Spec

\* The tables and the open transactions always have their shape.
THEOREM TypeCorrect == Spec => []TypeOK
<1>1. IInv => TypeOK
  BY DEF IInv
<1> QED BY Invariance, <1>1, PTL

\* The row of a booking is always the projection of its log: versions without
\* gap or duplicate, status settled by the last event.
THEOREM LogIsFaithful == Spec => []RowProjectsLog
<1>1. IInv => RowProjectsLog
  BY DEF IInv
<1> QED BY Invariance, <1>1, PTL

\* The exclusion constraint leaves no day to two bookings of one vehicle.
LEMMA CalendarIsFree == IInv => NoDoubleBooking
<1> SUFFICES ASSUME IInv,
                    NEW b \in Bookings, NEW c \in Bookings, b # c,
                    Exists(b), Exists(c),
                    bookings[b].vehicle_id = bookings[c].vehicle_id,
                    HoldsVehicle(bookings[b]), HoldsVehicle(bookings[c]),
                    NEW d \in Days,
                    bookings[b].start_date <= d, d <= bookings[b].end_date,
                    bookings[c].start_date <= d, d <= bookings[c].end_date
             PROVE  FALSE
  BY DEF NoDoubleBooking
<1>1. bookings[b] \in BookingState /\ bookings[c] \in BookingState
  BY DEF IInv, TypeOK, Exists
<1>2. d \in Int
  BY ConstantsAssumption
<1>3. /\ bookings[b].start_date <= bookings[c].end_date
      /\ bookings[c].start_date <= bookings[b].end_date
  BY <1>1, <1>2, RowFacts
<1> QED BY <1>3 DEF IInv, NoOverlap, Overlap

\* No vehicle is ever booked twice for one day.
THEOREM NeverDoubleBooked == Spec => []NoDoubleBooking
BY Invariance, CalendarIsFree, PTL
-----------------------------------------------------------------------------
(* Steps.                                                                  *)

\* A step other than a request and a commit changes no row and no log.
LEMMA OnlyTwoWriters ==
    ASSUME [Next]_vars,
           ~ \E b \in Bookings, v \in VehicleResponse, start, end \in Days :
                request_booking(b, v, start, end),
           ~ \E w \in Workers : Commit(w)
    PROVE  UNCHANGED <<bookings, booking_events>>
BY DEF Next, vars, HostRequest, HandlePaymentEvent, Open, Rollback, Publish

\* A request adds one booking and leaves every existing one alone.
LEMMA RequestFacts ==
    ASSUME IInv, NEW b \in Bookings, NEW v \in VehicleResponse,
           NEW start \in Days, NEW end \in Days,
           request_booking(b, v, start, end)
    PROVE  /\ bookings[b] = NULL
           /\ bookings' = [bookings EXCEPT ![b] = create_requested(v, start, end)]
           /\ booking_events' = booking_events \cup
                 {[booking_id |-> b, version |-> 2,
                   event_type |-> "booking_requested"]}
           /\ \A c \in Bookings \ {b} : /\ bookings'[c] = bookings[c]
                                        /\ EventsOf(c)' = EventsOf(c)
<1>1. /\ bookings[b] = NULL
      /\ bookings' = [bookings EXCEPT ![b] = create_requested(v, start, end)]
      /\ booking_events' = booking_events \cup
            {[booking_id |-> b, version |-> 2,
              event_type |-> "booking_requested"]}
  BY DEF request_booking, Exists
<1>2. \A c \in Bookings \ {b} : bookings'[c] = bookings[c]
  BY <1>1 DEF IInv, TypeOK
<1>3. \A c \in Bookings \ {b} : EventsOf(c)' = EventsOf(c)
  BY <1>1 DEF EventsOf
<1> QED BY <1>1, <1>2, <1>3

\* A booking that was completed, cancelled or rejected never changes again.
THEOREM TerminalIsFinal == Spec => TerminalStays
<1>1. IInv /\ [Next]_vars => [TerminalAtRest]_vars
  <2> SUFFICES ASSUME IInv, [Next]_vars,
                      NEW c \in Bookings, bookings[c] # NULL,
                      bookings[c].status \in Terminal
               PROVE  bookings'[c] = bookings[c] /\ EventsOf(c)' = EventsOf(c)
    BY DEF TerminalAtRest, Exists
  <2>1. CASE \E b \in Bookings, v \in VehicleResponse, start, end \in Days :
                request_booking(b, v, start, end)
    <3>1. PICK b \in Bookings, v \in VehicleResponse, start \in Days, end \in Days :
                  request_booking(b, v, start, end)
      BY <2>1
    <3> QED BY <3>1, RequestFacts
  <2>2. CASE \E w \in Workers : Commit(w)
    <3>1. PICK w \in Workers : Commit(w)
      BY <2>2
    <3>2. c # session[w].booking_id
      BY <3>1, CommitFacts DEF WellFormedTransition, Terminal
    <3> QED BY <3>1, <3>2, CommitFacts
  <2>3. CASE UNCHANGED <<bookings, booking_events>>
    BY <2>3 DEF EventsOf
  <2> QED BY <2>1, <2>2, <2>3, OnlyTwoWriters
<1> QED BY Invariance, <1>1, PTL DEF Spec, TerminalStays
-----------------------------------------------------------------------------
(* Refinement.                                                             *)

\* The status a transition starts from and the one it settles on are the
\* same, or a legal move of the lifecycle.
LEMMA TransitionMoves ==
    ASSUME NEW op \in Ops
    PROVE  LET t == Transition(op)
           IN  t.to = t.from \/ <<t.from, t.to>> \in L!Moves
<1>1. CASE op = "accept"
  <2>1. Transition(op) = accept_request
    BY <1>1 DEF Transition
  <2> QED BY <2>1 DEF accept_request, L!Moves
<1>2. CASE op = "reject"
  <2>1. Transition(op) = reject_request
    BY <1>2 DEF Transition
  <2> QED BY <2>1 DEF reject_request, L!Moves
<1>3. CASE op = "handover"
  <2>1. Transition(op) = record_handover
    BY <1>3 DEF Transition
  <2> QED BY <2>1 DEF record_handover, L!Moves
<1>4. CASE op = "return"
  <2>1. Transition(op) = record_return
    BY <1>4 DEF Transition
  <2> QED BY <2>1 DEF record_return, L!Moves
<1>5. CASE op = "payment_authorized"
  <2>1. Transition(op) = confirm_after_payment_authorized
    BY <1>5 DEF Transition
  <2> QED BY <2>1 DEF confirm_after_payment_authorized, L!Moves
<1>6. CASE op = "payment_authorization_failed"
  <2>1. Transition(op) = cancel_after_payment_authorization_failed
    BY <1>6 DEF Transition
  <2> QED BY <2>1 DEF cancel_after_payment_authorization_failed, L!Moves
<1>7. CASE op = "payment_captured"
  <2>1. Transition(op) = complete_after_payment_captured
    BY <1>7 DEF Transition
  <2> QED BY <2>1 DEF complete_after_payment_captured, L!Moves
<1>8. CASE op = "payment_capture_failed"
  <2>1. Transition(op) = note_payment_capture_failed
    BY <1>8 DEF Transition
  <2> QED BY <2>1 DEF note_payment_capture_failed, L!Moves
<1> QED BY <1>1, <1>2, <1>3, <1>4, <1>5, <1>6, <1>7, <1>8
        DEF Ops, HostOps, PaymentEventTypes

\* The rental of a row has the row's vehicle, days and status.
LEMMA RentalFacts ==
    ASSUME NEW row \in BookingState
    PROVE  LET r == RentalOf(row)
           IN  /\ r = [vehicle_id |-> row.vehicle_id,
                       start_date |-> row.start_date,
                       end_date |-> row.end_date, phase |-> row.status]
               /\ r \in L!Rental
               /\ r # NULL
<1> DEFINE r == [vehicle_id |-> row.vehicle_id, start_date |-> row.start_date,
                 end_date |-> row.end_date, phase |-> row.status]
<1>1. RentalOf(row) = r
  BY NullAssumption DEF RentalOf
<1>2. r \in L!Rental
  BY DEF L!Rental, L!Phases, BookingState, Statuses
<1>3. r # NULL
  BY <1>2, NoRentalAssumption
<1> QED BY <1>1, <1>2, <1>3

\* A rental holds its vehicle, and meets another, exactly when its row does.
LEMMA RentalMeets ==
    ASSUME NEW q \in BookingState, NEW row \in BookingState
    PROVE  /\ L!HoldsVehicle(RentalOf(q)) <=> HoldsVehicle(q)
           /\ L!Meet(RentalOf(q), RentalOf(row)) <=> Overlap(q, row)
<1>1. RentalOf(q) = [vehicle_id |-> q.vehicle_id, start_date |-> q.start_date,
                     end_date |-> q.end_date, phase |-> q.status]
  BY RentalFacts
<1>2. RentalOf(row) = [vehicle_id |-> row.vehicle_id,
                       start_date |-> row.start_date,
                       end_date |-> row.end_date, phase |-> row.status]
  BY RentalFacts
<1>3. L!HoldsVehicle(RentalOf(q)) <=> HoldsVehicle(q)
  BY <1>1 DEF HoldsVehicle, L!HoldsVehicle
<1>4. L!Meet(RentalOf(q), RentalOf(row)) <=> Overlap(q, row)
  BY <1>1, <1>2 DEF Overlap, L!Meet
<1> QED BY <1>3, <1>4

\* The booking service implements the calendar of rentals: every transaction
\* is one legal move of one rental, a new request for a free slot, or no
\* visible step.
THEOREM Refinement == Spec => ImplementsLifecycle
<1>1. Init => L!Init
  BY DEF Init, L!Init, rental, RentalOf
<1>2. IInv /\ [Next]_vars => [L!Next]_rental
  <2> SUFFICES ASSUME IInv, [Next]_vars
               PROVE  L!Next \/ rental' = rental
    OBVIOUS
  <2>1. bookings \in [Bookings -> BookingState \cup {NULL}]
    BY DEF IInv, TypeOK
  <2>2. CASE \E b \in Bookings, v \in VehicleResponse, start, end \in Days :
                request_booking(b, v, start, end)
    <3>1. PICK b \in Bookings, v \in VehicleResponse, start \in Days, end \in Days :
                  request_booking(b, v, start, end)
      BY <2>2
    <3> DEFINE row == create_requested(v, start, end)
               r == RentalOf(row)
    <3>2. /\ bookings[b] = NULL
          /\ bookings' = [bookings EXCEPT ![b] = row]
      BY <3>1, RequestFacts
    <3>3. row.version <= MaxVersion /\ start < end
          /\ ex_bookings_no_overlap(b, row)
      BY <3>1 DEF request_booking
    <3>4. row \in BookingState
      BY <3>3, CreatedRow
    <3>5. r \in L!Rental /\ r.phase = "requested" /\ r.start_date < r.end_date
      BY <3>3, <3>4, RentalFacts DEF create_requested
    <3>6. rental' = [rental EXCEPT ![b] = r] /\ rental[b] = NULL
      BY <2>1, <3>2 DEF rental, RentalOf
    <3>7. \A c \in Bookings : rental[c] # NULL =>
             ~ (L!HoldsVehicle(rental[c]) /\ L!Meet(rental[c], r))
      <4> SUFFICES ASSUME NEW c \in Bookings, rental[c] # NULL
                   PROVE  ~ (L!HoldsVehicle(rental[c]) /\ L!Meet(rental[c], r))
        OBVIOUS
      <4>1. rental[c] = RentalOf(bookings[c]) /\ bookings[c] # NULL
        BY DEF rental, RentalOf
      <4>2. bookings[c] \in BookingState /\ c # b
        BY <2>1, <3>2, <4>1
      <4>3. HoldsVehicle(row)
        BY DEF HoldsVehicle, create_requested
      <4>4. ~ (HoldsVehicle(bookings[c]) /\ Overlap(bookings[c], row))
        BY <3>3, <4>1, <4>2, <4>3 DEF ex_bookings_no_overlap, Exists
      <4> QED BY <3>4, <4>1, <4>2, <4>4, RentalMeets
    <3>8. L!Request(b, r)
      BY <3>5, <3>6, <3>7 DEF L!Request
    <3> QED BY <3>5, <3>8 DEF L!Next
  <2>3. CASE \E w \in Workers : Commit(w)
    <3>1. PICK w \in Workers : Commit(w)
      BY <2>3
    <3>2. PICK b \in Bookings : b = session[w].booking_id
      BY <3>1, CommitFacts
    <3> DEFINE s == session[w]
               row == bookings[b]
               new == Apply(row, s)
               t == Transition(s.op)
    <3>3. /\ row \in BookingState /\ new \in BookingState /\ s.op \in Ops
          /\ row.status = t.from /\ new.status = t.to
          /\ t.to \in Statuses
          /\ new.vehicle_id = row.vehicle_id
          /\ new.start_date = row.start_date
          /\ new.end_date = row.end_date
      BY <3>1, <3>2, CommitFacts DEF WellFormedTransition
    <3>4. bookings' = [bookings EXCEPT ![b] = new]
      BY <3>1, <3>2 DEF Commit
    <3>5. /\ rental[b] = RentalOf(row)
          /\ rental' = [rental EXCEPT ![b] = RentalOf(new)]
      BY <2>1, <3>4 DEF rental
    <3>6. /\ RentalOf(row) = [vehicle_id |-> row.vehicle_id,
                              start_date |-> row.start_date,
                              end_date |-> row.end_date, phase |-> t.from]
          /\ RentalOf(new) = [vehicle_id |-> row.vehicle_id,
                              start_date |-> row.start_date,
                              end_date |-> row.end_date, phase |-> t.to]
          /\ RentalOf(row) # NULL
      BY <3>3, RentalFacts
    <3>7. CASE t.to = t.from
      <4>1. RentalOf(new) = rental[b]
        BY <3>5, <3>6, <3>7
      <4>2. rental' = rental
        BY <3>5, <4>1 DEF rental
      <4> QED BY <4>2
    <3>8. CASE <<t.from, t.to>> \in L!Moves
      <4>1. RentalOf(new) = [rental[b] EXCEPT !.phase = t.to]
        BY <3>5, <3>6
      <4>2. rental' = [rental EXCEPT ![b].phase = t.to]
        BY <3>5, <4>1
      <4>3. rental[b] # NULL /\ rental[b].phase = t.from
        BY <3>5, <3>6
      <4>4. L!Move(b, t.to)
        BY <3>8, <4>2, <4>3 DEF L!Move
      <4>5. t.to \in L!Phases
        BY <3>3 DEF L!Phases, Statuses
      <4> QED BY <4>4, <4>5 DEF L!Next
    <3> QED BY <3>3, <3>7, <3>8, TransitionMoves
  <2>4. CASE UNCHANGED <<bookings, booking_events>>
    BY <2>4 DEF rental
  <2> QED BY <2>2, <2>3, <2>4, OnlyTwoWriters
<1> QED BY Invariance, <1>1, <1>2, PTL DEF Spec, ImplementsLifecycle, L!Spec
-----------------------------------------------------------------------------
(* Messages and the log.                                                   *)

\* The fact in the log that a record in the outbox tells.
Tells ==
    [authorize_payment_requested |-> "booking_request_accepted",
     capture_payment_requested |-> "booking_return_recorded",
     booking_payment_capture_failed |-> "payment_capture_failed",
     booking_rejected |-> "booking_rejected",
     booking_confirmed |-> "booking_confirmed",
     booking_cancelled |-> "booking_cancelled",
     booking_completed |-> "booking_completed"]

\* An instant request is answered at once, without an acceptance.
Instant(b) == Exists(b) /\ bookings[b].booking_mode = "instant"

Unaccepted(b, type) ==
    IF type = "authorize_payment_requested" /\ Instant(b) THEN 1 ELSE 0

\* OutboxTellsLog, one record type like the other.
CountsAgree ==
    \A b \in Bookings, type \in OutboxTypes :
        OutboxCount(b, type) = LogCount(b, Tells[type]) + Unaccepted(b, type)

\* The payment events handled so far.
ClaimedEvents(b, type) ==
    {e \in published : /\ e.event_id \in inbox
                       /\ e.booking_id = b
                       /\ e.event_type = type}

\* Ids are given once, to the events handled as to the others.
IdsAreUnique ==
    /\ \A e, f \in published : e.event_id = f.event_id => e = f
    /\ \A id \in inbox : \E e \in published : e.event_id = id

\* A transaction of the consumer has claimed an event that nobody handled and
\* nobody else has claimed, and does what the event says.
ClaimIsOpen(s) ==
    /\ s.event_id = NULL <=> s.op \in HostOps
    /\ s.event_id # NULL =>
          /\ s.event_id \notin inbox
          /\ \E e \in published : /\ e.event_id = s.event_id
                                  /\ e.booking_id = s.booking_id
                                  /\ e.event_type = s.op

ClaimsAreOpen ==
    /\ \A w \in Workers : session[w] # NULL => ClaimIsOpen(session[w])
    /\ \A v, w \in Workers :
          /\ session[v] # NULL /\ session[w] # NULL
          /\ session[v].event_id = session[w].event_id
          /\ session[v].event_id # NULL
          => v = w

\* The outbox speaks of bookings that exist.
OutboxIsBacked ==
    \A i \in DOMAIN outbox : Exists(outbox[i].booking_id)

MInv == /\ IInv
        /\ IsFiniteSet(booking_events)
        /\ IsFiniteSet(published)
        /\ IdsAreUnique
        /\ ClaimsAreOpen
        /\ OutboxIsBacked
        /\ EachPaymentEventOnce
        /\ CountsAgree
        /\ RowShowsLastCapture

\* The types of the events an operation appends.
Appended(op) == {Transition(op).events[i] : i \in 1 .. Len(Transition(op).events)}

\* An operation appends one event, or two of different types.
LEMMA AppendedTypes ==
    ASSUME NEW op \in Ops
    PROVE  \/ \E x : Transition(op).events = <<x>> /\ Appended(op) = {x}
           \/ \E x, y : /\ x # y
                        /\ Transition(op).events = <<x, y>>
                        /\ Appended(op) = {x, y}
<1>1. \/ \E x : Transition(op).events = <<x>>
      \/ \E x, y : x # y /\ Transition(op).events = <<x, y>>
  <2>1. \A t \in {accept_request, reject_request, record_handover, record_return,
                  note_payment_capture_failed} : \E x : t.events = <<x>>
    BY DEF accept_request, reject_request, record_handover, record_return,
           note_payment_capture_failed
  <2>2. \A t \in {confirm_after_payment_authorized,
                  cancel_after_payment_authorization_failed,
                  complete_after_payment_captured} :
           \E x, y : x # y /\ t.events = <<x, y>>
    BY DEF confirm_after_payment_authorized,
           cancel_after_payment_authorization_failed,
           complete_after_payment_captured
  <2>3. Transition(op) \in {accept_request, reject_request, record_handover,
                            record_return, note_payment_capture_failed,
                            confirm_after_payment_authorized,
                            cancel_after_payment_authorization_failed,
                            complete_after_payment_captured}
    BY DEF Transition, Ops, HostOps, PaymentEventTypes
  <2> QED BY <2>1, <2>2, <2>3
<1>2. ASSUME NEW x, Transition(op).events = <<x>>
      PROVE  Appended(op) = {x}
  <2>1. Appended(op) = {<<x>>[i] : i \in 1 .. Len(<<x>>)}
    BY <1>2 DEF Appended
  <2>2. 1 .. Len(<<x>>) = {1} /\ <<x>>[1] = x
    OBVIOUS
  <2> QED BY <2>1, <2>2
<1>3. ASSUME NEW x, NEW y, Transition(op).events = <<x, y>>
      PROVE  Appended(op) = {x, y}
  <2>1. Appended(op) = {<<x, y>>[i] : i \in 1 .. Len(<<x, y>>)}
    BY <1>3 DEF Appended
  <2>2. 1 .. Len(<<x, y>>) = {1, 2} /\ <<x, y>>[1] = x /\ <<x, y>>[2] = y
    OBVIOUS
  <2> QED BY <2>1, <2>2
<1> QED BY <1>1, <1>2, <1>3

\* What each operation appends.
LEMMA AppendedIs ==
    /\ Appended("accept") = {"booking_request_accepted"}
    /\ Appended("reject") = {"booking_rejected"}
    /\ Appended("handover") = {"booking_handover_recorded"}
    /\ Appended("return") = {"booking_return_recorded"}
    /\ Appended("payment_authorized") = {"payment_authorized", "booking_confirmed"}
    /\ Appended("payment_authorization_failed") =
          {"payment_authorization_failed", "booking_cancelled"}
    /\ Appended("payment_captured") = {"payment_captured", "booking_completed"}
    /\ Appended("payment_capture_failed") = {"payment_capture_failed"}
<1> DEFINE Types(q) == {q[i] : i \in 1 .. Len(q)}
<1>1. \A op : Appended(op) = Types(Transition(op).events)
  BY DEF Appended
<1>2. ASSUME NEW x PROVE Types(<<x>>) = {x}
  <2>1. 1 .. Len(<<x>>) = {1} /\ <<x>>[1] = x
    OBVIOUS
  <2> QED BY <2>1
<1>3. ASSUME NEW x, NEW y PROVE Types(<<x, y>>) = {x, y}
  <2>1. 1 .. Len(<<x, y>>) = {1, 2} /\ <<x, y>>[1] = x /\ <<x, y>>[2] = y
    OBVIOUS
  <2> QED BY <2>1
<1> HIDE DEF Types
<1>4. /\ Transition("accept").events = <<"booking_request_accepted">>
      /\ Transition("reject").events = <<"booking_rejected">>
      /\ Transition("handover").events = <<"booking_handover_recorded">>
      /\ Transition("return").events = <<"booking_return_recorded">>
      /\ Transition("payment_capture_failed").events = <<"payment_capture_failed">>
  BY DEF Transition, accept_request, reject_request, record_handover,
         record_return, note_payment_capture_failed
<1>5. /\ Transition("payment_authorized").events =
            <<"payment_authorized", "booking_confirmed">>
      /\ Transition("payment_authorization_failed").events =
            <<"payment_authorization_failed", "booking_cancelled">>
      /\ Transition("payment_captured").events =
            <<"payment_captured", "booking_completed">>
  BY DEF Transition, confirm_after_payment_authorized,
         cancel_after_payment_authorization_failed,
         complete_after_payment_captured
<1> QED BY <1>1, <1>2, <1>3, <1>4, <1>5

\* A commit adds one event of each type its operation appends.
LEMMA LogCountCommit ==
    ASSUME IInv, IsFiniteSet(booking_events), NEW w \in Workers, Commit(w),
           NEW b \in Bookings, NEW type
    PROVE  /\ LogCount(b, type) \in Nat
           /\ b = session[w].booking_id /\ type \in Appended(session[w].op) =>
                 LogCount(b, type)' = LogCount(b, type) + 1
           /\ b # session[w].booking_id \/ type \notin Appended(session[w].op) =>
                 LogCount(b, type)' = LogCount(b, type)
<1> DEFINE s == session[w]
           t == Transition(s.op)
           f(i) == [booking_id |-> s.booking_id, version |-> s.state.version + i,
                    event_type |-> t.events[i]]
           old == {e \in EventsOf(b) : e.event_type = type}
           new == {e \in NewEvents(s) : e.booking_id = b /\ e.event_type = type}
<1>1. /\ s.op \in Ops
      /\ booking_events' = booking_events \cup NewEvents(s)
      /\ uq_booking_events_booking_version(s)
  BY CommitFacts DEF Commit
<1>2. NewEvents(s) = {f(i) : i \in 1 .. Len(t.events)}
  BY DEF NewEvents
<1>3. IsFiniteSet(old) /\ LogCount(b, type) = Cardinality(old)
  <2>1. old \subseteq booking_events
    BY DEF EventsOf
  <2> QED BY <2>1, FS_Subset DEF LogCount
<1>4. LogCount(b, type)' = Cardinality(old \cup new)
  <2>1. {e \in EventsOf(b)' : e.event_type = type} = old \cup new
    BY <1>1 DEF EventsOf
  <2> QED BY <2>1 DEF LogCount
<1>5. LogCount(b, type) \in Nat
  BY <1>3, FS_CardinalityType
<1>6. ASSUME b # s.booking_id \/ type \notin Appended(s.op)
      PROVE  LogCount(b, type)' = LogCount(b, type)
  <2>1. new = {}
    BY <1>2, <1>6 DEF Appended
  <2> HIDE DEF old, new
  <2> QED BY <1>3, <1>4, <2>1
<1>7. ASSUME b = s.booking_id, type \in Appended(s.op)
      PROVE  LogCount(b, type)' = LogCount(b, type) + 1
  <2>1. PICK i \in 1 .. Len(t.events) : t.events[i] = type
    BY <1>7 DEF Appended
  <2>2. \A j \in 1 .. Len(t.events) : t.events[j] = type => j = i
    BY <1>1, <2>1, AppendedTypes
  <2>3. f(i) \in NewEvents(s)
    BY <1>2
  <2>4. new = {f(i)}
    BY <1>2, <1>7, <2>1, <2>2
  <2>5. f(i) \notin old
    BY <1>1, <2>3 DEF uq_booking_events_booking_version, EventsOf
  <2> HIDE DEF old, new, f
  <2>6. Cardinality(old \cup {f(i)}) = Cardinality(old) + 1
    BY <1>3, <2>5, FS_AddElement
  <2> QED BY <1>3, <1>4, <2>4, <2>6
<1> QED BY <1>5, <1>6, <1>7

\* A record appended to the outbox counts for its booking and its type.
LEMMA OutboxCountGrows ==
    ASSUME outbox \in Seq(OutboxRow), NEW row, outbox' = Append(outbox, row),
           NEW b, NEW type
    PROVE  /\ OutboxCount(b, type) \in Nat
           /\ row.booking_id = b /\ row.event_type = type =>
                 OutboxCount(b, type)' = OutboxCount(b, type) + 1
           /\ row.booking_id # b \/ row.event_type # type =>
                 OutboxCount(b, type)' = OutboxCount(b, type)
<1> DEFINE n == Len(outbox)
           old == {i \in DOMAIN outbox : /\ outbox[i].booking_id = b
                                         /\ outbox[i].event_type = type}
           new == {i \in DOMAIN outbox' : /\ outbox'[i].booking_id = b
                                          /\ outbox'[i].event_type = type}
<1>1. /\ n \in Nat
      /\ DOMAIN outbox = 1 .. n
      /\ DOMAIN outbox' = 1 .. n \cup {n + 1}
      /\ \A i \in 1 .. n : outbox'[i] = outbox[i]
      /\ outbox'[n + 1] = row
  OBVIOUS
<1>2. IsFiniteSet(old)
  <2>1. old \subseteq 1 .. n
    BY <1>1
  <2>2. IsFiniteSet(1 .. n)
    BY <1>1, FS_Interval
  <2> HIDE DEF n, old
  <2> QED BY <2>1, <2>2, FS_Subset
<1>3. OutboxCount(b, type) = Cardinality(old) /\ OutboxCount(b, type)' = Cardinality(new)
  BY DEF OutboxCount
<1>4. n + 1 \notin old
  BY <1>1
<1>5. row.booking_id = b /\ row.event_type = type => new = old \cup {n + 1}
  BY <1>1
<1>6. row.booking_id # b \/ row.event_type # type => new = old
  BY <1>1
<1> HIDE DEF n, old, new
<1>7. Cardinality(old) \in Nat /\ Cardinality(old \cup {n + 1}) = Cardinality(old) + 1
  BY <1>2, <1>4, FS_AddElement, FS_CardinalityType
<1> QED BY <1>3, <1>5, <1>6, <1>7

\* What a commit tells is what it appends.
LEMMA EmitsTell ==
    ASSUME NEW s, s.op \in Ops
    PROVE  \/ /\ Emits(s) = << >>
              /\ s.op # "return"
              /\ \A type \in OutboxTypes : Tells[type] \notin Appended(s.op)
           \/ \E row :
                 /\ Emits(s) = <<row>>
                 /\ row.booking_id = s.booking_id
                 /\ \A type \in OutboxTypes :
                       Tells[type] \in Appended(s.op) <=> row.event_type = type
                 /\ row.event_type = "capture_payment_requested" =>
                       /\ s.op = "return"
                       /\ row.overage_cents =
                             compute_overage_cents(s.state, s.odometer)
<1> DEFINE b == s.booking_id
           Fits(row) ==
              /\ row.booking_id = b
              /\ \A type \in OutboxTypes :
                    Tells[type] \in Appended(s.op) <=> row.event_type = type
              /\ row.event_type = "capture_payment_requested" =>
                    /\ s.op = "return"
                    /\ row.overage_cents =
                          compute_overage_cents(s.state, s.odometer)
<1> USE DEF OutboxTypes, Tells
<1>2. CASE s.op = "handover"
  BY <1>2, AppendedIs DEF Emits
<1>3. CASE s.op = "accept"
  <2>1. Emits(s) = <<AuthorizeCommand(b, s.state)>>
    BY <1>3 DEF Emits
  <2>2. /\ AuthorizeCommand(b, s.state).booking_id = b
        /\ AuthorizeCommand(b, s.state).event_type = "authorize_payment_requested"
    BY DEF AuthorizeCommand
  <2>3. Fits(AuthorizeCommand(b, s.state))
    BY <1>3, <2>2, AppendedIs
  <2> QED BY <2>1, <2>3
<1>4. CASE s.op = "return"
  <2> DEFINE row == CaptureCommand(b, s.state, s.odometer)
  <2>1. Emits(s) = <<row>>
    BY <1>4 DEF Emits
  <2>2. /\ row.booking_id = b
        /\ row.event_type = "capture_payment_requested"
        /\ row.overage_cents = compute_overage_cents(s.state, s.odometer)
    BY DEF CaptureCommand
  <2> HIDE DEF row
  <2>3. Fits(row)
    BY <1>4, <2>2, AppendedIs
  <2> QED BY <2>1, <2>3
<1>5. ASSUME NEW type \in OutboxTypes, type # "capture_payment_requested",
             Emits(s) = <<DomainEvent(b, type)>>,
             \A x \in OutboxTypes : Tells[x] \in Appended(s.op) <=> x = type
      PROVE  \E row : Emits(s) = <<row>> /\ Fits(row)
  <2>1. Fits(DomainEvent(b, type))
    BY <1>5 DEF DomainEvent
  <2> QED BY <1>5, <2>1
<1>6. CASE s.op = "reject"
  <2>1. Emits(s) = <<DomainEvent(b, "booking_rejected")>>
    BY <1>6 DEF Emits
  <2> QED BY <1>5, <1>6, <2>1, AppendedIs
<1>7. CASE s.op = "payment_authorized"
  <2>1. Emits(s) = <<DomainEvent(b, "booking_confirmed")>>
    BY <1>7 DEF Emits
  <2> QED BY <1>5, <1>7, <2>1, AppendedIs
<1>8. CASE s.op = "payment_authorization_failed"
  <2>1. Emits(s) = <<DomainEvent(b, "booking_cancelled")>>
    BY <1>8 DEF Emits
  <2> QED BY <1>5, <1>8, <2>1, AppendedIs
<1>9. CASE s.op = "payment_captured"
  <2>1. Emits(s) = <<DomainEvent(b, "booking_completed")>>
    BY <1>9 DEF Emits
  <2> QED BY <1>5, <1>9, <2>1, AppendedIs
<1>10. CASE s.op = "payment_capture_failed"
  <2>1. Emits(s) = <<DomainEvent(b, "booking_payment_capture_failed")>>
    BY <1>10 DEF Emits
  <2> QED BY <1>5, <1>10, <2>1, AppendedIs
<1> QED BY <1>2, <1>3, <1>4, <1>6, <1>7, <1>8, <1>9, <1>10
        DEF Ops, HostOps, PaymentEventTypes

\* The overage that a row shows was last asked for: true of the outbox before
\* and after a record, if the row follows the record.
LEMMA LastCaptureShown ==
    ASSUME outbox \in Seq(OutboxRow), RowShowsLastCapture,
           outbox' = outbox \/ \E row : outbox' = Append(outbox, row),
           \A i \in DOMAIN outbox :
              \/ bookings'[outbox[i].booking_id].overage_cents =
                    bookings[outbox[i].booking_id].overage_cents
              \/ /\ outbox' # outbox
                 /\ outbox'[Len(outbox) + 1].booking_id = outbox[i].booking_id
                 /\ outbox'[Len(outbox) + 1].event_type = "capture_payment_requested",
           outbox' # outbox =>
              LET row == outbox'[Len(outbox) + 1]
              IN  row.event_type = "capture_payment_requested" =>
                    row.overage_cents = bookings'[row.booking_id].overage_cents
    PROVE  RowShowsLastCapture'
<1> DEFINE n == Len(outbox)
           Last(q, i) ==
              /\ q[i].event_type = "capture_payment_requested"
              /\ \A j \in DOMAIN q :
                    j > i => \/ q[j].booking_id # q[i].booking_id
                             \/ q[j].event_type # "capture_payment_requested"
<1>1. /\ n \in Nat
      /\ DOMAIN outbox = 1 .. n
      /\ DOMAIN outbox' = 1 .. n \/ DOMAIN outbox' = 1 .. n \cup {n + 1}
      /\ \A i \in 1 .. n : outbox'[i] = outbox[i]
      /\ DOMAIN outbox' # 1 .. n => outbox' # outbox
      /\ outbox' # outbox => DOMAIN outbox' = 1 .. n \cup {n + 1}
  <2>1. n \in Nat /\ DOMAIN outbox = 1 .. n
    OBVIOUS
  <2>2. CASE outbox' = outbox
    BY <2>1, <2>2
  <2>3. ASSUME NEW row, outbox' = Append(outbox, row)
        PROVE  /\ DOMAIN outbox' = 1 .. n \cup {n + 1}
               /\ \A i \in 1 .. n : outbox'[i] = outbox[i]
    BY <2>3
  <2> HIDE DEF n
  <2>4. CASE outbox' # outbox
    BY <2>1, <2>3, <2>4
  <2> QED BY <2>2, <2>4
<1>2. \A i \in DOMAIN outbox : Last(outbox, i) =>
         outbox[i].overage_cents = bookings[outbox[i].booking_id].overage_cents
  BY DEF RowShowsLastCapture
<1>3. ASSUME NEW i \in DOMAIN outbox', Last(outbox', i)
      PROVE  outbox'[i].overage_cents = bookings'[outbox'[i].booking_id].overage_cents
  <2>1. CASE i \in 1 .. n
    <3>1. Last(outbox, i)
      BY <1>1, <1>3, <2>1
    <3>2. outbox' # outbox =>
             \/ outbox'[n + 1].booking_id # outbox[i].booking_id
             \/ outbox'[n + 1].event_type # "capture_payment_requested"
      BY <1>1, <1>3, <2>1
    <3>3. bookings'[outbox[i].booking_id].overage_cents =
             bookings[outbox[i].booking_id].overage_cents
      BY <1>1, <2>1, <3>2
    <3> HIDE DEF Last
    <3> QED BY <1>1, <1>2, <2>1, <3>1, <3>3
  <2>2. CASE i \notin 1 .. n
    BY <1>1, <1>3, <2>2
  <2> QED BY <2>1, <2>2
<1> QED BY <1>3 DEF RowShowsLastCapture

\* POST /bookings: the log gets a fact that nobody is told, and an instant
\* request a command.
LEMMA RequestMessages ==
    ASSUME MInv, IInv', NEW b \in Bookings, NEW v \in VehicleResponse,
           NEW start \in Days, NEW end \in Days,
           request_booking(b, v, start, end)
    PROVE  MInv'
<1> DEFINE row == create_requested(v, start, end)
           event == [booking_id |-> b, version |-> 2,
                     event_type |-> "booking_requested"]
           cmd == AuthorizeCommand(b, row)
<1>1. /\ bookings[b] = NULL
      /\ bookings' = [bookings EXCEPT ![b] = row]
      /\ booking_events' = booking_events \cup {event}
      /\ row.booking_mode = "instant" => outbox' = Append(outbox, cmd)
      /\ row.booking_mode # "instant" => outbox' = outbox
      /\ UNCHANGED <<inbox, published, session>>
  BY DEF request_booking, Exists
<1>2. /\ bookings \in [Bookings -> BookingState \cup {NULL}]
      /\ bookings' \in [Bookings -> BookingState \cup {NULL}]
      /\ outbox \in Seq(OutboxRow)
      /\ \A i \in DOMAIN outbox : outbox[i].booking_id \in Bookings
  <2>1. /\ bookings \in [Bookings -> BookingState \cup {NULL}]
        /\ bookings' \in [Bookings -> BookingState \cup {NULL}]
        /\ outbox \in Seq(OutboxRow)
    BY DEF MInv, IInv, TypeOK
  <2>2. \A x \in OutboxRow : x.booking_id \in Bookings
    BY DEF OutboxRow
  <2> QED BY <2>1, <2>2
<1>3. /\ bookings'[b] = row
      /\ \A c \in Bookings : c # b => bookings'[c] = bookings[c]
  BY <1>1, <1>2
<1>4. row # NULL
  <2>1. row.version <= MaxVersion
    BY DEF request_booking
  <2> QED BY <2>1, CreatedRow, NullAssumption
<1>5. IsFiniteSet(booking_events')
  BY <1>1, FS_AddElement DEF MInv
<1>6. \A c \in Bookings : \A type : type # "booking_requested" =>
         LogCount(c, type)' = LogCount(c, type)
  <2> SUFFICES ASSUME NEW c \in Bookings, NEW type, type # "booking_requested"
               PROVE  LogCount(c, type)' = LogCount(c, type)
    OBVIOUS
  <2>1. {e \in EventsOf(c)' : e.event_type = type} =
           {e \in EventsOf(c) : e.event_type = type}
    BY <1>1 DEF EventsOf
  <2> QED BY <2>1 DEF LogCount
<1>7. EachPaymentEventOnce'
  <2>1. \A c \in Bookings, type \in PaymentEventTypes :
           LogCount(c, type)' = LogCount(c, type)
    BY <1>6 DEF PaymentEventTypes
  <2>2. \A c \in Bookings, type \in PaymentEventTypes :
           LogCount(c, type) = Cardinality(ClaimedEvents(c, type))
    BY DEF MInv, EachPaymentEventOnce, ClaimedEvents
  <2>3. \A c, type : ClaimedEvents(c, type)' = ClaimedEvents(c, type)
    BY <1>1 DEF ClaimedEvents
  <2>4. \A c \in Bookings, type \in PaymentEventTypes :
           LogCount(c, type)' = Cardinality(ClaimedEvents(c, type)')
    BY <2>1, <2>2, <2>3
  <2> QED BY <2>4 DEF EachPaymentEventOnce, ClaimedEvents
<1>8. /\ cmd.booking_id = b
      /\ cmd.event_type = "authorize_payment_requested"
  BY DEF AuthorizeCommand
<1>9. /\ Instant(b)' <=> row.booking_mode = "instant"
      /\ ~ Instant(b)
      /\ \A c \in Bookings : c # b => (Instant(c)' <=> Instant(c))
  BY <1>1, <1>3, <1>4 DEF Instant, Exists
<1>10. \A i \in DOMAIN outbox : outbox[i].booking_id # b
  BY <1>1 DEF MInv, OutboxIsBacked, Exists
<1> HIDE DEF row, cmd
<1>11. outbox' = outbox \/ outbox' = Append(outbox, cmd)
  BY <1>1
<1>12. OutboxIsBacked'
  <2>1. \A i \in DOMAIN outbox' : \/ i \in DOMAIN outbox /\ outbox'[i] = outbox[i]
                                  \/ outbox'[i] = cmd
    BY <1>2, <1>11
  <2>2. \A i \in DOMAIN outbox : bookings'[outbox[i].booking_id] # NULL
    BY <1>2, <1>3, <1>10 DEF MInv, OutboxIsBacked, Exists
  <2> QED BY <1>3, <1>4, <1>8, <2>1, <2>2 DEF OutboxIsBacked, Exists
<1>13. CountsAgree'
  <2> SUFFICES ASSUME NEW c \in Bookings, NEW type \in OutboxTypes
               PROVE  OutboxCount(c, type)' =
                         LogCount(c, Tells[type])' + Unaccepted(c, type)'
    BY DEF CountsAgree
  <2>1. LogCount(c, Tells[type])' = LogCount(c, Tells[type])
    BY <1>6 DEF OutboxTypes, Tells
  <2>2. OutboxCount(c, type) = LogCount(c, Tells[type]) + Unaccepted(c, type)
    BY DEF MInv, CountsAgree
  <2>3. LogCount(c, Tells[type]) \in Nat
    <3> DEFINE S == {e \in EventsOf(c) : e.event_type = Tells[type]}
    <3>1. IsFiniteSet(S)
      <4>1. S \subseteq booking_events
        BY DEF EventsOf
      <4> QED BY <4>1, FS_Subset DEF MInv
    <3> QED BY <3>1, FS_CardinalityType DEF LogCount
  <2>4. CASE row.booking_mode = "instant"
    <3>1. OutboxCount(c, type) \in Nat
          /\ (b = c /\ type = "authorize_payment_requested" =>
                OutboxCount(c, type)' = OutboxCount(c, type) + 1)
          /\ (b # c \/ type # "authorize_payment_requested" =>
                OutboxCount(c, type)' = OutboxCount(c, type))
      BY <1>1, <1>2, <1>8, <2>4, OutboxCountGrows
    <3>2. /\ b = c /\ type = "authorize_payment_requested" =>
                Unaccepted(c, type)' = 1 /\ Unaccepted(c, type) = 0
          /\ b # c \/ type # "authorize_payment_requested" =>
                Unaccepted(c, type)' = Unaccepted(c, type)
          /\ Unaccepted(c, type) \in Nat
      BY <1>9, <2>4 DEF Unaccepted
    <3> QED BY <2>1, <2>2, <2>3, <3>1, <3>2
  <2>5. CASE row.booking_mode # "instant"
    <3>1. OutboxCount(c, type)' = OutboxCount(c, type)
      BY <1>1, <2>5 DEF OutboxCount
    <3>2. Unaccepted(c, type)' = Unaccepted(c, type)
      BY <1>9, <2>5 DEF Unaccepted
    <3> QED BY <2>1, <2>2, <3>1, <3>2
  <2> QED BY <2>4, <2>5
<1>14. RowShowsLastCapture'
  <2>1. \A i \in DOMAIN outbox : bookings'[outbox[i].booking_id] =
                                   bookings[outbox[i].booking_id]
    BY <1>2, <1>3, <1>10
  <2>2. outbox' # outbox => outbox'[Len(outbox) + 1] = cmd
    BY <1>2, <1>11
  <2> QED BY <1>2, <1>8, <1>11, <2>1, <2>2, LastCaptureShown DEF MInv
<1>15. ClaimsAreOpen' /\ IdsAreUnique' /\ IsFiniteSet(published')
  BY <1>1 DEF MInv, ClaimsAreOpen, ClaimIsOpen, IdsAreUnique
<1> QED BY <1>5, <1>7, <1>12, <1>13, <1>14, <1>15 DEF MInv

\* A step that touches no booking, no log and no outbox.
LEMMA TablesAlone ==
    ASSUME MInv, IInv', UNCHANGED <<bookings, booking_events, outbox>>,
           ClaimsAreOpen', IdsAreUnique', IsFiniteSet(published'),
           \A c, type : ClaimedEvents(c, type)' = ClaimedEvents(c, type)
    PROVE  MInv'
<1>1. /\ \A c, type : LogCount(c, type)' = LogCount(c, type)
      /\ \A c, type : OutboxCount(c, type)' = OutboxCount(c, type)
      /\ \A c, type : Unaccepted(c, type)' = Unaccepted(c, type)
  <2>1. \A c, type : LogCount(c, type)' = LogCount(c, type)
    BY DEF LogCount, EventsOf
  <2>2. \A c, type : OutboxCount(c, type)' = OutboxCount(c, type)
    BY DEF OutboxCount
  <2>3. \A c, type : Unaccepted(c, type)' = Unaccepted(c, type)
    BY DEF Unaccepted, Instant, Exists
  <2> QED BY <2>1, <2>2, <2>3
<1>2. EachPaymentEventOnce'
  <2>1. \A c \in Bookings, type \in PaymentEventTypes :
           LogCount(c, type) = Cardinality(ClaimedEvents(c, type))
    BY DEF MInv, EachPaymentEventOnce, ClaimedEvents
  <2>2. \A c \in Bookings, type \in PaymentEventTypes :
           LogCount(c, type)' = Cardinality(ClaimedEvents(c, type)')
    BY <1>1, <2>1
  <2> QED BY <2>2 DEF EachPaymentEventOnce, ClaimedEvents
<1>3. CountsAgree'
  BY <1>1 DEF MInv, CountsAgree
<1>4. OutboxIsBacked'
  BY DEF MInv, OutboxIsBacked, Exists
<1>5. RowShowsLastCapture'
  BY DEF MInv, RowShowsLastCapture
<1>6. IsFiniteSet(booking_events')
  BY DEF MInv
<1> QED BY <1>2, <1>3, <1>4, <1>5, <1>6 DEF MInv

\* A transaction opens: of a host, or of the consumer with its claim.
LEMMA OpenMessages ==
    ASSUME MInv, IInv', NEW w \in Workers, NEW op \in Ops, NEW b \in Bookings,
           NEW odometer, NEW event_id, Open(w, op, b, odometer, event_id),
           \/ event_id = NULL /\ op \in HostOps
           \/ /\ event_id # NULL /\ op \notin HostOps
              /\ claim_event(event_id)
              /\ \E e \in published : /\ e.event_id = event_id
                                      /\ e.booking_id = b
                                      /\ e.event_type = op
    PROVE  MInv'
<1> DEFINE new == [op |-> op, booking_id |-> b, state |-> bookings[b],
                   odometer |-> odometer, event_id |-> event_id]
<1>1. /\ session \in [Workers -> Session \cup {NULL}]
      /\ session' = [session EXCEPT ![w] = new]
      /\ UNCHANGED <<bookings, booking_events, outbox, inbox, published>>
  BY DEF Open, MInv, IInv, TypeOK
<1>2. /\ session'[w] = new
      /\ \A v \in Workers : v # w => session'[v] = session[v]
  BY <1>1
<1>3. /\ new.op = op /\ new.booking_id = b /\ new.event_id = event_id
  OBVIOUS
<1> HIDE DEF new
<1>4. ClaimIsOpen(new)
  BY <1>3 DEF ClaimIsOpen, claim_event
<1>5. \A v \in Workers : session'[v] # NULL => ClaimIsOpen(session'[v])
  BY <1>2, <1>4 DEF MInv, ClaimsAreOpen
<1>6. \A v \in Workers : session'[v] # NULL => ClaimIsOpen(session[v])'
  BY <1>1, <1>5 DEF ClaimIsOpen
<1>7. \A v \in Workers : v # w /\ session[v] # NULL =>
         event_id = NULL \/ session[v].event_id # event_id
  BY DEF claim_event
<1>8. ASSUME NEW u \in Workers, NEW v \in Workers,
             session'[u] # NULL, session'[v] # NULL,
             session'[u].event_id = session'[v].event_id,
             session'[u].event_id # NULL
      PROVE  u = v
  <2>1. CASE u = w
    BY <1>2, <1>3, <1>7, <1>8, <2>1
  <2>2. CASE v = w
    BY <1>2, <1>3, <1>7, <1>8, <2>2
  <2>3. CASE u # w /\ v # w
    BY <1>2, <1>8, <2>3 DEF MInv, ClaimsAreOpen
  <2> QED BY <2>1, <2>2, <2>3
<1>9. ClaimsAreOpen'
  BY <1>6, <1>8 DEF ClaimsAreOpen
<1>10. IdsAreUnique' /\ IsFiniteSet(published')
  BY <1>1 DEF MInv, IdsAreUnique
<1>11. \A c, type : ClaimedEvents(c, type)' = ClaimedEvents(c, type)
  BY <1>1 DEF ClaimedEvents
<1> QED BY <1>1, <1>9, <1>10, <1>11, TablesAlone

\* A transaction that fails leaves its event to be claimed again.
LEMMA RollbackMessages ==
    ASSUME MInv, IInv', NEW w \in Workers, Rollback(w)
    PROVE  MInv'
<1>1. /\ session \in [Workers -> Session \cup {NULL}]
      /\ session' = [session EXCEPT ![w] = NULL]
      /\ UNCHANGED <<bookings, booking_events, outbox, inbox, published>>
  BY DEF Rollback, MInv, IInv, TypeOK
<1>2. /\ session'[w] = NULL
      /\ \A v \in Workers : v # w => session'[v] = session[v]
  BY <1>1
<1>3. \A v \in Workers : session'[v] # NULL => ClaimIsOpen(session'[v])
  BY <1>2 DEF MInv, ClaimsAreOpen
<1>4. \A v \in Workers : session'[v] # NULL => ClaimIsOpen(session[v])'
  BY <1>1, <1>3 DEF ClaimIsOpen
<1>5. ClaimsAreOpen'
  BY <1>2, <1>4 DEF MInv, ClaimsAreOpen
<1>6. IdsAreUnique' /\ IsFiniteSet(published')
  BY <1>1 DEF MInv, IdsAreUnique
<1>7. \A c, type : ClaimedEvents(c, type)' = ClaimedEvents(c, type)
  BY <1>1 DEF ClaimedEvents
<1> QED BY <1>1, <1>5, <1>6, <1>7, TablesAlone

\* A new payment event has an id that nobody has claimed.
LEMMA PublishMessages ==
    ASSUME MInv, IInv', NEW e \in PaymentEvent, Publish(e)
    PROVE  MInv'
<1>1. /\ \A f \in published : f.event_id # e.event_id
      /\ published' = published \cup {e}
      /\ UNCHANGED <<bookings, booking_events, outbox, inbox, session>>
  BY DEF Publish
<1>2. e.event_id \notin inbox
  BY <1>1 DEF MInv, IdsAreUnique
<1>3. ClaimsAreOpen'
  <2>1. \A v \in Workers : session[v] # NULL => ClaimIsOpen(session[v])'
    BY <1>1 DEF MInv, ClaimsAreOpen, ClaimIsOpen
  <2> QED BY <1>1, <2>1 DEF MInv, ClaimsAreOpen
<1>4. IdsAreUnique'
  BY <1>1 DEF MInv, IdsAreUnique
<1>5. IsFiniteSet(published')
  BY <1>1, FS_AddElement DEF MInv
<1>6. \A c, type : ClaimedEvents(c, type)' = ClaimedEvents(c, type)
  BY <1>1, <1>2 DEF ClaimedEvents
<1> QED BY <1>1, <1>3, <1>4, <1>5, <1>6, TablesAlone

\* A transaction appends finitely many events.
LEMMA NewEventsFinite ==
    ASSUME NEW s, s.op \in Ops
    PROVE  IsFiniteSet(NewEvents(s))
<1> DEFINE t == Transition(s.op)
           f(i) == [booking_id |-> s.booking_id, version |-> s.state.version + i,
                    event_type |-> t.events[i]]
<1>1. NewEvents(s) = {f(i) : i \in 1 .. Len(t.events)}
  BY DEF NewEvents
<1>2. 1 .. Len(t.events) \subseteq {1, 2}
  <2>1. Len(t.events) \in {1, 2}
    BY TransitionFacts DEF WellFormedTransition
  <2>2. 1 .. 1 \subseteq {1, 2} /\ 1 .. 2 \subseteq {1, 2}
    OBVIOUS
  <2> HIDE DEF t
  <2> QED BY <2>1, <2>2
<1>3. NewEvents(s) \subseteq {f(1), f(2)}
  BY <1>1, <1>2
<1> HIDE DEF f
<1>4. IsFiniteSet(({} \cup {f(1)}) \cup {f(2)})
  BY FS_EmptySet, FS_AddElement
<1>5. {f(1), f(2)} = ({} \cup {f(1)}) \cup {f(2)}
  OBVIOUS
<1> QED BY <1>3, <1>4, <1>5, FS_Subset

\* The outbox after a commit: one record more, or, after a handover, none.
LEMMA CommitOutbox ==
    ASSUME IInv, NEW w \in Workers, Commit(w)
    PROVE  LET s == session[w]
           IN  \/ /\ outbox' = outbox
                  /\ s.op # "return"
                  /\ \A type \in OutboxTypes : Tells[type] \notin Appended(s.op)
               \/ \E row :
                     /\ outbox' = Append(outbox, row)
                     /\ row.booking_id = s.booking_id
                     /\ \A type \in OutboxTypes :
                           Tells[type] \in Appended(s.op) <=> row.event_type = type
                     /\ row.event_type = "capture_payment_requested" =>
                           /\ s.op = "return"
                           /\ row.overage_cents =
                                 compute_overage_cents(s.state, s.odometer)
<1> DEFINE s == session[w]
<1>1. s.op \in Ops /\ outbox' = outbox \o Emits(s) /\ outbox \in Seq(OutboxRow)
  BY CommitFacts DEF Commit, IInv, TypeOK
<1>2. outbox \o << >> = outbox /\ \A row : outbox \o <<row>> = Append(outbox, row)
  BY <1>1
<1> HIDE DEF s
<1>3. CASE Emits(s) = << >>
  <2>1. outbox' = outbox
    BY <1>1, <1>2, <1>3
  <2>2. ~ \E row : Emits(s) = <<row>>
    BY <1>3
  <2> QED BY <1>1, <2>1, <2>2, EmitsTell DEF s
<1>4. ASSUME NEW row, Emits(s) = <<row>>
      PROVE  outbox' = Append(outbox, row)
  BY <1>1, <1>2, <1>4
<1>5. CASE Emits(s) # << >>
  <2>1. PICK row :
                 /\ Emits(s) = <<row>>
                 /\ row.booking_id = s.booking_id
                 /\ \A type \in OutboxTypes :
                       Tells[type] \in Appended(s.op) <=> row.event_type = type
                 /\ row.event_type = "capture_payment_requested" =>
                       /\ s.op = "return"
                       /\ row.overage_cents =
                             compute_overage_cents(s.state, s.odometer)
    BY <1>1, <1>5, EmitsTell
  <2>2. outbox' = Append(outbox, row)
    BY <1>4, <2>1
  <2> QED BY <2>1, <2>2 DEF s
<1> QED BY <1>3, <1>5

\* The events that a commit claims are those it appends.
LEMMA CommitClaims ==
    ASSUME MInv, NEW w \in Workers, Commit(w)
    PROVE  EachPaymentEventOnce'
<1> DEFINE s == session[w]
<1>1. /\ s # NULL /\ s.op \in Ops /\ ClaimIsOpen(s) /\ IInv
      /\ IsFiniteSet(booking_events)
      /\ published' = published
      /\ s.event_id = NULL => inbox' = inbox
      /\ s.event_id # NULL => inbox' = inbox \cup {s.event_id}
      /\ published \subseteq PaymentEvent
  <2>1. IInv
    BY DEF MInv
  <2> QED BY <2>1, CommitFacts DEF Commit, MInv, ClaimsAreOpen, IInv, TypeOK
<1> SUFFICES ASSUME NEW c \in Bookings, NEW type \in PaymentEventTypes
             PROVE  LogCount(c, type)' = Cardinality(ClaimedEvents(c, type)')
  BY DEF EachPaymentEventOnce, ClaimedEvents
<1> DEFINE hit == c = s.booking_id /\ type \in Appended(s.op)
<1>2. LogCount(c, type) = Cardinality(ClaimedEvents(c, type))
  BY DEF MInv, EachPaymentEventOnce, ClaimedEvents
<1>3. /\ hit => LogCount(c, type)' = LogCount(c, type) + 1
      /\ ~ hit => LogCount(c, type)' = LogCount(c, type)
  BY <1>1, LogCountCommit
<1>4. s.op \in HostOps => type \notin Appended(s.op)
  BY AppendedIs DEF HostOps, PaymentEventTypes
<1>5. s.op \in PaymentEventTypes => (type \in Appended(s.op) <=> type = s.op)
  BY AppendedIs DEF PaymentEventTypes
<1>6. CASE s.event_id = NULL
  <2>1. ClaimedEvents(c, type)' = ClaimedEvents(c, type)
    BY <1>1, <1>6 DEF ClaimedEvents
  <2>2. ~ hit
    BY <1>1, <1>4, <1>6 DEF ClaimIsOpen
  <2> QED BY <1>2, <1>3, <2>1, <2>2
<1>7. CASE s.event_id # NULL
  <2>1. PICK e \in published : /\ e.event_id = s.event_id
                               /\ e.booking_id = s.booking_id
                               /\ e.event_type = s.op
    BY <1>1, <1>7 DEF ClaimIsOpen
  <2>2. s.op \in PaymentEventTypes /\ s.event_id \notin inbox
    BY <1>1, <1>7, <2>1 DEF ClaimIsOpen, PaymentEvent
  <2>3. \A f \in published : f.event_id = s.event_id => f = e
    BY <2>1 DEF MInv, IdsAreUnique
  <2>4. hit <=> c = e.booking_id /\ type = e.event_type
    BY <1>5, <2>1, <2>2
  <2>5. CASE hit
    <3>1. ClaimedEvents(c, type)' = ClaimedEvents(c, type) \cup {e}
      BY <1>1, <1>7, <2>1, <2>3, <2>4, <2>5 DEF ClaimedEvents
    <3>2. e \notin ClaimedEvents(c, type)
      BY <2>1, <2>2 DEF ClaimedEvents
    <3>3. IsFiniteSet(ClaimedEvents(c, type))
      <4>1. ClaimedEvents(c, type) \subseteq published
        BY DEF ClaimedEvents
      <4> QED BY <4>1, FS_Subset DEF MInv
    <3>4. Cardinality(ClaimedEvents(c, type) \cup {e}) =
             Cardinality(ClaimedEvents(c, type)) + 1
      BY <3>2, <3>3, FS_AddElement
    <3> QED BY <1>2, <1>3, <2>5, <3>1, <3>4
  <2>6. CASE ~ hit
    <3>1. ClaimedEvents(c, type)' = ClaimedEvents(c, type)
      BY <1>1, <1>7, <2>1, <2>3, <2>4, <2>6 DEF ClaimedEvents
    <3> QED BY <1>2, <1>3, <2>6, <3>1
  <2> QED BY <2>5, <2>6
<1> QED BY <1>6, <1>7

\* The commit of a transaction: its events, its record and its claim together.
LEMMA CommitMessages ==
    ASSUME MInv, IInv', NEW w \in Workers, Commit(w)
    PROVE  MInv'
<1> DEFINE s == session[w]
<1>0. PICK b \in Bookings : b = s.booking_id
  BY CommitFacts DEF MInv
<1>1. /\ IInv /\ IsFiniteSet(booking_events) /\ s.op \in Ops
      /\ bookings[b] \in BookingState /\ s.state = bookings[b]
      /\ bookings'[b] = Apply(bookings[b], s) /\ bookings'[b] # NULL
      /\ \A c \in Bookings : c # b => bookings'[c] = bookings[c]
      /\ booking_events' = booking_events \cup NewEvents(s)
      /\ outbox \in Seq(OutboxRow)
  <2>1. IInv /\ IsFiniteSet(booking_events)
    BY DEF MInv
  <2>2. outbox \in Seq(OutboxRow) /\ booking_events' = booking_events \cup NewEvents(s)
    BY <2>1 DEF IInv, TypeOK, Commit
  <2> QED BY <1>0, <2>1, <2>2, CommitFacts
<1>2. bookings[b] # NULL
  BY <1>1, NullAssumption
<1>3. IsFiniteSet(booking_events')
  BY <1>1, NewEventsFinite, FS_Union
<1>4. \/ /\ outbox' = outbox
         /\ s.op # "return"
         /\ \A type \in OutboxTypes : Tells[type] \notin Appended(s.op)
      \/ \E row :
            /\ outbox' = Append(outbox, row)
            /\ row.booking_id = b
            /\ \A type \in OutboxTypes :
                  Tells[type] \in Appended(s.op) <=> row.event_type = type
            /\ row.event_type = "capture_payment_requested" =>
                  /\ s.op = "return"
                  /\ row.overage_cents = compute_overage_cents(s.state, s.odometer)
  BY <1>0, <1>1, CommitOutbox
<1>5. /\ Apply(bookings[b], s).booking_mode = bookings[b].booking_mode
      /\ s.op = "return" => Apply(bookings[b], s).overage_cents =
                               compute_overage_cents(s.state, s.odometer)
      /\ s.op # "return" => Apply(bookings[b], s).overage_cents =
                               bookings[b].overage_cents
  BY <1>1 DEF Apply, BookingState
<1>6. \A c \in Bookings : \A type : Unaccepted(c, type)' = Unaccepted(c, type)
  <2>1. \A c \in Bookings : Instant(c)' <=> Instant(c)
    BY <1>1, <1>2, <1>5 DEF Instant, Exists
  <2> QED BY <2>1 DEF Unaccepted
<1>7. CountsAgree'
  <2> SUFFICES ASSUME NEW c \in Bookings, NEW type \in OutboxTypes
               PROVE  OutboxCount(c, type)' =
                         LogCount(c, Tells[type])' + Unaccepted(c, type)'
    BY DEF CountsAgree
  <2>1. OutboxCount(c, type) = LogCount(c, Tells[type]) + Unaccepted(c, type)
    BY DEF MInv, CountsAgree
  <2>2. Unaccepted(c, type) \in Nat
    BY DEF Unaccepted
  <2>3. /\ LogCount(c, Tells[type]) \in Nat
        /\ c = b /\ Tells[type] \in Appended(s.op) =>
              LogCount(c, Tells[type])' = LogCount(c, Tells[type]) + 1
        /\ c # b \/ Tells[type] \notin Appended(s.op) =>
              LogCount(c, Tells[type])' = LogCount(c, Tells[type])
    BY <1>0, <1>1, LogCountCommit
  <2>4. /\ c = b /\ Tells[type] \in Appended(s.op) =>
              OutboxCount(c, type)' = OutboxCount(c, type) + 1
        /\ c # b \/ Tells[type] \notin Appended(s.op) =>
              OutboxCount(c, type)' = OutboxCount(c, type)
    <3>1. CASE /\ outbox' = outbox
               /\ \A x \in OutboxTypes : Tells[x] \notin Appended(s.op)
      <4>1. OutboxCount(c, type)' = OutboxCount(c, type)
        BY <3>1 DEF OutboxCount
      <4> QED BY <3>1, <4>1
    <3>2. ASSUME NEW row, outbox' = Append(outbox, row), row.booking_id = b,
                 \A x \in OutboxTypes :
                    Tells[x] \in Appended(s.op) <=> row.event_type = x
          PROVE  /\ c = b /\ Tells[type] \in Appended(s.op) =>
                       OutboxCount(c, type)' = OutboxCount(c, type) + 1
                 /\ c # b \/ Tells[type] \notin Appended(s.op) =>
                       OutboxCount(c, type)' = OutboxCount(c, type)
      BY <1>1, <3>2, OutboxCountGrows
    <3> QED BY <1>4, <3>1, <3>2
  <2> QED BY <1>6, <2>1, <2>2, <2>3, <2>4
<1>8. OutboxIsBacked'
  <2>1. \A i \in DOMAIN outbox' :
           \/ i \in DOMAIN outbox /\ outbox'[i] = outbox[i]
           \/ outbox'[i].booking_id = b
    <3>1. CASE outbox' = outbox
      BY <3>1
    <3>2. ASSUME NEW row, outbox' = Append(outbox, row), row.booking_id = b,
                 NEW i \in DOMAIN outbox'
          PROVE  \/ i \in DOMAIN outbox /\ outbox'[i] = outbox[i]
                 \/ outbox'[i].booking_id = b
      BY <1>1, <3>2
    <3> QED BY <1>4, <3>1, <3>2
  <2>2. \A i \in DOMAIN outbox : /\ outbox[i].booking_id \in Bookings
                                 /\ bookings[outbox[i].booking_id] # NULL
    <3>1. \A x \in OutboxRow : x.booking_id \in Bookings
      BY DEF OutboxRow
    <3> QED BY <1>1, <3>1 DEF MInv, OutboxIsBacked, Exists
  <2> QED BY <1>1, <2>1, <2>2 DEF OutboxIsBacked, Exists
<1>9. RowShowsLastCapture'
  <2> DEFINE last == outbox'[Len(outbox) + 1]
  <2>1. \A i \in DOMAIN outbox : outbox[i].booking_id \in Bookings
    <3>1. \A x \in OutboxRow : x.booking_id \in Bookings
      BY DEF OutboxRow
    <3> QED BY <1>1, <3>1
  <2>2. CASE outbox' = outbox /\ s.op # "return"
    <3>1. \A c \in Bookings :
             bookings'[c].overage_cents = bookings[c].overage_cents
      BY <1>1, <1>5, <2>2
    <3> QED BY <1>1, <2>1, <2>2, <3>1, LastCaptureShown DEF MInv
  <2>3. ASSUME NEW row, outbox' = Append(outbox, row), row.booking_id = b,
               \A type \in OutboxTypes :
                  Tells[type] \in Appended(s.op) <=> row.event_type = type,
               row.event_type = "capture_payment_requested" =>
                  /\ s.op = "return"
                  /\ row.overage_cents = compute_overage_cents(s.state, s.odometer)
        PROVE  RowShowsLastCapture'
    <3>1. last = row /\ outbox' # outbox
      BY <1>1, <2>3
    <3>2. s.op = "return" <=> row.event_type = "capture_payment_requested"
      BY <2>3, AppendedIs DEF OutboxTypes, Tells
    <3>3. \A c \in Bookings :
             \/ bookings'[c].overage_cents = bookings[c].overage_cents
             \/ row.booking_id = c /\ row.event_type = "capture_payment_requested"
      BY <1>1, <1>5, <2>3, <3>2
    <3>4. row.event_type = "capture_payment_requested" =>
             row.overage_cents = bookings'[row.booking_id].overage_cents
      BY <1>1, <1>5, <2>3
    <3> QED BY <1>1, <2>1, <2>3, <3>1, <3>3, <3>4, LastCaptureShown DEF MInv
  <2> QED BY <1>4, <2>2, <2>3
<1>10. /\ session \in [Workers -> Session \cup {NULL}]
       /\ session' = [session EXCEPT ![w] = NULL]
       /\ s # NULL
       /\ published' = published
       /\ s.event_id = NULL => inbox' = inbox
       /\ s.event_id # NULL => inbox' = inbox \cup {s.event_id}
  BY <1>1 DEF IInv, TypeOK, Commit
<1>11. IdsAreUnique' /\ IsFiniteSet(published')
  <2>1. ClaimIsOpen(s)
    BY <1>10 DEF MInv, ClaimsAreOpen
  <2> QED BY <1>10, <2>1 DEF MInv, IdsAreUnique, ClaimIsOpen
<1>12. ClaimsAreOpen'
  <2>1. /\ session'[w] = NULL
        /\ \A v \in Workers : v # w => session'[v] = session[v]
    BY <1>10
  <2>2. ASSUME NEW v \in Workers, session'[v] # NULL
        PROVE  ClaimIsOpen(session[v])'
    <3>1. v # w /\ session'[v] = session[v] /\ ClaimIsOpen(session[v])
      BY <2>1, <2>2 DEF MInv, ClaimsAreOpen
    <3>2. session[v].event_id # NULL => session[v].event_id \notin inbox'
      BY <1>10, <2>2, <3>1 DEF MInv, ClaimsAreOpen, ClaimIsOpen
    <3> QED BY <1>10, <3>1, <3>2 DEF ClaimIsOpen
  <2> QED BY <2>1, <2>2 DEF MInv, ClaimsAreOpen
<1> QED BY <1>3, <1>7, <1>8, <1>9, <1>11, <1>12, CommitClaims DEF MInv

\* No message and no log to begin with.
LEMMA InitMessages == Init => MInv
<1> SUFFICES ASSUME Init PROVE MInv
  OBVIOUS
<1>1. /\ IsFiniteSet(booking_events) /\ IsFiniteSet(published)
      /\ IdsAreUnique /\ ClaimsAreOpen /\ OutboxIsBacked /\ RowShowsLastCapture
  BY FS_EmptySet DEF Init, IdsAreUnique, ClaimsAreOpen, OutboxIsBacked,
     RowShowsLastCapture
<1>2. \A c, type : LogCount(c, type) = 0 /\ OutboxCount(c, type) = 0
  BY FS_EmptySet DEF Init, LogCount, EventsOf, OutboxCount
<1>3. \A c \in Bookings : \A type : Unaccepted(c, type) = 0
  BY DEF Init, Unaccepted, Instant, Exists
<1>4. EachPaymentEventOnce
  BY <1>2, FS_EmptySet DEF Init, EachPaymentEventOnce
<1>5. CountsAgree
  BY <1>2, <1>3 DEF CountsAgree
<1> QED BY <1>1, <1>4, <1>5, InitInvariant DEF MInv

\* Every step of the service keeps messages and log together.
LEMMA StepMessages == MInv /\ [Next]_vars => MInv'
<1> SUFFICES ASSUME MInv, [Next]_vars PROVE MInv'
  OBVIOUS
<1>0. IInv'
  BY StepInvariant DEF MInv
<1>1. CASE \E b \in Bookings, v \in VehicleResponse, start, end \in Days :
              request_booking(b, v, start, end)
  BY <1>0, <1>1, RequestMessages
<1>2. CASE \E w \in Workers, op \in HostOps, b \in Bookings, caller \in Hosts :
              \E odometer \in Readings(op) :
                 HostRequest(w, op, b, caller, odometer)
  <2>1. PICK w \in Workers, op \in HostOps, b \in Bookings, caller \in Hosts :
                \E odometer \in Readings(op) :
                   HostRequest(w, op, b, caller, odometer)
    BY <1>2
  <2>2. PICK odometer : Open(w, op, b, odometer, NULL)
    BY <2>1 DEF HostRequest
  <2>3. op \in Ops
    BY DEF Ops
  <2> QED BY <1>0, <2>2, <2>3, OpenMessages
<1>3. CASE \E w \in Workers, e \in PaymentEvent : HandlePaymentEvent(w, e)
  <2>1. PICK w \in Workers, e \in PaymentEvent : HandlePaymentEvent(w, e)
    BY <1>3
  <2>2. /\ e.event_type \in Ops /\ e.event_type \notin HostOps
        /\ e.booking_id \in Bookings /\ e.event_id # NULL
    BY NullAssumption DEF PaymentEvent, PaymentEventTypes, Ops, HostOps
  <2>3. /\ e \in published /\ claim_event(e.event_id)
        /\ Open(w, e.event_type, e.booking_id, NULL, e.event_id)
    BY <2>1 DEF HandlePaymentEvent
  <2> QED BY <1>0, <2>2, <2>3, OpenMessages
<1>4. CASE \E w \in Workers : Commit(w)
  BY <1>0, <1>4, CommitMessages
<1>5. CASE \E w \in Workers : Rollback(w)
  BY <1>0, <1>5, RollbackMessages
<1>6. CASE \E e \in PaymentEvent : Publish(e)
  BY <1>0, <1>6, PublishMessages
<1>7. CASE UNCHANGED vars
  <2>1. /\ UNCHANGED <<bookings, booking_events, outbox>>
        /\ UNCHANGED <<inbox, published, session>>
    BY <1>7 DEF vars
  <2>2. ClaimsAreOpen' /\ IdsAreUnique' /\ IsFiniteSet(published')
    BY <2>1 DEF MInv, ClaimsAreOpen, ClaimIsOpen, IdsAreUnique
  <2>3. \A c, type : ClaimedEvents(c, type)' = ClaimedEvents(c, type)
    BY <2>1 DEF ClaimedEvents
  <2> QED BY <1>0, <2>1, <2>2, <2>3, TablesAlone
<1> QED BY <1>1, <1>2, <1>3, <1>4, <1>5, <1>6, <1>7 DEF Next

\* The counts of MInv are those of the property.
LEMMA CountsTell == MInv => OutboxTellsLog
<1> SUFFICES ASSUME MInv, NEW b \in Bookings
             PROVE  /\ OutboxCount(b, "authorize_payment_requested") =
                          LogCount(b, "booking_request_accepted") +
                          (IF Exists(b) /\ bookings[b].booking_mode = "instant"
                           THEN 1 ELSE 0)
                    /\ \A type \in OutboxTypes :
                          type # "authorize_payment_requested" =>
                             OutboxCount(b, type) = LogCount(b, Tells[type])
  BY DEF OutboxTellsLog, OutboxTypes, Tells
<1>1. OutboxCount(b, "authorize_payment_requested") =
         LogCount(b, "booking_request_accepted") +
         Unaccepted(b, "authorize_payment_requested")
  BY DEF MInv, CountsAgree, OutboxTypes, Tells
<1>2. \A type \in OutboxTypes : type # "authorize_payment_requested" =>
         OutboxCount(b, type) = LogCount(b, Tells[type]) + 0
  BY DEF MInv, CountsAgree, Unaccepted
<1>3. \A type : LogCount(b, type) \in Nat
  <2>1. \A type : {e \in EventsOf(b) : e.event_type = type} \subseteq booking_events
    BY DEF EventsOf
  <2> QED BY <2>1, FS_Subset, FS_CardinalityType DEF MInv, LogCount
<1>4. \A type \in OutboxTypes : type # "authorize_payment_requested" =>
         OutboxCount(b, type) = LogCount(b, Tells[type])
  BY <1>2, <1>3
<1> QED BY <1>1, <1>4 DEF Unaccepted, Instant

\* What comes in and what goes out is what the log records, each once: a
\* payment event redelivered, retried after a rollback or claimed by two
\* replicas has one effect (inbox.py:11-14, service.py:112-283).
THEOREM MessagesTell == Spec => []MessagesTellLog
<1>1. MInv => MessagesTellLog
  BY CountsTell DEF MInv, MessagesTellLog
<1> QED BY InitMessages, StepMessages, <1>1, PTL DEF Spec
==============================================================================
