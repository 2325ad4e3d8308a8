------------------------------ MODULE SagaProofs ------------------------------
(***************************************************************************)
(* Proofs about Saga, for any number of bookings, workers, consumers and   *)
(* partitions.                                                             *)
(*                                                                         *)
(* The invariants of the two services hold in the saga, because each is an *)
(* environment that the other one allows.  What the saga adds is the       *)
(* thread between them: a status that speaks of money was reached by an    *)
(* answer in the outbox of payment, and an answer there follows the row    *)
(* that payment keeps; a charge was made for a command in the outbox of    *)
(* booking, and a command there follows the log.                           *)
(***************************************************************************)
EXTENDS Saga, FiniteSetTheorems, TLAPS

\* The theorems about the services, for any event id and any amount.
BP == INSTANCE BookingProofs WITH EventIds <- Nat \ {0}
PP == INSTANCE PaymentProofs WITH commands <- outbox, Amounts <- Nat \ {0},
                                  Overages <- Nat

\* Payment has given this answer about a booking.
Answered(b, type) ==
    \E i \in DOMAIN payment_outbox : /\ payment_outbox[i].booking_id = b
                                     /\ payment_outbox[i].event_type = type

\* A transaction of the consumer carries out an answer of payment.
ReactionsAreAnswers ==
    \A w \in Workers : session[w] # NULL =>
        \/ session[w].op \in BP!HostOps
        \/ Answered(session[w].booking_id, session[w].op)

\* What the status of a booking says about its payment, payment has said.
StatusIsAnswered ==
    \A b \in Bookings :
        /\ Status(b) \in {"confirmed", "active", "completed"} =>
              Answered(b, "payment_authorized")
        /\ Status(b) = "completed" => Answered(b, "payment_captured")
        /\ Status(b) = "cancelled" => Answered(b, "payment_authorization_failed")

\* What a booking costs.
Price(row) == row.daily_price_cents * BP!rental_days(row)

\* A command asks for the price of its booking.
CommandsAskPrice ==
    \A i \in DOMAIN outbox : PP!IsCommand(outbox[i]) =>
        /\ bookings[outbox[i].booking_id] # NULL
        /\ outbox[i].amount_cents = Price(bookings[outbox[i].booking_id])

Returned(b) == \E e \in booking_events : /\ e.booking_id = b
                                         /\ e.event_type = "booking_return_recorded"

\* Capture is asked for once the car is back.
CapturesFollowReturns ==
    \A i \in DOMAIN outbox :
        outbox[i].event_type = "capture_payment_requested" =>
            /\ Status(outbox[i].booking_id) \in {"active", "completed"}
            /\ Returned(outbox[i].booking_id)

\* What a payment says is held, Stripe holds.
HoldsAreReal ==
    \A b \in Bookings :
        payments[b] # NULL /\ payments[b].status # "authorization_failed" =>
            PP!Successes(b, "authorize") # {}

\* Stripe was asked for money by a capture command.
ChargesAreAsked ==
    \A x \in stripe : x.call # "authorize" =>
        \E i \in DOMAIN outbox :
            /\ outbox[i].booking_id = x.booking_id
            /\ outbox[i].event_type = "capture_payment_requested"

SInv == /\ BP!IInv
        /\ PP!IInv
        /\ ReactionsAreAnswers
        /\ StatusIsAnswered
        /\ CommandsAskPrice
        /\ CapturesFollowReturns
        /\ HoldsAreReal
        /\ ChargesAreAsked
        /\ IsFiniteSet(booking_events)
-----------------------------------------------------------------------------
(* The services as instances: what Booking and Payment assume of their     *)
(* constants is so in Saga, and their definitions do not depend on which   *)
(* ids and amounts there are.                                              *)

\* Booking's assumptions hold of the constants the saga gives it.
LEMMA BookingAssumed ==
    /\ NULL \notin BP!L!Rental
    /\ /\ NULL \notin Nat
       /\ NULL \notin Nat \ {0}
       /\ NULL \notin BP!BookingState
       /\ NULL \notin BP!Session
    /\ /\ HostOf \in [Vehicles -> Hosts]
       /\ Days \subseteq Int
       /\ Prices \subseteq Nat
       /\ MileageLimits \subseteq Nat
       /\ Odometers \subseteq Nat
       /\ MaxVersion \in Nat
       /\ MaxInteger \in Nat
  <1>1. BP!BookingState = B!BookingState
    BY DEF BP!BookingState, B!BookingState, BP!Statuses, B!Statuses
  <1>2. BP!L!Rental = B!L!Rental
    BY DEF BP!L!Rental, B!L!Rental, BP!L!Phases, B!L!Phases
  <1>3. BP!Ops = B!Ops
    BY DEF BP!Ops, B!Ops, BP!HostOps, B!HostOps, BP!PaymentEventTypes,
           B!PaymentEventTypes
  <1>4. BP!Session \subseteq
           [op : B!Ops, booking_id : Bookings, state : B!BookingState,
            odometer : Odometers \cup {NULL}, event_id : Nat \cup {NULL}]
    BY <1>1, <1>3 DEF BP!Session
  <1>5. /\ NULL \notin BP!L!Rental
        /\ NULL \notin Nat
        /\ NULL \notin BP!BookingState
        /\ NULL \notin BP!Session
    BY <1>1, <1>2, <1>4, NullAssumption
  <1> QED BY <1>5, SagaConstants

\* Payment's assumptions hold of the constants the saga gives it.
LEMMA PaymentAssumed ==
    /\ /\ PartitionOf \in [Bookings -> Partitions]
       /\ Nat \ {0} \subseteq Nat \ {0}
       /\ Nat \subseteq Nat
       /\ MaxInteger \in Nat
       /\ MaxCommands \in Nat
    /\ NULL \notin PP!PaymentRow \cup PP!Handling \cup {"ok", "error"} \cup PP!Calls
  <1>1. /\ PP!PaymentRow = P!PaymentRow
        /\ PP!Handling = P!Handling
        /\ PP!Calls = P!Calls
    BY DEF PP!PaymentRow, P!PaymentRow, PP!Handling, P!Handling, PP!Calls, P!Calls
  <1> QED BY <1>1, NullAssumption, SagaConstants

\* Booking's step theorem, in the saga's instance of it.
LEMMA BookingInvariant ==
    ASSUME BP!IInv, [BP!Next]_(BP!vars)
    PROVE  BP!IInv'
  BY BookingAssumed, BP!StepInvariant DEF BP!StepInvariant

\* Payment's step theorem, in the saga's instance of it.
LEMMA PaymentInvariant ==
    ASSUME PP!IInv, [PP!Next]_(PP!vars)
    PROVE  PP!IInv'
  BY PaymentAssumed, PP!NextStep DEF PP!NextStep

\* Payment's SendStep, in the saga's instance of it.
LEMMA PaymentSend ==
    ASSUME PP!IInv, NEW cmd \in PP!Command, PP!Send(cmd)
    PROVE  PP!IInv'
  BY PaymentAssumed, PP!SendStep DEF PP!SendStep

\* The saga's booking actions, with its event ids, are actions for any event ids.
LEMMA SameBooking ==
    /\ \A w : B!Commit(w) => BP!Commit(w)
    /\ \A w : B!Rollback(w) => BP!Rollback(w)
    /\ \A b, v, start, end :
          B!request_booking(b, v, start, end) => BP!request_booking(b, v, start, end)
    /\ \A w, op, b, caller, odometer :
          B!HostRequest(w, op, b, caller, odometer) =>
              BP!HostRequest(w, op, b, caller, odometer)
    /\ \A w, e : B!HandlePaymentEvent(w, e) => BP!HandlePaymentEvent(w, e)
    /\ B!VehicleResponse = BP!VehicleResponse
    /\ B!HostOps = BP!HostOps
    /\ \A op : B!Readings(op) = BP!Readings(op)
    /\ \A row : B!rental_days(row) = BP!rental_days(row)
  <1> USE DEF
          B!Commit, BP!Commit, B!Rollback, BP!Rollback, B!request_booking,
          BP!request_booking, B!HostRequest, BP!HostRequest,
          B!HandlePaymentEvent, BP!HandlePaymentEvent, B!Open, BP!Open,
          B!claim_event, BP!claim_event, B!Permitted, BP!Permitted,
          B!Transition, BP!Transition, B!Apply, BP!Apply, B!Emits, BP!Emits,
          B!NewEvents, BP!NewEvents, B!uq_booking_events_booking_version,
          BP!uq_booking_events_booking_version, B!ex_bookings_no_overlap,
          BP!ex_bookings_no_overlap, B!HoldsVehicle, BP!HoldsVehicle,
          B!Overlap, BP!Overlap, B!Exists, BP!Exists, B!DomainEvent,
          BP!DomainEvent, B!AuthorizeCommand, BP!AuthorizeCommand,
          B!CaptureCommand, BP!CaptureCommand, B!compute_overage_cents,
          BP!compute_overage_cents, B!rental_days, BP!rental_days,
          B!OVERAGE_RATE_CENTS_PER_MILE, BP!OVERAGE_RATE_CENTS_PER_MILE,
          B!create_requested, BP!create_requested, B!accept_request,
          BP!accept_request, B!reject_request, BP!reject_request,
          B!record_handover, BP!record_handover, B!record_return,
          BP!record_return, B!confirm_after_payment_authorized,
          BP!confirm_after_payment_authorized,
          B!cancel_after_payment_authorization_failed,
          BP!cancel_after_payment_authorization_failed,
          B!complete_after_payment_captured,
          BP!complete_after_payment_captured, B!note_payment_capture_failed,
          BP!note_payment_capture_failed
  <1>1. ASSUME NEW w, B!Commit(w) PROVE BP!Commit(w)
    BY <1>1
  <1>2. ASSUME NEW w, B!Rollback(w) PROVE BP!Rollback(w)
    BY <1>2
  <1>3. ASSUME NEW b, NEW v, NEW start, NEW end,
               B!request_booking(b, v, start, end)
        PROVE  BP!request_booking(b, v, start, end)
    BY <1>3
  <1>4. ASSUME NEW w, NEW op, NEW b, NEW caller, NEW odometer,
               B!HostRequest(w, op, b, caller, odometer)
        PROVE  BP!HostRequest(w, op, b, caller, odometer)
    BY <1>4
  <1>5. ASSUME NEW w, NEW e, B!HandlePaymentEvent(w, e)
        PROVE  BP!HandlePaymentEvent(w, e)
    BY <1>5
  <1>6. /\ B!VehicleResponse = BP!VehicleResponse
        /\ B!HostOps = BP!HostOps
        /\ \A op : B!Readings(op) = BP!Readings(op)
    BY DEF B!VehicleResponse, BP!VehicleResponse, B!HostOps, BP!HostOps,
           B!Readings, BP!Readings
  <1>7. \A row : B!rental_days(row) = BP!rental_days(row)
    OBVIOUS
  <1> QED BY <1>1, <1>2, <1>3, <1>4, <1>5, <1>6, <1>7

\* The saga's payment actions are those of payment for all amounts.
LEMMA SamePayment ==
    /\ \A c, i : P!Claim(c, i) => PP!Claim(c, i)
    /\ \A c : P!CallStripe(c) => PP!CallStripe(c)
    /\ \A c : P!Commit(c) => PP!Commit(c)
    /\ \A c : P!Rollback(c) => PP!Rollback(c)
    /\ \A h : P!Proceeds(h) <=> PP!Proceeds(h)
    /\ \A b, call : P!Successes(b, call) = PP!Successes(b, call)
    /\ \A b, reason : P!Booked(b, reason) = PP!Booked(b, reason)
    /\ \A cmd : P!IsCommand(cmd) <=> PP!IsCommand(cmd)
  <1> USE DEF
          P!Claim, PP!Claim, P!InOrder, PP!InOrder, P!CallStripe,
          PP!CallStripe, P!Commit, PP!Commit, P!Rollback, PP!Rollback,
          P!NextCall, PP!NextCall, P!Proceeds, PP!Proceeds, P!StripeRequest,
          PP!StripeRequest, P!idempotency_key, PP!idempotency_key, P!Executed,
          PP!Executed, P!Results, PP!Results, P!FinishAuthorize,
          PP!FinishAuthorize, P!FinishCapture, PP!FinishCapture, P!Authorized,
          PP!Authorized, P!OverageCharged, PP!OverageCharged, P!FitsInteger,
          PP!FitsInteger, P!AnswerWith, PP!AnswerWith, P!write_ledger_pair,
          PP!write_ledger_pair
  <1>1. \A c, i : P!Claim(c, i) => PP!Claim(c, i)
    OBVIOUS
  <1>2. \A c : P!CallStripe(c) => PP!CallStripe(c)
    OBVIOUS
  <1>3. \A c : P!Commit(c) => PP!Commit(c)
    OBVIOUS
  <1>4. \A c : P!Rollback(c) => PP!Rollback(c)
    OBVIOUS
  <1>5. \A h : P!Proceeds(h) <=> PP!Proceeds(h)
    OBVIOUS
  <1>6. /\ \A b, call : P!Successes(b, call) = PP!Successes(b, call)
        /\ \A b, reason : P!Booked(b, reason) = PP!Booked(b, reason)
        /\ \A cmd : P!IsCommand(cmd) <=> PP!IsCommand(cmd)
    BY DEF P!Successes, PP!Successes, P!Booked, PP!Booked, P!IsCommand, PP!IsCommand
  <1> QED BY <1>1, <1>2, <1>3, <1>4, <1>5, <1>6
-----------------------------------------------------------------------------
(* A step of the booking service.                                          *)

\* Every booking costs at least one unit.
LEMMA PricePositive ==
    ASSUME NEW row \in BP!BookingState
    PROVE  Price(row) \in Nat \ {0}
  <1>1. BP!rental_days(row) \in Nat /\ BP!rental_days(row) >= 1
    BY BookingAssumed, BP!DaysPositive DEF BP!DaysPositive
  <1>2. row.daily_price_cents \in Nat \ {0}
    BY SagaConstants DEF BP!BookingState
  <1>3. \A m, n \in Nat \ {0} : m * n \in Nat \ {0}
    OBVIOUS
  <1>4. BP!rental_days(row) \in Nat \ {0}
    BY <1>1
  <1> QED BY <1>2, <1>3, <1>4 DEF Price

\* What a step adds to the outbox, if anything: a record payment expects.
Adds(cmd) ==
    /\ cmd \in PP!Command
    /\ PP!WellFormed(cmd)
    /\ outbox' = Append(outbox, cmd)
    /\ PP!IsCommand(cmd) =>
          /\ bookings'[cmd.booking_id] # NULL
          /\ cmd.amount_cents = Price(bookings'[cmd.booking_id])
    /\ cmd.event_type = "capture_payment_requested" =>
          /\ Status(cmd.booking_id)' \in {"active", "completed"}
          /\ Returned(cmd.booking_id)'

\* What a step of booking is for payment: a record sent, or nothing.
Sends == UNCHANGED PP!vars \/ \E cmd \in PP!Command : PP!Send(cmd)

\* A step of booking that keeps prices, never undoes a handover, and adds one
\* record at most keeps the invariant, when its own part of it is kept.
LEMMA BookingChange ==
    ASSUME SInv, UNCHANGED paymentVars, BP!IInv',
           \A b \in Bookings : bookings[b] # NULL =>
              /\ bookings'[b] # NULL
              /\ Price(bookings'[b]) = Price(bookings[b]),
           \A b \in Bookings : Status(b) \in {"active", "completed"} =>
              Status(b)' \in {"active", "completed"},
           booking_events \subseteq booking_events',
           IsFiniteSet(booking_events'),
           StatusIsAnswered', ReactionsAreAnswers',
           outbox' = outbox \/ \E cmd : Adds(cmd)
    PROVE  SInv' /\ Sends
  <1>1. /\ outbox \in Seq(PP!Command)
        /\ \A i \in DOMAIN outbox : outbox[i].booking_id \in Bookings
    <2>1. outbox \in Seq(PP!Command)
      BY DEF SInv, PP!IInv, PP!TypeOK
    <2>2. \A x \in PP!Command : x.booking_id \in Bookings
      BY DEF PP!Command
    <2> QED BY <2>1, <2>2
  <1>2. HoldsAreReal'
    BY DEF SInv, HoldsAreReal, paymentVars, PP!Successes
  <1>3. \A b : Returned(b) => Returned(b)'
    BY DEF Returned
  <1>4. CASE outbox' = outbox
    <2>0. UNCHANGED PP!vars
      BY <1>4 DEF paymentVars, PP!vars
    <2>1. PP!IInv'
      BY <2>0, PaymentInvariant DEF SInv
    <2>2. CommandsAskPrice'
      BY <1>1, <1>4 DEF SInv, CommandsAskPrice, PP!IsCommand
    <2>3. CapturesFollowReturns'
      BY <1>1, <1>3, <1>4 DEF SInv, CapturesFollowReturns
    <2>4. ChargesAreAsked'
      BY <1>4 DEF SInv, ChargesAreAsked, paymentVars
    <2> QED BY <1>2, <2>0, <2>1, <2>2, <2>3, <2>4 DEF SInv, Sends
  <1>5. ASSUME NEW cmd, Adds(cmd)
        PROVE  SInv' /\ Sends
    <2>1. /\ DOMAIN outbox' = DOMAIN outbox \cup {Len(outbox) + 1}
          /\ \A i \in DOMAIN outbox : outbox'[i] = outbox[i]
          /\ outbox'[Len(outbox) + 1] = cmd
      BY <1>1, <1>5 DEF Adds
    <2>2. cmd \in PP!Command /\ cmd.booking_id \in Bookings
      BY <1>5 DEF Adds, PP!Command
    <2>3. \A i \in DOMAIN outbox :
             /\ outbox[i].booking_id = cmd.booking_id
             /\ PP!IsCommand(outbox[i]) /\ PP!IsCommand(cmd)
             => outbox[i].amount_cents = cmd.amount_cents
      BY <1>1, <1>5 DEF Adds, SInv, CommandsAskPrice
    <2>4. PP!Send(cmd)
      BY <1>5, <2>3 DEF Adds, PP!Send, paymentVars
    <2>5. PP!IInv'
      BY <2>2, <2>4, PaymentSend DEF SInv
    <2>6. CommandsAskPrice'
      <3>1. \A i \in DOMAIN outbox : PP!IsCommand(outbox[i]) =>
               /\ bookings'[outbox[i].booking_id] # NULL
               /\ outbox[i].amount_cents = Price(bookings'[outbox[i].booking_id])
        BY <1>1 DEF SInv, CommandsAskPrice
      <3>2. PP!IsCommand(cmd) =>
               /\ bookings'[cmd.booking_id] # NULL
               /\ cmd.amount_cents = Price(bookings'[cmd.booking_id])
        BY <1>5 DEF Adds
      <3> QED BY <2>1, <3>1, <3>2 DEF CommandsAskPrice, PP!IsCommand
    <2>7. CapturesFollowReturns'
      <3>1. ASSUME NEW i \in DOMAIN outbox', NEW x, x = outbox'[i],
                   x.event_type = "capture_payment_requested"
            PROVE  Status(x.booking_id)' \in {"active", "completed"}
                   /\ Returned(x.booking_id)'
        <4>1. CASE i \in DOMAIN outbox
          <5>1. x = outbox[i] /\ x.booking_id \in Bookings
            BY <1>1, <2>1, <3>1, <4>1
          <5> QED BY <1>3, <3>1, <4>1, <5>1 DEF SInv, CapturesFollowReturns
        <4>2. CASE i = Len(outbox) + 1
          BY <1>5, <2>1, <3>1, <4>2 DEF Adds
        <4> QED BY <2>1, <4>1, <4>2
      <3> QED BY <3>1 DEF CapturesFollowReturns
    <2>8. ChargesAreAsked'
      BY <2>1 DEF SInv, ChargesAreAsked, paymentVars
    <2> QED BY <1>2, <2>2, <2>4, <2>5, <2>6, <2>7, <2>8 DEF SInv, Sends
  <1> QED BY <1>4, <1>5

\* A step that touches neither the rows nor the payments.
LEMMA SessionChange ==
    ASSUME SInv, UNCHANGED paymentVars, BP!IInv',
           UNCHANGED <<bookings, booking_events, outbox>>,
           ReactionsAreAnswers'
    PROVE  SInv' /\ Sends
  <1>1. StatusIsAnswered'
    BY DEF SInv, StatusIsAnswered, Status, Answered, paymentVars
  <1>2. \A b \in Bookings : Status(b)' = Status(b)
    BY DEF Status
  <1> QED BY <1>1, <1>2, BookingChange DEF SInv

\* A booking transaction that opens keeps the saga's invariant.
LEMMA OpenStep ==
    ASSUME SInv, UNCHANGED paymentVars, BP!IInv',
           NEW w \in Workers, NEW op, NEW b, NEW odometer, NEW event_id,
           BP!Open(w, op, b, odometer, event_id),
           op \in BP!HostOps \/ Answered(b, op)
    PROVE  SInv' /\ Sends
  <1>1. /\ UNCHANGED <<bookings, booking_events, outbox>>
        /\ session' = [session EXCEPT ![w] =
              [op |-> op, booking_id |-> b, state |-> bookings[b],
               odometer |-> odometer, event_id |-> event_id]]
    BY DEF BP!Open
  <1>2. session \in [Workers -> BP!Session \cup {NULL}]
    BY DEF SInv, BP!IInv, BP!TypeOK
  <1>3. /\ session'[w].op = op
        /\ session'[w].booking_id = b
        /\ \A v \in Workers : v # w => session'[v] = session[v]
    BY <1>1, <1>2
  <1>4. ReactionsAreAnswers'
    <2> SUFFICES ASSUME NEW v \in Workers, session'[v] # NULL
                 PROVE  \/ session'[v].op \in BP!HostOps
                        \/ Answered(session[v].booking_id, session[v].op)'
      BY DEF ReactionsAreAnswers, BP!HostOps
    <2>1. CASE v = w
      BY <1>3, <2>1 DEF Answered, paymentVars
    <2>2. CASE v # w
      BY <1>3, <2>2 DEF SInv, ReactionsAreAnswers, Answered, paymentVars
    <2> QED BY <2>1, <2>2
  <1> QED BY <1>1, <1>4, SessionChange

\* A booking transaction rolled back keeps the saga's invariant.
LEMMA RollbackStep ==
    ASSUME SInv, UNCHANGED paymentVars, BP!IInv', NEW w \in Workers,
           BP!Rollback(w)
    PROVE  SInv' /\ Sends
  <1>1. /\ UNCHANGED <<bookings, booking_events, outbox>>
        /\ session' = [session EXCEPT ![w] = NULL]
    BY DEF BP!Rollback
  <1>2. session \in [Workers -> BP!Session \cup {NULL}]
    BY DEF SInv, BP!IInv, BP!TypeOK
  <1>3. \A v \in Workers : session'[v] # NULL => session'[v] = session[v]
    BY <1>1, <1>2
  <1>4. ReactionsAreAnswers'
    BY <1>3 DEF SInv, ReactionsAreAnswers, Answered, paymentVars, BP!HostOps
  <1> QED BY <1>1, <1>4, SessionChange

\* A new booking keeps the saga's invariant.
LEMMA RequestStep ==
    ASSUME SInv, UNCHANGED paymentVars, BP!IInv',
           NEW b \in Bookings, NEW v \in BP!VehicleResponse,
           NEW start \in Days, NEW end \in Days,
           BP!request_booking(b, v, start, end)
    PROVE  SInv' /\ Sends
  <1> DEFINE row == BP!create_requested(v, start, end)
             event == [booking_id |-> b, version |-> 2,
                       event_type |-> "booking_requested"]
             cmd == BP!AuthorizeCommand(b, row)
  <1>1. /\ bookings[b] = NULL
        /\ row.version <= MaxVersion
        /\ bookings' = [bookings EXCEPT ![b] = row]
        /\ booking_events' = booking_events \cup {event}
        /\ outbox' = outbox \/ outbox' = Append(outbox, cmd)
        /\ UNCHANGED session
    BY DEF BP!request_booking, BP!Exists
  <1>2. /\ bookings \in [Bookings -> BP!BookingState \cup {NULL}]
        /\ bookings' \in [Bookings -> BP!BookingState \cup {NULL}]
    BY DEF SInv, BP!IInv, BP!TypeOK
  <1>3. /\ bookings'[b] = row
        /\ \A c \in Bookings : c # b => bookings'[c] = bookings[c]
    BY <1>1, <1>2
  <1>4. row \in BP!BookingState /\ row.status = "requested"
    <2>1. row.status = "requested"
      BY DEF BP!create_requested
    <2>2. row \in BP!BookingState
      BY <1>1, BookingAssumed, BP!CreatedRow DEF BP!CreatedRow
    <2> QED BY <2>1, <2>2
  <1>5. row # NULL
    BY <1>4, BookingAssumed
  <1> HIDE DEF row
  <1>6. Status(b)' = "requested" /\ \A c \in Bookings : c # b => Status(c)' = Status(c)
    BY <1>3, <1>4, <1>5 DEF Status
  <1>7. StatusIsAnswered'
    BY <1>6 DEF SInv, StatusIsAnswered, Answered, paymentVars
  <1>8. ReactionsAreAnswers'
    BY <1>1 DEF SInv, ReactionsAreAnswers, Answered, paymentVars
  <1>9. /\ booking_events \subseteq booking_events'
        /\ IsFiniteSet(booking_events')
    BY <1>1, FS_AddElement DEF SInv
  <1>10. outbox' = Append(outbox, cmd) => Adds(cmd)
    <2>1. Price(row) \in Nat \ {0}
      BY <1>4, PricePositive
    <2>2. /\ cmd.booking_id = b
          /\ cmd.event_type = "authorize_payment_requested"
          /\ cmd.amount_cents = Price(row)
          /\ cmd.overage_cents = 0
      BY DEF BP!AuthorizeCommand, Price
    <2>3. cmd \in PP!Command
      BY <2>1 DEF PP!Command, BP!AuthorizeCommand, Price
    <2>4. PP!WellFormed(cmd)
      BY <2>1, <2>2 DEF PP!WellFormed
    <2> HIDE DEF cmd
    <2> QED BY <1>3, <1>5, <2>2, <2>3, <2>4 DEF Adds
  <1>11. /\ \A c \in Bookings : bookings[c] # NULL =>
              /\ bookings'[c] # NULL
              /\ Price(bookings'[c]) = Price(bookings[c])
         /\ \A c \in Bookings : Status(c) \in {"active", "completed"} =>
              Status(c)' \in {"active", "completed"}
    <2>1. Status(b) = NULL
      BY <1>1 DEF Status
    <2>2. NULL \notin {"active", "completed"}
      BY NullAssumption DEF B!Statuses
    <2> QED BY <1>1, <1>3, <1>6, <2>1, <2>2
  <1> HIDE DEF cmd
  <1>12. outbox' = outbox \/ \E x : Adds(x)
    BY <1>1, <1>10
  <1> QED BY <1>7, <1>8, <1>9, <1>11, <1>12, BookingChange

\* What a commit of the booking service writes.
LEMMA CommitFacts ==
    ASSUME BP!IInv, NEW w \in Workers, BP!Commit(w)
    PROVE  LET s == session[w]
               b == s.booking_id
               row == bookings[b]
           IN  /\ b \in Bookings /\ s.op \in BP!Ops
               /\ row \in BP!BookingState /\ row # NULL /\ s.state = row
               /\ row.status = BP!Transition(s.op).from
               /\ bookings'[b] \in BP!BookingState /\ bookings'[b] # NULL
               /\ bookings'[b].status = BP!Transition(s.op).to
               /\ Price(bookings'[b]) = Price(row)
               /\ \A c \in Bookings : c # b => bookings'[c] = bookings[c]
               /\ booking_events' = booking_events \cup BP!NewEvents(s)
               /\ outbox' = outbox \o BP!Emits(s)
               /\ session \in [Workers -> BP!Session \cup {NULL}]
               /\ session' = [session EXCEPT ![w] = NULL]
               /\ s # NULL /\ s \in BP!Session
               /\ BP!HandedOverHasReading(row)
               /\ s.op = "return" => s.odometer \in Odometers
               /\ BP!WellFormedTransition(BP!Transition(s.op))
  <1> DEFINE s == session[w]
             b == s.booking_id
             row == bookings[b]
  <1>1. /\ s \in BP!Session /\ b \in Bookings /\ s.op \in BP!Ops
        /\ row \in BP!BookingState /\ s.state = row
        /\ row.status = BP!Transition(s.op).from
        /\ BP!Apply(row, s) \in BP!BookingState
        /\ BP!Apply(row, s).status = BP!Transition(s.op).to
        /\ BP!Apply(row, s).start_date = row.start_date
        /\ BP!Apply(row, s).end_date = row.end_date
        /\ bookings'[b] = BP!Apply(row, s)
        /\ \A c \in Bookings \ {b} : bookings'[c] = bookings[c]
        /\ BP!WellFormedTransition(BP!Transition(s.op))
    BY BookingAssumed, BP!CommitFacts DEF BP!CommitFacts
  <1>2. /\ s # NULL
        /\ booking_events' = booking_events \cup BP!NewEvents(s)
        /\ outbox' = outbox \o BP!Emits(s)
        /\ session' = [session EXCEPT ![w] = NULL]
    BY DEF BP!Commit
  <1>3. session \in [Workers -> BP!Session \cup {NULL}]
    BY DEF BP!IInv, BP!TypeOK
  <1>4. row # NULL /\ bookings'[b] # NULL
    BY <1>1, BookingAssumed
  <1>5. BP!Apply(row, s).daily_price_cents = row.daily_price_cents
    BY <1>1 DEF BP!Apply, BP!BookingState
  <1>6. Price(bookings'[b]) = Price(row)
    BY <1>1, <1>5 DEF Price, BP!rental_days
  <1>7. BP!HandedOverHasReading(row)
    BY <1>1, <1>4 DEF BP!IInv, BP!Readable, BP!Exists
  <1>8. s.op = "return" => s.odometer \in Odometers
    BY <1>2 DEF BP!IInv, BP!Snapshots
  <1> HIDE DEF s, b, row
  <1>9. \A c \in Bookings : c # b => bookings'[c] = bookings[c]
    BY <1>1
  <1> QED BY <1>1, <1>2, <1>3, <1>4, <1>6, <1>7, <1>8, <1>9 DEF s, b, row

\* The operations of booking, as far as payment is concerned.
LEMMA TransitionMeans ==
    ASSUME NEW op \in BP!Ops
    PROVE  LET t == BP!Transition(op)
           IN  /\ t.to = "confirmed" => op = "payment_authorized"
               /\ t.to = "active" => t.from \in {"confirmed", "active"}
               /\ t.to = "completed" => t.from = "active" /\ op = "payment_captured"
               /\ t.to = "cancelled" => op = "payment_authorization_failed"
               /\ t.from = "active" => t.to \in {"active", "completed"}
               /\ t.from # "completed"
               /\ t.to \in BP!Statuses
               /\ op = "return" =>
                     /\ t.from = "active" /\ t.to = "active"
                     /\ t.events = <<"booking_return_recorded">>
               /\ op \in BP!HostOps =>
                     t.to \notin {"confirmed", "completed", "cancelled"}
  <1> USE DEF BP!Statuses, BP!HostOps
  <1>1. CASE op = "accept"
    <2>1. BP!Transition(op) = BP!accept_request
      BY <1>1 DEF BP!Transition
    <2> QED BY <1>1, <2>1 DEF BP!accept_request
  <1>2. CASE op = "reject"
    <2>1. BP!Transition(op) = BP!reject_request
      BY <1>2 DEF BP!Transition
    <2> QED BY <1>2, <2>1 DEF BP!reject_request
  <1>3. CASE op = "handover"
    <2>1. BP!Transition(op) = BP!record_handover
      BY <1>3 DEF BP!Transition
    <2> QED BY <1>3, <2>1 DEF BP!record_handover
  <1>4. CASE op = "return"
    <2>1. BP!Transition(op) = BP!record_return
      BY <1>4 DEF BP!Transition
    <2> QED BY <1>4, <2>1 DEF BP!record_return
  <1>5. CASE op = "payment_authorized"
    <2>1. BP!Transition(op) = BP!confirm_after_payment_authorized
      BY <1>5 DEF BP!Transition
    <2> QED BY <1>5, <2>1 DEF BP!confirm_after_payment_authorized
  <1>6. CASE op = "payment_authorization_failed"
    <2>1. BP!Transition(op) = BP!cancel_after_payment_authorization_failed
      BY <1>6 DEF BP!Transition
    <2> QED BY <1>6, <2>1 DEF BP!cancel_after_payment_authorization_failed
  <1>7. CASE op = "payment_captured"
    <2>1. BP!Transition(op) = BP!complete_after_payment_captured
      BY <1>7 DEF BP!Transition
    <2> QED BY <1>7, <2>1 DEF BP!complete_after_payment_captured
  <1>8. CASE op = "payment_capture_failed"
    <2>1. BP!Transition(op) = BP!note_payment_capture_failed
      BY <1>8 DEF BP!Transition
    <2> QED BY <1>8, <2>1 DEF BP!note_payment_capture_failed
  <1> QED BY <1>1, <1>2, <1>3, <1>4, <1>5, <1>6, <1>7, <1>8
          DEF BP!Ops, BP!PaymentEventTypes

\* A commit adds one record at most, and a command asks for the price.
LEMMA CommitAdds ==
    ASSUME BP!IInv, outbox \in Seq(PP!Command), NEW w \in Workers, BP!Commit(w)
    PROVE  outbox' = outbox \/ \E cmd : Adds(cmd)
  <1> DEFINE s == session[w]
  <1>0. PICK b : b = s.booking_id
    OBVIOUS
  <1> DEFINE row == bookings[b]
             t == BP!Transition(s.op)
  <1>1. /\ b \in Bookings /\ s.op \in BP!Ops
        /\ row \in BP!BookingState /\ row # NULL /\ s.state = row
        /\ row.status = t.from
        /\ bookings'[b] # NULL
        /\ bookings'[b].status = t.to
        /\ Price(bookings'[b]) = Price(row)
        /\ booking_events' = booking_events \cup BP!NewEvents(s)
        /\ outbox' = outbox \o BP!Emits(s)
        /\ BP!HandedOverHasReading(row)
        /\ s.op = "return" => s.odometer \in Odometers
    BY <1>0, CommitFacts
  <1>2. Price(row) \in Nat \ {0}
    BY <1>1, PricePositive
  <1>3. ASSUME NEW cmd \in PP!Command, PP!WellFormed(cmd),
               BP!Emits(s) = <<cmd>>,
               PP!IsCommand(cmd) => cmd.booking_id = b /\ cmd.amount_cents = Price(row),
               cmd.event_type = "capture_payment_requested" =>
                  Status(b)' \in {"active", "completed"} /\ Returned(b)'
        PROVE  Adds(cmd)
    <2>1. outbox' = Append(outbox, cmd)
      BY <1>1, <1>3
    <2>2. cmd.event_type = "capture_payment_requested" => PP!IsCommand(cmd)
      BY DEF PP!IsCommand
    <2> HIDE DEF s, row, t
    <2>3. PP!IsCommand(cmd) =>
             /\ bookings'[cmd.booking_id] # NULL
             /\ cmd.amount_cents = Price(bookings'[cmd.booking_id])
      BY <1>1, <1>3
    <2>4. PICK x : x = cmd.booking_id
      OBVIOUS
    <2>5. cmd.event_type = "capture_payment_requested" =>
             Status(x)' \in {"active", "completed"} /\ Returned(x)'
      BY <1>3, <2>2, <2>4
    <2> QED BY <1>3, <2>1, <2>3, <2>4, <2>5 DEF Adds
  <1>4. CASE s.op = "handover"
    BY <1>1, <1>4 DEF BP!Emits
  <1>5. CASE s.op = "accept"
    <2> DEFINE cmd == BP!AuthorizeCommand(b, row)
    <2>1. BP!Emits(s) = <<cmd>>
      BY <1>0, <1>1, <1>5 DEF BP!Emits
    <2>2. /\ cmd.booking_id = b
          /\ cmd.event_type = "authorize_payment_requested"
          /\ cmd.amount_cents = Price(row)
          /\ cmd.overage_cents = 0
      BY DEF BP!AuthorizeCommand, Price
    <2>3. cmd \in PP!Command
      BY <1>1, <1>2 DEF PP!Command, BP!AuthorizeCommand, Price
    <2>4. PP!WellFormed(cmd)
      BY <1>2, <2>2 DEF PP!WellFormed
    <2> HIDE DEF cmd
    <2> QED BY <1>3, <2>1, <2>2, <2>3, <2>4
  <1>6. CASE s.op = "return"
    <2> DEFINE cmd == BP!CaptureCommand(b, row, s.odometer)
               overage == BP!compute_overage_cents(row, s.odometer)
    <2>1. BP!Emits(s) = <<cmd>>
      BY <1>0, <1>1, <1>6 DEF BP!Emits
    <2>2. t.from = "active" /\ t.to = "active"
          /\ t.events = <<"booking_return_recorded">>
      BY <1>1, <1>6, TransitionMeans
    <2>3. row.start_odometer \in Odometers /\ s.odometer \in Odometers
      BY <1>1, <1>6, <2>2 DEF BP!HandedOverHasReading
    <2>4. overage \in Nat
      BY <1>1, <2>3, BookingAssumed, BP!OverageNat DEF BP!OverageNat
    <2>5. /\ cmd.booking_id = b
          /\ cmd.event_type = "capture_payment_requested"
          /\ cmd.amount_cents = Price(row)
          /\ cmd.overage_cents = overage
      BY DEF BP!CaptureCommand, Price
    <2>6. cmd \in PP!Command
      <3> HIDE DEF overage
      <3>1. cmd = [booking_id |-> b, event_type |-> "capture_payment_requested",
                   amount_cents |-> Price(row), overage_cents |-> overage]
        BY DEF BP!CaptureCommand, Price, overage
      <3> HIDE DEF cmd
      <3> QED BY <1>1, <1>2, <2>4, <3>1 DEF PP!Command
    <2>7. PP!WellFormed(cmd)
      BY <1>2, <2>4, <2>5 DEF PP!WellFormed
    <2>8. Status(b)' = "active"
      BY <1>1, <2>2 DEF Status
    <2>9. Returned(b)'
      <3>1. [booking_id |-> b, version |-> s.state.version + 1,
             event_type |-> "booking_return_recorded"] \in BP!NewEvents(s)
        <4>1. Len(t.events) = 1 /\ t.events[1] = "booking_return_recorded"
          BY <2>2
        <4>2. 1 \in 1 .. Len(t.events)
          BY <4>1
        <4> QED BY <1>0, <4>1, <4>2 DEF BP!NewEvents
      <3> QED BY <1>1, <3>1 DEF Returned
    <2> HIDE DEF cmd
    <2> QED BY <1>3, <2>1, <2>5, <2>6, <2>7, <2>8, <2>9
  <1>7. CASE s.op \in {"reject"} \cup BP!PaymentEventTypes
    <2>1. PICK type \in {"booking_rejected", "booking_confirmed",
                         "booking_cancelled", "booking_completed",
                         "booking_payment_capture_failed"} :
             BP!Emits(s) = <<BP!DomainEvent(b, type)>>
      BY <1>0, <1>7 DEF BP!Emits, BP!PaymentEventTypes
    <2> DEFINE cmd == BP!DomainEvent(b, type)
    <2>2. /\ cmd.event_type = type
          /\ cmd.amount_cents = 0
          /\ cmd.overage_cents = 0
      BY DEF BP!DomainEvent
    <2>3. cmd \in PP!Command
      BY <1>1 DEF PP!Command, BP!DomainEvent
    <2>4. PP!WellFormed(cmd) /\ ~ PP!IsCommand(cmd)
          /\ cmd.event_type # "capture_payment_requested"
      BY <2>2 DEF PP!WellFormed, PP!IsCommand
    <2> HIDE DEF cmd
    <2>5. BP!Emits(s) = <<cmd>>
      BY <2>1 DEF cmd
    <2> QED BY <1>3, <2>3, <2>4, <2>5
  <1> QED BY <1>1, <1>4, <1>5, <1>6, <1>7 DEF BP!Ops, BP!HostOps

\* A booking transaction that commits keeps the saga's invariant.
LEMMA CommitStep ==
    ASSUME SInv, UNCHANGED paymentVars, BP!IInv', NEW w \in Workers,
           BP!Commit(w)
    PROVE  SInv' /\ Sends
  <1> DEFINE s == session[w]
  <1>0. PICK b : b = s.booking_id
    OBVIOUS
  <1> DEFINE row == bookings[b]
             t == BP!Transition(s.op)
  <1>1. /\ b \in Bookings /\ s.op \in BP!Ops
        /\ row # NULL
        /\ row.status = t.from
        /\ bookings'[b] # NULL
        /\ bookings'[b].status = t.to
        /\ Price(bookings'[b]) = Price(row)
        /\ \A c \in Bookings : c # b => bookings'[c] = bookings[c]
        /\ booking_events' = booking_events \cup BP!NewEvents(s)
        /\ session \in [Workers -> BP!Session \cup {NULL}]
        /\ session' = [session EXCEPT ![w] = NULL]
        /\ s # NULL
        /\ BP!WellFormedTransition(t)
    BY <1>0, CommitFacts DEF SInv
  <1>2. outbox' = outbox \/ \E cmd : Adds(cmd)
    BY CommitAdds DEF SInv, PP!IInv, PP!TypeOK
  <1>3. ReactionsAreAnswers'
    <2>1. \A v \in Workers : session'[v] # NULL => session'[v] = session[v]
      BY <1>1
    <2> QED BY <2>1 DEF SInv, ReactionsAreAnswers, Answered, paymentVars, BP!HostOps
  <1>4. /\ booking_events \subseteq booking_events'
        /\ IsFiniteSet(booking_events')
    <2> DEFINE n == Len(t.events)
               f(i) == [booking_id |-> s.booking_id,
                        version |-> s.state.version + i,
                        event_type |-> t.events[i]]
    <2>1. BP!NewEvents(s) = {f(i) : i \in 1 .. n}
      BY DEF BP!NewEvents
    <2>2. IsFiniteSet(BP!NewEvents(s))
      <3>1. n \in {1, 2}
        BY <1>1 DEF BP!WellFormedTransition
      <3> HIDE DEF n, f
      <3>2. \A i \in 1 .. n : i \in {1, 2}
        BY <3>1
      <3>3. BP!NewEvents(s) \subseteq {f(1), f(2)}
        BY <2>1, <3>2
      <3>4. IsFiniteSet({f(1), f(2)})
        <4>1. IsFiniteSet({} \cup {f(1)})
          BY FS_EmptySet, FS_AddElement
        <4>2. IsFiniteSet(({} \cup {f(1)}) \cup {f(2)})
          BY <4>1, FS_AddElement
        <4>3. {f(1), f(2)} = ({} \cup {f(1)}) \cup {f(2)}
          OBVIOUS
        <4> QED BY <4>2, <4>3
      <3> QED BY <3>3, <3>4, FS_Subset
    <2> QED BY <1>1, <2>2, FS_Union DEF SInv
  <1>5. Status(b) = t.from /\ Status(b)' = t.to
    BY <1>1 DEF Status
  <1>6. \A c \in Bookings : c # b => Status(c)' = Status(c)
    BY <1>1 DEF Status
  <1>7. \A c, type : Answered(c, type)' <=> Answered(c, type)
    BY DEF Answered, paymentVars
  <1>8. s.op \in BP!HostOps \/ Answered(b, s.op)
    BY <1>0, <1>1 DEF SInv, ReactionsAreAnswers
  <1>9. StatusIsAnswered'
    <2>1. /\ t.to = "confirmed" => Answered(b, "payment_authorized")
          /\ t.to = "completed" => Answered(b, "payment_captured")
          /\ t.to = "cancelled" => Answered(b, "payment_authorization_failed")
          /\ t.to \in {"active", "completed"} => t.from \in {"confirmed", "active"}
      BY <1>1, <1>8, TransitionMeans
    <2> HIDE DEF s, t, row
    <2>2. t.from \in {"confirmed", "active"} => Answered(b, "payment_authorized")
      BY <1>1, <1>5 DEF SInv, StatusIsAnswered
    <2>3. /\ t.to \in {"confirmed", "active", "completed"} =>
                Answered(b, "payment_authorized")
          /\ t.to = "completed" => Answered(b, "payment_captured")
          /\ t.to = "cancelled" => Answered(b, "payment_authorization_failed")
      BY <2>1, <2>2
    <2> SUFFICES ASSUME NEW c \in Bookings
                 PROVE  /\ Status(c)' \in {"confirmed", "active", "completed"} =>
                              Answered(c, "payment_authorized")
                        /\ Status(c)' = "completed" => Answered(c, "payment_captured")
                        /\ Status(c)' = "cancelled" =>
                              Answered(c, "payment_authorization_failed")
      BY <1>7 DEF StatusIsAnswered
    <2>4. CASE c = b
      BY <1>5, <2>3, <2>4
    <2>5. CASE c # b
      BY <1>6, <2>5 DEF SInv, StatusIsAnswered
    <2> QED BY <2>4, <2>5
  <1>10. \A c \in Bookings : Status(c) \in {"active", "completed"} =>
            Status(c)' \in {"active", "completed"}
    <2>1. t.from \in {"active", "completed"} => t.to \in {"active", "completed"}
      BY <1>1, TransitionMeans
    <2> QED BY <1>5, <1>6, <2>1
  <1>11. \A c \in Bookings : bookings[c] # NULL =>
            bookings'[c] # NULL /\ Price(bookings'[c]) = Price(bookings[c])
    BY <1>1
  <1> QED BY <1>2, <1>3, <1>4, <1>9, <1>10, <1>11, BookingChange

\* Every answer of payment is an event of the kind booking knows.
LEMMA EventFields ==
    ASSUME PP!TypeOK, NEW i \in DOMAIN payment_outbox
    PROVE  /\ EventAt(i) \in BP!PaymentEvent
           /\ EventAt(i).event_id = i
           /\ Answered(EventAt(i).booking_id, EventAt(i).event_type)
  <1>1. i \in Nat \ {0} /\ payment_outbox[i] \in PP!Answer
    BY DEF PP!TypeOK
  <1>2. /\ EventAt(i).event_id = i
        /\ EventAt(i).booking_id = payment_outbox[i].booking_id
        /\ EventAt(i).event_type = payment_outbox[i].event_type
    BY DEF EventAt
  <1>3. EventAt(i) \in BP!PaymentEvent
    BY <1>1 DEF EventAt, BP!PaymentEvent, PP!Answer, BP!PaymentEventTypes
  <1> QED BY <1>2, <1>3 DEF Answered

\* Every booking step of the saga keeps the invariant and is a step of booking.
LEMMA BookingStepInvariant ==
    ASSUME SInv, BookingStep
    PROVE  SInv' /\ BP!Next /\ Sends
  <1>1. UNCHANGED paymentVars
    BY DEF BookingStep, OnlyBooking
  <1>2. ASSUME BP!Next PROVE BP!IInv'
    BY <1>2, BookingInvariant DEF SInv
  <1>3. CASE \E b \in Bookings, v \in B!VehicleResponse, start, end \in Days :
                B!request_booking(b, v, start, end)
    <2>1. PICK b \in Bookings, v \in BP!VehicleResponse, start \in Days, end \in Days :
             BP!request_booking(b, v, start, end)
      BY <1>3, SameBooking
    <2>2. BP!Next
      BY <2>1 DEF BP!Next
    <2> QED BY <1>1, <1>2, <2>1, <2>2, RequestStep
  <1>4. CASE \E w \in Workers \ Tasks, op \in B!HostOps, b \in Bookings,
                caller \in Hosts :
                \E odometer \in B!Readings(op) :
                   HostRequest(w, op, b, caller, odometer)
    <2>1. PICK w \in Workers, op \in BP!HostOps, b \in Bookings, caller \in Hosts :
                \E odometer \in BP!Readings(op) :
                   HostRequest(w, op, b, caller, odometer)
      BY <1>4, SameBooking
    <2>2. PICK odometer \in BP!Readings(op) :
                BP!HostRequest(w, op, b, caller, odometer)
      BY <2>1, SameBooking DEF HostRequest
    <2>3. BP!Next
      BY <2>2 DEF BP!Next
    <2>4. BP!Open(w, op, b, odometer, NULL)
      BY <2>2 DEF BP!HostRequest
    <2> QED BY <1>1, <1>2, <2>3, <2>4, OpenStep
  <1>5. CASE \E w \in Tasks, i \in DOMAIN payment_outbox :
                HandlePaymentEvent(w, i)
    <2>1. PICK w \in Workers, i \in DOMAIN payment_outbox :
                HandlePaymentEvent(w, i)
      BY <1>5, SagaConstants
    <2>2. PICK e : e = EventAt(i)
      OBVIOUS
    <2>3. BP!HandlePaymentEvent(w, e)
      BY <2>1, <2>2, SameBooking DEF HandlePaymentEvent
    <2>4. e \in BP!PaymentEvent /\ Answered(e.booking_id, e.event_type)
      BY <2>2, EventFields DEF SInv, PP!IInv
    <2>5. BP!Next
      BY <2>3, <2>4 DEF BP!Next
    <2>6. BP!Open(w, e.event_type, e.booking_id, NULL, e.event_id)
      BY <2>3 DEF BP!HandlePaymentEvent
    <2> QED BY <1>1, <1>2, <2>4, <2>5, <2>6, OpenStep
  <1>6. CASE \E w \in Workers : B!Commit(w)
    <2>1. PICK w \in Workers : BP!Commit(w)
      BY <1>6, SameBooking
    <2>2. BP!Next
      BY <2>1 DEF BP!Next
    <2> QED BY <1>1, <1>2, <2>1, <2>2, CommitStep
  <1>7. CASE \E w \in Workers \ Tasks : B!Rollback(w)
    <2>1. PICK w \in Workers : BP!Rollback(w)
      BY <1>7, SameBooking
    <2>2. BP!Next
      BY <2>1 DEF BP!Next
    <2> QED BY <1>1, <1>2, <2>1, <2>2, RollbackStep
  <1> QED BY <1>3, <1>4, <1>5, <1>6, <1>7 DEF BookingStep
-----------------------------------------------------------------------------
(* A step of the payment service.                                          *)

\* One answer at most is added, with an id of its own: what Booking assumes of
\* its environment.
LEMMA PaymentPublishes ==
    ASSUME PP!TypeOK, UNCHANGED bookingVars,
           \/ payment_outbox' = payment_outbox
           \/ \E a \in PP!Answer : payment_outbox' = Append(payment_outbox, a)
    PROVE  /\ [BP!Next]_(BP!vars)
           /\ \A b, type : Answered(b, type) => Answered(b, type)'
  <1>1. CASE payment_outbox' = payment_outbox
    <2>1. published' = published
      BY <1>1 DEF published, EventAt
    <2>2. UNCHANGED BP!vars
      BY <2>1 DEF bookingVars, BP!vars
    <2> QED BY <1>1, <2>2 DEF Answered
  <1>2. ASSUME NEW a \in PP!Answer, payment_outbox' = Append(payment_outbox, a)
        PROVE  /\ BP!Next
               /\ \A b, type : Answered(b, type) => Answered(b, type)'
    <2> DEFINE n == Len(payment_outbox)
               e == [event_id |-> n + 1, booking_id |-> a.booking_id,
                     event_type |-> a.event_type]
    <2>1. /\ payment_outbox \in Seq(PP!Answer)
          /\ n \in Nat
          /\ DOMAIN payment_outbox = 1 .. n
          /\ DOMAIN payment_outbox' = 1 .. n \cup {n + 1}
          /\ \A i \in 1 .. n : payment_outbox'[i] = payment_outbox[i]
          /\ payment_outbox'[n + 1] = a
      BY <1>2 DEF PP!TypeOK
    <2>2. e \in BP!PaymentEvent
      BY <2>1 DEF BP!PaymentEvent, PP!Answer, BP!PaymentEventTypes
    <2>3. published' = published \cup {e}
      <3> HIDE DEF n
      <3>1. published' = {[event_id |-> i, booking_id |-> payment_outbox'[i].booking_id,
                           event_type |-> payment_outbox'[i].event_type] :
                             i \in 1 .. n \cup {n + 1}}
        BY <2>1 DEF published, EventAt
      <3>2. published = {[event_id |-> i, booking_id |-> payment_outbox[i].booking_id,
                          event_type |-> payment_outbox[i].event_type] :
                             i \in 1 .. n}
        BY <2>1 DEF published, EventAt
      <3> QED BY <2>1, <3>1, <3>2
    <2>4. \A f \in published : f.event_id # e.event_id
      <3> SUFFICES ASSUME NEW i \in 1 .. n PROVE EventAt(i).event_id # n + 1
        BY <2>1 DEF published
      <3> QED BY <2>1 DEF EventAt
    <2> HIDE DEF e
    <2>5. BP!Publish(e)
      BY <2>3, <2>4 DEF BP!Publish, bookingVars
    <2>6. BP!Next
      BY <2>2, <2>5 DEF BP!Next
    <2>7. \A b, type : Answered(b, type) => Answered(b, type)'
      BY <2>1 DEF Answered
    <2> QED BY <2>6, <2>7
  <1> QED BY <1>1, <1>2

\* A payment step that keeps holds and charges true keeps the rest of the invariant.
LEMMA PaymentChange ==
    ASSUME SInv, UNCHANGED bookingVars, PP!IInv', HoldsAreReal', ChargesAreAsked',
           \/ payment_outbox' = payment_outbox
           \/ \E a \in PP!Answer : payment_outbox' = Append(payment_outbox, a)
    PROVE  SInv' /\ [BP!Next]_(BP!vars)
  <1>1. /\ [BP!Next]_(BP!vars)
        /\ \A b, type : Answered(b, type) => Answered(b, type)'
    BY PaymentPublishes DEF SInv, PP!IInv
  <1>2. BP!IInv'
    BY <1>1, BookingInvariant DEF SInv
  <1>3. ReactionsAreAnswers'
    BY <1>1 DEF SInv, ReactionsAreAnswers, bookingVars, BP!HostOps
  <1>4. StatusIsAnswered'
    <2>1. \A b \in Bookings : Status(b)' = Status(b)
      BY DEF Status, bookingVars
    <2> QED BY <1>1, <2>1 DEF SInv, StatusIsAnswered
  <1>5. CommandsAskPrice'
    BY DEF SInv, CommandsAskPrice, bookingVars, PP!IsCommand
  <1>6. CapturesFollowReturns'
    BY DEF SInv, CapturesFollowReturns, bookingVars, Status, Returned
  <1> QED BY <1>1, <1>2, <1>3, <1>4, <1>5, <1>6 DEF SInv, bookingVars

\* A Stripe call keeps the saga's invariant.
LEMMA CallStep ==
    ASSUME SInv, UNCHANGED bookingVars, PP!IInv', NEW c \in Consumers,
           PP!CallStripe(c)
    PROVE  SInv' /\ [BP!Next]_(BP!vars)
  <1> DEFINE h == handling[c]
             cmd == outbox[h.id]
             b == cmd.booking_id
             call == PP!NextCall(h)
             amount == IF call = "overage" THEN cmd.overage_cents
                       ELSE cmd.amount_cents
  <1>1. /\ h # NULL
        /\ call # NULL
        /\ UNCHANGED <<payments, payment_outbox>>
    BY DEF PP!CallStripe
  <1>2. PICK answer \in {"ok", "error"} :
          PP!StripeRequest(PP!idempotency_key(call, b), b, call, amount, answer)
    BY DEF PP!CallStripe
  <1>3. h.id \in DOMAIN outbox
    BY <1>1, PaymentAssumed, PP!HandlerFields DEF SInv, PP!HandlerFields
  <1>4. /\ b \in Bookings
        /\ cmd.amount_cents \in Nat
        /\ cmd.overage_cents \in Nat
    BY <1>3, PaymentAssumed, PP!CommandFields
    DEF SInv, PP!IInv, PP!CommandFields
  <1>5. /\ call \in PP!Calls
        /\ call # "authorize" => cmd.event_type = "capture_payment_requested"
    <2>1. /\ call \in PP!Calls
          /\ call = "capture" => cmd.event_type = "capture_payment_requested"
          /\ call = "overage" => cmd.event_type = "capture_payment_requested"
      BY <1>1, PaymentAssumed, PP!NextCallFacts DEF PP!NextCallFacts
    <2> QED BY <2>1 DEF PP!Calls
  <1>6. amount \in Nat
    BY <1>4
  <1> HIDE DEF cmd, b, call, amount
  <1>7. /\ stripe \subseteq stripe'
        /\ \A x \in stripe' : \/ x \in stripe
                              \/ x.booking_id = b /\ x.call = call
    BY <1>2, <1>4, <1>5, <1>6, PaymentAssumed, PP!RequestFacts
    DEF SInv, PP!RequestFacts
  <1>8. HoldsAreReal'
    <2>1. \A a \in Bookings : PP!Successes(a, "authorize") # {} =>
             PP!Successes(a, "authorize")' # {}
      BY <1>7 DEF PP!Successes
    <2> QED BY <1>1, <2>1 DEF SInv, HoldsAreReal
  <1>9. ChargesAreAsked'
    <2> SUFFICES ASSUME NEW x \in stripe', x.call # "authorize"
                 PROVE  \E i \in DOMAIN outbox :
                           /\ outbox[i].booking_id = x.booking_id
                           /\ outbox[i].event_type = "capture_payment_requested"
      BY DEF ChargesAreAsked, bookingVars
    <2>1. CASE x \in stripe
      BY <2>1 DEF SInv, ChargesAreAsked
    <2>2. CASE x.booking_id = b /\ x.call = call
      BY <1>3, <1>5, <2>2 DEF cmd, b
    <2> QED BY <1>7, <2>1, <2>2
  <1> QED BY <1>1, <1>8, <1>9, PaymentChange

\* What a commit writes about the payment: its first row follows what Stripe
\* said, a later one what the row said before.
LEMMA PaymentCommitWrites ==
    ASSUME PP!IInv, NEW c \in Consumers, PP!Commit(c)
    PROVE  /\ UNCHANGED stripe
           /\ \/ payment_outbox' = payment_outbox
              \/ \E a \in PP!Answer : payment_outbox' = Append(payment_outbox, a)
           /\ \A a \in Bookings :
                 /\ payments'[a] # NULL
                 /\ payments'[a].status # "authorization_failed"
                 => \/ PP!Successes(a, "authorize") # {}
                    \/ payments[a] # NULL /\ payments[a].status # "authorization_failed"
  <1> DEFINE h == handling[c]
             cmd == outbox[h.id]
             b == cmd.booking_id
  <1>1. /\ h # NULL
        /\ UNCHANGED stripe
    BY DEF PP!Commit
  <1>2. \/ UNCHANGED <<payments, payment_outbox>>
        \/ /\ PP!Proceeds(h)
           /\ cmd.event_type = "authorize_payment_requested"
           /\ PP!FinishAuthorize(h, cmd)
        \/ /\ PP!Proceeds(h)
           /\ cmd.event_type # "authorize_payment_requested"
           /\ PP!FinishCapture(h, cmd)
    BY DEF PP!Commit
  <1>3. /\ h.id \in DOMAIN outbox
        /\ h.payment = payments[b]
        /\ PP!AnswerIsReal(h)
    BY <1>1, PaymentAssumed, PP!HandlerFields DEF PP!HandlerFields
  <1>4. b \in Bookings
    BY <1>3, PaymentAssumed, PP!CommandFields DEF PP!IInv, PP!CommandFields
  <1>5. /\ payments \in [Bookings -> PP!PaymentRow \cup {NULL}]
        /\ \A a \in Bookings : payments[a] # NULL => payments[a] \in PP!PaymentRow
    BY DEF PP!IInv, PP!TypeOK
  <1>6. CASE UNCHANGED <<payments, payment_outbox>>
    BY <1>1, <1>6
  <1>7. CASE /\ PP!Proceeds(h)
             /\ cmd.event_type = "authorize_payment_requested"
             /\ PP!FinishAuthorize(h, cmd)
    <2> DEFINE row == [status |-> IF h.hold = "ok" THEN "authorized"
                                  ELSE "authorization_failed",
                       hold_amount_cents |-> cmd.amount_cents,
                       overage_cents |-> 0,
                       stripe_payment_intent_id |-> h.hold = "ok",
                       stripe_overage_intent_id |-> FALSE]
    <2>1. payments' = [payments EXCEPT ![b] = row]
      BY <1>7 DEF PP!FinishAuthorize, PP!Authorized
    <2>2. \E type \in {"payment_authorized", "payment_authorization_failed"} :
             payment_outbox' = Append(payment_outbox,
                                      [booking_id |-> b, event_type |-> type])
      BY <1>7 DEF PP!FinishAuthorize, PP!AnswerWith
    <2>3. \E a \in PP!Answer : payment_outbox' = Append(payment_outbox, a)
      BY <1>4, <2>2 DEF PP!Answer
    <2>4. h.hold = "ok" => PP!Successes(b, "authorize") # {}
      BY <1>3, <1>7 DEF PP!AnswerIsReal, PP!BookingOf, PP!Successes
    <2>5. \A a \in Bookings : a # b => payments'[a] = payments[a]
      BY <1>5, <2>1
    <2>6. h.hold # "ok" => payments'[b].status = "authorization_failed"
      BY <1>4, <1>5, <2>1
    <2> HIDE DEF h, cmd, b
    <2> QED BY <1>1, <2>3, <2>4, <2>5, <2>6
  <1>8. CASE /\ PP!Proceeds(h)
             /\ cmd.event_type # "authorize_payment_requested"
             /\ PP!FinishCapture(h, cmd)
    <2>1. payments[b] # NULL /\ payments[b].status = "authorized"
      BY <1>3, <1>8 DEF PP!Proceeds
    <2>2. \E type \in {"payment_captured", "payment_capture_failed"} :
             payment_outbox' = Append(payment_outbox,
                                      [booking_id |-> b, event_type |-> type])
      BY <1>8 DEF PP!FinishCapture, PP!AnswerWith
    <2>3. \E a \in PP!Answer : payment_outbox' = Append(payment_outbox, a)
      BY <1>4, <2>2 DEF PP!Answer
    <2>4. \E row : payments' = [payments EXCEPT ![b] = row]
      BY <1>8 DEF PP!FinishCapture
    <2>5. \A a \in Bookings : a # b => payments'[a] = payments[a]
      BY <1>5, <2>4
    <2> HIDE DEF h, cmd, b
    <2> QED BY <1>1, <2>1, <2>3, <2>5
  <1> QED BY <1>2, <1>6, <1>7, <1>8

\* A payment commit keeps the saga's invariant.
LEMMA PaymentCommitStep ==
    ASSUME SInv, UNCHANGED bookingVars, PP!IInv', NEW c \in Consumers,
           PP!Commit(c)
    PROVE  SInv' /\ [BP!Next]_(BP!vars)
  <1>1. /\ UNCHANGED stripe
        /\ \/ payment_outbox' = payment_outbox
           \/ \E a \in PP!Answer : payment_outbox' = Append(payment_outbox, a)
        /\ \A a \in Bookings :
              /\ payments'[a] # NULL
              /\ payments'[a].status # "authorization_failed"
              => \/ PP!Successes(a, "authorize") # {}
                 \/ payments[a] # NULL /\ payments[a].status # "authorization_failed"
    BY PaymentCommitWrites DEF SInv
  <1>2. \A a : PP!Successes(a, "authorize")' = PP!Successes(a, "authorize")
    BY <1>1 DEF PP!Successes
  <1>3. HoldsAreReal'
    BY <1>1, <1>2 DEF SInv, HoldsAreReal
  <1>4. ChargesAreAsked'
    BY <1>1 DEF SInv, ChargesAreAsked, bookingVars
  <1> QED BY <1>1, <1>3, <1>4, PaymentChange

\* A step that leaves the payments, the answers and Stripe alone keeps the
\* saga's invariant.
LEMMA QuietChange ==
    ASSUME SInv, UNCHANGED bookingVars, PP!IInv',
           UNCHANGED <<payments, payment_outbox, stripe>>
    PROVE  SInv' /\ [BP!Next]_(BP!vars)
  <1>1. HoldsAreReal'
    BY DEF SInv, HoldsAreReal, PP!Successes
  <1>2. ChargesAreAsked'
    BY DEF SInv, ChargesAreAsked, bookingVars
  <1> QED BY <1>1, <1>2, PaymentChange

\* Every payment step of the saga keeps the invariant and is a step of payment.
LEMMA PaymentStepInvariant ==
    ASSUME SInv, PaymentStep
    PROVE  SInv' /\ [BP!Next]_(BP!vars) /\ PP!Next
  <1>1. UNCHANGED bookingVars
    BY DEF PaymentStep, OnlyPayment
  <1>2. ASSUME PP!Next PROVE PP!IInv'
    BY <1>2, PaymentInvariant DEF SInv
  <1>3. CASE \E c \in Consumers, i \in DOMAIN outbox : Claim(c, i)
    <2>1. PICK c \in Consumers, i \in DOMAIN outbox : PP!Claim(c, i)
      BY <1>3, SamePayment DEF Claim
    <2>2. i \in 1 .. Len(outbox)
      BY DEF SInv, PP!IInv, PP!TypeOK
    <2>3. PP!Next
      BY <2>1, <2>2 DEF PP!Next
    <2>4. UNCHANGED <<payments, payment_outbox, stripe>>
      BY <2>1 DEF PP!Claim
    <2> QED BY <1>1, <1>2, <2>3, <2>4, QuietChange
  <1>4. CASE \E c \in Consumers : P!CallStripe(c)
    <2>1. PICK c \in Consumers : PP!CallStripe(c)
      BY <1>4, SamePayment
    <2>2. PP!Next
      BY <2>1 DEF PP!Next
    <2> QED BY <1>1, <1>2, <2>1, <2>2, CallStep
  <1>5. CASE \E c \in Consumers : P!Commit(c)
    <2>1. PICK c \in Consumers : PP!Commit(c)
      BY <1>5, SamePayment
    <2>2. PP!Next
      BY <2>1 DEF PP!Next
    <2> QED BY <1>1, <1>2, <2>1, <2>2, PaymentCommitStep
  <1> QED BY <1>3, <1>4, <1>5 DEF PaymentStep
-----------------------------------------------------------------------------
(* Consumer tasks that end and start again: a rollback of one service, or  *)
(* nothing that the tables show.                                           *)

\* Unchanged tables of both services keep the saga's invariant.
LEMMA TablesUnchanged ==
    ASSUME SInv, UNCHANGED bookingVars, UNCHANGED paymentVars
    PROVE  SInv' /\ UNCHANGED BP!vars /\ UNCHANGED PP!vars
  <1>1. /\ UNCHANGED <<payments, payment_outbox, stripe>>
        /\ UNCHANGED PP!vars
    BY DEF bookingVars, paymentVars, PP!vars
  <1>2. UNCHANGED BP!vars
    BY <1>1 DEF bookingVars, BP!vars, published, EventAt
  <1>3. PP!IInv'
    BY <1>1, PaymentInvariant DEF SInv
  <1> QED BY <1>1, <1>2, <1>3, QuietChange

\* A task that ends or starts again keeps the saga's invariant, and is a
\* rollback or a stutter of each service.
LEMMA GroupStepInvariant ==
    ASSUME SInv, GroupStep
    PROVE  SInv' /\ [BP!Next]_(BP!vars) /\ (PP!Next \/ Sends)
  <1>1. ASSUME UNCHANGED bookingVars, UNCHANGED paymentVars
        PROVE  SInv' /\ [BP!Next]_(BP!vars) /\ Sends
    BY <1>1, TablesUnchanged DEF Sends
  <1>2. ASSUME NEW w \in Workers, UNCHANGED paymentVars, B!Rollback(w)
        PROVE  SInv' /\ BP!Next /\ Sends
    <2>1. BP!Rollback(w)
      BY <1>2, SameBooking
    <2>2. BP!Next
      BY <2>1 DEF BP!Next
    <2>3. BP!IInv'
      BY <2>2, BookingInvariant DEF SInv
    <2> QED BY <1>2, <2>1, <2>2, <2>3, RollbackStep
  <1>3. ASSUME NEW c \in Consumers, UNCHANGED bookingVars, P!Rollback(c)
        PROVE  SInv' /\ [BP!Next]_(BP!vars) /\ PP!Next
    <2>1. PP!Rollback(c)
      BY <1>3, SamePayment
    <2>2. PP!Next
      BY <2>1 DEF PP!Next
    <2>3. PP!IInv'
      BY <2>2, PaymentInvariant DEF SInv
    <2>4. UNCHANGED <<payments, payment_outbox, stripe>>
      BY <2>1 DEF PP!Rollback
    <2> QED BY <1>3, <2>2, <2>3, <2>4, QuietChange
  <1>4. ASSUME NEW w \in Tasks, RaiseInBooking(w)
        PROVE  SInv' /\ [BP!Next]_(BP!vars) /\ Sends
    <2>1. w \in Workers
      BY SagaConstants
    <2>2. /\ UNCHANGED paymentVars
          /\ B!Rollback(w) \/ UNCHANGED bookingVars
      BY <1>4 DEF RaiseInBooking
    <2> QED BY <1>1, <1>2, <2>1, <2>2
  <1>5. ASSUME NEW c \in Consumers, RaiseInPayment(c)
        PROVE  SInv' /\ [BP!Next]_(BP!vars) /\ (PP!Next \/ Sends)
    <2>1. /\ UNCHANGED bookingVars
          /\ P!Rollback(c) \/ UNCHANGED paymentVars
      BY <1>5 DEF RaiseInPayment
    <2> QED BY <1>1, <1>3, <2>1
  <1>6. ASSUME NEW w, RestartBooking(w) \/ RestartPayment(w)
        PROVE  UNCHANGED bookingVars /\ UNCHANGED paymentVars
    BY <1>6 DEF RestartBooking, RestartPayment
  <1> QED BY <1>1, <1>4, <1>5, <1>6 DEF GroupStep
-----------------------------------------------------------------------------
(* The invariant.                                                          *)

\* The saga starts with both services in their initial states.
LEMMA InitSInv == Init => SInv /\ BP!Init /\ PP!Init
  <1> SUFFICES ASSUME Init PROVE SInv /\ BP!Init /\ PP!Init
    OBVIOUS
  <1> USE DEF Init
  <1>1. published = {}
    BY DEF published
  <1>2. BP!Init
    BY <1>1 DEF BP!Init
  <1>3. BP!IInv
    BY <1>2, BookingAssumed, BP!InitInvariant DEF BP!InitInvariant
  <1>4. PP!Init
    BY DEF PP!Init
  <1>5. PP!IInv
    BY <1>4, PaymentAssumed, PP!InitIInv DEF PP!InitIInv
  <1>6. ReactionsAreAnswers
    BY DEF ReactionsAreAnswers
  <1>7. StatusIsAnswered
    <2>1. \A b \in Bookings : Status(b) = NULL
      BY DEF Status
    <2>2. NULL \notin {"confirmed", "active", "completed", "cancelled"}
      BY NullAssumption DEF B!Statuses
    <2> QED BY <2>1, <2>2 DEF StatusIsAnswered
  <1>8. CommandsAskPrice /\ CapturesFollowReturns
    BY DEF CommandsAskPrice, CapturesFollowReturns
  <1>9. HoldsAreReal /\ ChargesAreAsked
    BY DEF HoldsAreReal, ChargesAreAsked
  <1>10. IsFiniteSet(booking_events)
    BY FS_EmptySet
  <1> QED BY <1>2, <1>3, <1>4, <1>5, <1>6, <1>7, <1>8, <1>9, <1>10 DEF SInv

\* A stuttering step of the saga is one of both services.
LEMMA Stutter ==
    ASSUME SInv, UNCHANGED vars
    PROVE  SInv' /\ UNCHANGED BP!vars /\ UNCHANGED PP!vars
  <1>1. UNCHANGED bookingVars /\ UNCHANGED paymentVars
    BY DEF vars, bookingVars, paymentVars
  <1> QED BY <1>1, TablesUnchanged

\* One step of the payment service or of its environment, with no bound on
\* the number of commands.
PaymentNext == PP!Next \/ \E cmd \in PP!Command : PP!Send(cmd)

\* Every step of the saga keeps the invariant and is a step or a stutter of each service.
LEMMA NextStep ==
    SInv /\ [Next]_vars =>
        SInv' /\ [BP!Next]_(BP!vars) /\ [PaymentNext]_(PP!vars)
  <1> SUFFICES ASSUME SInv, [Next]_vars
               PROVE  SInv' /\ [BP!Next]_(BP!vars) /\ [PaymentNext]_(PP!vars)
    OBVIOUS
  <1>1. CASE BookingStep
    BY <1>1, BookingStepInvariant DEF Sends, PaymentNext
  <1>2. CASE PaymentStep
    BY <1>2, PaymentStepInvariant DEF PaymentNext
  <1>3. CASE GroupStep
    BY <1>3, GroupStepInvariant DEF Sends, PaymentNext
  <1>4. CASE UNCHANGED vars
    BY <1>4, Stutter
  <1> QED BY <1>1, <1>2, <1>3, <1>4 DEF Next

\* SInv holds in every reachable state of the saga.
THEOREM Invariance == Spec => []SInv
  <1>1. Init => SInv
    BY InitSInv
  <1>2. SInv /\ [Next]_vars => SInv'
    BY NextStep
  <1> QED BY <1>1, <1>2, PTL DEF Spec

\* Each service, seen alone, is the service its own module describes, in an
\* environment that module allows, however many commands and answers there
\* are: the answers of payment have ids of their own (outbox positions), the
\* commands of booking ask for one price per booking.
THEOREM ServicesRun ==
    Spec => BP!Spec /\ PP!Init /\ [][PaymentNext]_(PP!vars)
  <1>1. Init => BP!Init /\ PP!Init
    BY InitSInv
  <1>2. SInv /\ [Next]_vars => [BP!Next]_(BP!vars)
    BY NextStep
  <1>3. SInv /\ [Next]_vars => [PaymentNext]_(PP!vars)
    BY NextStep
  <1> QED BY <1>1, <1>2, <1>3, Invariance, PTL DEF Spec, BP!Spec
-----------------------------------------------------------------------------
(* What follows from the invariant.                                        *)

\* What payment has answered about a booking tells the status of its payment.
LEMMA AnswerTells ==
    ASSUME SInv, NEW b \in Bookings
    PROVE  /\ Answered(b, "payment_authorized") =>
                 /\ payments[b] # NULL
                 /\ payments[b].status \in {"authorized", "captured", "capture_failed"}
           /\ Answered(b, "payment_captured") =>
                 payments[b] # NULL /\ payments[b].status = "captured"
           /\ Answered(b, "payment_authorization_failed") =>
                 payments[b] # NULL /\ payments[b].status = "authorization_failed"
  <1>1. payments[b] # NULL =>
           payments[b].status \in {"authorized", "authorization_failed",
                                   "captured", "capture_failed"}
    BY DEF SInv, PP!IInv, PP!TypeOK, PP!PaymentRow
  <1>2. ASSUME NEW type, Answered(b, type)
        PROVE  /\ payments[b] # NULL
               /\ payments[b].status = "authorized" => type = "payment_authorized"
               /\ payments[b].status = "authorization_failed" =>
                     type = "payment_authorization_failed"
               /\ payments[b].status = "captured" =>
                     type \in {"payment_authorized", "payment_captured"}
               /\ payments[b].status = "capture_failed" =>
                     type \in {"payment_authorized", "payment_capture_failed"}
    <2>1. PICK i \in PP!AnswersAbout(b) : payment_outbox[i].event_type = type
      BY <1>2 DEF Answered, PP!AnswersAbout
    <2>2. PP!AnswersFollowStatus
      BY DEF SInv, PP!IInv
    <2>3. payments[b] # NULL
      BY <2>1, <2>2 DEF PP!AnswersFollowStatus, PP!SaidNothing
    <2>4. \A x : PP!SaidOnce(b, x) => type = x
      BY <2>1 DEF PP!SaidOnce
    <2>5. \A x, y : PP!SaidTwice(b, x, y) => type \in {x, y}
      BY <2>1 DEF PP!SaidTwice
    <2> QED BY <2>2, <2>3, <2>4, <2>5 DEF PP!AnswersFollowStatus
  <1> QED BY <1>1, <1>2

\* What Stripe was asked to hold or to capture is the price of the booking.
LEMMA AmountIsPrice ==
    ASSUME SInv, NEW b \in Bookings, NEW x \in stripe, x.booking_id = b,
           x.call # "overage"
    PROVE  x.amount = Total(b)
  <1>1. PICK i \in DOMAIN outbox : /\ outbox[i].booking_id = b
                                   /\ PP!IsCommand(outbox[i])
                                   /\ outbox[i].amount_cents = x.amount
    BY DEF SInv, PP!IInv, PP!OneAmount
  <1>2. x.amount = Price(bookings[b])
    BY <1>1 DEF SInv, CommandsAskPrice
  <1> QED BY <1>2, SameBooking DEF Price, Total

\* What the status of a booking says about its money is so: a confirmed
\* booking has its full price held at Stripe, a completed one is captured and
\* booked, a cancelled one has a failed authorization on record.
THEOREM StatusBacked == Spec => []StatusIsBacked
  <1>1. SInv => StatusIsBacked
    <2> SUFFICES ASSUME SInv, NEW b \in Bookings
                 PROVE  /\ Status(b) \in {"confirmed", "active", "completed"} => Held(b)
                        /\ Status(b) = "completed" => Paid(b)
                        /\ Status(b) = "cancelled" => Unpaid(b)
      BY DEF StatusIsBacked
    <2>1. ASSUME Status(b) \in {"confirmed", "active", "completed"}
          PROVE  Held(b)
      <3>1. /\ payments[b] # NULL
            /\ payments[b].status \in {"authorized", "captured", "capture_failed"}
        BY <2>1, AnswerTells DEF SInv, StatusIsAnswered
      <3>2. PICK x \in PP!Successes(b, "authorize") : TRUE
        BY <3>1 DEF SInv, HoldsAreReal
      <3>3. x.amount = Total(b)
        BY <3>2, AmountIsPrice DEF PP!Successes
      <3> QED BY <3>1, <3>2, <3>3, SamePayment DEF Held
    <2>2. ASSUME Status(b) = "completed"
          PROVE  Paid(b)
      <3>1. payments[b] # NULL /\ payments[b].status = "captured"
        BY <2>2, AnswerTells DEF SInv, StatusIsAnswered
      <3>2. PP!Booked(b, "rental") # {}
        BY <3>1 DEF SInv, PP!IInv, PP!CapturedIsBooked
      <3>3. PICK x \in PP!Successes(b, "capture"), i \in DOMAIN ledger_entries :
               PP!Booked(b, "rental") = {i, i + 1} /\ PP!IsPair(i, x.amount)
        BY <3>2 DEF SInv, PP!IInv, PP!PairsAreBacked, PP!CallOf
      <3>4. x.amount = Total(b)
        BY <3>3, AmountIsPrice DEF PP!Successes
      <3>5. /\ i \in PP!Booked(b, "rental")
            /\ ledger_entries[i].amount_cents = Total(b)
        BY <3>3, <3>4 DEF PP!IsPair
      <3> QED BY <3>1, <3>3, <3>4, <3>5, SamePayment DEF Paid
    <2>3. ASSUME Status(b) = "cancelled"
          PROVE  Unpaid(b)
      <3>1. payments[b] # NULL /\ payments[b].status = "authorization_failed"
        BY <2>3, AnswerTells DEF SInv, StatusIsAnswered
      <3>2. PP!Booked(b, "rental") = {}
        BY <3>1 DEF SInv, PP!IInv, PP!PairsAreBacked
      <3> QED BY <3>1, <3>2, SamePayment DEF Unpaid
    <2> QED BY <2>1, <2>2, <2>3
  <1> QED BY Invariance, <1>1, PTL

\* Stripe captures, and charges for miles, only for a car that was handed over
\* and came back.
THEOREM ChargesAreForRentals == Spec => []ChargedOnlyIfRented
  <1>1. SInv => ChargedOnlyIfRented
    <2> SUFFICES ASSUME SInv, NEW b \in Bookings,
                        P!Successes(b, "capture") \cup P!Successes(b, "overage") # {}
                 PROVE  /\ Status(b) \in {"active", "completed"}
                        /\ B!LogCount(b, "booking_return_recorded") > 0
      BY DEF ChargedOnlyIfRented
    <2>1. PICK x \in stripe : x.booking_id = b /\ x.call # "authorize"
      BY DEF P!Successes
    <2>2. PICK i \in DOMAIN outbox :
             /\ outbox[i].booking_id = b
             /\ outbox[i].event_type = "capture_payment_requested"
      BY <2>1 DEF SInv, ChargesAreAsked
    <2>3. Status(b) \in {"active", "completed"} /\ Returned(b)
      BY <2>2 DEF SInv, CapturesFollowReturns
    <2> DEFINE returns == {e \in B!EventsOf(b) :
                             e.event_type = "booking_return_recorded"}
    <2>4. returns # {} /\ returns \subseteq booking_events
      BY <2>3 DEF Returned, B!EventsOf
    <2>5. IsFiniteSet(returns)
      BY <2>4, FS_Subset DEF SInv
    <2> HIDE DEF returns
    <2>6. Cardinality(returns) \in Nat /\ Cardinality(returns) # 0
      BY <2>4, <2>5, FS_CardinalityType, FS_EmptySet
    <2>7. Cardinality(returns) > 0
      BY <2>6
    <2>8. B!Cardinality(returns) = Cardinality(returns)
      BY DEF B!Cardinality, Cardinality
    <2>9. B!LogCount(b, "booking_return_recorded") = B!Cardinality(returns)
      BY DEF B!LogCount, returns
    <2> QED BY <2>3, <2>7, <2>8, <2>9
  <1> QED BY Invariance, <1>1, PTL

\* The capture handler drops a command only about a booking whose money was
\* held and whose capture was answered already.
THEOREM DropsWereAnswered == Spec => []DroppedWasAnswered
  <1>1. SInv => DroppedWasAnswered
    <2> SUFFICES ASSUME SInv, NEW c \in Consumers, handling[c] # NULL,
                        outbox[handling[c].id].event_type =
                            "capture_payment_requested",
                        ~ P!Proceeds(handling[c]),
                        NEW b, b = outbox[handling[c].id].booking_id
                 PROVE  /\ P!Successes(b, "authorize") # {}
                        /\ \/ Answered(b, "payment_captured")
                           \/ Answered(b, "payment_capture_failed")
      BY DEF DroppedWasAnswered, Answered
    <2>1. /\ handling[c].id \in DOMAIN outbox
          /\ handling[c].payment = payments[b]
      BY PaymentAssumed, PP!HandlerFields DEF SInv, PP!HandlerFields
    <2>2. b \in Bookings
      BY <2>1, PaymentAssumed, PP!CommandFields
      DEF SInv, PP!IInv, PP!CommandFields
    <2>3. Status(b) \in {"active", "completed"}
      BY <2>1 DEF SInv, CapturesFollowReturns
    <2>4. /\ payments[b] # NULL
          /\ payments[b].status \in {"authorized", "captured", "capture_failed"}
      BY <2>2, <2>3, AnswerTells DEF SInv, StatusIsAnswered
    <2>5. payments[b].status # "authorized"
      BY <2>1, <2>4 DEF P!Proceeds
    <2>6. P!Successes(b, "authorize") # {}
      BY <2>2, <2>4, SamePayment DEF SInv, HoldsAreReal
    <2>7. ASSUME NEW type, PP!SaidTwice(b, "payment_authorized", type)
          PROVE  Answered(b, type)
      BY <2>7 DEF PP!SaidTwice, PP!AnswersAbout, Answered
    <2>8. \/ PP!SaidTwice(b, "payment_authorized", "payment_captured")
          \/ PP!SaidTwice(b, "payment_authorized", "payment_capture_failed")
      BY <2>2, <2>4, <2>5 DEF SInv, PP!IInv, PP!AnswersFollowStatus
    <2> QED BY <2>6, <2>7, <2>8
  <1> QED BY Invariance, <1>1, PTL

\* No vehicle is promised to two renters for one day, with the real payment
\* service answering.
THEOREM NeverDoubleBooked == Spec => []NoDoubleBooking
  <1>1. SInv => BP!NoDoubleBooking
    BY BookingAssumed, BP!CalendarIsFree DEF SInv, BP!CalendarIsFree
  <1>2. BP!NoDoubleBooking => NoDoubleBooking
    BY DEF BP!NoDoubleBooking, NoDoubleBooking, B!NoDoubleBooking, B!Exists,
           BP!Exists, B!HoldsVehicle, BP!HoldsVehicle
  <1> QED BY Invariance, <1>1, <1>2, PTL
===============================================================================
