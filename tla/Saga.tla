-------------------------------- MODULE Saga ---------------------------------
(***************************************************************************)
(* The booking saga: the booking service and the payment service, joined   *)
(* by their outboxes.  The records of one outbox reach the consumers of    *)
(* the other service through Debezium and Kafka: at least once, and in     *)
(* commit order for the bookings that share a partition.  A record counts  *)
(* as delivered when its claim in the consumer's inbox commits; a record   *)
(* that cannot be processed holds back its partition, because its offset   *)
(* is never committed.  Each replica consumes in a background task that    *)
(* any error ends for good: only a restart of the process brings it back,  *)
(* and nothing asks for one, since /healthz stays green.                   *)
(*                                                                         *)
(* The environment each service assumes on its own (Booking!Publish,       *)
(* Payment!Send) is replaced by the other service; that it was a sound     *)
(* assumption is what ServicesRunInSaga says.                              *)
(***************************************************************************)
EXTENDS Integers, Sequences, FiniteSets

CONSTANTS
    Bookings, Vehicles, Hosts, HostOf, Days, Prices, MileageLimits,
    Odometers, Workers, EventIds, MaxVersion, NULL,
    Partitions, PartitionOf, Amounts, Overages, Consumers, MaxInteger,
    MaxCommands,
    Tasks,         \* the workers that are consumer tasks; others serve requests
    MaxRepeats     \* bound: acceptances plus returns of one booking

VARIABLES
    bookings, booking_events, outbox, inbox, session,
    payments, ledger_entries, payment_outbox, payment_inbox, stripe, handling,
    booking_tasks,   \* consumer tasks of booking that are alive
    payment_tasks    \* consumer tasks of payment that are alive

bookingVars == <<bookings, booking_events, outbox, inbox, session>>
paymentVars == <<payments, ledger_entries, payment_outbox, payment_inbox,
                 stripe, handling>>
tasks == <<booking_tasks, payment_tasks>>
vars == <<bookings, booking_events, outbox, inbox, session, payments,
          ledger_entries, payment_outbox, payment_inbox, stripe, handling,
          booking_tasks, payment_tasks>>

\* Mutant: all answers about one booking share an id.
EventPerBooking(i) ==
    [event_id |-> 1, booking_id |-> payment_outbox[i].booking_id,
     event_type |-> payment_outbox[i].event_type]

\* The topic payment.booking.events: an event's id is its outbox position.
EventAt(i) == [event_id |-> i, booking_id |-> payment_outbox[i].booking_id,
               event_type |-> payment_outbox[i].event_type]

published == {EventAt(i) : i \in DOMAIN payment_outbox}

B == INSTANCE Booking
P == INSTANCE Payment WITH commands <- outbox

\* Prices are positive (listing/schemas.py:11).
ASSUME SagaConstants ==
    /\ HostOf \in [Vehicles -> Hosts]
    /\ Days \subseteq Int
    /\ Prices \subseteq Nat \ {0}
    /\ MileageLimits \subseteq Nat
    /\ Odometers \subseteq Nat
    /\ PartitionOf \in [Bookings -> Partitions]
    /\ {MaxVersion, MaxInteger, MaxCommands} \subseteq Nat
    /\ Tasks \subseteq Workers

ASSUME NullAssumption ==
    /\ NULL \notin Nat \cup {"ok", "error"} \cup P!Calls \cup B!Statuses
    /\ NULL \notin B!BookingState \cup B!L!Rental
    /\ NULL \notin [op : B!Ops, booking_id : Bookings, state : B!BookingState,
                    odometer : Odometers \cup {NULL}, event_id : Nat \cup {NULL}]
    /\ NULL \notin P!PaymentRow \cup P!Handling
-----------------------------------------------------------------------------
Repeats(b) == B!LogCount(b, "booking_request_accepted")
                + B!LogCount(b, "booking_return_recorded")

HostRequest(w, op, b, caller, odometer) ==
    /\ op \in {"accept", "return"} => Repeats(b) < MaxRepeats
    /\ B!HostRequest(w, op, b, caller, odometer)

\* The consumer group of the booking service reads its partitions in order.
InOrder(i) ==
    \A j \in 1 .. i - 1 :
        PartitionOf[payment_outbox[j].booking_id] =
            PartitionOf[payment_outbox[i].booking_id]
        => j \in inbox

HandlePaymentEvent(w, i) ==
    /\ w \in booking_tasks
    /\ InOrder(i)
    /\ B!HandlePaymentEvent(w, EventAt(i))

\* A living task of payment takes the next command of its partition.
Claim(c, i) ==
    /\ c \in payment_tasks
    /\ P!Claim(c, i)

OnlyBooking == UNCHANGED paymentVars /\ UNCHANGED tasks
OnlyPayment == UNCHANGED bookingVars /\ UNCHANGED tasks

BookingStep ==
    /\ OnlyBooking
    /\ \/ \E b \in Bookings, v \in B!VehicleResponse, start, end \in Days :
             B!request_booking(b, v, start, end)
       \/ \E w \in Workers \ Tasks, op \in B!HostOps, b \in Bookings,
             caller \in Hosts :
             \E odometer \in B!Readings(op) :
                HostRequest(w, op, b, caller, odometer)
       \/ \E w \in Tasks, i \in DOMAIN payment_outbox :
             HandlePaymentEvent(w, i)
       \/ \E w \in Workers : B!Commit(w)
       \/ \E w \in Workers \ Tasks : B!Rollback(w)

PaymentStep ==
    /\ OnlyPayment
    /\ \/ \E c \in Consumers, i \in DOMAIN outbox : Claim(c, i)
       \/ \E c \in Consumers : P!CallStripe(c)
       \/ \E c \in Consumers : P!Commit(c)
-----------------------------------------------------------------------------
(* Consumer tasks that end, and processes that start again.                *)

\* An error in the loop, with a record in hand or between two records, or
\* the end of the process: the transaction rolls back, and the task is over.
\* After an error the process goes on serving requests.
RaiseInBooking(w) ==
    /\ UNCHANGED payment_tasks /\ UNCHANGED paymentVars
    /\ w \in booking_tasks
    /\ booking_tasks' = booking_tasks \ {w}
    /\ IF session[w] # NULL THEN B!Rollback(w) ELSE UNCHANGED bookingVars

RaiseInPayment(c) ==
    /\ UNCHANGED booking_tasks /\ UNCHANGED bookingVars
    /\ c \in payment_tasks
    /\ payment_tasks' = payment_tasks \ {c}
    /\ IF handling[c] # NULL THEN P!Rollback(c) ELSE UNCHANGED paymentVars

\* The process starts again, for whatever reason, and creates its task.
RestartBooking(w) ==
    /\ w \notin booking_tasks
    /\ booking_tasks' = booking_tasks \cup {w}
    /\ UNCHANGED <<bookingVars, paymentVars, payment_tasks>>

RestartPayment(c) ==
    /\ c \notin payment_tasks
    /\ payment_tasks' = payment_tasks \cup {c}
    /\ UNCHANGED <<bookingVars, paymentVars, booking_tasks>>

GroupStep ==
    \/ \E w \in Tasks : RaiseInBooking(w) \/ RestartBooking(w)
    \/ \E c \in Consumers : RaiseInPayment(c) \/ RestartPayment(c)
-----------------------------------------------------------------------------
Init ==
    /\ bookings = [b \in Bookings |-> NULL]
    /\ booking_events = {}
    /\ outbox = << >>
    /\ inbox = {}
    /\ session = [w \in Workers |-> NULL]
    /\ payments = [b \in Bookings |-> NULL]
    /\ ledger_entries = << >>
    /\ payment_outbox = << >>
    /\ payment_inbox = {}
    /\ stripe = {}
    /\ handling = [c \in Consumers |-> NULL]
    /\ booking_tasks = Tasks
    /\ payment_tasks = Consumers

Next == BookingStep \/ PaymentStep \/ GroupStep

\* Living tasks keep polling, and none fails on every attempt: an attempt
\* that can go on again and again goes on once.  A transaction ends one way
\* or the other.  Nobody owes a restart, and hosts may never come back.
Fairness ==
    /\ \A w \in Workers :
          WF_vars(\/ OnlyBooking /\ B!Commit(w)
                  \/ OnlyBooking /\ w \notin Tasks /\ B!Rollback(w)
                  \/ session[w] # NULL /\ RaiseInBooking(w))
    /\ SF_vars(/\ OnlyPayment
               /\ \E c \in Consumers, i \in DOMAIN outbox : Claim(c, i))
    /\ \A call \in P!Calls :
          SF_vars(/\ OnlyPayment
                  /\ \E c \in Consumers : /\ handling[c] # NULL
                                         /\ P!NextCall(handling[c]) = call
                                         /\ P!CallStripe(c))
    /\ SF_vars(OnlyPayment /\ \E c \in Consumers : P!Commit(c))
    /\ SF_vars(/\ OnlyBooking
               /\ \E w \in Tasks, i \in DOMAIN payment_outbox :
                     HandlePaymentEvent(w, i))
    /\ SF_vars(OnlyBooking /\ \E w \in Tasks : B!Commit(w))

Spec == Init /\ [][Next]_vars /\ Fairness
-----------------------------------------------------------------------------
(* Properties.                                                             *)

Status(b) == IF bookings[b] = NULL THEN NULL ELSE bookings[b].status

Total(b) == bookings[b].daily_price_cents * B!rental_days(bookings[b])

\* Stripe holds the full price, and nothing has released it.
Held(b) ==
    /\ payments[b] # NULL
    /\ payments[b].status \in {"authorized", "captured", "capture_failed"}
    /\ \E x \in P!Successes(b, "authorize") : x.amount = Total(b)

\* Stripe captured the price and the ledger says so.
Paid(b) ==
    /\ payments[b] # NULL
    /\ payments[b].status = "captured"
    /\ \E x \in P!Successes(b, "capture") : x.amount = Total(b)
    /\ \E i \in P!Booked(b, "rental") :
          ledger_entries[i].amount_cents = Total(b)

\* The authorization is on record as failed, and nothing was booked.
Unpaid(b) ==
    /\ payments[b] # NULL
    /\ payments[b].status = "authorization_failed"
    /\ P!Booked(b, "rental") = {}

\* Two services, two databases and no distributed transaction: what the
\* status of a booking says about its money is so (domain.py:72-85, 140-145).
\* A booking that was ever confirmed has its full price held, a completed one
\* was paid, and a booking is cancelled only for a payment that failed.
StatusIsBacked ==
    \A b \in Bookings :
        /\ Status(b) \in {"confirmed", "active", "completed"} => Held(b)
        /\ Status(b) = "completed" => Paid(b)
        /\ Status(b) = "cancelled" => Unpaid(b)

\* Money moves only for a car that was handed over and returned: no capture
\* and no overage charge for a rejected or cancelled booking, however late
\* its commands and answers arrive.
ChargedOnlyIfRented ==
    \A b \in Bookings :
        P!Successes(b, "capture") \cup P!Successes(b, "overage") # {} =>
            /\ Status(b) \in {"active", "completed"}
            /\ B!LogCount(b, "booking_return_recorded") > 0

\* What holds back a partition for good: an answer for a booking its host
\* rejected meanwhile (the handler raises on every delivery), or an amount
\* the payments table cannot hold (the insert fails on every delivery).
Poison(p) ==
    \/ \E i \in DOMAIN payment_outbox :
          /\ PartitionOf[payment_outbox[i].booking_id] = p
          /\ i \notin inbox
          /\ Status(payment_outbox[i].booking_id) = "rejected"
    \/ \E i \in DOMAIN outbox :
          /\ PartitionOf[outbox[i].booking_id] = p
          /\ i \notin payment_inbox
          /\ outbox[i].amount_cents > MaxInteger

Asked(b, type) == \E i \in DOMAIN outbox : /\ outbox[i].booking_id = b
                                           /\ outbox[i].event_type = type

\* Neither service is left for good without a living consumer task.  The code
\* does not see to that: an exception ends a task (kafka_consumer.py:83-96),
\* the process lives on without it (booking/app.py:56-68), and the probe asks
\* for /healthz, which stays green (telemetry.py:20-22).
Manned == []<>(booking_tasks # {}) /\ []<>(payment_tasks # {})

\* A booking whose payment was asked for is settled in the end, through
\* errors of Stripe, ended tasks and restarts, or its partition is poisoned,
\* or the tasks of a service are dead for good: nothing else can leave it
\* waiting.
RequestSettles ==
    Manned => \A b \in Bookings :
        Asked(b, "authorize_payment_requested") ~>
            (Status(b) # "requested" \/ Poison(PartitionOf[b]))

\* A returned car leads to an outcome the booking records, completed or a
\* failed capture in its log, with the same two exceptions: a poisoned
\* partition, and tasks that are dead for good.
ReturnSettles ==
    Manned => \A b \in Bookings :
        Asked(b, "capture_payment_requested") ~>
            (\/ Status(b) = "completed"
             \/ B!LogCount(b, "payment_capture_failed") > 0
             \/ Poison(PartitionOf[b]))

\* Each service, seen alone, behaves as its own specification allows, so
\* that neither steps outside the environment the other one assumes: the
\* payment service gives every answer an id of its own (Booking's Publish),
\* the commands of the booking service are well-formed and those of a booking
\* ask for one amount (Payment's Send).
ServicesRunInSaga == B!Spec /\ P!Spec

\* The capture handler drops a command without an answer (service.py:73-75)
\* only about a booking whose money was held and whose capture was answered
\* already: "nothing was ever held" is never the reason in the saga.  So no
\* return goes without any answer, in whatever order and however often the
\* commands are handled; but after payment_capture_failed the hold is still
\* there, and the repeated return gets no new attempt and no second answer.
DroppedWasAnswered ==
    \A c \in Consumers : handling[c] # NULL =>
        LET cmd == outbox[handling[c].id]
            b == cmd.booking_id
        IN  (/\ cmd.event_type = "capture_payment_requested"
             /\ ~ P!Proceeds(handling[c]))
            => /\ P!Successes(b, "authorize") # {}
               /\ \E i \in DOMAIN payment_outbox :
                     /\ payment_outbox[i].booking_id = b
                     /\ payment_outbox[i].event_type \in
                           {"payment_captured", "payment_capture_failed"}

\* No vehicle is promised to two renters for one day, also while payments are
\* pending and their answers late (the exclusion constraint of
\* booking/migrations/versions/0001_initial.py:64-72).
NoDoubleBooking == B!NoDoubleBooking
==============================================================================
