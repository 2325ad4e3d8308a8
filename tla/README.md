# CarFlow in TLA+

Specifications, model checking and proofs for CarFlow, a peer-to-peer car
rental back end: Python services, each with its own Postgres database, joined
by outbox tables, Debezium and Kafka. Paths below are relative to `src/`.

## 1. The system

| Component | State it keeps | Operations that change it | Hard behaviour |
|---|---|---|---|
| booking (`services/booking`) | `bookings`, `booking_events` (append-only log), `outbox`, `inbox`, `idempotency_keys` | request, accept, reject, handover, return over HTTP; four reactions to payment events | the row is read, and written back later, without a lock; handlers and consumers of several replicas meet on one booking |
| payment (`services/payment`) | `payments`, `ledger_entries`, `outbox`, `inbox`, plus money at Stripe | authorize and capture commands from Kafka; a webhook that only records an id | an outside call in the middle of a transaction; crash after the call; lost answers |
| saga | nothing of its own: booking and payment tied by their outboxes | | no common transaction, redelivery, partitions held back by one record, consumer tasks that die |
| idempotency guard (`shared/idempotency.py`) | `idempotency_keys` in each HTTP service | lookup, store, hourly purge | concurrent duplicates, expiry |
| outbox, inbox, consumer loop (`shared/outbox.py`, `inbox.py`, `kafka_consumer.py`) | `outbox`, `inbox`, committed offsets | write, claim, commit | at-least-once delivery, crash between effect and offset |
| listing (`services/listing`) | `vehicles`, `availability_blocks`, `outbox` | create, edit, approve, reject, block days | edits and decisions read, then write, the same row |
| search (`services/search`) | Elasticsearch index, claims in Redis, offset | project an event, backfill | claim, write and offset in three systems; two members of a group on one record; dead tasks |
| admin (`services/admin`), kill switch (`shared/kill_switch.py`) | `admin_actions`, `idempotency_keys`, Redis keys `kill-switch:*` | forward a decision to listing, set or clear the switch | effect first, audit row afterwards; a lost answer; keys used twice |
| telemetry (`services/telemetry`) | raw topic, packets in Mongo, last positions in Redis, offsets | ingest over WebSocket, consume in batches | switch read before use; failure inside a batch; two members on one partition |
| notification (`services/notification`) | `inbox`, `notification_preferences`, offsets, log lines | react to booking events by a log line | redelivery, dead tasks, rebalances; log lines do not roll back |
| auth (`services/auth`) | `users`, `idempotency_keys` | register; login and refresh only read | concurrent registration, keys shared by strangers |
| hello, tokens, settings, tracing, infra, deploy, web page | none that the services rely on | | |

Interactions: booking asks listing for a vehicle over HTTP when a booking is
requested. Booking's outbox is payment's (and notification's) input; payment's
outbox is booking's. Listing's outbox is search's input; the backfill reads
listing over HTTP. Admin calls listing and booking over HTTP and shares Redis
keys with telemetry.

What makes the parts correct:

- booking: the row is the projection of the log; a vehicle is never promised
  twice; a settled booking stays settled; a payment event counts once; every
  fact is published once;
- payment: one charge per booking and phase whatever is repeated; a balanced
  ledger that shows only executed charges; one answer per phase;
- saga: what the booking says about the money is true at Stripe; nobody is
  charged for a car that was not rented; every request is settled while tasks live;
- idempotency: a retry has no second effect and gets the first answer;
- listing and search: a decision is not undone; what is searchable was
  decided on; no event is lost and the index catches up;
- admin: the audit trail is what happened, and "done" means done;
- telemetry: a switch that is on is enforced on every packet; no packet is
  lost, and the last position is the last packet's;
- consumer loop and notification: every event is handled once and in order;
  users are told of each, and only of what they opted in to;
- auth: one account per e-mail; who is told "registered" can log in, who is
  told "already registered" is told the truth.

## 2. Modules

| Module | Models | State and actions |
|---|---|---|
| `Lifecycle` | what a rental calendar promises: rentals of a vehicle that hold it do not meet, and a rental moves along its phases only | one variable `rental`; `Request`, `Move` |
| `Booking` | the booking service | tables as variables of the same name, `session[w]` the open transaction of a worker; `request_booking`, `HostRequest` and `HandlePaymentEvent` (the read), `Commit`, `Rollback`, `Publish` (environment) |
| `Payment` | the payment service and Stripe | `Claim`, `CallStripe`, `Commit`, `Rollback`, `Send` (environment) |
| `Saga` | `Booking` and `Payment` with each as the other's environment | `B!...` and `P!...` by `INSTANCE`; Kafka order by `InOrder`; `RaiseInBooking`, `RaiseInPayment`, `RestartBooking`, `RestartPayment` on the sets of living tasks |
| `Guard` | what every service keeps behind the idempotency guard | `idempotency_keys`, `session`; extended by the next module, `Admin` and `Auth` |
| `Idempotency` | the guard around any endpoint | `Lookup`, `Store`, `Abandon`, `Purge`, `Tick` |
| `Listing` | the listing service | `create_vehicle`, `update_vehicle`, `decide_vehicle`, `Commit`, `Rollback`, `add_availability_block` |
| `Search` | `Listing` plus connector, consumer group and backfill | `Publish`, `Replay`; `Take`, `Claim`, `Apply`, `CommitOffset` of each member; `Raise`, `Restart`, `Rebalance`; `Expire`, `BackfillRead`, `BackfillWrite` |
| `Admin` | the admin service, with listing and Redis at the other end | `Begin`, `Replay` (the guard), `Forward`, `Refused`, `Decide`, `Fail`, `Toggle` (the effect), `Record`, `Interrupt` |
| `Telemetry` | ingest loop, raw topic, consumer group | `Accept`, `Receive`, `is_active`, `publish_packet`, `Disconnect`; `getmany`, `write_batch`, `write_latest_position`, `commit`; `Fail`, `Restart`, `Rebalance`, `Expire`, `SetSwitch` (admin) |
| `Delivery` | what the consumer loop promises: each event of a topic that may repeat itself is handled once and in order | `Publish`, `Handle` |
| `Notification` | the notification service, and with it `run_consumer` and `postgres_inbox_processor` statement by statement | `Publish`, `Replay` (connector), `Take`, `Claim`, `notify_user`, `Commit`, `CommitOffset`, `Raise`, `Restart`, `Rebalance` |
| `Auth` | registration behind the idempotency guard | `Lookup`, `get_by_email`, `create`, `store`, `Abandon`, `Purge` |
| `BookingProofs`, `PaymentProofs`, `SagaProofs`, `IdempotencyProofs`, `NotificationProofs`, `TelemetryProofs` | theorems about the module of that name | |
| `SearchProofs` | theorems about `Listing` and `Search` | |
| `AccessProofs` | theorems about `Auth` and `Admin` | |
| `MC...` | instances for TLC: constant functions and symmetry sets | |

Definitions named after a "Mutant" in their comment are deliberate errors: each
shows that a property depends on the code it is about. They are used by nothing
else.

**Transactions.** Every service runs READ COMMITTED transactions that read one
row and write it later. A transaction is two steps: the read with the checks on
what was read, and the writes with the commit. The second half is one step
because its writes are invisible until the commit, and because a concurrent
writer of the same unique key, excluded range or row waits for that commit.
What the row lock cannot prevent, an overwrite based on an old read, is exactly
what the two steps show. In `Auth` and `Notification` the wait itself is of
interest, so there the insert is a step of its own and waits. Constraints of the migrations
(`uq_booking_events_booking_version`, `ex_bookings_no_overlap`,
`ex_availability_blocks_overlap`) are guards of the commit; a violated one ends
in `Rollback`, which is also the crash of the process.

**Booking.** `Transition(op)` collects `domain.py`: the status an operation
requires, the events it appends, the status it leads to. `Apply` is
`_apply_transition` with the version set by `append_events`, `NewEvents` the
rows of the log, `Emits` the outbox rows of `service.py`. Instant and request
mode, the floor of one rental day, the overage and the width of its column are
kept. Event payloads other than amounts (photo, fuel, names) are left out; no
behaviour depends on them.

**Payment.** A handler holds what it read (`payment`) and the answers of its
calls. `StripeRequest` allows an answer, an execution whose answer is lost, and
a request that never arrives; `stripe_client.py` turns the last two into the
same `StripeError`. A key that Stripe has executed gets the first result again.
Amounts that do not fit an INTEGER column make the transaction fail each time.

**Saga.** Debezium publishes outbox rows in commit order and Kafka keeps that
order per key, so a record is handled after every earlier record of its
partition is in the consumer's inbox. The environment actions of the two
modules disappear; that they were a fair description of the other side is
checked (`ServicesRunInSaga`) and proved (`ServicesRun`), so the properties of
the modules, checked alone in wider environments, hold in the saga. That a consumer handles records once
and in order, which `InOrder` and the inbox say in one step here, is what
`Notification` is shown to implement from the steps of the loop. Workers are of
two kinds: request handlers, and the consumer tasks `Tasks`. An error ends a
task, with its transaction or between two records, and the process goes on
serving requests; a restart of the process creates the task anew.

**Idempotency.** An endpoint's work is one numbered effect. A request carries
caller, key, endpoint and body; the stored hash is the body's.

**Listing.** SQLAlchemy's UPDATE names the columns that changed in the session
(`Save`), the event carries the session's object (`Emits`). Two of the eight
editable columns stand for all: one would hide that columns are merged.
`overtaken` records the vehicles on which a transaction committed over a
version it had not read. The bound on events keeps a transaction from
beginning, not from committing.

**Search.** The two replicas (`deploy/k8s/search.yaml:7`) are members of one
group, with the semantics of `Telemetry` and `Notification`: a member whose
partition moved is `fenced`, goes on with its record and may write after the
new owner has passed that record, found claimed, and written a newer one. The
write carries no version, so it stands. One partition: events of a vehicle
share a key. `applied`, `shown`, `interrupted`, `late`, `expired` and
`backfilled` are history for the properties. The backfill reads one page; with
more pages each is read and written in turn.

**Admin.** A request that the guard lets through gets a number; tables and
history refer to it. The call to listing is two steps, because listing carries
on when its caller is gone, and the audit row is a third. No endpoint of admin
has a body, so the guard's hash is the same for all: any stored key is replayed
for any operation (`Replay`), which `AnsweredIsDone` has to exclude by its
premise `KeyIsHonest`. `done`, `lost`, `overlapped` and `answer` are history.

**Telemetry.** A packet carries its speed, the only field the switch changes,
and its place in the topic stands for position and time. `seen`, the values of
the switch while a packet is in progress, is history. `insert_many` can stop
in the middle. A rebalance does not stop the member that had the partition: it
is `fenced`, goes on writing, and its offset commit has no effect. A task that
ends with an error is dead until its process restarts.

**Notification.** The same group semantics, record by record, with the claim,
the handler and the commit as separate steps of one transaction. `ImplementsDelivery`
maps `handled` to `inbox`. Nothing in the repository writes preferences, so
they are a constant.

**Auth.** The key space is one for all clients, because nobody is logged in
yet (`auth/app.py`). A user's `by` and an answer's `saw` are history.

## 3. What is checked

Each module has one type invariant. In `Booking` and `Listing` it is a property
of the run by itself; in the other modules it is the first conjunct of the
property that relates their tables (`LedgerIsBacked`, `ReplayIsOwn`,
`UndecidedIsHidden`, `TrailIsTrue`, `StoredAsDelivered`, `NotifiedAsHandled`,
`OneAccountPerEmail`).

Deadlock is checked in `telemetry` and `auth`. It is off elsewhere: bounds on
events, clock or requests end the story there, and a settled booking has
nothing left to do.

| Run | Properties | Bounds and why they suffice |
|---|---|---|
| `booking_life` | `TypeOK`, `RowProjectsLog`, `MessagesTellLog`, `TerminalStays`, `ImplementsLifecycle` | one booking, two workers (the races are between a pair of transactions), three payment events, versions up to 9: a whole life with a repeated acceptance and return |
| `payment` | `ChargedAtMostOnce`, `LedgerIsBacked`, `CapturedIsBookedOrFlagged`, `OneAnswerPerPhase` | four records: authorization, capture, a repetition and a stranger; amounts on both sides of the column's limit |
| `saga` | `StatusIsBacked`, `ChargedOnlyIfRented`, `DroppedWasAnswered`, `ServicesRunInSaga` | one booking, two request handlers (a rejection that was read early needs another one to overtake it) and one consumer task in booking, one in payment (its partition has one), two acceptances and returns |
| `saga_settles` | `NoDoubleBooking`, `RequestSettles`, `ReturnSettles` | two bookings for the days of one vehicle, in one partition, one amount too large for its column; a request handler and a task in booking, a task in payment, any number of errors and restarts; one acceptance or return of each, so that an instant booking is completed and one on request is accepted and handed over; periods that touch or contain one another are covered by the theorem, for every calendar |
| `idempotency` | `ReplayIsOwn`, `AnswersAgree`, `RepeatedOnlyIfRacedOrExpired` | two callers, one key, two bodies, three requests at a time (a key can expire while two that looked it up are open), three effects, a clock two past the first key |
| `listing` | `ListingTypeOK`, `LastEventTellsRow`, `DecisionSurvivesEdits` | one vehicle, two hosts, two workers, four events, two blocks |
| `search` | `UndecidedIsHidden`, `CaughtUpShowsLastEvent`, `NeverShowsOlder`, `EventReachesIndex` | one vehicle, two workers in listing, two events, two members; any number of errors, and any two of rebalance, restart, replay, expired claim and backfill: each exception of the properties needs one or two |
| `admin` | `TrailIsTrue`, `AnsweredIsDone`, `TrailTellsSwitch` | one vehicle, two keys, two requests at a time and three in all: a race and a later repetition |
| `telemetry` | `StoredAsDelivered`, `CaughtUpShowsLast`, `EnforcedWhileOn`, `PublishedIsStored` | two replicas, two records in batches of one or two, two faults: a failure during the work that follows another |
| `notification` | `NotifiedAsHandled`, `ImplementsDelivery`, `EventIsHandled` | two replicas, three events of which one has no handler; one replay, one restart, one rebalance, any number of errors |
| `auth` | `OneAccountPerEmail`, `RegisteredCanLogIn`, `RefusedIsTaken` | two keys, one e-mail, two passwords, two requests at a time; the number of requests is not bounded |

Versions, commands, repetitions, events, blocks, effects, requests, packets,
the clock and the failures of consumers and connectors are bounded by the constants named `Max...`. `MaxVersion`
ends a life that could go on repeating returns; `MaxInteger` is no bound but
the width of a column, made small, and `MaxSpeed` a limit of the schema.

One run shows the code doing something else than a text in the repository
says: `idempotency_race` (`OneEffect`). Concurrent requests with one key both
have their effect, where `README.md:47-48` says one.

Other differences are visible in the models as exceptions that a property has
to make, and have no run of their own:

- the capture handler's early return says "nothing was ever held"
  (`payment/service.py:74`). In the saga that is never its reason:
  `DroppedWasAnswered` shows, and `DropsWereAnswered` proves, that whenever it
  is taken Stripe held the money and the capture was answered before. After
  `payment_capture_failed` the hold is still there, and a repeated return is
  dropped without a new attempt;
- the write to Elasticsearch has no version (`search/repository.py:9-10`), and
  the claim that makes a redelivery harmless (`redis_inbox.py:6-9`) does not
  order the writes of two members: a member that lost its partition may take a
  vehicle back to an earlier event for good (`late` in `NeverShowsOlder` and
  `CaughtUpShowsLastEvent`);
- an edit that overlaps the approval publishes a pending snapshot last, and the
  approved vehicle disappears from search, where `search/service.py:12-13` says
  there is nothing to remove (`overtaken` in `LastEventTellsRow`);
- a failed payment cancels the booking (`StatusIsBacked`), where
  `README.md:51` says it is rejected;
- a crash between the Redis claim and the write loses an event (`interrupted`
  in `EventReachesIndex`), where `redis_inbox.py:6-9` argues only about
  applying it twice;
- an admin operation whose handler is interrupted after the effect is not in
  the trail (`lost` in `TrailIsTrue`), where `admin/models.py:14-15` says every
  operation is recorded;
- the hash of the idempotency guard covers the body but not the endpoint
  (`SameRequest`, and `KeyIsHonest` in `Admin`);
- a consumer task that raises is "expected to be restarted by the orchestrator"
  (`kafka_consumer.py:89-90`), but its process lives on and `/healthz` answers
  "ok" whatever happens to it (`shared/telemetry.py:20-22`), which is what the
  liveness probes ask (`deploy/k8s/booking.yaml:28`, `payment.yaml:32`): hence
  `alive = {}` in `EventIsHandled`, `PublishedIsStored` and `EventReachesIndex`,
  and `Manned` in `RequestSettles` and `ReturnSettles`.

**Fairness.** Safety runs use none. Nobody owes a restart anywhere: a task that
ended with an error may stay dead, and the liveness properties say what then
becomes of their promise. In `Notification`, `Telemetry` and `Search` a living
task that can take a step takes one (weak fairness on the steps of each
member), any step may fail instead, restarts are finitely many, and the promise
ends when no task is left (`alive = {}`). In `Search` the connector also keeps
up with the outbox. In `Saga` errors and restarts are unbounded, and the promise
is conditional on `Manned`: again and again, each service has a living task. A
transaction in progress ends (weak fairness on commit, rollback or the end of
the task), and a step that is possible again and again succeeds once (strong
fairness on the claims, the Stripe calls, the handling and the commits): no
attempt fails every time, except for the records that fail by the code's own
logic, which `Poison` names. Strong fairness says nothing about a task that is
dead. Hosts, renters and admins owe nothing.

## 4. What is proved

Every safety property and every action property of the passing runs is a
theorem, for every value of the constants, but for one that is stated in a
bounded form (below). So are the two refinements.

| Proofs | Theorem | States |
|---|---|---|
| `BookingProofs` | `TypeCorrect`, `LogIsFaithful`, `MessagesTell`, `TerminalIsFinal`, `NeverDoubleBooked` | `TypeOK`, `RowProjectsLog`, `MessagesTellLog`, `TerminalStays`, `NoDoubleBooking` |
| | `Refinement` | `ImplementsLifecycle`, the whole of `Lifecycle!Spec` |
| `PaymentProofs` | `ChargesOnce`, `LedgerBacked`, `CapturesAreMarked`, `OutcomesAreSingle` | `ChargedAtMostOnce`, `LedgerIsBacked`, `CapturedIsBookedOrFlagged`, `OneAnswerPerPhase` |
| `SagaProofs` | `ServicesRun` | each service, seen alone, is the one of its own module |
| | `StatusBacked`, `ChargesAreForRentals`, `DropsWereAnswered`, `NeverDoubleBooked` | `StatusIsBacked`, `ChargedOnlyIfRented`, `DroppedWasAnswered`, `NoDoubleBooking` |
| `IdempotencyProofs` | `RepliesAreOwn`, `RepliesAgree`, `RepeatsAreExcused` | `ReplayIsOwn`, `AnswersAgree`, `RepeatedOnlyIfRacedOrExpired` |
| `SearchProofs` | `ListingTyped`, `EventsTellRows`, `DecisionsStand` | `ListingTypeOK`, `LastEventTellsRow`, `DecisionSurvivesEdits` |
| | `HidesUndecided`, `ShowsLastEvent`, `NeverGoesBack` | `UndecidedIsHidden`, `CaughtUpShowsLastEvent`, `NeverShowsOlder` |
| `AccessProofs` | `AccountsAreUnique`, `SuccessIsReal`, `RefusalIsReal` | `OneAccountPerEmail`, `RegisteredCanLogIn`, `RefusedIsTaken` |
| | `AuditIsTrue`, `AnswersAreTrue`, `TrailShowsSwitch` | `TrailIsTrue`, `AnsweredIsDone`, `TrailTellsSwitch` |
| `TelemetryProofs` | `StoresAsDelivered`, `ShowsLast`, `EnforcesSwitch` | `StoredAsDelivered`, `CaughtUpShowsLast`, `EnforcedWhileOn` |
| `NotificationProofs` | `NotifiesAsHandled` | `NotifiedAsHandled` |
| | `Refinement` | `ImplementsDelivery`, the whole of `Delivery!Spec` |

**Assumptions.** Each is a named `ASSUME` of the module that declares the
constants, and TLC evaluates it on the runs of that module: sets of numbers are
numbers, constant functions are functions, `NULL` is none of the values it is
told apart from, and a price is positive (`listing/schemas.py:11`), without
which a charge of zero could not be told from none.

**Arguments.** Each module has an inductive invariant, checked by TLC on its
run before it was proved. What it adds to the properties is the reason why they
hold.

- *Booking*, `IInv`: `TypeOK`, `RowProjectsLog`, `NoOverlap` (no two live
  bookings overlap, in the form the exclusion constraint maintains), `Readable`
  (a car that was handed over has a start reading, without which the overage has
  no value) and `Snapshots`. The last one is the point. What a transaction read
  is never newer than the row, and equals it if the versions agree
  (`Snapshots`); the log is gapless up to the row's version (`RowProjectsLog`);
  so a transaction whose read is old finds its first version number taken, the
  unique constraint refuses it, and only a transaction with a current read
  commits (`ReadIsCurrent`). `RowProjectsLog` alone is not inductive: without
  `Snapshots` a commit could write the status of an old read.
- *Booking*, `MInv`, for `MessagesTellLog`: a transaction of the consumer holds
  a claim on an event that nobody has handled and nobody else has claimed
  (`ClaimsAreOpen`), event ids are given once (`IdsAreUnique`), and every record
  type counts like the type of event it tells (`CountsAgree`), so that a commit
  moves both sides of each equation together.
- *Payment*, `IInv`: nothing locks a booking; the order of its partition does
  instead. Of the commands of one booking at most one is next (`HandlesNext`),
  so the payment a handler has read is the one it will update (`ReadIsCurrent`),
  a repeated call to Stripe carries the amounts of the first (`OneAmount`), and
  the answers already given follow from the status (`AnswersFollowStatus`).
- *Saga*, `SInv`: the invariants of both services, which hold because each is an
  environment that the other allows (`ServicesRun`), and the thread between
  them. A payment fact in the log has an answer in payment's outbox
  (`ReactionsAreAnswers`, `StatusIsAnswered`); a command asks for the price of
  the booking and follows its log (`CommandsAskPrice`, `CapturesFollowReturns`);
  a hold and a charge were asked for (`HoldsAreReal`, `ChargesAreAsked`). A task
  that ends is a rollback of its service, or nothing (`GroupStepInvariant`).
- *Idempotency*, `IInv`: the guard keeps no history, so a statement about two
  requests rests on what the table still knows of the earlier one: its key is
  there, or it is old enough for the purge (`MatchesKeyOrExpired`,
  `AnswerIsCurrent`). The attempt to prove `RepeatedOnlyIfRacedOrExpired` showed
  a case it had missed, which takes three requests: the result that expired in
  between can be that of a third one (`ExpiredBefore`).
- *Listing* and *Search*, `ListingInv` and `SearchInv`: what a transaction has
  read as decided is decided. The first delivery of an event comes after the
  first delivery of every earlier one (`TopicIsOrdered`), and later deliveries
  find the claim unless it has expired. With several members a delivered event
  need not be written: it was claimed (`DeliveredWasClaimed`), and a claimed one
  is written, in the hands of a member that still has to write it, or lost
  (`ClaimedWasApplied`). Of those hands only the owner's is not fenced, and its
  record is the next (`WorkIsSound`), so a write of an older event comes from a
  fenced member or after an expiry.
- *Auth*, `IInv`: looking for the e-mail first proves nothing about the moment
  of the insert; the unique column lets one transaction at a time hold an e-mail
  and none once there is an account (`InsertIsAlone`).
- *Admin*, `TrailInv`: a request in progress has no row (`OpenIsUnrecorded`),
  what listing works on is a decision that has not happened (`RemoteIsAsked`),
  a stored key and an answer name a recorded request (`KeysAreBacked`,
  `AnswerIsBacked`). The last effect on a switch says how it stands
  (`SwitchTellsDone`), and as a request that began beside another is marked
  (`RacesAreMarked`), unmarked requests took effect and were recorded in the
  same order (`EffectsInOrder`, `RowsInOrder`).
- *Telemetry*, `IInv`: a batch whose member has lost the partition is told
  apart from the live one, which alone starts at the committed offset and moves
  it (`LiveIsNext`); what a fenced batch still has to insert counts as a
  repetition from the moment it is fenced (`CopiesAreAccounted`).
- *Notification*, `IInv`: neither the offset nor the assignment keeps two
  members off a record. At most one open transaction has claimed an event
  (`ClaimIsAlone`), and what lies before the offset, or before any member's
  record, is in the inbox (`OffsetIsBacked`, `InTurn`).

**Model-checked only.** Liveness (`RequestSettles`, `ReturnSettles`,
`EventReachesIndex`, `EventIsHandled`, `PublishedIsStored`), which is outside
the proof system's reach, and `ServicesRunInSaga` in the bounded form that TLC
can evaluate; the theorem `ServicesRun` says the same without the bounds on ids
and commands.

## 5. Not modelled

Read-only routes, login and refresh among them, which read a user and sign a
token. The Stripe webhook (`payment/routes.py:48-71`), which claims an id that
is none of the commands' and logs a line. Search queries and their cache.
Authentication and roles, except that only the owner acts on a booking or a
vehicle. The text of events, tracing and metrics; schema migration as a
process; the simulator and load tests, which are clients; deployment.
Availability blocks are not consulted when a booking is requested, and the
models say the same by keeping the two calendars apart.

## 6. Plan

Done: the modules of section 2, the runs of section 3, the theorems of
section 4. Next:

1. Proofs: the safety halves of the liveness properties (what an event that
   waits still needs is there); lemmas that several modules repeat (updates of a
   session, appends to a table) stated once.
2. Several pages in the backfill; the query cache of search; the webhook.
