------------------------------- MODULE Payment -------------------------------
(***************************************************************************)
(* The payment service (src/services/payment): consumers of the booking    *)
(* commands that call Stripe and keep payments and a ledger in Postgres.   *)
(*                                                                         *)
(* A consumer handles one record at a time: it claims the record in the    *)
(* inbox and reads the payment row, calls Stripe (once, or twice when      *)
(* there is an overage), and commits the claim, the row, the ledger and    *)
(* the answer in one transaction.  It can fail between any two of these    *)
(* steps; the record is then delivered again, to it or to another replica. *)
(*                                                                         *)
(* The booking service is the environment: it sends any command at any     *)
(* time.  The records of one partition are handled in order.               *)
(***************************************************************************)
EXTENDS Integers, Sequences, FiniteSets

CONSTANTS
    Bookings,
    Partitions,
    PartitionOf,   \* the Kafka partition of a booking's records (by key)
    Amounts,       \* hold amounts in commands
    Overages,      \* overage amounts in commands
    Consumers,     \* consumer tasks of the replicas
    MaxInteger,    \* largest value of an INTEGER column
    MaxCommands,   \* bound: commands sent by the environment
    NULL

ASSUME PaymentConstants ==
    /\ PartitionOf \in [Bookings -> Partitions]
    /\ Amounts \subseteq Nat \ {0}
    /\ Overages \subseteq Nat
    /\ MaxInteger \in Nat
    /\ MaxCommands \in Nat

VARIABLES
    commands,         \* the topic booking.payment.commands
    payments,         \* the table payments: booking id -> row or NULL
    ledger_entries,   \* the table ledger_entries
    payment_outbox,   \* the table outbox, in commit order
    payment_inbox,    \* the table inbox: commands handled
    stripe,           \* payment intents and captures Stripe has executed
    handling          \* the record each consumer is working on, or NULL

vars == <<commands, payments, ledger_entries, payment_outbox, payment_inbox,
          stripe, handling>>
-----------------------------------------------------------------------------
Calls == {"authorize", "capture", "overage"}

Command == [booking_id : Bookings,
            event_type : {"authorize_payment_requested",
                          "capture_payment_requested", "booking_confirmed",
                          "booking_cancelled", "booking_rejected",
                          "booking_completed",
                          "booking_payment_capture_failed"},
            amount_cents : Amounts \cup {0}, overage_cents : Overages \cup {0}]

PaymentRow == [status : {"authorized", "authorization_failed", "captured",
                         "capture_failed"},
               hold_amount_cents : Nat, overage_cents : Nat,
               stripe_payment_intent_id : BOOLEAN,
               stripe_overage_intent_id : BOOLEAN]

LedgerEntry == [booking_id : Bookings, account : {"renter", "host"},
                direction : {"debit", "credit"}, amount_cents : Nat,
                reason : {"rental", "mileage_overage"}]

\* The record a consumer is working on, the payment it has read, and what
\* Stripe answered so far.
Handling == [id : Nat \ {0}, payment : PaymentRow \cup {NULL},
             hold : {"ok", "error", NULL}, overage : {"ok", "error", NULL}]

Answer == [booking_id : Bookings,
           event_type : {"payment_authorized", "payment_authorization_failed",
                         "payment_captured", "payment_capture_failed"}]

ASSUME NullAssumption ==
    NULL \notin PaymentRow \cup Handling \cup {"ok", "error"} \cup Calls
-----------------------------------------------------------------------------
(* Stripe (external), as stripe_client.py uses it.  Stripe executes a key  *)
(* once and answers a repeated key with the first result.                  *)

\* Mutant: a new key for every attempt.
FreshKey(call, b) == <<call, b, Cardinality(stripe)>>

\* The Idempotency-Key of a call.
idempotency_key(call, b) == <<call, b>>

Executed(key) == {x \in stripe : x.key = key}

\* What Stripe may answer a request with this key.
Results(key) == IF Executed(key) = {} THEN {"ok", "error"}
                ELSE {x.result : x \in Executed(key)}

\* The request reaches Stripe and is answered; or it reaches Stripe and the
\* answer is lost; or it does not reach Stripe.  The last two are
\* connection errors, which the client turns into StripeError as well.
StripeRequest(key, b, call, amount, answer) ==
    \/ \E result \in Results(key) :
          /\ answer \in {result, "error"}
          /\ stripe' = IF Executed(key) # {} THEN stripe
                       ELSE stripe \cup {[key |-> key, booking_id |-> b,
                                          call |-> call, amount |-> amount,
                                          result |-> result]}
    \/ /\ answer = "error"
       /\ UNCHANGED stripe
-----------------------------------------------------------------------------
(* Handling a record.                                                      *)

\* Records of a partition are read in order, each after the one before it
\* was processed: the offset is committed only then.
InOrder(i) ==
    \A j \in 1 .. i - 1 :
        PartitionOf[commands[j].booking_id] = PartitionOf[commands[i].booking_id]
        => j \in payment_inbox

\* claim_event, and get_by_booking_id of the two handlers.
Claim(c, i) ==
    /\ handling[c] = NULL
    /\ i \in DOMAIN commands
    /\ InOrder(i)
    /\ i \notin payment_inbox
    /\ \A d \in Consumers : handling[d] # NULL => handling[d].id # i
    /\ handling' = [handling EXCEPT ![c] =
           [id |-> i, payment |-> payments[commands[i].booking_id],
            hold |-> NULL, overage |-> NULL]]
    /\ UNCHANGED <<commands, payments, ledger_entries, payment_outbox,
                   payment_inbox, stripe>>

\* Mutant: the status of the payment is not looked at.
ProceedsWhateverStatus(h) ==
    \/ /\ commands[h.id].event_type = "authorize_payment_requested"
       /\ h.payment = NULL
    \/ /\ commands[h.id].event_type = "capture_payment_requested"
       /\ h.payment # NULL

\* handle_authorize_payment_requested goes on when there is no payment yet,
\* handle_capture_payment_requested when the payment is authorized.
Proceeds(h) ==
    \/ /\ commands[h.id].event_type = "authorize_payment_requested"
       /\ h.payment = NULL
    \/ /\ commands[h.id].event_type = "capture_payment_requested"
       /\ h.payment # NULL
       /\ h.payment.status = "authorized"

\* The Stripe call that comes next, NULL when the handler is through.
NextCall(h) ==
    IF ~ Proceeds(h) THEN NULL
    ELSE IF commands[h.id].event_type = "authorize_payment_requested"
    THEN IF h.hold = NULL THEN "authorize" ELSE NULL
    ELSE IF h.hold = NULL THEN "capture"
    ELSE IF h.hold = "ok" /\ commands[h.id].overage_cents > 0
            /\ h.overage = NULL
    THEN "overage" ELSE NULL

CallStripe(c) ==
    /\ handling[c] # NULL
    /\ LET h == handling[c]
           cmd == commands[h.id]
           call == NextCall(h)
       IN  /\ call # NULL
           /\ \E answer \in {"ok", "error"} :
                /\ StripeRequest(idempotency_key(call, cmd.booking_id),
                       cmd.booking_id, call,
                       IF call = "overage" THEN cmd.overage_cents
                       ELSE cmd.amount_cents, answer)
                /\ handling' = IF call = "overage"
                               THEN [handling EXCEPT ![c].overage = answer]
                               ELSE [handling EXCEPT ![c].hold = answer]
    /\ UNCHANGED <<commands, payments, ledger_entries, payment_outbox,
                   payment_inbox>>

write_ledger_pair(b, amount, reason) ==
    << [booking_id |-> b, account |-> "renter", direction |-> "debit",
        amount_cents |-> amount, reason |-> reason],
       [booking_id |-> b, account |-> "host", direction |-> "credit",
        amount_cents |-> amount, reason |-> reason] >>

\* Mutants: every answer is taken for a success.
AnyAnswerAuthorizes(h) == h.hold # NULL
AnyAnswerCharges(h) == h.overage # NULL

\* Amounts go to INTEGER columns; the database refuses what does not fit.
FitsInteger(n) == n <= MaxInteger

\* The call was answered without StripeError.
Authorized(h) == h.hold = "ok"
OverageCharged(h) == h.overage = "ok"

\* Mutant: a failure is not reported.
AnswerSuccessOnly(b, type) ==
    IF type \in {"payment_authorization_failed", "payment_capture_failed"}
    THEN payment_outbox
    ELSE Append(payment_outbox, [booking_id |-> b, event_type |-> type])

\* write_outbox_event to the topic the booking service reads.
AnswerWith(b, type) ==
    Append(payment_outbox, [booking_id |-> b, event_type |-> type])

\* handle_authorize_payment_requested, after the call: the insert respects
\* UNIQUE (booking_id) and the width of hold_amount_cents.
FinishAuthorize(h, cmd) ==
    LET b  == cmd.booking_id
        ok == Authorized(h)
    IN  /\ payments[b] = NULL
        /\ FitsInteger(cmd.amount_cents)
        /\ payments' = [payments EXCEPT ![b] =
              [status |-> IF ok THEN "authorized" ELSE "authorization_failed",
               hold_amount_cents |-> cmd.amount_cents, overage_cents |-> 0,
               stripe_payment_intent_id |-> ok,
               stripe_overage_intent_id |-> FALSE]]
        /\ payment_outbox' =
              AnswerWith(b, IF ok THEN "payment_authorized"
                            ELSE "payment_authorization_failed")
        /\ UNCHANGED ledger_entries

\* handle_capture_payment_requested, after its calls.  A failed overage
\* charge is only logged.  The amounts go to INTEGER columns.
FinishCapture(h, cmd) ==
    LET b == cmd.booking_id
        charged == OverageCharged(h)
    IN  IF h.hold = "error"
        THEN /\ payments' = [payments EXCEPT ![b].status = "capture_failed"]
             /\ payment_outbox' = AnswerWith(b, "payment_capture_failed")
             /\ UNCHANGED ledger_entries
        ELSE /\ FitsInteger(cmd.amount_cents)
             /\ charged => FitsInteger(cmd.overage_cents)
             /\ ledger_entries' = ledger_entries
                   \o write_ledger_pair(b, cmd.amount_cents, "rental")
                   \o (IF charged
                       THEN write_ledger_pair(b, cmd.overage_cents,
                                              "mileage_overage")
                       ELSE << >>)
             /\ payments' = [payments EXCEPT
                   ![b].status = "captured",
                   ![b].overage_cents = IF charged THEN cmd.overage_cents
                                        ELSE @,
                   ![b].stripe_overage_intent_id = charged]
             /\ payment_outbox' = AnswerWith(b, "payment_captured")

\* The commit of postgres_inbox_processor: the claim and whatever the
\* handler wrote, or the claim alone when it returned early or when the
\* record is none of its business.
Commit(c) ==
    /\ handling[c] # NULL
    /\ LET h == handling[c]
           cmd == commands[h.id]
       IN  /\ NextCall(h) = NULL
           /\ IF ~ Proceeds(h)
              THEN UNCHANGED <<payments, ledger_entries, payment_outbox>>
              ELSE IF cmd.event_type = "authorize_payment_requested"
              THEN FinishAuthorize(h, cmd)
              ELSE FinishCapture(h, cmd)
           /\ payment_inbox' = payment_inbox \cup {h.id}
    /\ handling' = [handling EXCEPT ![c] = NULL]
    /\ UNCHANGED <<commands, stripe>>

\* Mutant: the claim was committed on its own, before the work.
RollbackKeepsClaim(c) ==
    /\ handling[c] # NULL
    /\ payment_inbox' = payment_inbox \cup {handling[c].id}
    /\ handling' = [handling EXCEPT ![c] = NULL]
    /\ UNCHANGED <<commands, payments, ledger_entries, payment_outbox, stripe>>

\* A crash, a database error or the end of the consumer task.
Rollback(c) ==
    /\ handling[c] # NULL
    /\ handling' = [handling EXCEPT ![c] = NULL]
    /\ UNCHANGED <<commands, payments, ledger_entries, payment_outbox,
                   payment_inbox, stripe>>

IsCommand(cmd) == cmd.event_type \in {"authorize_payment_requested",
                                      "capture_payment_requested"}

\* What the booking service can write: an authorize command has no overage,
\* a domain event no amount.
WellFormed(cmd) ==
    CASE cmd.event_type = "authorize_payment_requested" ->
            cmd.amount_cents \in Amounts /\ cmd.overage_cents = 0
      [] cmd.event_type = "capture_payment_requested" ->
            cmd.amount_cents \in Amounts /\ cmd.overage_cents \in Overages
      [] OTHER -> cmd.amount_cents = 0 /\ cmd.overage_cents = 0

\* The environment: one more record on the topic.  All commands about one
\* booking carry the same amount, the price of its row times its days.
Send(cmd) ==
    /\ WellFormed(cmd)
    /\ \A i \in DOMAIN commands :
          /\ commands[i].booking_id = cmd.booking_id
          /\ IsCommand(commands[i]) /\ IsCommand(cmd)
          => commands[i].amount_cents = cmd.amount_cents
    /\ commands' = Append(commands, cmd)
    /\ UNCHANGED <<payments, ledger_entries, payment_outbox, payment_inbox,
                   stripe, handling>>
-----------------------------------------------------------------------------
Init ==
    /\ commands = << >>
    /\ payments = [b \in Bookings |-> NULL]
    /\ ledger_entries = << >>
    /\ payment_outbox = << >>
    /\ payment_inbox = {}
    /\ stripe = {}
    /\ handling = [c \in Consumers |-> NULL]

Next ==
    \/ Len(commands) < MaxCommands /\ \E cmd \in Command : Send(cmd)
    \/ \E c \in Consumers, i \in 1 .. Len(commands) : Claim(c, i)
    \/ \E c \in Consumers : CallStripe(c)
    \/ \E c \in Consumers : Commit(c)
    \/ \E c \in Consumers : Rollback(c)

Spec == Init /\ [][Next]_vars
-----------------------------------------------------------------------------
(* Properties.                                                             *)

Execution == [key : Calls \X Bookings, booking_id : Bookings, call : Calls,
              amount : Nat, result : {"ok", "error"}]

\* Every table, Stripe's executions and every open transaction keep their
\* shape, and no amount outgrows its column.
TypeOK ==
    /\ commands \in Seq(Command)
    /\ payments \in [Bookings -> PaymentRow \cup {NULL}]
    /\ \A b \in Bookings : payments[b] # NULL =>
          /\ payments[b].hold_amount_cents <= MaxInteger
          /\ payments[b].overage_cents <= MaxInteger
    /\ ledger_entries \in Seq(LedgerEntry)
    /\ payment_outbox \in Seq(Answer)
    /\ payment_inbox \subseteq DOMAIN commands
    /\ stripe \subseteq Execution
    /\ handling \in [Consumers -> Handling \cup {NULL}]

Successes(b, call) ==
    {x \in stripe : x.booking_id = b /\ x.call = call /\ x.result = "ok"}

\* However often a command is delivered, to whichever replica, and wherever
\* the consumer fails, Stripe executes at most one hold, one capture and
\* one overage charge for a booking (the idempotency keys of
\* service.py:28, 80 and 110).
ChargedAtMostOnce ==
    \A b \in Bookings, call \in Calls : Cardinality(Successes(b, call)) <= 1

\* Ledger rows about one charge of a booking.
Booked(b, reason) ==
    {i \in DOMAIN ledger_entries : /\ ledger_entries[i].booking_id = b
                                   /\ ledger_entries[i].reason = reason}

\* The ledger never books money Stripe did not move: a captured payment has
\* one debit and one credit of the amount Stripe captured, an overage
\* charge likewise, and no other payment has a row (models.py:36-38); and
\* every table keeps its type, with amounts that fit their columns.
LedgerIsBacked ==
    /\ TypeOK
    /\ \A b \in Bookings, reason \in {"rental", "mileage_overage"} :
           LET rows == Booked(b, reason)
               call == IF reason = "rental" THEN "capture" ELSE "overage"
           IN  /\ Cardinality(rows) \in {0, 2}
               /\ rows # {} =>
                    /\ payments[b] # NULL
                    /\ payments[b].status = "captured"
                    /\ \E x \in Successes(b, call) : \A i \in rows :
                          ledger_entries[i].amount_cents = x.amount
                    /\ {ledger_entries[i].direction : i \in rows}
                          = {"debit", "credit"}

\* Between deliveries, money Stripe captured is in the ledger or the payment
\* says capture_failed: a lost answer never makes it vanish without a mark.
\* "Between deliveries": no command of the booking is waiting or in hand.
CapturedIsBookedOrFlagged ==
    \A b \in Bookings :
        (/\ Successes(b, "capture") # {}
         /\ \A i \in DOMAIN commands :
               commands[i].booking_id = b => i \in payment_inbox)
        => \/ Booked(b, "rental") # {}
           \/ payments[b] # NULL /\ payments[b].status = "capture_failed"

AnswersAbout(b) ==
    {i \in DOMAIN payment_outbox : payment_outbox[i].booking_id = b}

\* The answers about a booking, in order, are these.
Said(b, types) ==
    \E at \in [DOMAIN types -> DOMAIN payment_outbox] :
        /\ AnswersAbout(b) = {at[k] : k \in DOMAIN types}
        /\ \A k \in DOMAIN types : payment_outbox[at[k]].event_type = types[k]
        /\ \A k, l \in DOMAIN types : k < l => at[k] < at[l]

\* The booking service hears one outcome per phase: authorized or failed,
\* and then, only after authorized, captured or failed.  Duplicate and
\* retried commands never produce a second answer, and the row shows the
\* last one given.
OneAnswerPerPhase ==
    \A b \in Bookings :
        /\ payments[b] = NULL => Said(b, << >>)
        /\ payments[b] # NULL =>
              CASE payments[b].status = "authorized" ->
                      Said(b, <<"payment_authorized">>)
                [] payments[b].status = "authorization_failed" ->
                      Said(b, <<"payment_authorization_failed">>)
                [] payments[b].status = "captured" ->
                      Said(b, <<"payment_authorized", "payment_captured">>)
                [] payments[b].status = "capture_failed" ->
                      Said(b, <<"payment_authorized", "payment_capture_failed">>)
==============================================================================
