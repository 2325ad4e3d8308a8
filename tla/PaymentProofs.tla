----------------------------- MODULE PaymentProofs ------------------------------
(***************************************************************************)
(* Proofs about Payment, for any number of bookings, partitions, consumers *)
(* and commands, and any width of the amount columns.                      *)
(*                                                                         *)
(* Nothing in the payment service locks a booking.  What replaces the lock *)
(* is the order of the partition: of the commands of one booking at most   *)
(* one is next, so that the payment a handler has read is the one it will  *)
(* update, and a repeated call to Stripe is one with the same amounts.     *)
(***************************************************************************)
EXTENDS Payment, FiniteSetTheorems, SequenceTheorems, TLAPS

\* Command i is the next one of its partition.
IsNext(i) == /\ i \in DOMAIN commands
             /\ i \notin payment_inbox
             /\ InOrder(i)

\* A handler works on the next command of its partition, and no other does.
HandlesNext ==
    /\ \A c \in Consumers : handling[c] # NULL => IsNext(handling[c].id)
    /\ \A c, d \in Consumers :
          /\ handling[c] # NULL /\ handling[d] # NULL
          /\ handling[c].id = handling[d].id
          => c = d

BookingOf(h) == commands[h.id].booking_id

\* The payment a handler has read is still the row.
ReadIsCurrent ==
    \A c \in Consumers : handling[c] # NULL =>
        handling[c].payment = payments[BookingOf(handling[c])]

\* What a handler was told, Stripe did.
AnswerIsReal(h) ==
    /\ h.hold # NULL => Proceeds(h)
    /\ h.hold = "ok" =>
          \E x \in stripe :
             /\ x.booking_id = BookingOf(h) /\ x.result = "ok"
             /\ x.call = IF commands[h.id].event_type =
                               "authorize_payment_requested"
                         THEN "authorize" ELSE "capture"
    /\ h.overage # NULL =>
          /\ h.hold = "ok"
          /\ commands[h.id].event_type = "capture_payment_requested"
    /\ h.overage = "ok" =>
          \E x \in stripe : /\ x.booking_id = BookingOf(h)
                            /\ x.call = "overage" /\ x.result = "ok"
                            /\ x.amount = commands[h.id].overage_cents

AnswersAreReal ==
    \A c \in Consumers : handling[c] # NULL => AnswerIsReal(handling[c])

\* Stripe executes a key once.
KeysAreUsedOnce ==
    /\ \A x \in stripe : x.key = <<x.call, x.booking_id>>
    /\ \A x, y \in stripe : x.key = y.key => x = y

\* The commands of a booking ask for one amount, and Stripe got that one.
OneAmount ==
    /\ \A i, j \in DOMAIN commands :
          /\ commands[i].booking_id = commands[j].booking_id
          /\ IsCommand(commands[i]) /\ IsCommand(commands[j])
          => commands[i].amount_cents = commands[j].amount_cents
    /\ \A x \in stripe : x.call # "overage" =>
          \E i \in DOMAIN commands :
             /\ commands[i].booking_id = x.booking_id
             /\ IsCommand(commands[i])
             /\ commands[i].amount_cents = x.amount

\* Money was captured for a payment that says how it went, or for a command
\* that is not finished yet and will come again.
CaptureIsPending ==
    \A x \in stripe : x.call # "authorize" =>
        LET b == x.booking_id
        IN  /\ payments[b] # NULL
            /\ payments[b].status # "authorization_failed"
            /\ payments[b].status = "authorized" =>
                  \E i \in DOMAIN commands :
                     /\ IsNext(i) /\ commands[i].booking_id = b
                     /\ commands[i].event_type = "capture_payment_requested"
                     /\ x.call = "overage" => commands[i].overage_cents = x.amount

\* Ledger rows come in pairs.
IsPair(i, amount) ==
    /\ ledger_entries[i].direction = "debit"
    /\ ledger_entries[i + 1].direction = "credit"
    /\ ledger_entries[i].amount_cents = amount
    /\ ledger_entries[i + 1].amount_cents = amount

CallOf(reason) == IF reason = "rental" THEN "capture" ELSE "overage"

PairsAreBacked ==
    \A b \in Bookings, reason \in {"rental", "mileage_overage"} :
        Booked(b, reason) # {} =>
            /\ payments[b] # NULL
            /\ payments[b].status = "captured"
            /\ \E x \in Successes(b, CallOf(reason)), i \in DOMAIN ledger_entries :
                  Booked(b, reason) = {i, i + 1} /\ IsPair(i, x.amount)

CapturedIsBooked ==
    \A b \in Bookings :
        payments[b] # NULL /\ payments[b].status = "captured" =>
            Booked(b, "rental") # {}

\* OneAnswerPerPhase without sequences.
SaidNothing(b) == AnswersAbout(b) = {}

SaidOnce(b, type) ==
    \E i \in DOMAIN payment_outbox : /\ AnswersAbout(b) = {i}
                                     /\ payment_outbox[i].event_type = type

SaidTwice(b, type1, type2) ==
    \E i, j \in DOMAIN payment_outbox :
        /\ i < j
        /\ AnswersAbout(b) = {i, j}
        /\ payment_outbox[i].event_type = type1
        /\ payment_outbox[j].event_type = type2

AnswersFollowStatus ==
    \A b \in Bookings :
        /\ payments[b] = NULL => SaidNothing(b)
        /\ payments[b] # NULL =>
              /\ payments[b].status = "authorized" =>
                    SaidOnce(b, "payment_authorized")
              /\ payments[b].status = "authorization_failed" =>
                    SaidOnce(b, "payment_authorization_failed")
              /\ payments[b].status = "captured" =>
                    SaidTwice(b, "payment_authorized", "payment_captured")
              /\ payments[b].status = "capture_failed" =>
                    SaidTwice(b, "payment_authorized", "payment_capture_failed")

IInv == /\ TypeOK
        /\ HandlesNext
        /\ ReadIsCurrent
        /\ AnswersAreReal
        /\ KeysAreUsedOnce
        /\ OneAmount
        /\ CaptureIsPending
        /\ PairsAreBacked
        /\ CapturedIsBooked
        /\ AnswersFollowStatus
-----------------------------------------------------------------------------
(* What the invariant says of a command and of its handler.                *)

\* The fields of a logged command have their types.
LEMMA CommandFields ==
    ASSUME TypeOK, NEW i \in DOMAIN commands
    PROVE  /\ i \in Nat \ {0}
           /\ commands[i] \in Command
           /\ commands[i].booking_id \in Bookings
           /\ commands[i].amount_cents \in Nat
           /\ commands[i].overage_cents \in Nat
           /\ payments[commands[i].booking_id] \in PaymentRow \cup {NULL}
  <1>1. i \in 1 .. Len(commands) /\ commands[i] \in Command
    BY DEF TypeOK
  <1>2. commands[i].booking_id \in Bookings
    BY <1>1 DEF Command
  <1>3. /\ commands[i].amount_cents \in Amounts \cup {0}
        /\ commands[i].overage_cents \in Overages \cup {0}
    BY <1>1 DEF Command
  <1>4. payments[commands[i].booking_id] \in PaymentRow \cup {NULL}
    BY <1>2 DEF TypeOK
  <1>5. i \in Nat \ {0}
    BY <1>1 DEF TypeOK
  <1>6. Amounts \cup {0} \subseteq Nat /\ Overages \cup {0} \subseteq Nat
    BY PaymentConstants
  <1> QED BY <1>1, <1>2, <1>3, <1>4, <1>5, <1>6

\* A payment row is no NULL and its columns have their types.
LEMMA RowFields ==
    ASSUME NEW row \in PaymentRow
    PROVE  /\ row # NULL
           /\ row.status \in {"authorized", "authorization_failed", "captured",
                              "capture_failed"}
           /\ row.hold_amount_cents \in Nat
           /\ row.overage_cents \in Nat
           /\ row.stripe_payment_intent_id \in BOOLEAN
           /\ row.stripe_overage_intent_id \in BOOLEAN
  <1>1. row # NULL
    BY NullAssumption
  <1> QED BY <1>1 DEF PaymentRow

\* What a busy consumer holds: a logged command and its claim.
LEMMA HandlerFields ==
    ASSUME IInv, NEW c \in Consumers, handling[c] # NULL
    PROVE  /\ handling[c] \in Handling
           /\ handling[c].hold \in {"ok", "error", NULL}
           /\ handling[c].overage \in {"ok", "error", NULL}
           /\ handling[c].payment \in PaymentRow \cup {NULL}
           /\ IsNext(handling[c].id)
           /\ handling[c].id \in DOMAIN commands
           /\ handling[c].id \in Nat \ {0}
           /\ handling[c].id \notin payment_inbox
           /\ handling[c].payment = payments[commands[handling[c].id].booking_id]
           /\ AnswerIsReal(handling[c])
  <1>1. handling[c] \in Handling
    BY DEF IInv, TypeOK
  <1>2. IsNext(handling[c].id)
    BY DEF IInv, HandlesNext
  <1>3. AnswerIsReal(handling[c])
    BY DEF IInv, AnswersAreReal
  <1>4. handling[c].payment = payments[commands[handling[c].id].booking_id]
    BY DEF IInv, ReadIsCurrent, BookingOf
  <1> QED BY <1>1, <1>2, <1>3, <1>4 DEF Handling, IsNext

\* Of the commands of a booking, which share a partition, one is next.
LEMMA NextIsOne ==
    ASSUME TypeOK, NEW i, NEW j, IsNext(i), IsNext(j),
           commands[i].booking_id = commands[j].booking_id
    PROVE  i = j
  <1>1. i \in Nat \ {0} /\ j \in Nat \ {0}
    BY CommandFields DEF IsNext
  <1>2. ~ i < j
    BY <1>1 DEF IsNext, InOrder
  <1>3. ~ j < i
    BY <1>1 DEF IsNext, InOrder
  <1> QED BY <1>1, <1>2, <1>3

\* Two handlers are about two bookings.
LEMMA HandlersAreApart ==
    ASSUME IInv, NEW c \in Consumers, NEW d \in Consumers, c # d,
           handling[c] # NULL, handling[d] # NULL
    PROVE  /\ handling[c].id # handling[d].id
           /\ commands[handling[c].id].booking_id
                 # commands[handling[d].id].booking_id
  <1>1. handling[c].id # handling[d].id
    BY DEF IInv, HandlesNext
  <1>2. IsNext(handling[c].id) /\ IsNext(handling[d].id)
    BY HandlerFields
  <1> QED BY <1>1, <1>2, NextIsOne DEF IInv

\* What a handler that goes on has read.
LEMMA ProceedsOn ==
    ASSUME IInv, NEW c \in Consumers, handling[c] # NULL, Proceeds(handling[c])
    PROVE  LET h == handling[c]
               cmd == commands[h.id]
           IN  \/ /\ cmd.event_type = "authorize_payment_requested"
                  /\ payments[cmd.booking_id] = NULL
               \/ /\ cmd.event_type = "capture_payment_requested"
                  /\ payments[cmd.booking_id] # NULL
                  /\ payments[cmd.booking_id].status = "authorized"
  BY HandlerFields DEF Proceeds
-----------------------------------------------------------------------------
(* The initial state.                                                      *)

\* The empty ledger satisfies the invariant.
LEMMA InitIInv == Init => IInv
  <1> SUFFICES ASSUME Init PROVE IInv
    OBVIOUS
  <1> USE DEF Init
  <1>1. TypeOK
    <2>1. payments \in [Bookings -> PaymentRow \cup {NULL}]
      OBVIOUS
    <2>2. handling \in [Consumers -> Handling \cup {NULL}]
      OBVIOUS
    <2> QED BY <2>1, <2>2 DEF TypeOK
  <1>2. \A c \in Consumers : handling[c] = NULL
    OBVIOUS
  <1>3. \A b \in Bookings : payments[b] = NULL
    OBVIOUS
  <1>4. \A b \in Bookings, reason \in {"rental", "mileage_overage"} :
           Booked(b, reason) = {}
    BY DEF Booked
  <1>5. \A b \in Bookings : AnswersAbout(b) = {}
    BY DEF AnswersAbout
  <1>6. HandlesNext /\ ReadIsCurrent /\ AnswersAreReal
    BY <1>2 DEF HandlesNext, ReadIsCurrent, AnswersAreReal
  <1>7. KeysAreUsedOnce /\ OneAmount /\ CaptureIsPending
    BY DEF KeysAreUsedOnce, OneAmount, CaptureIsPending
  <1>8. PairsAreBacked /\ CapturedIsBooked /\ AnswersFollowStatus
    BY <1>3, <1>4, <1>5
    DEF PairsAreBacked, CapturedIsBooked, AnswersFollowStatus, SaidNothing
  <1> QED BY <1>1, <1>6, <1>7, <1>8 DEF IInv
-----------------------------------------------------------------------------
(* The environment sends a command.                                        *)

\* A command that booking sends keeps the invariant.
LEMMA SendStep ==
    ASSUME IInv, NEW cmd \in Command, Send(cmd)
    PROVE  IInv'
  <1>1. /\ DOMAIN commands' = 1 .. Len(commands) + 1
        /\ DOMAIN commands = 1 .. Len(commands)
        /\ Len(commands) \in Nat
        /\ commands' \in Seq(Command)
        /\ \A i \in DOMAIN commands : commands'[i] = commands[i]
        /\ commands'[Len(commands) + 1] = cmd
    BY DEF Send, IInv, TypeOK
  <1>2. UNCHANGED <<payments, ledger_entries, payment_outbox, payment_inbox,
                    stripe, handling>>
    BY DEF Send
  <1>3. TypeOK'
    BY <1>1, <1>2 DEF IInv, TypeOK
  <1>4. \A i : IsNext(i) => IsNext(i)'
    BY <1>1, <1>2 DEF IsNext, InOrder
  <1>5. \A c \in Consumers : handling[c] # NULL =>
           handling[c].id \in DOMAIN commands
    BY HandlerFields
  <1>6. HandlesNext'
    BY <1>2, <1>4 DEF IInv, HandlesNext
  <1>7. ReadIsCurrent'
    BY <1>1, <1>2, <1>5 DEF IInv, ReadIsCurrent, BookingOf
  <1>8. AnswersAreReal'
    <2> SUFFICES ASSUME NEW c \in Consumers, handling[c] # NULL
                 PROVE  AnswerIsReal(handling[c])'
      BY <1>2 DEF AnswersAreReal
    <2>1. AnswerIsReal(handling[c]) /\ commands'[handling[c].id] = commands[handling[c].id]
      BY <1>1, <1>5, HandlerFields
    <2> QED BY <2>1, <1>2 DEF AnswerIsReal, Proceeds, BookingOf
  <1>9. KeysAreUsedOnce'
    BY <1>2 DEF IInv, KeysAreUsedOnce
  <1>10. OneAmount'
    <2>1. \A i \in DOMAIN commands :
            /\ commands[i].booking_id = cmd.booking_id
            /\ IsCommand(commands[i]) /\ IsCommand(cmd)
            => commands[i].amount_cents = cmd.amount_cents
      BY DEF Send
    <2>2. \A i \in DOMAIN commands' : i \in DOMAIN commands \/ i = Len(commands) + 1
      BY <1>1
    <2>3. \A i, j \in DOMAIN commands' :
            /\ commands'[i].booking_id = commands'[j].booking_id
            /\ IsCommand(commands'[i]) /\ IsCommand(commands'[j])
            => commands'[i].amount_cents = commands'[j].amount_cents
      BY <1>1, <2>1, <2>2 DEF IInv, OneAmount
    <2>4. \A x \in stripe : x.call # "overage" =>
            \E i \in DOMAIN commands' :
               /\ commands'[i].booking_id = x.booking_id
               /\ IsCommand(commands'[i])
               /\ commands'[i].amount_cents = x.amount
      BY <1>1 DEF IInv, OneAmount
    <2> QED BY <2>3, <2>4, <1>2 DEF OneAmount, IsCommand
  <1>11. CaptureIsPending'
    <2> SUFFICES ASSUME NEW x \in stripe, x.call # "authorize"
                 PROVE  /\ payments[x.booking_id] # NULL
                        /\ payments[x.booking_id].status # "authorization_failed"
                        /\ payments[x.booking_id].status = "authorized" =>
                             \E i \in DOMAIN commands' :
                                /\ IsNext(i)'
                                /\ commands'[i].booking_id = x.booking_id
                                /\ commands'[i].event_type = "capture_payment_requested"
                                /\ x.call = "overage" =>
                                      commands'[i].overage_cents = x.amount
      BY <1>2 DEF CaptureIsPending
    <2> QED BY <1>1, <1>4 DEF IInv, CaptureIsPending
  <1>12. PairsAreBacked' /\ CapturedIsBooked' /\ AnswersFollowStatus'
    BY <1>2 DEF IInv, PairsAreBacked, CapturedIsBooked, AnswersFollowStatus,
                Booked, Successes, IsPair, SaidNothing, SaidOnce, SaidTwice,
                AnswersAbout
  <1> QED BY <1>3, <1>6, <1>7, <1>8, <1>9, <1>10, <1>11, <1>12 DEF IInv
-----------------------------------------------------------------------------
(* A consumer claims a command.                                            *)

\* What the steps of a handler that do not commit leave alone.
LEMMA RestStands ==
    ASSUME IInv, UNCHANGED <<commands, payments, ledger_entries, payment_outbox,
                             payment_inbox, stripe>>
    PROVE  /\ KeysAreUsedOnce'
           /\ OneAmount'
           /\ CaptureIsPending'
           /\ PairsAreBacked'
           /\ CapturedIsBooked'
           /\ AnswersFollowStatus'
  <1>1. KeysAreUsedOnce' /\ OneAmount'
    BY DEF IInv, KeysAreUsedOnce, OneAmount
  <1>2. CaptureIsPending'
    BY DEF IInv, CaptureIsPending, IsNext, InOrder
  <1>3. PairsAreBacked' /\ CapturedIsBooked'
    BY DEF IInv, PairsAreBacked, CapturedIsBooked, Booked, Successes, IsPair
  <1>4. AnswersFollowStatus'
    BY DEF IInv, AnswersFollowStatus, SaidNothing, SaidOnce, SaidTwice,
           AnswersAbout
  <1> QED BY <1>1, <1>2, <1>3, <1>4

\* A consumer that claims a command in its inbox keeps the invariant.
LEMMA ClaimStep ==
    ASSUME IInv, NEW c \in Consumers, NEW i \in 1 .. Len(commands), Claim(c, i)
    PROVE  IInv'
  <1> DEFINE new == [id |-> i, payment |-> payments[commands[i].booking_id],
                     hold |-> NULL, overage |-> NULL]
  <1>1. /\ i \in DOMAIN commands
        /\ i \in Nat \ {0}
        /\ IsNext(i)
        /\ payments[commands[i].booking_id] \in PaymentRow \cup {NULL}
    BY CommandFields DEF IInv, Claim, IsNext
  <1>2. /\ new \in Handling
        /\ new.id = i
        /\ new.payment = payments[commands[i].booking_id]
        /\ new.hold = NULL
        /\ new.overage = NULL
    BY <1>1 DEF Handling
  <1>3. /\ UNCHANGED <<commands, payments, ledger_entries, payment_outbox,
                       payment_inbox, stripe>>
        /\ handling' = [handling EXCEPT ![c] = new]
        /\ \A d \in Consumers : handling[d] # NULL => handling[d].id # i
    BY DEF Claim
  <1> HIDE DEF new
  <1>4. /\ handling' \in [Consumers -> Handling \cup {NULL}]
        /\ handling'[c] = new
        /\ \A d \in Consumers \ {c} : handling'[d] = handling[d]
    BY <1>2, <1>3 DEF IInv, TypeOK
  <1>5. TypeOK'
    BY <1>3, <1>4 DEF IInv, TypeOK
  <1>6. \A j : IsNext(j) => IsNext(j)'
    BY <1>3 DEF IsNext, InOrder
  <1>7. HandlesNext'
    BY <1>1, <1>2, <1>3, <1>4, <1>6 DEF IInv, HandlesNext
  <1>8. ReadIsCurrent'
    BY <1>2, <1>3, <1>4 DEF IInv, ReadIsCurrent, BookingOf
  <1>9. AnswersAreReal'
    <2> SUFFICES ASSUME NEW d \in Consumers, handling'[d] # NULL
                 PROVE  AnswerIsReal(handling[d])'
      BY DEF AnswersAreReal
    <2>1. CASE d = c
      BY <2>1, <1>2, <1>4, NullAssumption DEF AnswerIsReal
    <2>2. CASE d # c
      BY <2>2, <1>3, <1>4, HandlerFields
      DEF AnswerIsReal, BookingOf, Proceeds
    <2> QED BY <2>1, <2>2
  <1> QED BY <1>3, <1>5, <1>7, <1>8, <1>9, RestStands DEF IInv

\* A transaction rolled back keeps the invariant: Stripe keeps what it did.
LEMMA RollbackStep ==
    ASSUME IInv, NEW c \in Consumers, Rollback(c)
    PROVE  IInv'
  <1>1. /\ UNCHANGED <<commands, payments, ledger_entries, payment_outbox,
                       payment_inbox, stripe>>
        /\ handling' \in [Consumers -> Handling \cup {NULL}]
        /\ handling'[c] = NULL
        /\ \A d \in Consumers \ {c} : handling'[d] = handling[d]
    BY DEF Rollback, IInv, TypeOK
  <1>2. TypeOK'
    BY <1>1 DEF IInv, TypeOK
  <1>3. \A j : IsNext(j) => IsNext(j)'
    BY <1>1 DEF IsNext, InOrder
  <1>4. HandlesNext'
    BY <1>1, <1>3 DEF IInv, HandlesNext
  <1>5. ReadIsCurrent'
    BY <1>1 DEF IInv, ReadIsCurrent, BookingOf
  <1>6. AnswersAreReal'
    BY <1>1, HandlerFields DEF AnswersAreReal, AnswerIsReal, BookingOf, Proceeds
  <1> QED BY <1>1, <1>2, <1>4, <1>5, <1>6, RestStands DEF IInv
-----------------------------------------------------------------------------
(* A handler calls Stripe.                                                 *)

\* A request adds at most its own execution, and only under a key that is
\* new; a success that was answered was executed, now or before.
LEMMA RequestFacts ==
    ASSUME IInv, NEW b \in Bookings, NEW call \in Calls, NEW amount \in Nat,
           NEW answer \in {"ok", "error"},
           StripeRequest(idempotency_key(call, b), b, call, amount, answer)
    PROVE  /\ stripe \subseteq stripe'
           /\ stripe' \subseteq Execution
           /\ \A x \in stripe' : \/ x \in stripe
                                 \/ /\ x.booking_id = b
                                    /\ x.call = call
                                    /\ x.amount = amount
           /\ KeysAreUsedOnce'
           /\ answer = "ok" =>
                 \E x \in stripe' : /\ x.booking_id = b
                                    /\ x.call = call
                                    /\ x.result = "ok"
                                    /\ x \in stripe \/ x.amount = amount
  <1> DEFINE key == <<call, b>>
             Ran(result) == [key |-> key, booking_id |-> b, call |-> call,
                             amount |-> amount, result |-> result]
  <1>1. \/ stripe' = stripe /\ answer = "error"
        \/ \E result \in Results(key) :
              /\ answer \in {result, "error"}
              /\ stripe' = IF Executed(key) # {} THEN stripe
                           ELSE stripe \cup {Ran(result)}
    BY DEF StripeRequest, idempotency_key
  <1>2. \A result \in {"ok", "error"} :
          /\ Ran(result) \in Execution
          /\ Ran(result).key = key
          /\ Ran(result).booking_id = b
          /\ Ran(result).call = call
          /\ Ran(result).amount = amount
          /\ Ran(result).result = result
    BY DEF Execution
  <1>3. stripe \subseteq Execution /\ KeysAreUsedOnce
    BY DEF IInv, TypeOK
  <1> HIDE DEF Ran
  <1>4. CASE stripe' = stripe /\ answer = "error"
    BY <1>3, <1>4 DEF KeysAreUsedOnce
  <1>5. CASE Executed(key) # {} /\ stripe' = stripe
             /\ (answer = "error" \/ \E x \in Executed(key) : answer = x.result)
    <2>1. \A x \in Executed(key) : /\ x \in stripe
                                   /\ x.call = call
                                   /\ x.booking_id = b
      BY <1>3 DEF Executed, KeysAreUsedOnce
    <2> QED BY <1>3, <1>5, <2>1 DEF KeysAreUsedOnce
  <1>6. ASSUME NEW result \in {"ok", "error"}, Executed(key) = {},
               answer \in {result, "error"}, stripe' = stripe \cup {Ran(result)}
        PROVE  /\ stripe \subseteq stripe'
               /\ stripe' \subseteq Execution
               /\ \A x \in stripe' : \/ x \in stripe
                                     \/ /\ x.booking_id = b
                                        /\ x.call = call
                                        /\ x.amount = amount
               /\ KeysAreUsedOnce'
               /\ answer = "ok" =>
                     \E x \in stripe' : /\ x.booking_id = b
                                        /\ x.call = call
                                        /\ x.result = "ok"
                                        /\ x \in stripe \/ x.amount = amount
    <2>1. \A x \in stripe : x.key # key
      BY <1>6 DEF Executed
    <2>2. KeysAreUsedOnce'
      BY <1>2, <1>3, <1>6, <2>1 DEF KeysAreUsedOnce
    <2>3. answer = "ok" => result = "ok"
      BY <1>6
    <2> QED BY <1>2, <1>3, <1>6, <2>2, <2>3
  <1>7. CASE Executed(key) # {}
    <2>1. Results(key) = {x.result : x \in Executed(key)}
      BY <1>7 DEF Results
    <2>2. \/ stripe' = stripe /\ answer = "error"
          \/ /\ stripe' = stripe
             /\ answer = "error" \/ \E x \in Executed(key) : answer = x.result
      BY <1>1, <1>7, <2>1
    <2> QED BY <2>2, <1>4, <1>5, <1>7
  <1>8. CASE Executed(key) = {}
    <2>1. Results(key) = {"ok", "error"}
      BY <1>8 DEF Results
    <2>2. \/ stripe' = stripe /\ answer = "error"
          \/ \E result \in {"ok", "error"} :
                /\ answer \in {result, "error"}
                /\ stripe' = stripe \cup {Ran(result)}
      BY <1>1, <1>8, <2>1
    <2>3. CASE stripe' = stripe /\ answer = "error"
      BY <2>3, <1>4
    <2>4. CASE \E result \in {"ok", "error"} :
                /\ answer \in {result, "error"}
                /\ stripe' = stripe \cup {Ran(result)}
      BY <2>4, <1>6, <1>8
    <2> QED BY <2>2, <2>3, <2>4
  <1> QED BY <1>7, <1>8

\* What the next call says of the handler.
LEMMA NextCallFacts ==
    ASSUME NEW h, NextCall(h) # NULL
    PROVE  /\ NextCall(h) \in Calls
           /\ Proceeds(h)
           /\ NextCall(h) = "authorize" =>
                 /\ commands[h.id].event_type = "authorize_payment_requested"
                 /\ h.hold = NULL
           /\ NextCall(h) = "capture" =>
                 /\ commands[h.id].event_type = "capture_payment_requested"
                 /\ h.hold = NULL
           /\ NextCall(h) = "overage" =>
                 /\ commands[h.id].event_type = "capture_payment_requested"
                 /\ h.hold = "ok"
                 /\ h.overage = NULL
  BY DEF NextCall, Calls, Proceeds

\* The Stripe call, before the commit, keeps the invariant.
LEMMA CallStep ==
    ASSUME IInv, NEW c \in Consumers, CallStripe(c)
    PROVE  IInv'
  <1> DEFINE h == handling[c]
             cmd == commands[h.id]
             b == cmd.booking_id
             call == NextCall(h)
             amount == IF call = "overage" THEN cmd.overage_cents
                       ELSE cmd.amount_cents
  <1>1. /\ h # NULL
        /\ call # NULL
        /\ UNCHANGED <<commands, payments, ledger_entries, payment_outbox,
                       payment_inbox>>
    BY DEF CallStripe
  <1>2. PICK answer \in {"ok", "error"} :
          /\ StripeRequest(idempotency_key(call, b), b, call, amount, answer)
          /\ handling' = IF call = "overage"
                         THEN [handling EXCEPT ![c].overage = answer]
                         ELSE [handling EXCEPT ![c].hold = answer]
    BY DEF CallStripe
  <1>3. /\ h \in Handling
        /\ h.hold \in {"ok", "error", NULL}
        /\ h.overage \in {"ok", "error", NULL}
        /\ IsNext(h.id)
        /\ h.id \in DOMAIN commands
        /\ h.payment = payments[b]
        /\ AnswerIsReal(h)
    BY <1>1, HandlerFields
  <1>4. /\ cmd \in Command
        /\ b \in Bookings
        /\ amount \in Nat
    BY <1>3, CommandFields DEF IInv
  <1>5. /\ call \in Calls
        /\ Proceeds(h)
        /\ call = "authorize" =>
              /\ cmd.event_type = "authorize_payment_requested"
              /\ h.hold = NULL
        /\ call = "capture" =>
              /\ cmd.event_type = "capture_payment_requested"
              /\ h.hold = NULL
        /\ call = "overage" =>
              /\ cmd.event_type = "capture_payment_requested"
              /\ h.hold = "ok"
              /\ h.overage = NULL
    BY <1>1, NextCallFacts
  <1>6. /\ stripe \subseteq stripe'
        /\ stripe' \subseteq Execution
        /\ \A x \in stripe' : \/ x \in stripe
                              \/ /\ x.booking_id = b
                                 /\ x.call = call
                                 /\ x.amount = amount
        /\ KeysAreUsedOnce'
        /\ answer = "ok" =>
              \E x \in stripe' : /\ x.booking_id = b
                                 /\ x.call = call
                                 /\ x.result = "ok"
                                 /\ x \in stripe \/ x.amount = amount
    <2> HIDE DEF b, call, amount
    <2> QED BY <1>2, <1>4, <1>5, RequestFacts
  <1>7. /\ handling'[c] \in Handling
        /\ handling'[c].id = h.id
        /\ handling'[c].payment = h.payment
        /\ handling'[c].hold = IF call = "overage" THEN h.hold ELSE answer
        /\ handling'[c].overage = IF call = "overage" THEN answer ELSE h.overage
        /\ \A d \in Consumers \ {c} : handling'[d] = handling[d]
        /\ handling' \in [Consumers -> Handling \cup {NULL}]
    <2>1. handling \in [Consumers -> Handling \cup {NULL}]
      BY DEF IInv, TypeOK
    <2>2. CASE call = "overage"
      <3>1. handling' = [handling EXCEPT ![c] = [h EXCEPT !.overage = answer]]
        BY <1>2, <2>2
      <3> QED BY <2>1, <2>2, <3>1, <1>3 DEF Handling
    <2>3. CASE call # "overage"
      <3>1. handling' = [handling EXCEPT ![c] = [h EXCEPT !.hold = answer]]
        BY <1>2, <2>3
      <3> QED BY <2>1, <2>3, <3>1, <1>3 DEF Handling
    <2> QED BY <2>2, <2>3
  <1>8. \/ cmd.event_type = "authorize_payment_requested" /\ payments[b] = NULL
        \/ /\ cmd.event_type = "capture_payment_requested"
           /\ payments[b] # NULL
           /\ payments[b].status = "authorized"
    BY <1>1, <1>5, ProceedsOn
  <1>9. \A j : IsNext(j) => IsNext(j)'
    BY <1>1 DEF IsNext, InOrder
  <1>10. TypeOK'
    BY <1>1, <1>6, <1>7 DEF IInv, TypeOK
  <1>11. handling'[c] # NULL
    BY <1>7, NullAssumption
  <1>12. HandlesNext'
    BY <1>1, <1>3, <1>7, <1>9 DEF IInv, HandlesNext
  <1>13. ReadIsCurrent'
    BY <1>1, <1>3, <1>7 DEF IInv, ReadIsCurrent, BookingOf
  <1>14. AnswersAreReal'
    <2> SUFFICES ASSUME NEW d \in Consumers, handling'[d] # NULL
                 PROVE  AnswerIsReal(handling[d])'
      BY DEF AnswersAreReal
    <2>1. CASE d # c
      <3>1. /\ handling'[d] = handling[d]
            /\ AnswerIsReal(handling[d])
        BY <2>1, <1>7, HandlerFields
      <3> QED BY <3>1, <1>1, <1>6 DEF AnswerIsReal, Proceeds, BookingOf
    <2>2. CASE d = c
      <3>1. Proceeds(handling[c])'
        BY <1>1, <1>5, <1>7 DEF Proceeds
      <3>2. call # "overage" => h.overage = NULL
        BY <1>3, <1>5, NullAssumption DEF AnswerIsReal, Calls
      <3>3. call # "overage" /\ answer = "ok" =>
              \E x \in stripe' :
                 /\ x.booking_id = b /\ x.result = "ok"
                 /\ x.call = IF cmd.event_type = "authorize_payment_requested"
                             THEN "authorize" ELSE "capture"
        BY <1>5, <1>6 DEF Calls
      <3>4. call = "overage" =>
              \E x \in stripe' :
                 /\ x.booking_id = b /\ x.result = "ok"
                 /\ x.call = IF cmd.event_type = "authorize_payment_requested"
                             THEN "authorize" ELSE "capture"
        BY <1>3, <1>5, <1>6 DEF AnswerIsReal, BookingOf
      <3>5. call = "overage" /\ answer = "ok" =>
              \E x \in stripe' : /\ x.booking_id = b
                                 /\ x.call = "overage" /\ x.result = "ok"
                                 /\ x.amount = cmd.overage_cents
        <4> SUFFICES ASSUME call = "overage", answer = "ok"
                     PROVE  \E x \in stripe' : /\ x.booking_id = b
                                 /\ x.call = "overage" /\ x.result = "ok"
                                 /\ x.amount = cmd.overage_cents
          OBVIOUS
        <4>1. PICK x \in stripe' : /\ x.booking_id = b
                                   /\ x.call = "overage"
                                   /\ x.result = "ok"
                                   /\ x \in stripe \/ x.amount = amount
          BY <1>6
        <4>2. CASE x \in stripe
          <5>1. payments[b].status = "authorized"
            BY <1>5, <1>8
          <5>2. PICK i \in DOMAIN commands :
                  /\ IsNext(i) /\ commands[i].booking_id = b
                  /\ commands[i].overage_cents = x.amount
            BY <4>1, <4>2, <5>1 DEF IInv, CaptureIsPending
          <5>3. i = h.id
            BY <5>2, <1>3, NextIsOne DEF IInv
          <5> QED BY <4>1, <5>2, <5>3
        <4> QED BY <4>1, <4>2
      <3> HIDE DEF h, cmd, b, call, amount
      <3>6. /\ commands'[handling'[c].id] = cmd
            /\ BookingOf(handling[c])' = b
        BY <1>1, <1>7 DEF h, cmd, b, BookingOf
      <3> QED BY <2>2, <1>5, <1>7, <3>1, <3>2, <3>3, <3>4, <3>5, <3>6,
                 NullAssumption
              DEF AnswerIsReal, Calls
    <2> QED BY <2>1, <2>2
  <1>15. OneAmount'
    <2> SUFFICES ASSUME NEW x \in stripe', x.call # "overage"
                 PROVE  \E i \in DOMAIN commands :
                           /\ commands[i].booking_id = x.booking_id
                           /\ IsCommand(commands[i])
                           /\ commands[i].amount_cents = x.amount
      BY <1>1 DEF IInv, OneAmount
    <2>1. CASE x \in stripe
      BY <2>1 DEF IInv, OneAmount
    <2>2. CASE x \notin stripe
      <3>1. IsCommand(cmd)
        BY <1>8 DEF IsCommand
      <3> QED BY <1>3, <1>6, <2>2, <3>1
    <2> QED BY <2>1, <2>2
  <1>16. CaptureIsPending'
    <2> SUFFICES ASSUME NEW x \in stripe', x.call # "authorize"
                 PROVE  /\ payments[x.booking_id] # NULL
                        /\ payments[x.booking_id].status # "authorization_failed"
                        /\ payments[x.booking_id].status = "authorized" =>
                             \E i \in DOMAIN commands :
                                /\ IsNext(i)
                                /\ commands[i].booking_id = x.booking_id
                                /\ commands[i].event_type = "capture_payment_requested"
                                /\ x.call = "overage" =>
                                      commands[i].overage_cents = x.amount
      BY <1>1, <1>9 DEF CaptureIsPending
    <2>1. CASE x \in stripe
      BY <2>1 DEF IInv, CaptureIsPending
    <2>2. CASE x \notin stripe
      <3>1. x.booking_id = b /\ x.call = call /\ x.amount = amount
        BY <1>6, <2>2
      <3>2. cmd.event_type = "capture_payment_requested"
        BY <3>1, <1>5 DEF Calls
      <3> QED BY <1>3, <1>8, <3>1, <3>2
    <2> QED BY <2>1, <2>2
  <1>17. PairsAreBacked'
    BY <1>1, <1>6 DEF IInv, PairsAreBacked, Booked, Successes, IsPair
  <1>18. CapturedIsBooked' /\ AnswersFollowStatus'
    BY <1>1 DEF IInv, CapturedIsBooked, AnswersFollowStatus, Booked,
                SaidNothing, SaidOnce, SaidTwice, AnswersAbout
  <1> QED BY <1>6, <1>10, <1>12, <1>13, <1>14, <1>15, <1>16, <1>17, <1>18
          DEF IInv
-----------------------------------------------------------------------------
(* A handler commits.                                                      *)

\* One more answer about a booking.
LEMMA OneMoreAnswer ==
    ASSUME payment_outbox \in Seq(Answer),
           NEW b \in Bookings,
           NEW type \in {"payment_authorized", "payment_authorization_failed",
                         "payment_captured", "payment_capture_failed"},
           payment_outbox' = AnswerWith(b, type)
    PROVE  /\ payment_outbox' \in Seq(Answer)
           /\ SaidNothing(b) => SaidOnce(b, type)'
           /\ \A t : SaidOnce(b, t) => SaidTwice(b, t, type)'
           /\ \A a \in Bookings \ {b} :
                 /\ SaidNothing(a) => SaidNothing(a)'
                 /\ \A t : SaidOnce(a, t) => SaidOnce(a, t)'
                 /\ \A t, u : SaidTwice(a, t, u) => SaidTwice(a, t, u)'
  <1> DEFINE n == Len(payment_outbox)
             new == [booking_id |-> b, event_type |-> type]
  <1>1. new \in Answer /\ new.booking_id = b /\ new.event_type = type
    BY DEF Answer
  <1>2. payment_outbox' = Append(payment_outbox, new)
    BY DEF AnswerWith
  <1> HIDE DEF new
  <1>3. /\ payment_outbox' \in Seq(Answer)
        /\ n \in Nat
        /\ DOMAIN payment_outbox = 1 .. n
        /\ DOMAIN payment_outbox' = 1 .. n + 1
        /\ \A i \in 1 .. n : payment_outbox'[i] = payment_outbox[i]
        /\ payment_outbox'[n + 1] = new
    BY <1>1, <1>2
  <1> HIDE DEF n
  <1>4. /\ AnswersAbout(b)' = AnswersAbout(b) \cup {n + 1}
        /\ \A a \in Bookings \ {b} : AnswersAbout(a)' = AnswersAbout(a)
    BY <1>1, <1>3 DEF AnswersAbout
  <1>5. SaidNothing(b) => SaidOnce(b, type)'
    BY <1>1, <1>3, <1>4 DEF SaidNothing, SaidOnce
  <1>6. \A t : SaidOnce(b, t) => SaidTwice(b, t, type)'
    BY <1>1, <1>3, <1>4 DEF SaidTwice, SaidOnce
  <1>7. \A a \in Bookings \ {b} :
           /\ SaidNothing(a) => SaidNothing(a)'
           /\ \A t : SaidOnce(a, t) => SaidOnce(a, t)'
           /\ \A t, u : SaidTwice(a, t, u) => SaidTwice(a, t, u)'
    BY <1>3, <1>4 DEF SaidNothing, SaidTwice, SaidOnce
  <1> QED BY <1>3, <1>5, <1>6, <1>7

\* A pair of ledger rows.
LEMMA PairFields ==
    ASSUME NEW b \in Bookings, NEW amount \in Nat,
           NEW reason \in {"rental", "mileage_overage"}
    PROVE  LET pair == write_ledger_pair(b, amount, reason)
           IN  /\ pair \in Seq(LedgerEntry)
               /\ Len(pair) = 2
               /\ \A k \in {1, 2} : /\ pair[k].booking_id = b
                                    /\ pair[k].amount_cents = amount
                                    /\ pair[k].reason = reason
               /\ pair[1].direction = "debit"
               /\ pair[2].direction = "credit"
  BY DEF write_ledger_pair, LedgerEntry

\* A pair of rows at the end of the ledger.  (No variable is involved: the
\* two ledgers are the one before and the one after.)
LEMMA PairAppended ==
    ASSUME NEW S, NEW old \in Seq(S), NEW pair \in Seq(S), Len(pair) = 2
    PROVE  /\ old \o pair \in Seq(S)
           /\ Len(old) \in Nat
           /\ Len(old \o pair) = Len(old) + 2
           /\ DOMAIN old = 1 .. Len(old)
           /\ DOMAIN (old \o pair) = 1 .. Len(old) + 2
           /\ \A i \in 1 .. Len(old) : (old \o pair)[i] = old[i]
           /\ (old \o pair)[Len(old) + 1] = pair[1]
           /\ (old \o pair)[Len(old) + 2] = pair[2]
  <1>1. /\ old \o pair \in Seq(S)
        /\ Len(old \o pair) = Len(old) + Len(pair)
        /\ \A i \in 1 .. Len(old) + Len(pair) : (old \o pair)[i] =
               IF i <= Len(old) THEN old[i] ELSE pair[i - Len(old)]
    BY ConcatProperties
  <1>2. /\ Len(old) \in Nat
        /\ DOMAIN old = 1 .. Len(old)
    OBVIOUS
  <1>3. DOMAIN (old \o pair) = 1 .. Len(old) + 2
    BY <1>1, <1>2
  <1>4. \A i \in 1 .. Len(old) : (old \o pair)[i] = old[i]
    BY <1>1, <1>2
  <1>5. /\ (old \o pair)[Len(old) + 1] = pair[1]
        /\ (old \o pair)[Len(old) + 2] = pair[2]
    BY <1>1, <1>2
  <1> QED BY <1>1, <1>2, <1>3, <1>4, <1>5

\* What the rows of a capture are.
LedgerRow(i, b, amount, direction, reason) ==
    /\ ledger_entries'[i].booking_id = b
    /\ ledger_entries'[i].amount_cents = amount
    /\ ledger_entries'[i].direction = direction
    /\ ledger_entries'[i].reason = reason

\* What FinishCapture writes.
WritesRows(b, amount, over, charged) ==
    ledger_entries' = ledger_entries
       \o write_ledger_pair(b, amount, "rental")
       \o (IF charged THEN write_ledger_pair(b, over, "mileage_overage")
           ELSE << >>)

\* Which rows these are.
HasRows(b, amount, over, charged) ==
    \E n \in Nat :
       /\ DOMAIN ledger_entries = 1 .. n
       /\ DOMAIN ledger_entries' = 1 .. (IF charged THEN n + 4 ELSE n + 2)
       /\ \A i \in 1 .. n : ledger_entries'[i] = ledger_entries[i]
       /\ LedgerRow(n + 1, b, amount, "debit", "rental")
       /\ LedgerRow(n + 2, b, amount, "credit", "rental")
       /\ charged =>
             /\ LedgerRow(n + 3, b, over, "debit", "mileage_overage")
             /\ LedgerRow(n + 4, b, over, "credit", "mileage_overage")

\* A capture leaves the rows there are and adds two, or four when the
\* overage was charged.
LEMMA LedgerGrows ==
    ASSUME ledger_entries \in Seq(LedgerEntry),
           NEW b \in Bookings, NEW amount \in Nat, NEW over \in Nat,
           NEW charged \in BOOLEAN, WritesRows(b, amount, over, charged)
    PROVE  /\ ledger_entries' \in Seq(LedgerEntry)
           /\ HasRows(b, amount, over, charged)
  <1> DEFINE n == Len(ledger_entries)
             p1 == write_ledger_pair(b, amount, "rental")
             p2 == write_ledger_pair(b, over, "mileage_overage")
             mid == ledger_entries \o p1
  <1>1. /\ p1 \in Seq(LedgerEntry)
        /\ Len(p1) = 2
        /\ \A k \in {1, 2} : /\ p1[k].booking_id = b
                             /\ p1[k].amount_cents = amount
                             /\ p1[k].reason = "rental"
        /\ p1[1].direction = "debit"
        /\ p1[2].direction = "credit"
    BY PairFields
  <1>2. /\ p2 \in Seq(LedgerEntry)
        /\ Len(p2) = 2
        /\ \A k \in {1, 2} : /\ p2[k].booking_id = b
                             /\ p2[k].amount_cents = over
                             /\ p2[k].reason = "mileage_overage"
        /\ p2[1].direction = "debit"
        /\ p2[2].direction = "credit"
    BY PairFields
  <1>3. ledger_entries' = mid \o (IF charged THEN p2 ELSE << >>)
    BY DEF WritesRows
  <1> HIDE DEF p1, p2
  <1>4. /\ mid \in Seq(LedgerEntry)
        /\ n \in Nat
        /\ Len(mid) = n + 2
        /\ DOMAIN ledger_entries = 1 .. n
        /\ DOMAIN mid = 1 .. n + 2
        /\ \A i \in 1 .. n : mid[i] = ledger_entries[i]
        /\ mid[n + 1] = p1[1]
        /\ mid[n + 2] = p1[2]
    BY <1>1, PairAppended
  <1> HIDE DEF mid
  <1>5. CASE ~ charged
    <2>1. ledger_entries' = mid
      BY <1>3, <1>4, <1>5, ConcatEmptySeq
    <2> HIDE DEF n
    <2>2. /\ LedgerRow(n + 1, b, amount, "debit", "rental")
          /\ LedgerRow(n + 2, b, amount, "credit", "rental")
      BY <1>1, <1>4, <2>1 DEF LedgerRow
    <2>3. /\ DOMAIN ledger_entries' = 1 .. n + 2
          /\ \A i \in 1 .. n : ledger_entries'[i] = ledger_entries[i]
      BY <1>4, <2>1
    <2> QED BY <1>4, <1>5, <2>1, <2>2, <2>3 DEF HasRows
  <1>6. CASE charged
    <2>1. ledger_entries' = mid \o p2
      BY <1>3, <1>6
    <2>2. /\ mid \o p2 \in Seq(LedgerEntry)
          /\ DOMAIN (mid \o p2) = 1 .. Len(mid) + 2
          /\ \A i \in 1 .. Len(mid) : (mid \o p2)[i] = mid[i]
          /\ (mid \o p2)[Len(mid) + 1] = p2[1]
          /\ (mid \o p2)[Len(mid) + 2] = p2[2]
      BY <1>2, <1>4, PairAppended
    <2> HIDE DEF n
    <2>3. Len(mid) + 1 = n + 3 /\ Len(mid) + 2 = n + 4
      BY <1>4
    <2>4. /\ ledger_entries' \in Seq(LedgerEntry)
          /\ DOMAIN ledger_entries' = 1 .. n + 4
          /\ \A i \in 1 .. n + 2 : ledger_entries'[i] = mid[i]
          /\ ledger_entries'[n + 3] = p2[1]
          /\ ledger_entries'[n + 4] = p2[2]
      BY <1>4, <2>1, <2>2, <2>3
    <2>5. 1 .. n \subseteq 1 .. n + 2 /\ n + 1 \in 1 .. n + 2 /\ n + 2 \in 1 .. n + 2
      BY <1>4
    <2>6. \A i \in 1 .. n : ledger_entries'[i] = ledger_entries[i]
      BY <1>4, <2>4, <2>5
    <2>7. ledger_entries'[n + 1] = p1[1] /\ ledger_entries'[n + 2] = p1[2]
      BY <1>4, <2>4, <2>5
    <2>8. /\ LedgerRow(n + 1, b, amount, "debit", "rental")
          /\ LedgerRow(n + 2, b, amount, "credit", "rental")
      BY <1>1, <2>7 DEF LedgerRow
    <2>9. /\ LedgerRow(n + 3, b, over, "debit", "mileage_overage")
          /\ LedgerRow(n + 4, b, over, "credit", "mileage_overage")
      BY <1>2, <2>4 DEF LedgerRow
    <2> QED BY <1>4, <1>6, <2>4, <2>6, <2>8, <2>9 DEF HasRows
  <1> QED BY <1>5, <1>6

\* So a booking without rows gets the pairs, and the others keep theirs.
LEMMA PairsBooked ==
    ASSUME NEW b \in Bookings, NEW amount \in Nat, NEW over \in Nat,
           NEW charged \in BOOLEAN, HasRows(b, amount, over, charged),
           Booked(b, "rental") = {}, Booked(b, "mileage_overage") = {}
    PROVE  /\ \A a \in Bookings \ {b}, reason \in {"rental", "mileage_overage"} :
                 /\ Booked(a, reason)' = Booked(a, reason)
                 /\ \A i \in Booked(a, reason) :
                       ledger_entries'[i] = ledger_entries[i]
           /\ \E i \in DOMAIN ledger_entries' :
                 Booked(b, "rental")' = {i, i + 1} /\ IsPair(i, amount)'
           /\ charged => \E i \in DOMAIN ledger_entries' :
                 Booked(b, "mileage_overage")' = {i, i + 1} /\ IsPair(i, over)'
           /\ ~ charged => Booked(b, "mileage_overage")' = {}
  <1>1. PICK n \in Nat :
           /\ DOMAIN ledger_entries = 1 .. n
           /\ DOMAIN ledger_entries' = 1 .. (IF charged THEN n + 4 ELSE n + 2)
           /\ \A i \in 1 .. n : ledger_entries'[i] = ledger_entries[i]
           /\ LedgerRow(n + 1, b, amount, "debit", "rental")
           /\ LedgerRow(n + 2, b, amount, "credit", "rental")
           /\ charged =>
                 /\ LedgerRow(n + 3, b, over, "debit", "mileage_overage")
                 /\ LedgerRow(n + 4, b, over, "credit", "mileage_overage")
    BY DEF HasRows
  <1>2. \A i \in DOMAIN ledger_entries' :
           \/ i \in 1 .. n \/ i = n + 1 \/ i = n + 2
           \/ charged /\ (i = n + 3 \/ i = n + 4)
    BY <1>1
  <1>3. /\ n + 1 \in DOMAIN ledger_entries' /\ n + 2 \in DOMAIN ledger_entries'
        /\ charged => /\ n + 3 \in DOMAIN ledger_entries'
                      /\ n + 4 \in DOMAIN ledger_entries'
        /\ (n + 1) + 1 = n + 2 /\ (n + 3) + 1 = n + 4
        /\ 1 .. n \subseteq DOMAIN ledger_entries'
    BY <1>1
  <1>4. ASSUME NEW a \in Bookings \ {b}, NEW reason \in {"rental", "mileage_overage"}
        PROVE  /\ Booked(a, reason)' = Booked(a, reason)
               /\ \A i \in Booked(a, reason) : ledger_entries'[i] = ledger_entries[i]
    BY <1>1, <1>2, <1>3 DEF Booked, LedgerRow
  <1>5. \A i \in 1 .. n : ledger_entries'[i].booking_id = b =>
           ledger_entries'[i].reason \notin {"rental", "mileage_overage"}
    BY <1>1 DEF Booked
  <1>6. Booked(b, "rental")' = {n + 1, n + 2}
    BY <1>1, <1>2, <1>3, <1>5 DEF Booked, LedgerRow
  <1>7. Booked(b, "mileage_overage")' = IF charged THEN {n + 3, n + 4} ELSE {}
    BY <1>1, <1>2, <1>3, <1>5 DEF Booked, LedgerRow
  <1>8. IsPair(n + 1, amount)' /\ (charged => IsPair(n + 3, over)')
    BY <1>1, <1>3 DEF IsPair, LedgerRow
  <1> QED BY <1>3, <1>4, <1>6, <1>7, <1>8

\* What every commit does, whatever the handler wrote about its booking.
LEMMA CommitFrame ==
    ASSUME IInv, NEW c \in Consumers, handling[c] # NULL,
           handling' = [handling EXCEPT ![c] = NULL],
           payment_inbox' = payment_inbox \cup {handling[c].id},
           UNCHANGED <<commands, stripe>>,
           \A a \in Bookings : a # commands[handling[c].id].booking_id =>
                payments'[a] = payments[a]
    PROVE  /\ handling' \in [Consumers -> Handling \cup {NULL}]
           /\ payment_inbox' \subseteq DOMAIN commands'
           /\ \A j : IsNext(j) /\ j # handling[c].id => IsNext(j)'
           /\ HandlesNext'
           /\ ReadIsCurrent'
           /\ AnswersAreReal'
           /\ KeysAreUsedOnce'
           /\ OneAmount'
  <1>1. /\ handling' \in [Consumers -> Handling \cup {NULL}]
        /\ handling'[c] = NULL
        /\ \A d \in Consumers \ {c} : handling'[d] = handling[d]
    BY DEF IInv, TypeOK
  <1>2. payment_inbox' \subseteq DOMAIN commands'
    BY HandlerFields DEF IInv, TypeOK
  <1>3. \A j : IsNext(j) /\ j # handling[c].id => IsNext(j)'
    BY DEF IsNext, InOrder
  <1>4. \A d \in Consumers : handling'[d] # NULL =>
          /\ d # c
          /\ handling[d] # NULL
          /\ handling'[d] = handling[d]
          /\ handling[d].id # handling[c].id
          /\ commands[handling[d].id].booking_id
                # commands[handling[c].id].booking_id
    BY <1>1, HandlersAreApart
  <1>5. HandlesNext'
    BY <1>3, <1>4 DEF IInv, HandlesNext
  <1>6. ReadIsCurrent'
    <2> SUFFICES ASSUME NEW d \in Consumers, handling'[d] # NULL
                 PROVE  handling[d].payment =
                           payments'[commands[handling[d].id].booking_id]
      BY <1>4 DEF ReadIsCurrent, BookingOf
    <2>1. commands[handling[d].id].booking_id \in Bookings
      BY <1>4, HandlerFields, CommandFields DEF IInv
    <2> QED BY <1>4, <2>1, HandlerFields
  <1>7. AnswersAreReal'
    BY <1>4, HandlerFields DEF AnswersAreReal, AnswerIsReal, BookingOf, Proceeds
  <1>8. KeysAreUsedOnce' /\ OneAmount'
    BY DEF IInv, KeysAreUsedOnce, OneAmount
  <1> QED BY <1>1, <1>2, <1>3, <1>5, <1>6, <1>7, <1>8

\* After a commit that ends the payment, or makes it, captures are pending
\* only where they were.
LEMMA PendingAfter ==
    ASSUME IInv, NEW b \in Bookings, UNCHANGED <<commands, stripe>>,
           \A a \in Bookings \ {b} : payments'[a] = payments[a],
           \A j : IsNext(j) /\ commands[j].booking_id # b => IsNext(j)',
           \/ payments[b] = NULL
           \/ /\ payments'[b] # NULL
              /\ payments'[b].status \in {"captured", "capture_failed"}
    PROVE  CaptureIsPending'
  <1> SUFFICES ASSUME NEW x \in stripe, x.call # "authorize"
               PROVE  /\ payments'[x.booking_id] # NULL
                      /\ payments'[x.booking_id].status # "authorization_failed"
                      /\ payments'[x.booking_id].status = "authorized" =>
                           \E i \in DOMAIN commands :
                              /\ IsNext(i)'
                              /\ commands[i].booking_id = x.booking_id
                              /\ commands[i].event_type = "capture_payment_requested"
                              /\ x.call = "overage" =>
                                    commands[i].overage_cents = x.amount
    BY DEF CaptureIsPending
  <1>1. x.booking_id \in Bookings
    BY DEF IInv, TypeOK, Execution
  <1>2. CASE x.booking_id = b
    BY <1>2 DEF IInv, CaptureIsPending
  <1>3. CASE x.booking_id # b
    BY <1>1, <1>3 DEF IInv, CaptureIsPending
  <1> QED BY <1>2, <1>3

\* A handler that goes on and is through has been answered.
LEMMA CommitDone ==
    ASSUME NEW c \in Consumers, handling[c] # NULL, NextCall(handling[c]) = NULL,
           Proceeds(handling[c]), IInv
    PROVE  handling[c].hold \in {"ok", "error"}
  <1>1. handling[c].hold # NULL
    BY NullAssumption DEF NextCall, Proceeds, Calls
  <1> QED BY <1>1, HandlerFields

\* Committing a command whose handler returns early keeps the invariant.
LEMMA SkipStep ==
    ASSUME IInv, NEW c \in Consumers, Commit(c), ~ Proceeds(handling[c])
    PROVE  IInv'
  <1> DEFINE h == handling[c]
  <1>1. /\ h # NULL
        /\ handling' = [handling EXCEPT ![c] = NULL]
        /\ payment_inbox' = payment_inbox \cup {h.id}
        /\ UNCHANGED <<commands, stripe, payments, ledger_entries, payment_outbox>>
    BY DEF Commit
  <1>2. /\ handling' \in [Consumers -> Handling \cup {NULL}]
        /\ payment_inbox' \subseteq DOMAIN commands'
        /\ \A j : IsNext(j) /\ j # h.id => IsNext(j)'
        /\ HandlesNext'
        /\ ReadIsCurrent'
        /\ AnswersAreReal'
        /\ KeysAreUsedOnce'
        /\ OneAmount'
    BY <1>1, CommitFrame
  <1>3. TypeOK'
    BY <1>1, <1>2 DEF IInv, TypeOK
  <1>4. CaptureIsPending'
    <2> SUFFICES ASSUME NEW x \in stripe, x.call # "authorize",
                        payments[x.booking_id].status = "authorized"
                 PROVE  \E i \in DOMAIN commands :
                              /\ IsNext(i)'
                              /\ commands[i].booking_id = x.booking_id
                              /\ commands[i].event_type = "capture_payment_requested"
                              /\ x.call = "overage" =>
                                    commands[i].overage_cents = x.amount
      BY <1>1 DEF IInv, CaptureIsPending
    <2>1. PICK i \in DOMAIN commands :
             /\ IsNext(i)
             /\ commands[i].booking_id = x.booking_id
             /\ commands[i].event_type = "capture_payment_requested"
             /\ x.call = "overage" => commands[i].overage_cents = x.amount
      BY DEF IInv, CaptureIsPending
    <2>2. payments[x.booking_id] # NULL
      BY DEF IInv, CaptureIsPending
    <2>3. i # h.id
      BY <1>1, <2>1, <2>2, HandlerFields DEF Proceeds
    <2> QED BY <1>2, <2>1, <2>3
  <1>5. PairsAreBacked' /\ CapturedIsBooked'
    BY <1>1 DEF IInv, PairsAreBacked, CapturedIsBooked, Booked, Successes, IsPair
  <1>6. AnswersFollowStatus'
    BY <1>1 DEF IInv, AnswersFollowStatus, SaidNothing, SaidOnce, SaidTwice,
                AnswersAbout
  <1> QED BY <1>2, <1>3, <1>4, <1>5, <1>6 DEF IInv

\* What the three commits that write about their booking have in common.
LEMMA WriteFrame ==
    ASSUME IInv, NEW c \in Consumers, Commit(c),
           NEW b \in Bookings, b = commands[handling[c].id].booking_id,
           payments' \in [Bookings -> PaymentRow \cup {NULL}],
           \A a \in Bookings \ {b} : payments'[a] = payments[a],
           payments'[b].hold_amount_cents <= MaxInteger,
           payments'[b].overage_cents <= MaxInteger
    PROVE  /\ (/\ ledger_entries' \in Seq(LedgerEntry)
               /\ payment_outbox' \in Seq(Answer)) => TypeOK'
           /\ \A j : IsNext(j) /\ commands[j].booking_id # b => IsNext(j)'
           /\ HandlesNext'
           /\ ReadIsCurrent'
           /\ AnswersAreReal'
           /\ KeysAreUsedOnce'
           /\ OneAmount'
  <1> DEFINE h == handling[c]
  <1>1. /\ h # NULL
        /\ handling' = [handling EXCEPT ![c] = NULL]
        /\ payment_inbox' = payment_inbox \cup {h.id}
        /\ UNCHANGED <<commands, stripe>>
    BY DEF Commit
  <1>2. /\ handling' \in [Consumers -> Handling \cup {NULL}]
        /\ payment_inbox' \subseteq DOMAIN commands'
        /\ \A j : IsNext(j) /\ j # h.id => IsNext(j)'
        /\ HandlesNext'
        /\ ReadIsCurrent'
        /\ AnswersAreReal'
        /\ KeysAreUsedOnce'
        /\ OneAmount'
    BY <1>1, CommitFrame
  <1>3. \A a \in Bookings : payments'[a] # NULL =>
           /\ payments'[a].hold_amount_cents <= MaxInteger
           /\ payments'[a].overage_cents <= MaxInteger
    BY DEF IInv, TypeOK
  <1>4. (/\ ledger_entries' \in Seq(LedgerEntry)
         /\ payment_outbox' \in Seq(Answer)) => TypeOK'
    BY <1>1, <1>2, <1>3 DEF IInv, TypeOK
  <1> QED BY <1>2, <1>4

\* Committing an authorization keeps the invariant.
LEMMA AuthorizeStep ==
    ASSUME IInv, NEW c \in Consumers, Commit(c), Proceeds(handling[c]),
           commands[handling[c].id].event_type = "authorize_payment_requested"
    PROVE  IInv'
  <1> DEFINE h == handling[c]
             cmd == commands[h.id]
             ok == h.hold = "ok"
             row == [status |-> IF ok THEN "authorized" ELSE "authorization_failed",
                     hold_amount_cents |-> cmd.amount_cents, overage_cents |-> 0,
                     stripe_payment_intent_id |-> ok,
                     stripe_overage_intent_id |-> FALSE]
  <1>b. PICK b : b = cmd.booking_id
    OBVIOUS
  <1>t. PICK type : type = IF ok THEN "payment_authorized"
                           ELSE "payment_authorization_failed"
    OBVIOUS
  <1>1. /\ h # NULL
        /\ UNCHANGED <<commands, stripe, ledger_entries>>
        /\ payments[b] = NULL
        /\ cmd.amount_cents <= MaxInteger
        /\ payments' = [payments EXCEPT ![b] = row]
        /\ payment_outbox' = AnswerWith(b, type)
    BY <1>b, <1>t DEF Commit, FinishAuthorize, FitsInteger, Authorized
  <1>2. b \in Bookings /\ cmd.amount_cents \in Nat
    BY <1>b, <1>1, HandlerFields, CommandFields DEF IInv
  <1>3. /\ row \in PaymentRow
        /\ row.status = IF ok THEN "authorized" ELSE "authorization_failed"
        /\ row.hold_amount_cents <= MaxInteger
        /\ row.overage_cents <= MaxInteger
    BY <1>1, <1>2, PaymentConstants DEF PaymentRow
  <1>4. row # NULL
    BY <1>3, RowFields
  <1> HIDE DEF row
  <1>5. /\ payments' \in [Bookings -> PaymentRow \cup {NULL}]
        /\ payments'[b] = row
        /\ \A a \in Bookings \ {b} : payments'[a] = payments[a]
    BY <1>1, <1>2, <1>3 DEF IInv, TypeOK
  <1>6. /\ (/\ ledger_entries' \in Seq(LedgerEntry)
            /\ payment_outbox' \in Seq(Answer)) => TypeOK'
        /\ \A j : IsNext(j) /\ commands[j].booking_id # b => IsNext(j)'
        /\ HandlesNext'
        /\ ReadIsCurrent'
        /\ AnswersAreReal'
        /\ KeysAreUsedOnce'
        /\ OneAmount'
    BY <1>b, <1>2, <1>3, <1>5, WriteFrame
  <1>7. /\ payment_outbox \in Seq(Answer)
        /\ type \in {"payment_authorized", "payment_authorization_failed",
                     "payment_captured", "payment_capture_failed"}
    BY <1>t DEF IInv, TypeOK
  <1> HIDE DEF ok
  <1>8. /\ payment_outbox' \in Seq(Answer)
        /\ SaidNothing(b) => SaidOnce(b, type)'
        /\ \A a \in Bookings \ {b} :
              /\ SaidNothing(a) => SaidNothing(a)'
              /\ \A t : SaidOnce(a, t) => SaidOnce(a, t)'
              /\ \A t, u : SaidTwice(a, t, u) => SaidTwice(a, t, u)'
    BY <1>1, <1>2, <1>7, OneMoreAnswer
  <1>9. TypeOK'
    BY <1>1, <1>6, <1>8 DEF IInv, TypeOK
  <1>10. CaptureIsPending'
    BY <1>1, <1>2, <1>5, <1>6, PendingAfter
  <1>11. \A a \in Bookings, reason \in {"rental", "mileage_overage"} :
            Booked(a, reason)' = Booked(a, reason)
    BY <1>1 DEF Booked
  <1>12. \A reason \in {"rental", "mileage_overage"} : Booked(b, reason) = {}
    BY <1>1, <1>2 DEF IInv, PairsAreBacked
  <1>13. PairsAreBacked'
    <2> SUFFICES ASSUME NEW a \in Bookings,
                        NEW reason \in {"rental", "mileage_overage"},
                        Booked(a, reason) # {}
                 PROVE  /\ payments'[a] # NULL
                        /\ payments'[a].status = "captured"
                        /\ \E x \in Successes(a, CallOf(reason)),
                              i \in DOMAIN ledger_entries :
                              Booked(a, reason) = {i, i + 1} /\ IsPair(i, x.amount)
      BY <1>1, <1>11 DEF PairsAreBacked, Successes, IsPair
    <2>1. a # b
      BY <1>12
    <2> QED BY <2>1, <1>5 DEF IInv, PairsAreBacked
  <1>14. CapturedIsBooked'
    <2> SUFFICES ASSUME NEW a \in Bookings, payments'[a] # NULL,
                        payments'[a].status = "captured"
                 PROVE  Booked(a, "rental") # {}
      BY <1>11 DEF CapturedIsBooked
    <2>1. a # b
      BY <1>3, <1>5
    <2> QED BY <2>1, <1>5 DEF IInv, CapturedIsBooked
  <1>15. AnswersFollowStatus'
    <2>1. SaidOnce(b, type)'
      BY <1>1, <1>2, <1>8 DEF IInv, AnswersFollowStatus
    <2>2. ASSUME NEW a \in Bookings
          PROVE  /\ payments'[a] = NULL => SaidNothing(a)'
                 /\ payments'[a] # NULL =>
                       /\ payments'[a].status = "authorized" =>
                             SaidOnce(a, "payment_authorized")'
                       /\ payments'[a].status = "authorization_failed" =>
                             SaidOnce(a, "payment_authorization_failed")'
                       /\ payments'[a].status = "captured" =>
                             SaidTwice(a, "payment_authorized", "payment_captured")'
                       /\ payments'[a].status = "capture_failed" =>
                             SaidTwice(a, "payment_authorized",
                                          "payment_capture_failed")'
      <3>1. CASE a = b
        BY <3>1, <2>1, <1>3, <1>4, <1>5, <1>t
      <3>2. CASE a # b
        BY <3>2, <1>5, <1>8 DEF IInv, AnswersFollowStatus
      <3> QED BY <3>1, <3>2
    <2> QED BY <2>2 DEF AnswersFollowStatus
  <1> QED BY <1>9, <1>10, <1>13, <1>14, <1>15, <1>6 DEF IInv

\* A booking whose payment ends has been told the outcome, the others hear
\* nothing new.
LEMMA AnsweredAfter ==
    ASSUME IInv, NEW b \in Bookings,
           payments[b] # NULL, payments[b].status = "authorized",
           \A a \in Bookings \ {b} : payments'[a] = payments[a],
           payments'[b] # NULL,
           NEW type \in {"payment_captured", "payment_capture_failed"},
           payments'[b].status = IF type = "payment_captured" THEN "captured"
                                 ELSE "capture_failed",
           payment_outbox' = AnswerWith(b, type)
    PROVE  payment_outbox' \in Seq(Answer) /\ AnswersFollowStatus'
  <1>1. /\ payment_outbox' \in Seq(Answer)
        /\ \A t : SaidOnce(b, t) => SaidTwice(b, t, type)'
        /\ \A a \in Bookings \ {b} :
              /\ SaidNothing(a) => SaidNothing(a)'
              /\ \A t : SaidOnce(a, t) => SaidOnce(a, t)'
              /\ \A t, u : SaidTwice(a, t, u) => SaidTwice(a, t, u)'
    BY OneMoreAnswer DEF IInv, TypeOK
  <1>2. SaidTwice(b, "payment_authorized", type)'
    BY <1>1 DEF IInv, AnswersFollowStatus
  <1>3. ASSUME NEW a \in Bookings
        PROVE  /\ payments'[a] = NULL => SaidNothing(a)'
               /\ payments'[a] # NULL =>
                     /\ payments'[a].status = "authorized" =>
                           SaidOnce(a, "payment_authorized")'
                     /\ payments'[a].status = "authorization_failed" =>
                           SaidOnce(a, "payment_authorization_failed")'
                     /\ payments'[a].status = "captured" =>
                           SaidTwice(a, "payment_authorized", "payment_captured")'
                     /\ payments'[a].status = "capture_failed" =>
                           SaidTwice(a, "payment_authorized",
                                        "payment_capture_failed")'
    <2>1. CASE a = b
      BY <2>1, <1>2
    <2>2. CASE a # b
      BY <2>2, <1>1 DEF IInv, AnswersFollowStatus
    <2> QED BY <2>1, <2>2
  <1> QED BY <1>1, <1>3 DEF AnswersFollowStatus

\* A capture finds an authorized payment, of a booking without ledger rows.
LEMMA CaptureFacts ==
    ASSUME IInv, NEW c \in Consumers, Commit(c), Proceeds(handling[c]),
           commands[handling[c].id].event_type = "capture_payment_requested"
    PROVE  LET h == handling[c]
               cmd == commands[h.id]
               b == cmd.booking_id
           IN  /\ h # NULL
               /\ UNCHANGED <<commands, stripe>>
               /\ FinishCapture(h, cmd)
               /\ h.hold \in {"ok", "error"}
               /\ h.overage \in {"ok", "error", NULL}
               /\ AnswerIsReal(h)
               /\ h.id \in DOMAIN commands
               /\ b \in Bookings
               /\ cmd.amount_cents \in Nat
               /\ cmd.overage_cents \in Nat
               /\ payments[b] \in PaymentRow
               /\ payments[b] # NULL
               /\ payments[b].status = "authorized"
               /\ payments[b].hold_amount_cents <= MaxInteger
               /\ payments[b].overage_cents <= MaxInteger
               /\ \A reason \in {"rental", "mileage_overage"} :
                     Booked(b, reason) = {}
  <1> DEFINE h == handling[c]
             cmd == commands[h.id]
             b == cmd.booking_id
  <1>1. /\ h # NULL
        /\ UNCHANGED <<commands, stripe>>
        /\ NextCall(h) = NULL
        /\ FinishCapture(h, cmd)
    BY DEF Commit
  <1>2. h.hold \in {"ok", "error"}
    BY <1>1, CommitDone
  <1>3. /\ h.overage \in {"ok", "error", NULL}
        /\ AnswerIsReal(h)
        /\ h.id \in DOMAIN commands
    BY <1>1, HandlerFields
  <1>4. /\ b \in Bookings
        /\ cmd.amount_cents \in Nat
        /\ cmd.overage_cents \in Nat
        /\ payments[b] \in PaymentRow \cup {NULL}
    BY <1>3, CommandFields DEF IInv
  <1>5. payments[b] # NULL /\ payments[b].status = "authorized"
    BY <1>1, ProceedsOn
  <1>6. /\ payments[b].hold_amount_cents <= MaxInteger
        /\ payments[b].overage_cents <= MaxInteger
    BY <1>4, <1>5 DEF IInv, TypeOK
  <1>7. \A reason \in {"rental", "mileage_overage"} : Booked(b, reason) = {}
    BY <1>4, <1>5 DEF IInv, PairsAreBacked
  <1> QED BY <1>1, <1>2, <1>3, <1>4, <1>5, <1>6, <1>7

\* Committing a capture that is answered as failed keeps the invariant.
LEMMA FailStep ==
    ASSUME IInv, NEW c \in Consumers, Commit(c), Proceeds(handling[c]),
           commands[handling[c].id].event_type = "capture_payment_requested",
           handling[c].hold = "error"
    PROVE  IInv'
  <1> DEFINE h == handling[c]
             cmd == commands[h.id]
  <1>b. PICK b : b = cmd.booking_id
    OBVIOUS
  <1>1. /\ UNCHANGED <<commands, stripe>>
        /\ FinishCapture(h, cmd)
        /\ b \in Bookings
        /\ payments[b] \in PaymentRow
        /\ payments[b] # NULL
        /\ payments[b].status = "authorized"
        /\ payments[b].hold_amount_cents <= MaxInteger
        /\ payments[b].overage_cents <= MaxInteger
        /\ \A reason \in {"rental", "mileage_overage"} : Booked(b, reason) = {}
    BY <1>b, CaptureFacts
  <1>2. /\ payments' = [payments EXCEPT ![b].status = "capture_failed"]
        /\ payment_outbox' = AnswerWith(b, "payment_capture_failed")
        /\ UNCHANGED ledger_entries
    BY <1>1, <1>b DEF FinishCapture
  <1>3. /\ payments' \in [Bookings -> PaymentRow \cup {NULL}]
        /\ payments'[b] \in PaymentRow
        /\ payments'[b].status = "capture_failed"
        /\ payments'[b].hold_amount_cents = payments[b].hold_amount_cents
        /\ payments'[b].overage_cents = payments[b].overage_cents
        /\ \A a \in Bookings \ {b} : payments'[a] = payments[a]
    <2> DEFINE row == [payments[b] EXCEPT !.status = "capture_failed"]
    <2>1. /\ row \in PaymentRow
          /\ row.status = "capture_failed"
          /\ row.hold_amount_cents = payments[b].hold_amount_cents
          /\ row.overage_cents = payments[b].overage_cents
      BY <1>1 DEF PaymentRow
    <2>2. payments' = [payments EXCEPT ![b] = row]
      BY <1>2
    <2> HIDE DEF row
    <2> QED BY <1>1, <2>1, <2>2 DEF IInv, TypeOK
  <1>4. payments'[b] # NULL
    BY <1>3, RowFields
  <1>5. /\ (/\ ledger_entries' \in Seq(LedgerEntry)
            /\ payment_outbox' \in Seq(Answer)) => TypeOK'
        /\ \A j : IsNext(j) /\ commands[j].booking_id # b => IsNext(j)'
        /\ HandlesNext'
        /\ ReadIsCurrent'
        /\ AnswersAreReal'
        /\ KeysAreUsedOnce'
        /\ OneAmount'
    BY <1>b, <1>1, <1>3, WriteFrame
  <1>6. payment_outbox' \in Seq(Answer) /\ AnswersFollowStatus'
    BY <1>1, <1>2, <1>3, <1>4, AnsweredAfter
  <1>7. TypeOK'
    BY <1>2, <1>5, <1>6 DEF IInv, TypeOK
  <1>8. CaptureIsPending'
    BY <1>1, <1>3, <1>4, <1>5, PendingAfter
  <1>9. \A a \in Bookings, reason \in {"rental", "mileage_overage"} :
            Booked(a, reason)' = Booked(a, reason)
    BY <1>2 DEF Booked
  <1>10. PairsAreBacked'
    <2> SUFFICES ASSUME NEW a \in Bookings,
                        NEW reason \in {"rental", "mileage_overage"},
                        Booked(a, reason) # {}
                 PROVE  /\ payments'[a] # NULL
                        /\ payments'[a].status = "captured"
                        /\ \E x \in Successes(a, CallOf(reason)),
                              i \in DOMAIN ledger_entries :
                              Booked(a, reason) = {i, i + 1} /\ IsPair(i, x.amount)
      BY <1>1, <1>2, <1>9 DEF PairsAreBacked, Successes, IsPair
    <2>1. a # b
      BY <1>1
    <2> QED BY <2>1, <1>3 DEF IInv, PairsAreBacked
  <1>11. CapturedIsBooked'
    <2> SUFFICES ASSUME NEW a \in Bookings, payments'[a] # NULL,
                        payments'[a].status = "captured"
                 PROVE  Booked(a, "rental") # {}
      BY <1>9 DEF CapturedIsBooked
    <2>1. a # b
      BY <1>3
    <2> QED BY <2>1, <1>3 DEF IInv, CapturedIsBooked
  <1> QED BY <1>5, <1>6, <1>7, <1>8, <1>10, <1>11 DEF IInv

\* Committing a successful capture keeps the invariant.
LEMMA CaptureStep ==
    ASSUME IInv, NEW c \in Consumers, Commit(c), Proceeds(handling[c]),
           commands[handling[c].id].event_type = "capture_payment_requested",
           handling[c].hold # "error"
    PROVE  IInv'
  <1> DEFINE h == handling[c]
             cmd == commands[h.id]
  <1>b. PICK b, amount, over, charged :
          /\ b = cmd.booking_id
          /\ amount = cmd.amount_cents
          /\ over = cmd.overage_cents
          /\ charged = (h.overage = "ok")
    OBVIOUS
  <1>1. /\ UNCHANGED <<commands, stripe>>
        /\ FinishCapture(h, cmd)
        /\ h.hold = "ok"
        /\ AnswerIsReal(h)
        /\ h.id \in DOMAIN commands
        /\ b \in Bookings
        /\ amount \in Nat
        /\ over \in Nat
        /\ charged \in BOOLEAN
        /\ payments[b] \in PaymentRow
        /\ payments[b] # NULL
        /\ payments[b].status = "authorized"
        /\ payments[b].hold_amount_cents <= MaxInteger
        /\ payments[b].overage_cents <= MaxInteger
        /\ Booked(b, "rental") = {}
        /\ Booked(b, "mileage_overage") = {}
    BY <1>b, CaptureFacts
  <1>2. /\ charged => over <= MaxInteger
        /\ WritesRows(b, amount, over, charged)
        /\ payments' = [payments EXCEPT
              ![b].status = "captured",
              ![b].overage_cents = IF charged THEN over ELSE @,
              ![b].stripe_overage_intent_id = charged]
        /\ payment_outbox' = AnswerWith(b, "payment_captured")
    BY <1>b, <1>1 DEF FinishCapture, FitsInteger, OverageCharged, WritesRows
  <1>3. /\ payments' \in [Bookings -> PaymentRow \cup {NULL}]
        /\ payments'[b] \in PaymentRow
        /\ payments'[b].status = "captured"
        /\ payments'[b].hold_amount_cents = payments[b].hold_amount_cents
        /\ payments'[b].overage_cents = IF charged THEN over
                                        ELSE payments[b].overage_cents
        /\ \A a \in Bookings \ {b} : payments'[a] = payments[a]
    <2> DEFINE row == [payments[b] EXCEPT !.status = "captured",
                          !.overage_cents = IF charged THEN over ELSE @,
                          !.stripe_overage_intent_id = charged]
    <2>1. /\ row \in PaymentRow
          /\ row.status = "captured"
          /\ row.hold_amount_cents = payments[b].hold_amount_cents
          /\ row.overage_cents = IF charged THEN over ELSE payments[b].overage_cents
      BY <1>1 DEF PaymentRow
    <2>2. payments \in [Bookings -> PaymentRow \cup {NULL}]
      BY DEF IInv, TypeOK
    <2>3. payments' = [payments EXCEPT ![b] = row]
      BY <1>1, <1>2, <2>2 DEF PaymentRow
    <2> HIDE DEF row
    <2> QED BY <1>1, <2>1, <2>2, <2>3
  <1>4. payments'[b] # NULL
    BY <1>3, RowFields
  <1>5. /\ (/\ ledger_entries' \in Seq(LedgerEntry)
            /\ payment_outbox' \in Seq(Answer)) => TypeOK'
        /\ \A j : IsNext(j) /\ commands[j].booking_id # b => IsNext(j)'
        /\ HandlesNext'
        /\ ReadIsCurrent'
        /\ AnswersAreReal'
        /\ KeysAreUsedOnce'
        /\ OneAmount'
    <2>1. /\ payments'[b].hold_amount_cents <= MaxInteger
          /\ payments'[b].overage_cents <= MaxInteger
      BY <1>1, <1>2, <1>3
    <2> QED BY <1>b, <1>1, <1>3, <2>1, WriteFrame
  <1>6. payment_outbox' \in Seq(Answer) /\ AnswersFollowStatus'
    BY <1>1, <1>2, <1>3, <1>4, AnsweredAfter
  <1>7. /\ ledger_entries' \in Seq(LedgerEntry)
        /\ HasRows(b, amount, over, charged)
    <2>1. ledger_entries \in Seq(LedgerEntry)
      BY DEF IInv, TypeOK
    <2> QED BY <1>1, <1>2, <2>1, LedgerGrows
  <1>8. /\ \A a \in Bookings \ {b}, reason \in {"rental", "mileage_overage"} :
              /\ Booked(a, reason)' = Booked(a, reason)
              /\ \A i \in Booked(a, reason) : ledger_entries'[i] = ledger_entries[i]
        /\ \E i \in DOMAIN ledger_entries' :
              Booked(b, "rental")' = {i, i + 1} /\ IsPair(i, amount)'
        /\ charged => \E i \in DOMAIN ledger_entries' :
              Booked(b, "mileage_overage")' = {i, i + 1} /\ IsPair(i, over)'
        /\ ~ charged => Booked(b, "mileage_overage")' = {}
    <2>1. /\ b \in Bookings /\ amount \in Nat /\ over \in Nat
          /\ charged \in BOOLEAN /\ HasRows(b, amount, over, charged)
          /\ Booked(b, "rental") = {} /\ Booked(b, "mileage_overage") = {}
      BY <1>1, <1>7
    <2> QED BY <2>1, PairsBooked
  <1>9. TypeOK'
    BY <1>5, <1>6, <1>7
  <1>10. CaptureIsPending'
    BY <1>1, <1>3, <1>4, <1>5, PendingAfter
  <1>11. \E x \in stripe : /\ x.booking_id = b /\ x.call = "capture"
                           /\ x.result = "ok" /\ x.amount = amount
    <2>1. PICK x \in stripe : /\ x.booking_id = b /\ x.call = "capture"
                              /\ x.result = "ok"
      BY <1>1, <1>b DEF AnswerIsReal, BookingOf
    <2>2. PICK i \in DOMAIN commands : /\ commands[i].booking_id = b
                                       /\ IsCommand(commands[i])
                                       /\ commands[i].amount_cents = x.amount
      BY <2>1 DEF IInv, OneAmount
    <2>3. IsCommand(cmd)
      BY DEF IsCommand
    <2>4. amount = x.amount
      BY <1>1, <1>b, <2>2, <2>3 DEF IInv, OneAmount
    <2> QED BY <2>1, <2>4
  <1>12. charged => \E x \in stripe : /\ x.booking_id = b /\ x.call = "overage"
                                      /\ x.result = "ok" /\ x.amount = over
    BY <1>1, <1>b DEF AnswerIsReal, BookingOf
  <1>13. PairsAreBacked'
    <2> SUFFICES ASSUME NEW a \in Bookings,
                        NEW reason \in {"rental", "mileage_overage"},
                        Booked(a, reason)' # {}
                 PROVE  /\ payments'[a] # NULL
                        /\ payments'[a].status = "captured"
                        /\ \E x \in Successes(a, CallOf(reason)),
                              i \in DOMAIN ledger_entries' :
                              Booked(a, reason)' = {i, i + 1} /\ IsPair(i, x.amount)'
      BY <1>1 DEF PairsAreBacked, Successes
    <2>1. CASE a = b
      <3>1. CASE reason = "rental"
        BY <2>1, <3>1, <1>3, <1>4, <1>8, <1>11 DEF Successes, CallOf
      <3>2. CASE reason = "mileage_overage"
        <4>1. charged
          BY <2>1, <3>2, <1>8
        <4> QED BY <2>1, <3>2, <4>1, <1>3, <1>4, <1>8, <1>12
                DEF Successes, CallOf
      <3> QED BY <3>1, <3>2
    <2>2. CASE a # b
      <3>1. Booked(a, reason)' = Booked(a, reason)
        BY <2>2, <1>8
      <3>2. PICK x \in Successes(a, CallOf(reason)), i \in DOMAIN ledger_entries :
               Booked(a, reason) = {i, i + 1} /\ IsPair(i, x.amount)
        BY <3>1 DEF IInv, PairsAreBacked
      <3>3. /\ i \in DOMAIN ledger_entries'
            /\ ledger_entries'[i] = ledger_entries[i]
            /\ ledger_entries'[i + 1] = ledger_entries[i + 1]
        <4>1. i \in Booked(a, reason) /\ i + 1 \in Booked(a, reason)
          BY <3>2
        <4>2. i \in Booked(a, reason)'
          BY <3>1, <4>1
        <4> QED BY <2>2, <4>1, <4>2, <1>8 DEF Booked
      <3>4. IsPair(i, x.amount)'
        BY <3>2, <3>3 DEF IsPair
      <3>5. /\ payments'[a] # NULL
            /\ payments'[a].status = "captured"
        BY <2>2, <3>1, <1>3 DEF IInv, PairsAreBacked
      <3> QED BY <3>1, <3>2, <3>3, <3>4, <3>5
    <2> QED BY <2>1, <2>2
  <1>14. CapturedIsBooked'
    <2> SUFFICES ASSUME NEW a \in Bookings, payments'[a] # NULL,
                        payments'[a].status = "captured"
                 PROVE  Booked(a, "rental")' # {}
      BY DEF CapturedIsBooked
    <2>1. CASE a = b
      BY <2>1, <1>8
    <2>2. CASE a # b
      BY <2>2, <1>3, <1>8 DEF IInv, CapturedIsBooked
    <2> QED BY <2>1, <2>2
  <1> QED BY <1>5, <1>6, <1>9, <1>10, <1>13, <1>14 DEF IInv

\* Every commit keeps the invariant: the four cases above.
LEMMA CommitStep ==
    ASSUME IInv, NEW c \in Consumers, Commit(c)
    PROVE  IInv'
  <1>1. Proceeds(handling[c]) =>
           commands[handling[c].id].event_type \in
              {"authorize_payment_requested", "capture_payment_requested"}
    BY DEF Proceeds
  <1> QED BY <1>1, SkipStep, AuthorizeStep, FailStep, CaptureStep

\* Every step of payment keeps the invariant: one case per action.
LEMMA NextStep == IInv /\ [Next]_vars => IInv'
  <1> SUFFICES ASSUME IInv, [Next]_vars PROVE IInv'
    OBVIOUS
  <1>1. ASSUME NEW cmd \in Command, Send(cmd) PROVE IInv'
    BY <1>1, SendStep
  <1>2. ASSUME NEW c \in Consumers, NEW i \in 1 .. Len(commands), Claim(c, i)
        PROVE  IInv'
    BY <1>2, ClaimStep
  <1>3. ASSUME NEW c \in Consumers, CallStripe(c) PROVE IInv'
    BY <1>3, CallStep
  <1>4. ASSUME NEW c \in Consumers, Commit(c) PROVE IInv'
    BY <1>4, CommitStep
  <1>5. ASSUME NEW c \in Consumers, Rollback(c) PROVE IInv'
    BY <1>5, RollbackStep
  <1>6. CASE UNCHANGED vars
    <2>1. UNCHANGED <<commands, payments, ledger_entries, payment_outbox,
                      payment_inbox, stripe, handling>>
      BY <1>6 DEF vars
    <2>2. TypeOK'
      BY <2>1 DEF IInv, TypeOK
    <2>3. HandlesNext' /\ ReadIsCurrent'
      BY <2>1 DEF IInv, HandlesNext, ReadIsCurrent, IsNext, InOrder, BookingOf
    <2>4. AnswersAreReal'
      BY <2>1 DEF IInv, AnswersAreReal, AnswerIsReal, Proceeds, BookingOf
    <2> QED BY <2>1, <2>2, <2>3, <2>4, RestStands DEF IInv
  <1> QED BY <1>1, <1>2, <1>3, <1>4, <1>5, <1>6 DEF Next
-----------------------------------------------------------------------------
(* The theorems.                                                           *)

\* The invariant of the payment service: whatever is delivered again,
\* wherever a consumer fails.
THEOREM Invariance == Spec => []IInv
  BY InitIInv, NextStep, PTL DEF Spec

\* Stripe executes at most one hold, one capture and one overage charge for
\* a booking, because the idempotency keys of service.py:28, 80 and 110 are
\* functions of the booking alone.
THEOREM ChargesOnce == Spec => []ChargedAtMostOnce
  <1>1. IInv => ChargedAtMostOnce
    <2> SUFFICES ASSUME IInv, NEW b \in Bookings, NEW call \in Calls
                 PROVE  Cardinality(Successes(b, call)) <= 1
      BY DEF ChargedAtMostOnce
    <2>1. \A x, y \in Successes(b, call) : x = y
      BY DEF IInv, KeysAreUsedOnce, Successes
    <2>2. CASE Successes(b, call) = {}
      BY <2>2, FS_EmptySet
    <2>3. ASSUME NEW x \in Successes(b, call)
          PROVE  Cardinality(Successes(b, call)) <= 1
      <3>1. Successes(b, call) = {x}
        BY <2>1
      <3>2. Cardinality({x}) = 1
        BY FS_Singleton
      <3> QED BY <3>1, <3>2
    <2> QED BY <2>2, <2>3
  <1> QED BY <1>1, Invariance, PTL

\* The ledger books what Stripe moved, as one debit and one credit of that
\* amount, and only for captured payments (models.py:36-38); every table
\* keeps its type and its column widths.
THEOREM LedgerBacked == Spec => []LedgerIsBacked
  <1>1. IInv => LedgerIsBacked
    <2> SUFFICES ASSUME IInv, NEW b \in Bookings,
                        NEW reason \in {"rental", "mileage_overage"}
                 PROVE  /\ Cardinality(Booked(b, reason)) \in {0, 2}
                        /\ Booked(b, reason) # {} =>
                             /\ payments[b] # NULL
                             /\ payments[b].status = "captured"
                             /\ \E x \in Successes(b, CallOf(reason)) :
                                  \A i \in Booked(b, reason) :
                                     ledger_entries[i].amount_cents = x.amount
                             /\ {ledger_entries[i].direction : i \in Booked(b, reason)}
                                   = {"debit", "credit"}
      BY DEF LedgerIsBacked, CallOf, IInv
    <2>1. CASE Booked(b, reason) = {}
      BY <2>1, FS_EmptySet
    <2>2. CASE Booked(b, reason) # {}
      <3>1. PICK x \in Successes(b, CallOf(reason)), i \in DOMAIN ledger_entries :
               Booked(b, reason) = {i, i + 1} /\ IsPair(i, x.amount)
        BY <2>2 DEF IInv, PairsAreBacked
      <3>2. payments[b] # NULL /\ payments[b].status = "captured"
        BY <2>2 DEF IInv, PairsAreBacked
      <3>3. i \in Nat /\ i + 1 # i
        BY DEF IInv, TypeOK
      <3>4. Cardinality({i, i + 1}) = 2
        <4>1. IsFiniteSet({i}) /\ Cardinality({i}) = 1
          BY FS_Singleton
        <4>2. i + 1 \notin {i}
          BY <3>3
        <4>3. Cardinality({i} \cup {i + 1}) = Cardinality({i}) + 1
          BY <4>1, <4>2, FS_AddElement
        <4>4. {i, i + 1} = {i} \cup {i + 1}
          OBVIOUS
        <4> QED BY <4>1, <4>3, <4>4
      <3>5. \A k \in Booked(b, reason) : ledger_entries[k].amount_cents = x.amount
        BY <3>1 DEF IsPair
      <3>6. {ledger_entries[k].direction : k \in Booked(b, reason)}
               = {"debit", "credit"}
        BY <3>1 DEF IsPair
      <3> QED BY <3>1, <3>2, <3>4, <3>5, <3>6
    <2> QED BY <2>1, <2>2
  <1> QED BY <1>1, Invariance, PTL

\* Between deliveries, money that Stripe captured is in the ledger, or the
\* payment says capture_failed.
THEOREM CapturesAreMarked == Spec => []CapturedIsBookedOrFlagged
  <1>1. IInv => CapturedIsBookedOrFlagged
    <2> SUFFICES ASSUME IInv, NEW b \in Bookings, NEW x \in Successes(b, "capture"),
                        \A i \in DOMAIN commands :
                           commands[i].booking_id = b => i \in payment_inbox
                 PROVE  \/ Booked(b, "rental") # {}
                        \/ payments[b] # NULL /\ payments[b].status = "capture_failed"
      BY DEF CapturedIsBookedOrFlagged
    <2>1. x \in stripe /\ x.booking_id = b /\ x.call = "capture"
      BY DEF Successes
    <2>2. /\ payments[b] # NULL
          /\ payments[b].status # "authorization_failed"
          /\ payments[b].status # "authorized"
      BY <2>1 DEF IInv, CaptureIsPending, IsNext
    <2>3. payments[b].status \in {"authorized", "authorization_failed", "captured",
                                  "capture_failed"}
      BY <2>2, RowFields DEF IInv, TypeOK
    <2> QED BY <2>2, <2>3 DEF IInv, CapturedIsBooked
  <1> QED BY <1>1, Invariance, PTL

\* The booking service hears one outcome per phase, and the row of the
\* payment shows the last one given.
THEOREM OutcomesAreSingle == Spec => []OneAnswerPerPhase
  <1>1. ASSUME NEW b, SaidNothing(b) PROVE Said(b, << >>)
    <2> DEFINE at == [k \in DOMAIN << >> |-> 0]
    <2>1. DOMAIN << >> = {}
      OBVIOUS
    <2>2. at \in [DOMAIN << >> -> DOMAIN payment_outbox]
      BY <2>1
    <2>3. AnswersAbout(b) = {at[k] : k \in DOMAIN << >>}
      BY <1>1, <2>1 DEF SaidNothing
    <2> QED BY <2>1, <2>2, <2>3 DEF Said
  <1>2. ASSUME NEW b, NEW type, SaidOnce(b, type) PROVE Said(b, <<type>>)
    <2>1. PICK i \in DOMAIN payment_outbox :
             AnswersAbout(b) = {i} /\ payment_outbox[i].event_type = type
      BY <1>2 DEF SaidOnce
    <2> DEFINE at == [k \in {1} |-> i]
    <2>2. DOMAIN <<type>> = {1} /\ <<type>>[1] = type
      OBVIOUS
    <2>3. at \in [DOMAIN <<type>> -> DOMAIN payment_outbox]
      BY <2>2
    <2>4. AnswersAbout(b) = {at[k] : k \in DOMAIN <<type>>}
      BY <2>1, <2>2
    <2>5. \A k \in DOMAIN <<type>> :
             payment_outbox[at[k]].event_type = <<type>>[k]
      BY <2>1, <2>2
    <2>6. \A k, l \in DOMAIN <<type>> : k < l => at[k] < at[l]
      BY <2>2
    <2> HIDE DEF at
    <2> QED BY <2>3, <2>4, <2>5, <2>6 DEF Said
  <1>3. ASSUME NEW b, NEW t, NEW u, SaidTwice(b, t, u) PROVE Said(b, <<t, u>>)
    <2>1. PICK i \in DOMAIN payment_outbox, j \in DOMAIN payment_outbox :
             /\ i < j
             /\ AnswersAbout(b) = {i, j}
             /\ payment_outbox[i].event_type = t
             /\ payment_outbox[j].event_type = u
      BY <1>3 DEF SaidTwice
    <2> DEFINE at == [k \in {1, 2} |-> IF k = 1 THEN i ELSE j]
    <2>2. /\ DOMAIN <<t, u>> = {1, 2}
          /\ <<t, u>>[1] = t
          /\ <<t, u>>[2] = u
      OBVIOUS
    <2>3. at \in [DOMAIN <<t, u>> -> DOMAIN payment_outbox]
      BY <2>2
    <2>4. AnswersAbout(b) = {at[k] : k \in DOMAIN <<t, u>>}
      BY <2>1, <2>2
    <2>5. \A k \in DOMAIN <<t, u>> :
             payment_outbox[at[k]].event_type = <<t, u>>[k]
      BY <2>1, <2>2
    <2>6. \A k, l \in DOMAIN <<t, u>> : k < l => at[k] < at[l]
      BY <2>1, <2>2
    <2> HIDE DEF at
    <2> QED BY <2>3, <2>4, <2>5, <2>6 DEF Said
  <1>4. IInv => OneAnswerPerPhase
    <2> SUFFICES ASSUME IInv, NEW b \in Bookings
                 PROVE  /\ payments[b] = NULL => Said(b, << >>)
                        /\ payments[b] # NULL =>
                             CASE payments[b].status = "authorized" ->
                                     Said(b, <<"payment_authorized">>)
                               [] payments[b].status = "authorization_failed" ->
                                     Said(b, <<"payment_authorization_failed">>)
                               [] payments[b].status = "captured" ->
                                     Said(b, <<"payment_authorized", "payment_captured">>)
                               [] payments[b].status = "capture_failed" ->
                                     Said(b, <<"payment_authorized", "payment_capture_failed">>)
      BY DEF OneAnswerPerPhase
    <2>1. payments[b] # NULL =>
             payments[b].status \in {"authorized", "authorization_failed", "captured",
                                     "capture_failed"}
      BY RowFields DEF IInv, TypeOK
    <2>2. /\ payments[b] = NULL => Said(b, << >>)
          /\ payments[b] # NULL =>
               /\ payments[b].status = "authorized" =>
                     Said(b, <<"payment_authorized">>)
               /\ payments[b].status = "authorization_failed" =>
                     Said(b, <<"payment_authorization_failed">>)
               /\ payments[b].status = "captured" =>
                     Said(b, <<"payment_authorized", "payment_captured">>)
               /\ payments[b].status = "capture_failed" =>
                     Said(b, <<"payment_authorized", "payment_capture_failed">>)
      BY <1>1, <1>2, <1>3 DEF IInv, AnswersFollowStatus
    <2> QED BY <2>1, <2>2
  <1> QED BY <1>4, Invariance, PTL
===============================================================================
