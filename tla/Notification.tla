----------------------------- MODULE Notification ------------------------------
(***************************************************************************)
(* The notification service (src/services/notification), and with it the   *)
(* consumer loop and inbox processor that booking and payment use as well  *)
(* (src/shared/kafka_consumer.py, src/shared/inbox.py).                    *)
(*                                                                         *)
(* A replica takes one record at a time: it claims the event, notifies     *)
(* both parties of the booking, commits the transaction, then the offset.  *)
(* A notification is a log line: no rollback takes it back.                *)
(*                                                                         *)
(* An error ends the consumer task.  The task leaves the group, and its    *)
(* process goes on without it: nothing watches the task, and /healthz says *)
(* "ok" as before.  Only a restart for another reason starts a new task.   *)
(*                                                                         *)
(* An event is named by its place in booking's outbox.  One partition is   *)
(* modelled.                                                               *)
(***************************************************************************)
EXTENDS Integers, Sequences, FiniteSets

CONSTANTS
    Members,        \* replicas
    Notifiable,     \* events of the types in BOOKING_EVENT_TYPES
    preferences,    \* notification_preferences of either party: the channels
                    \* that are enabled, NULL without a row
    MaxEvents,      \* bound: events
    MaxReplays,     \* bound: restarts of the connector from an older LSN
    MaxRestarts,    \* bound: restarts of a replica
    MaxRebalances,  \* bound: rebalances between living replicas
    NULL

Channels == {"email", "sms"}
Parties == {"renter", "host"}

ASSUME NotificationConstants ==
    /\ {MaxEvents, MaxReplays, MaxRestarts, MaxRebalances} \subseteq Nat
    /\ Notifiable \subseteq Nat
    /\ preferences \in [Parties -> (SUBSET Channels) \cup {NULL}]

\* A record in progress: its offset, how far its transaction is, who has been
\* notified, and whether the partition has moved on.
WorkItem == [at : Nat, stage : {"taken", "claimed", "passed", "committed"},
             told : SUBSET Parties, fenced : BOOLEAN]

ASSUME NullAssumption == NULL \notin WorkItem

VARIABLES
    topic,       \* booking's events, as the connector has published them
    published,   \* the connector's place in the outbox
    offset,      \* the group's committed offset
    owner,       \* the member that the partition is assigned to, or NULL
    alive,       \* members whose consumer task runs
    work,        \* the record each member is working on, or NULL
    inbox,       \* the table: claimed events
    sent,        \* notifications: how often each was logged
    used         \* how much of each bound is used up

VARIABLE cut     \* history: event -> transactions on it that were cut off

vars == <<topic, published, offset, owner, alive, work, inbox, sent, used, cut>>

Events == 1..MaxEvents

Use(what, bound) == /\ used[what] < bound
                    /\ used' = [used EXCEPT ![what] = @ + 1]
-----------------------------------------------------------------------------
(* The connector.                                                          *)

Publish ==
    /\ published < MaxEvents
    /\ published' = published + 1
    /\ topic' = Append(topic, published + 1)
    /\ UNCHANGED <<offset, owner, alive, work, inbox, sent, used, cut>>

Replay(n) ==
    /\ n < published
    /\ Use("replays", MaxReplays)
    /\ published' = n
    /\ UNCHANGED <<topic, offset, owner, alive, work, inbox, sent, cut>>
-----------------------------------------------------------------------------
(* The loop and the transaction of one record.                             *)

Event(m) == topic[work[m].at]

\* Mutant: enable_auto_commit.
AutoCommit(m) ==
    /\ m \in alive /\ owner = m
    /\ work[m] = NULL
    /\ offset < Len(topic)
    /\ work' = [work EXCEPT ![m] =
          [at |-> offset + 1, stage |-> "taken", told |-> {}, fenced |-> FALSE]]
    /\ offset' = offset + 1
    /\ UNCHANGED <<topic, published, owner, alive, inbox, sent, used, cut>>

\* The next record of "async for record in consumer".
Take(m) ==
    /\ m \in alive /\ owner = m
    /\ work[m] = NULL
    /\ offset < Len(topic)
    /\ work' = [work EXCEPT ![m] =
          [at |-> offset + 1, stage |-> "taken", told |-> {}, fenced |-> FALSE]]
    /\ UNCHANGED <<topic, published, offset, owner, alive, inbox, sent, used, cut>>

\* Another transaction has inserted the event and not ended yet.
Locked(m) == \E o \in Members \ {m} : /\ work[o] # NULL
                                      /\ work[o].stage = "claimed"
                                      /\ Event(o) = Event(m)

\* INSERT INTO inbox ... ON CONFLICT DO NOTHING: whether it inserted.
claim_event(m) == Event(m) \notin inbox

Claim(m) ==
    /\ work[m] # NULL
    /\ work[m].stage = "taken"
    /\ ~ Locked(m)
    /\ work' = [work EXCEPT ![m].stage =
          IF claim_event(m) THEN "claimed" ELSE "passed"]
    /\ UNCHANGED <<topic, published, offset, owner, alive, inbox, sent, used, cut>>

resolve_preference(u) ==
    IF preferences[u] = NULL THEN Channels ELSE preferences[u]

\* The renter is told first; an event without a handler tells nobody.
ToTell(m) == IF Event(m) \notin Notifiable THEN {}
             ELSE IF work[m].told = {} THEN {"renter"}
             ELSE {"host"} \ work[m].told

notify_user(m, u) ==
    /\ work[m] # NULL
    /\ work[m].stage = "claimed"
    /\ u \in ToTell(m)
    /\ sent' = [n \in DOMAIN sent |->
          IF n[1] = Event(m) /\ n[2] = u /\ n[3] \in resolve_preference(u)
          THEN sent[n] + 1 ELSE sent[n]]
    /\ work' = [work EXCEPT ![m].told = @ \cup {u}]
    /\ UNCHANGED <<topic, published, offset, owner, alive, inbox, used, cut>>

\* session.commit(), after the handler or for an event claimed before.
Commit(m) ==
    /\ work[m] # NULL
    /\ \/ work[m].stage = "claimed" /\ ToTell(m) = {}
       \/ work[m].stage = "passed"
    /\ inbox' = inbox \cup {Event(m)}
    /\ work' = [work EXCEPT ![m].stage = "committed"]
    /\ UNCHANGED <<topic, published, offset, owner, alive, sent, used, cut>>

\* consumer.commit(), which speaks for the current assignment only.
CommitOffset(m) ==
    /\ work[m] # NULL
    /\ work[m].stage = "committed"
    /\ offset' = IF work[m].fenced THEN offset ELSE work[m].at
    /\ work' = [work EXCEPT ![m] = NULL]
    /\ UNCHANGED <<topic, published, owner, alive, inbox, sent, used, cut>>
-----------------------------------------------------------------------------
(* Errors and the group.                                                   *)

CutOff(m) ==
    [e \in Events |->
        cut[e] + (IF work[m] # NULL /\ work[m].stage = "claimed" /\ Event(m) = e
                  THEN 1 ELSE 0)]

\* Who may have the partition, once m has left the group.
Assign(m) == IF owner # m THEN owner' = owner
             ELSE IF alive \ {m} = {} THEN owner' = NULL
             ELSE owner' \in alive \ {m}

\* Mutant: the claim is committed before the handler runs.
ClaimSurvives(m) ==
    /\ work[m] # NULL
    /\ alive' = alive \ {m}
    /\ Assign(m)
    /\ work' = [work EXCEPT ![m] = NULL]
    /\ inbox' = IF work[m].stage = "claimed" THEN inbox \cup {Event(m)} ELSE inbox
    /\ cut' = CutOff(m)
    /\ UNCHANGED <<topic, published, offset, sent, used>>

\* Mutant: a task that fails does not leave the group.
StayInGroup(m) ==
    /\ work[m] # NULL
    /\ alive' = alive \ {m}
    /\ work' = [work EXCEPT ![m] = NULL]
    /\ cut' = CutOff(m)
    /\ UNCHANGED <<topic, published, offset, owner, inbox, sent, used>>

\* An error at any point, the offset commit included: the transaction rolls
\* back, the exception is logged and raised, consumer.stop() leaves the
\* group, and the task is over.
Raise(m) ==
    /\ work[m] # NULL
    /\ alive' = alive \ {m}
    /\ Assign(m)
    /\ work' = [work EXCEPT ![m] = NULL]
    /\ cut' = CutOff(m)
    /\ UNCHANGED <<topic, published, offset, inbox, sent, used>>

\* The process ends and starts again, for whatever reason.
Restart(m) ==
    /\ Use("restarts", MaxRestarts)
    /\ alive' = alive \cup {m}
    /\ owner' \in alive \cup {m}
    /\ work' = [o \in Members |->
          IF o = m THEN NULL
          ELSE IF work[o] # NULL /\ owner = o /\ owner' # o
               THEN [work[o] EXCEPT !.fenced = TRUE] ELSE work[o]]
    /\ cut' = CutOff(m)
    /\ UNCHANGED <<topic, published, offset, inbox, sent>>

\* The partition moves to another member while its owner is at work.
Rebalance(m) ==
    /\ m \in alive /\ owner \notin {m, NULL}
    /\ Use("rebalances", MaxRebalances)
    /\ owner' = m
    /\ work' = IF work[owner] = NULL THEN work
               ELSE [work EXCEPT ![owner].fenced = TRUE]
    /\ UNCHANGED <<topic, published, offset, alive, inbox, sent, cut>>
-----------------------------------------------------------------------------
Init ==
    /\ topic = << >> /\ published = 0 /\ offset = 0
    /\ owner \in Members /\ alive = Members
    /\ work = [m \in Members |-> NULL]
    /\ inbox = {}
    /\ sent = [n \in Events \X Parties \X Channels |-> 0]
    /\ used = [replays |-> 0, restarts |-> 0, rebalances |-> 0]
    /\ cut = [e \in Events |-> 0]

Step(m) ==
    \/ Take(m)
    \/ Claim(m)
    \/ \E u \in Parties : notify_user(m, u)
    \/ Commit(m)
    \/ CommitOffset(m)

Next ==
    \/ Publish
    \/ \E n \in 0..MaxEvents : Replay(n)
    \/ \E m \in Members : Step(m) \/ Raise(m) \/ Restart(m) \/ Rebalance(m)

\* A task that can go on goes on.
Fairness == \A m \in Members : WF_vars(Step(m))

Spec == Init /\ [][Next]_vars /\ Fairness
-----------------------------------------------------------------------------
(* Properties.                                                             *)

D == INSTANCE Delivery WITH handled <- inbox

\* Topic, inbox and the work of the members keep their shape, and the
\* offset is that of a record.
NotificationTypeOK ==
    /\ topic \in Seq(Events) /\ published \in 0..MaxEvents
    /\ offset \in 0..Len(topic)
    /\ owner \in Members \cup {NULL} /\ alive \subseteq Members
    /\ work \in [Members -> WorkItem \cup {NULL}]
    /\ \A m \in Members : work[m] # NULL => work[m].at \in DOMAIN topic
    /\ inbox \subseteq Events
    /\ owner # NULL => owner \in alive

\* "claim + dispatch + commit happen in one transaction" and a raising
\* handler "leaves the offset uncommitted" (kafka_consumer.py:61-63,
\* 103-106): through crashes, repeated events and two members at work on
\* one record, events are handled once each and in the order of the topic.
ImplementsDelivery == D!Spec

OptedIn(n) == preferences[n[2]] = NULL \/ n[3] \in preferences[n[2]]

\* Whoever has not opted out of a channel, also a user without a row
\* ("opted in to both channels", repository.py:20-21), has been notified of
\* every event that counts as handled, and of nothing else on any channel; and
\* twice only if a transaction on the event was cut off after the log line and
\* before the commit: repeated events and a second member at work on the
\* record add nothing.
NotifiedAsHandled ==
    /\ NotificationTypeOK
    /\ \A n \in DOMAIN sent :
          /\ n[1] \in inbox \cap Notifiable /\ OptedIn(n) => sent[n] >= 1
          /\ sent[n] > 0 => n[1] \in Notifiable /\ OptedIn(n)
          /\ sent[n] <= 1 + cut[n[1]]

\* An event in the topic is handled in the end, as long as one replica keeps
\* a living task: an error in one of them moves its partition to another.
\* When every task has died, nothing restarts them (booking/app.py:56-68,
\* telemetry.py:20-22).
EventIsHandled ==
    \A e \in Events :
        (\E k \in DOMAIN topic : topic[k] = e) ~> (e \in inbox \/ alive = {})
===============================================================================
