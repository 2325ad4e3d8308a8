-------------------------------- MODULE Search --------------------------------
(***************************************************************************)
(* The search service (src/services/search), fed by the listing service.   *)
(*                                                                         *)
(* Debezium copies the rows of listing's outbox, in commit order, to the   *)
(* topic listing.vehicle.events.  The replicas of search form one consumer *)
(* group.  A member takes one record at a time: it claims the event in     *)
(* Redis, writes Elasticsearch, then commits the offset, three steps in    *)
(* three systems.  An error between any two of them ends its task, and     *)
(* nothing but a restart of the process starts another.  A member that has *)
(* lost the partition goes on with its record and may write late.  The     *)
(* backfill job reads listing over HTTP and writes the same index without  *)
(* any claim.                                                              *)
(*                                                                         *)
(* An event is named by its place in vehicle_events, which stands for its  *)
(* event_id.  One partition is modelled: the outbox routes by vehicle id,  *)
(* so the order of a vehicle's events is the same with several.            *)
(***************************************************************************)
EXTENDS Listing

CONSTANTS
    Members,        \* replicas of the search service
    MaxIncidents    \* bound: rebalances, restarts of a replica, restarts of the
                    \* connector from an older LSN, expired claims and backfills
                    \* together

ASSUME SearchConstants == MaxIncidents \in Nat

\* A record in progress: its offset, how far it is, and whether the partition
\* has moved on meanwhile.
WorkItem == [at : Nat, stage : {"taken", "claimed", "done"}, fenced : BOOLEAN]

ASSUME WorkAssumption == NULL \notin WorkItem

VARIABLES
    topic,          \* listing.vehicle.events: a sequence of events
    published,      \* the connector's place in the outbox
    processed,      \* the Redis keys processed-event:<event_id>
    index,          \* the Elasticsearch index: vehicle -> document or NULL
    offset,         \* the group's committed offset
    owner,          \* the member that the partition is assigned to, or NULL
    alive,          \* members whose consumer task runs
    work,           \* the record each member is working on, or NULL
    backfill,       \* the rows the backfill job has read and not yet written
    incidents       \* how much of their bound is used up

VARIABLES           \* history, for the properties only
    applied,        \* events a member has written to the index
    shown,          \* vehicle -> the last event written for it, 0 if none
    interrupted,    \* events whose member failed between claim and write
    late,           \* events written by a member that had lost the partition
    expired,        \* events whose claim has expired
    backfilled      \* vehicles the backfill job has written

group == <<owner, alive, work>>

history == <<applied, shown, interrupted, late, expired, backfilled>>

searchVars == <<topic, published, processed, index, offset, group, backfill,
                incidents, history>>
-----------------------------------------------------------------------------
Events == 1..MaxEvents

Document == [host_id : Hosts, daily_price_cents : Prices, booking_mode : Modes]

vehicle_to_document(data) ==
    [host_id |-> data.host_id, daily_price_cents |-> data.daily_price_cents,
     booking_mode |-> data.booking_mode]

\* Mutant: every event upserts.
IndexUnapproved(v, data) == [index EXCEPT ![v] = vehicle_to_document(data)]

\* Mutant: a vehicle that is not approved is left as it is.
NeverDelete(v, data) ==
    IF data.approval_status = "approved"
    THEN [index EXCEPT ![v] = vehicle_to_document(data)] ELSE index

\* The index after an event: upsert on approval, delete otherwise.
handle_vehicle_event(v, data) ==
    [index EXCEPT ![v] = IF data.approval_status = "approved"
                         THEN vehicle_to_document(data) ELSE NULL]

Event(m) == topic[work[m].at]

Data(e) == vehicle_events[e].data

VehicleOf(e) == vehicle_events[e].vehicle_id

\* Mutant: SET without NX answers yes every time.
ClaimAgain(e) == TRUE

\* SET processed-event:<e> NX: whether this call made the key.
claim_event(e) == e \notin processed

Incident == incidents < MaxIncidents /\ incidents' = incidents + 1
-----------------------------------------------------------------------------
(* The connector.                                                          *)

Publish ==
    /\ published < Len(vehicle_events)
    /\ published' = published + 1
    /\ topic' = Append(topic, published + 1)
    /\ UNCHANGED <<processed, index, offset, group, backfill, incidents, history>>

\* The connector restarts behind what it has published, and sends it again.
Replay(n) ==
    /\ n < published
    /\ Incident
    /\ published' = n
    /\ UNCHANGED <<topic, processed, index, offset, group, backfill, history>>
-----------------------------------------------------------------------------
(* The loop of a member.                                                   *)

\* The next record of "async for record in consumer".
Take(m) ==
    /\ m \in alive /\ owner = m
    /\ work[m] = NULL
    /\ offset < Len(topic)
    /\ work' = [work EXCEPT ![m] =
          [at |-> offset + 1, stage |-> "taken", fenced |-> FALSE]]
    /\ UNCHANGED <<topic, published, processed, index, offset, owner, alive,
                   backfill, incidents, history>>

\* Mutant: an event that is already claimed raises instead of returning.
ClaimOrRaise(m) ==
    /\ work[m] # NULL
    /\ work[m].stage = "taken"
    /\ Event(m) \notin processed
    /\ work' = [work EXCEPT ![m].stage = "claimed"]
    /\ processed' = processed \cup {Event(m)}
    /\ UNCHANGED <<topic, published, index, offset, owner, alive, backfill,
                   incidents, history>>

\* process, up to the claim; an event already claimed is left at that. Both
\* types of event that listing writes are in LISTING_EVENT_TYPES.
Claim(m) ==
    /\ work[m] # NULL
    /\ work[m].stage = "taken"
    /\ work' = [work EXCEPT ![m].stage =
          IF claim_event(Event(m)) THEN "claimed" ELSE "done"]
    /\ processed' = processed \cup {Event(m)}
    /\ UNCHANGED <<topic, published, index, offset, owner, alive, backfill,
                   incidents, history>>

\* The write carries no version, so one that comes late is taken too.
Apply(m) ==
    /\ work[m] # NULL
    /\ work[m].stage = "claimed"
    /\ index' = handle_vehicle_event(VehicleOf(Event(m)), Data(Event(m)))
    /\ work' = [work EXCEPT ![m].stage = "done"]
    /\ applied' = applied \cup {Event(m)}
    /\ shown' = [shown EXCEPT ![VehicleOf(Event(m))] = Event(m)]
    /\ late' = IF work[m].fenced THEN late \cup {Event(m)} ELSE late
    /\ UNCHANGED <<topic, published, processed, offset, owner, alive, backfill,
                   incidents, interrupted, expired, backfilled>>

\* consumer.commit(), which speaks for the current assignment only.
CommitOffset(m) ==
    /\ work[m] # NULL
    /\ work[m].stage = "done"
    /\ offset' = IF work[m].fenced THEN offset ELSE work[m].at
    /\ work' = [work EXCEPT ![m] = NULL]
    /\ UNCHANGED <<topic, published, processed, index, owner, alive, backfill,
                   incidents, history>>
-----------------------------------------------------------------------------
(* Errors and the group.                                                   *)

\* The claim is in Redis and stays there, whatever becomes of the write.
Interrupt(m) ==
    interrupted' = IF work[m] # NULL /\ work[m].stage = "claimed"
                   THEN interrupted \cup {Event(m)} ELSE interrupted

\* Who may have the partition, once m has left the group.
Assign(m) == IF owner # m THEN owner' = owner
             ELSE IF alive \ {m} = {} THEN owner' = NULL
             ELSE owner' \in alive \ {m}

\* An error of Redis, of Elasticsearch or of the offset commit: the exception
\* is logged and raised, consumer.stop() leaves the group, and the task is
\* over.  The process goes on without it.
Raise(m) ==
    /\ work[m] # NULL
    /\ alive' = alive \ {m}
    /\ Assign(m)
    /\ work' = [work EXCEPT ![m] = NULL]
    /\ Interrupt(m)
    /\ UNCHANGED <<topic, published, processed, index, offset, backfill,
                   incidents, applied, shown, late, expired, backfilled>>

\* The process ends and starts again, for whatever reason.
Restart(m) ==
    /\ Incident
    /\ alive' = alive \cup {m}
    /\ owner' \in alive \cup {m}
    /\ work' = [o \in Members |->
          IF o = m THEN NULL
          ELSE IF work[o] # NULL /\ owner = o /\ owner' # o
               THEN [work[o] EXCEPT !.fenced = TRUE] ELSE work[o]]
    /\ Interrupt(m)
    /\ UNCHANGED <<topic, published, processed, index, offset, backfill,
                   applied, shown, late, expired, backfilled>>

\* The partition moves to another member while its owner is at work.
Rebalance(m) ==
    /\ m \in alive /\ owner \notin {m, NULL}
    /\ Incident
    /\ owner' = m
    /\ work' = IF work[owner] = NULL THEN work
               ELSE [work EXCEPT ![owner].fenced = TRUE]
    /\ UNCHANGED <<topic, published, processed, index, offset, alive, backfill,
                   history>>

\* ex=ttl_seconds.
Expire(e) ==
    /\ e \in processed
    /\ Incident
    /\ processed' = processed \ {e}
    /\ expired' = expired \cup {e}
    /\ UNCHANGED <<topic, published, index, offset, group, backfill, applied,
                   shown, interrupted, late, backfilled>>
-----------------------------------------------------------------------------
(* The backfill job, one page.                                             *)

BackfillRead ==
    /\ backfill = {}
    /\ Incident
    /\ backfill' = {[vehicle_id |-> v, data |-> vehicles[v]] :
                       v \in {u \in Vehicles :
                                /\ vehicles[u] # NULL
                                /\ vehicles[u].approval_status = "approved"}}
    /\ UNCHANGED <<topic, published, processed, index, offset, group, history>>

BackfillWrite(row) ==
    /\ row \in backfill
    /\ backfill' = backfill \ {row}
    /\ index' = handle_vehicle_event(row.vehicle_id, row.data)
    /\ backfilled' = backfilled \cup {row.vehicle_id}
    /\ UNCHANGED <<topic, published, processed, offset, group, incidents,
                   applied, shown, interrupted, late, expired>>
-----------------------------------------------------------------------------
Init ==
    /\ ListingInit
    /\ topic = << >> /\ published = 0 /\ offset = 0
    /\ owner \in Members /\ alive = Members
    /\ work = [m \in Members |-> NULL]
    /\ processed = {} /\ backfill = {}
    /\ index = [v \in Vehicles |-> NULL]
    /\ incidents = 0
    /\ applied = {} /\ interrupted = {} /\ late = {} /\ expired = {}
    /\ backfilled = {}
    /\ shown = [v \in Vehicles |-> 0]

Step(m) == Take(m) \/ Claim(m) \/ Apply(m) \/ CommitOffset(m)

SearchNext ==
    \/ Publish
    \/ \E n \in 0..MaxEvents : Replay(n)
    \/ \E m \in Members : Step(m) \/ Raise(m) \/ Restart(m) \/ Rebalance(m)
    \/ \E e \in Events : Expire(e)
    \/ BackfillRead
    \/ \E row \in backfill : BackfillWrite(row)

vars == <<listingVars, searchVars>>

Next == \/ ListingNext /\ UNCHANGED searchVars
        \/ SearchNext /\ UNCHANGED listingVars

\* The connector keeps up with the outbox, and a task that can go on goes on.
\* Nothing owes a restart.
Fairness == /\ WF_vars(Publish /\ UNCHANGED listingVars)
            /\ \A m \in Members : WF_vars(Step(m) /\ UNCHANGED listingVars)

Spec == Init /\ [][Next]_vars /\ Fairness
-----------------------------------------------------------------------------
(* Properties.                                                             *)

\* The stores of the search service keep their shape; a document holds the
\* fields documents.py:1-12 chooses, without the approval status.
SearchTypeOK ==
    /\ topic \in Seq(Events) /\ published \in 0..Len(vehicle_events)
    /\ processed \subseteq Events
    /\ index \in [Vehicles -> Document \cup {NULL}]
    /\ offset \in 0..Len(topic)
    /\ alive \subseteq Members /\ owner \in alive \cup {NULL}
    /\ work \in [Members -> WorkItem \cup {NULL}]
    /\ \A m \in Members : work[m] # NULL => work[m].at \in DOMAIN topic
    /\ \A row \in backfill : row.vehicle_id \in Vehicles /\ row.data \in Vehicle

\* However edits, decisions, redeliveries and the backfill interleave, a
\* vehicle no admin has decided on is never searchable (service.py:9-19 looks
\* at the status in the event, not at the type of the event).
UndecidedIsHidden ==
    /\ SearchTypeOK
    /\ \A v \in Vehicles :
          index[v] # NULL =>
              /\ vehicles[v] # NULL
              /\ vehicles[v].approval_status # "pending"

CaughtUp == /\ published = Len(vehicle_events)
            /\ offset = Len(topic)
            /\ \A m \in Members : work[m] = NULL

\* What the index shows for a vehicle after event e.
Shows(e) == IF Data(e).approval_status = "approved"
            THEN vehicle_to_document(Data(e)) ELSE NULL

\* The read model agrees with the events: once everything is consumed, the
\* index shows each vehicle as its last event does, whatever was redelivered
\* or sent twice and whoever took over from whom; or as an earlier event does
\* that a member wrote after it had lost the partition (repository.py:9-10
\* writes without a version).  The exceptions: the last event was interrupted,
\* a claim on an event of the vehicle expired, or the backfill wrote it too.
CaughtUpShowsLastEvent ==
    CaughtUp =>
        \A v \in Vehicles \ (backfilled \cup {VehicleOf(e) : e \in expired}) :
        \A e \in LastEventOf(v) \ interrupted :
            \E f \in {e} \cup late : VehicleOf(f) = v /\ index[v] = Shows(f)

\* Events sent again by the connector or the broker never take the index back
\* to an earlier version of a vehicle as long as the claim of the event has
\* not expired (redis_inbox.py:12-14): only the late write of a member that
\* has lost the partition does, because the claim keeps the new owner from
\* handling the event and nothing keeps the old one from writing it.
NeverShowsOlder ==
    [][\A v \in Vehicles :
          shown'[v] < shown[v] => shown'[v] \in expired \cup late']_vars

\* An event listing commits reaches the index as long as one replica keeps a
\* living task, but for the one hole of claiming before writing: its member
\* failed between the two.  No record is passed over by the offset
\* (kafka_consumer.py:93 commits last), and no failure leaves the group stuck
\* at a record that is already claimed (consumers.py:19-20).  When every task
\* has died, nothing restarts them (search/app.py:42-69, telemetry.py:20-22).
EventReachesIndex ==
    \A e \in Events :
        Len(vehicle_events) >= e ~>
            (e \in applied \cup interrupted \/ alive = {})
===============================================================================
