------------------------------- MODULE Listing -------------------------------
(***************************************************************************)
(* The listing service (src/services/listing): vehicles, their approval    *)
(* and the days a host blocks, with the events that feed the search index. *)
(*                                                                         *)
(* An update, an approval or a rejection reads the vehicle, and writes it  *)
(* back in the same READ COMMITTED transaction without any version check.  *)
(* As in Booking, a transaction is two steps, the read and the rest.  The  *)
(* UPDATE names only the columns whose value changed in the session, so    *)
(* that concurrent transactions overwrite each other column by column; the *)
(* event carries the whole vehicle as this session sees it.                *)
(***************************************************************************)
EXTENDS Integers, Sequences, FiniteSets

CONSTANTS
    Vehicles,
    Hosts,
    Prices,      \* daily_price_cents, one of the columns a host may edit
    Modes,       \* booking_mode, another one
    Days,
    Workers,     \* concurrent transactions
    MaxEvents,   \* bound: events written to the outbox
    MaxBlocks,   \* bound: availability blocks
    NULL

ASSUME ListingConstants ==
    /\ Days \subseteq Int
    /\ MaxEvents \in Nat
    /\ MaxBlocks \in Nat

VARIABLES
    vehicles,             \* the table vehicles: id -> row or NULL
    availability_blocks,  \* the table availability_blocks
    vehicle_events,       \* the table outbox, in commit order
    session,              \* the open transaction of each worker, or NULL
    overtaken             \* history: vehicles committed over a newer version

listingVars == <<vehicles, availability_blocks, vehicle_events, session,
                 overtaken>>
-----------------------------------------------------------------------------
Vehicle == [host_id : Hosts, daily_price_cents : Prices, booking_mode : Modes,
            approval_status : {"pending", "approved", "rejected"}]

ASSUME NullAssumption == NULL \notin Vehicle

AvailabilityBlock == [vehicle_id : Vehicles, start_date : Days, end_date : Days]

VehicleEvent == [vehicle_id : Vehicles, data : Vehicle,
                 event_type : {"vehicle_approved", "vehicle_updated"}]

\* The fields of PATCH /vehicles/{id}; NULL is a field left out.
UpdateVehicleRequest == [daily_price_cents : Prices \cup {NULL},
                         booking_mode : Modes \cup {NULL}]

Ops == {"update", "approve", "reject"}

\* An open transaction: the row it has read, and the row it has made of it.
Session == [op : Ops, vehicle_id : Vehicles, read : Vehicle, row : Vehicle]
-----------------------------------------------------------------------------
\* POST /vehicles.
create_vehicle(v, host, price, mode) ==
    /\ vehicles[v] = NULL
    /\ vehicles' = [vehicles EXCEPT ![v] =
          [host_id |-> host, daily_price_cents |-> price,
           booking_mode |-> mode, approval_status |-> "pending"]]
    /\ UNCHANGED <<availability_blocks, vehicle_events, session, overtaken>>

\* Transactions on their way to the outbox.
Writing == {w \in Workers : session[w] # NULL /\ session[w].op # "reject"}

\* A transaction whose event would be over the bound does not begin.
Open(w, op, v, row) ==
    /\ session[w] = NULL
    /\ op # "reject" => Len(vehicle_events) + Cardinality(Writing) < MaxEvents
    /\ session' = [session EXCEPT ![w] =
          [op |-> op, vehicle_id |-> v, read |-> vehicles[v], row |-> row]]
    /\ UNCHANGED <<vehicles, availability_blocks, vehicle_events, overtaken>>

\* The loop over MUTABLE_VEHICLE_FIELDS.
Edit(row, fields) ==
    [row EXCEPT
       !.daily_price_cents = IF fields.daily_price_cents = NULL THEN @
                             ELSE fields.daily_price_cents,
       !.booking_mode = IF fields.booking_mode = NULL THEN @
                        ELSE fields.booking_mode]

\* PATCH /vehicles/{id}, up to the assignments.
update_vehicle(w, v, host, fields) ==
    /\ vehicles[v] # NULL
    /\ vehicles[v].host_id = host
    /\ Open(w, "update", v, Edit(vehicles[v], fields))

Decide(row, op) ==
    [row EXCEPT !.approval_status = IF op = "approve" THEN "approved"
                                    ELSE "rejected"]

\* POST /vehicles/{id}/approve and /reject, up to the assignment.
decide_vehicle(w, op, v) ==
    /\ op \in {"approve", "reject"}
    /\ vehicles[v] # NULL
    /\ vehicles[v].approval_status = "pending"
    /\ Open(w, op, v, Decide(vehicles[v], op))

\* Mutant: the UPDATE names every column.
SaveWholeRow(s) == s.row

\* The flush of repo.save: SET only the columns that differ from the read.
Save(s) ==
    [c \in DOMAIN s.read |-> IF s.row[c] = s.read[c]
                             THEN vehicles[s.vehicle_id][c] ELSE s.row[c]]

\* Mutant: the snapshot is taken before the assignments.
EmitsAsRead(s) ==
    IF s.op = "reject" THEN << >>
    ELSE <<[vehicle_id |-> s.vehicle_id, data |-> s.read,
            event_type |-> IF s.op = "update" THEN "vehicle_updated"
                           ELSE "vehicle_approved"]>>

\* _vehicle_snapshot is taken from the session's object, not from the table.
Emits(s) ==
    CASE s.op = "update"  -> <<[vehicle_id |-> s.vehicle_id, data |-> s.row,
                                event_type |-> "vehicle_updated"]>>
      [] s.op = "approve" -> <<[vehicle_id |-> s.vehicle_id, data |-> s.row,
                                event_type |-> "vehicle_approved"]>>
      [] s.op = "reject"  -> << >>

\* repo.save, the outbox insert and the commit of guard.store.
Commit(w) ==
    /\ session[w] # NULL
    /\ LET s == session[w]
       IN  /\ Len(vehicle_events \o Emits(s)) <= MaxEvents
           /\ vehicles' = [vehicles EXCEPT ![s.vehicle_id] = Save(s)]
           /\ vehicle_events' = vehicle_events \o Emits(s)
           /\ overtaken' = IF vehicles[s.vehicle_id] = s.read THEN overtaken
                           ELSE overtaken \cup {s.vehicle_id}
    /\ session' = [session EXCEPT ![w] = NULL]
    /\ UNCHANGED availability_blocks

Rollback(w) ==
    /\ session[w] # NULL
    /\ session' = [session EXCEPT ![w] = NULL]
    /\ UNCHANGED <<vehicles, availability_blocks, vehicle_events, overtaken>>

\* Mutant: the exclusion constraint over a daterange with '[)' bounds.
OverlapsAfterStart(a, b) == /\ a.vehicle_id = b.vehicle_id
                            /\ a.start_date < b.end_date
                            /\ b.start_date < a.end_date

\* ex_availability_blocks_overlap, with both end days included.
Overlaps(a, b) == /\ a.vehicle_id = b.vehicle_id
                  /\ a.start_date <= b.end_date
                  /\ b.start_date <= a.end_date

\* POST /vehicles/{id}/availability-blocks.
add_availability_block(host, block) ==
    /\ vehicles[block.vehicle_id] # NULL
    /\ vehicles[block.vehicle_id].host_id = host
    /\ block.start_date <= block.end_date
    /\ Cardinality(availability_blocks) < MaxBlocks
    /\ \A other \in availability_blocks : ~ Overlaps(other, block)
    /\ availability_blocks' = availability_blocks \cup {block}
    /\ UNCHANGED <<vehicles, vehicle_events, session, overtaken>>
-----------------------------------------------------------------------------
ListingInit ==
    /\ vehicles = [v \in Vehicles |-> NULL]
    /\ availability_blocks = {}
    /\ vehicle_events = << >>
    /\ session = [w \in Workers |-> NULL]
    /\ overtaken = {}

ListingNext ==
    \/ \E v \in Vehicles, host \in Hosts, price \in Prices, mode \in Modes :
          create_vehicle(v, host, price, mode)
    \/ \E w \in Workers, v \in Vehicles, host \in Hosts,
          fields \in UpdateVehicleRequest : update_vehicle(w, v, host, fields)
    \/ \E w \in Workers, op \in Ops, v \in Vehicles : decide_vehicle(w, op, v)
    \/ \E w \in Workers : Commit(w)
    \/ \E w \in Workers : Rollback(w)
    \/ \E host \in Hosts, block \in AvailabilityBlock :
          add_availability_block(host, block)

ListingSpec == ListingInit /\ [][ListingNext]_listingVars
-----------------------------------------------------------------------------
(* Properties.                                                             *)

DaysOf(block) == block.start_date .. block.end_date

\* Tables and sessions keep their shape, whatever columns two concurrent
\* transactions write, and no day of a vehicle is blocked twice (the exclusion
\* constraint of migrations/versions/0001_initial.py:77-80).
ListingTypeOK ==
    /\ vehicles \in [Vehicles -> Vehicle \cup {NULL}]
    /\ availability_blocks \subseteq AvailabilityBlock
    /\ vehicle_events \in Seq(VehicleEvent)
    /\ session \in [Workers -> Session \cup {NULL}]
    /\ \A a, b \in availability_blocks :
          a # b /\ a.vehicle_id = b.vehicle_id => DaysOf(a) \cap DaysOf(b) = {}

UndecidedAgain(v) ==
    /\ vehicles[v] # NULL
    /\ vehicles[v].approval_status # "pending"
    /\ vehicles'[v].approval_status = "pending"

\* A host's edit that began before the admin's decision never undoes it
\* (service.py:110-114 writes the row it read earlier).
DecisionSurvivesEdits == [][\A v \in Vehicles : ~ UndecidedAgain(v)]_listingVars

LastEventOf(v) ==
    {e \in DOMAIN vehicle_events :
        /\ vehicle_events[e].vehicle_id = v
        /\ \A f \in DOMAIN vehicle_events :
              vehicle_events[f].vehicle_id = v => f <= e}

\* Who follows the events knows the table, and so search is right to show
\* what the last event says: every column is as in the last event of the
\* vehicle, but for a rejection, which publishes nothing and comes before any
\* approval.  The exception is a transaction that committed over a version it
\* had not read: its snapshot (service.py:120) is a row that never existed.
LastEventTellsRow ==
    \A v \in Vehicles \ overtaken : \A e \in LastEventOf(v) :
        \/ vehicles[v] = vehicle_events[e].data
        \/ /\ vehicle_events[e].data.approval_status = "pending"
           /\ vehicles[v] = [vehicle_events[e].data EXCEPT
                                !.approval_status = "rejected"]
==============================================================================
