------------------------------ MODULE SearchProofs ------------------------------
(***************************************************************************)
(* Proofs about Listing and Search, for any number of vehicles, hosts,     *)
(* transactions, events and replicas.                                      *)
(*                                                                         *)
(* The properties of Listing are proved of its own next-state relation and *)
(* then hold of the composition, where search never writes a table of      *)
(* listing.  Those of Search rest on the order of the topic: the first     *)
(* delivery of an event comes after the first delivery of every earlier    *)
(* one, and later deliveries find the claim, unless it has expired.  One   *)
(* member at a time is at the record after the offset with the right to    *)
(* commit it; what the others write, they write late.                      *)
(***************************************************************************)
EXTENDS Search, TLAPS
-----------------------------------------------------------------------------
(* Listing.                                                                *)

\* What an open transaction has read is a version of a row that is still
\* there, and a decision once read is still a decision.
SessionIsBacked(s) ==
    /\ vehicles[s.vehicle_id] # NULL
    /\ s.op = "update" => s.row.approval_status = s.read.approval_status
    /\ s.op # "update" => /\ s.read.approval_status = "pending"
                          /\ s.row = Decide(s.read, s.op)
    /\ s.read.approval_status # "pending" =>
          vehicles[s.vehicle_id].approval_status # "pending"

SessionsAreBacked ==
    \A w \in Workers : session[w] # NULL => SessionIsBacked(session[w])

\* An event is about a vehicle that is there, and one that shows the vehicle
\* approved about a vehicle that is decided.
EventsAreBacked ==
    \A e \in DOMAIN vehicle_events :
        /\ vehicles[VehicleOf(e)] # NULL
        /\ Data(e).approval_status = "approved" =>
              vehicles[VehicleOf(e)].approval_status # "pending"

ListingInv == /\ ListingTypeOK
              /\ SessionsAreBacked
              /\ EventsAreBacked
              /\ LastEventTellsRow
              /\ Len(vehicle_events) <= MaxEvents

\* What a step of listing never takes back.
OnlyGrows ==
    /\ \A u \in Vehicles : /\ ~ UndecidedAgain(u)
                           /\ vehicles[u] # NULL => vehicles'[u] # NULL
    /\ Len(vehicle_events') \in Nat /\ Len(vehicle_events) <= Len(vehicle_events')
    /\ \A e \in 1..Len(vehicle_events) : vehicle_events'[e] = vehicle_events[e]

Columns == {"host_id", "daily_price_cents", "booking_mode", "approval_status"}

\* Every vehicle row has the same columns.
LEMMA VehicleColumns == \A r \in Vehicle : DOMAIN r = Columns
BY DEF Vehicle, Columns

\* An edited row is a row, of the same status.
LEMMA EditType ==
    ASSUME NEW r \in Vehicle, NEW fields \in UpdateVehicleRequest
    PROVE  /\ Edit(r, fields) \in Vehicle
           /\ Edit(r, fields).approval_status = r.approval_status
BY DEF Vehicle, Edit, UpdateVehicleRequest

\* A decided row is a row, of the status decided on.
LEMMA DecideType ==
    ASSUME NEW r \in Vehicle, NEW op \in {"approve", "reject"}
    PROVE  /\ Decide(r, op) \in Vehicle
           /\ op = "approve" => Decide(r, op).approval_status = "approved"
           /\ op = "reject" => Decide(r, op).approval_status = "rejected"
           /\ op = "reject" =>
                 Decide(r, op) = [r EXCEPT !.approval_status = "rejected"]
BY DEF Vehicle, Decide

\* However two transactions interleave column by column, the result is a row
\* (repo.save writes the columns that changed).
LEMMA SaveType ==
    ASSUME NEW s \in Session, vehicles[s.vehicle_id] \in Vehicle
    PROVE  Save(s) \in Vehicle
<1>1. s.read \in Vehicle /\ s.row \in Vehicle
  BY DEF Session
<1> DEFINE Value(c) == IF s.row[c] = s.read[c]
                       THEN vehicles[s.vehicle_id][c]
                       ELSE s.row[c]
           row == [host_id |-> Value("host_id"),
                   daily_price_cents |-> Value("daily_price_cents"),
                   booking_mode |-> Value("booking_mode"),
                   approval_status |-> Value("approval_status")]
<1>2. Save(s) = [c \in Columns |-> Value(c)]
  BY <1>1, VehicleColumns DEF Save
<1>3. /\ Value("host_id") \in Hosts
      /\ Value("daily_price_cents") \in Prices
      /\ Value("booking_mode") \in Modes
      /\ Value("approval_status") \in {"pending", "approved", "rejected"}
  BY <1>1 DEF Vehicle
<1> HIDE DEF Value
<1>4. Save(s) = row
  BY <1>2 DEF Columns
<1> QED BY <1>3, <1>4 DEF Vehicle

\* The status that is saved: an edit leaves what is in the table, a decision
\* on a vehicle read as pending is written.
LEMMA SaveStatus ==
    ASSUME NEW s \in Session, vehicles[s.vehicle_id] \in Vehicle,
           SessionIsBacked(s)
    PROVE  /\ s.op = "update" => Save(s).approval_status =
                                    vehicles[s.vehicle_id].approval_status
           /\ s.op = "approve" => /\ s.row.approval_status = "approved"
                                  /\ Save(s).approval_status = "approved"
           /\ s.op = "reject" =>
                 /\ s.row = [s.read EXCEPT !.approval_status = "rejected"]
                 /\ Save(s).approval_status = "rejected"
<1>1. s.read \in Vehicle
  BY DEF Session
<1>2. Save(s).approval_status =
         IF s.row.approval_status = s.read.approval_status
         THEN vehicles[s.vehicle_id].approval_status
         ELSE s.row.approval_status
  BY <1>1 DEF Save, Vehicle
<1>3. s.op \in {"approve", "reject"} =>
         /\ s.read.approval_status = "pending" /\ s.row = Decide(s.read, s.op)
         /\ s.op = "approve" => s.row.approval_status = "approved"
         /\ s.op = "reject" => s.row.approval_status = "rejected"
         /\ s.op = "reject" =>
               s.row = [s.read EXCEPT !.approval_status = "rejected"]
  BY <1>1, DecideType DEF SessionIsBacked
<1> QED BY <1>2, <1>3 DEF SessionIsBacked

\* Nothing was committed since the read: the row becomes the session's row.
LEMMA SaveOverSame ==
    ASSUME NEW s \in Session, vehicles[s.vehicle_id] = s.read
    PROVE  Save(s) = s.row
<1>1. s.read \in Vehicle /\ s.row \in Vehicle
  BY DEF Session
<1> QED BY <1>1 DEF Save, Vehicle

\* The types the listing steps read off the invariant.
LEMMA ListingFields ==
    ASSUME ListingInv
    PROVE  /\ Len(vehicle_events) \in Nat
           /\ DOMAIN vehicle_events = 1..Len(vehicle_events)
           /\ \A e \in DOMAIN vehicle_events :
                 VehicleOf(e) \in Vehicles /\ Data(e) \in Vehicle
           /\ \A v \in Vehicles : vehicles[v] # NULL => vehicles[v] \in Vehicle
           /\ \A w \in Workers : session[w] # NULL =>
                 /\ session[w] \in Session
                 /\ session[w].vehicle_id \in Vehicles
                 /\ session[w].read \in Vehicle
                 /\ session[w].op \in Ops
<1>1. /\ Len(vehicle_events) \in Nat
      /\ DOMAIN vehicle_events = 1..Len(vehicle_events)
      /\ \A e \in DOMAIN vehicle_events : vehicle_events[e] \in VehicleEvent
  BY DEF ListingInv, ListingTypeOK
<1>2. \A w \in Workers : session[w] # NULL => session[w] \in Session
  BY DEF ListingInv, ListingTypeOK
<1>3. \A v \in Vehicles : vehicles[v] # NULL => vehicles[v] \in Vehicle
  BY DEF ListingInv, ListingTypeOK
<1> QED BY <1>1, <1>2, <1>3 DEF VehicleOf, Data, VehicleEvent, Session

\* create_vehicle keeps the listing invariant.
LEMMA CreateStep ==
    ASSUME ListingInv, NEW v \in Vehicles, NEW host \in Hosts,
           NEW price \in Prices, NEW mode \in Modes,
           create_vehicle(v, host, price, mode)
    PROVE  ListingInv' /\ OnlyGrows
<1> USE ListingFields
<1> DEFINE row == [host_id |-> host, daily_price_cents |-> price,
                   booking_mode |-> mode, approval_status |-> "pending"]
<1>1. /\ vehicles[v] = NULL
      /\ vehicles' = [vehicles EXCEPT ![v] = row]
      /\ UNCHANGED <<availability_blocks, vehicle_events, session, overtaken>>
  BY DEF create_vehicle
<1>2. row \in Vehicle
  BY DEF Vehicle
<1> HIDE DEF row
<1>3. /\ vehicles'[v] = row /\ row # NULL
      /\ \A u \in Vehicles \ {v} : vehicles'[u] = vehicles[u]
  BY <1>1, <1>2, NullAssumption DEF ListingInv, ListingTypeOK
<1>4. ListingTypeOK'
  BY <1>1, <1>2 DEF ListingInv, ListingTypeOK, DaysOf
<1>5. SessionsAreBacked'
  <2>1. \A w \in Workers : session[w] # NULL => session[w].vehicle_id # v
    BY <1>1 DEF ListingInv, SessionsAreBacked, SessionIsBacked
  <2> QED BY <1>1, <1>3, <2>1 DEF ListingInv, SessionsAreBacked, SessionIsBacked
<1>6. \A e \in DOMAIN vehicle_events : VehicleOf(e) # v
  BY <1>1 DEF ListingInv, EventsAreBacked
<1>7. EventsAreBacked'
  BY <1>1, <1>3, <1>6 DEF ListingInv, EventsAreBacked, VehicleOf, Data
<1>8. LastEventTellsRow'
  <2>1. LastEventOf(v) = {}
    BY <1>6 DEF LastEventOf, VehicleOf
  <2> QED BY <1>1, <1>3, <2>1 DEF ListingInv, LastEventTellsRow, LastEventOf
<1> QED
  BY <1>1, <1>3, <1>4, <1>5, <1>7, <1>8 DEF ListingInv, OnlyGrows, UndecidedAgain

\* A transaction begins with a read, or ends without a write.
LEMMA SessionStep ==
    ASSUME ListingInv, NEW w \in Workers, NEW s \in Session \cup {NULL},
           session' = [session EXCEPT ![w] = s],
           s # NULL => SessionIsBacked(s),
           UNCHANGED <<vehicles, availability_blocks, vehicle_events, overtaken>>
    PROVE  ListingInv' /\ OnlyGrows
<1>1. ListingTypeOK'
  BY DEF ListingInv, ListingTypeOK, DaysOf
<1>2. SessionsAreBacked'
  BY DEF ListingInv, ListingTypeOK, SessionsAreBacked, SessionIsBacked
<1>3. EventsAreBacked' /\ LastEventTellsRow' /\ Len(vehicle_events') <= MaxEvents
  BY DEF ListingInv, EventsAreBacked, VehicleOf, Data, LastEventTellsRow,
     LastEventOf
<1> QED BY <1>1, <1>2, <1>3, ListingFields DEF ListingInv, OnlyGrows, UndecidedAgain

\* update_vehicle, up to its commit, keeps the listing invariant.
LEMMA UpdateStep ==
    ASSUME ListingInv, NEW w \in Workers, NEW v \in Vehicles, NEW host \in Hosts,
           NEW fields \in UpdateVehicleRequest,
           update_vehicle(w, v, host, fields)
    PROVE  ListingInv' /\ OnlyGrows
<1> DEFINE s == [op |-> "update", vehicle_id |-> v, read |-> vehicles[v],
                 row |-> Edit(vehicles[v], fields)]
<1>1. /\ vehicles[v] # NULL
      /\ session' = [session EXCEPT ![w] = s]
      /\ UNCHANGED <<vehicles, availability_blocks, vehicle_events, overtaken>>
  BY DEF update_vehicle, Open
<1>2. s \in Session
  BY <1>1, ListingFields, EditType DEF Session, Ops
<1>3. SessionIsBacked(s)
  BY <1>1, ListingFields, EditType DEF SessionIsBacked
<1> HIDE DEF s
<1> QED BY <1>1, <1>2, <1>3, SessionStep

\* An admin decision, up to its commit, keeps the listing invariant.
LEMMA DecideStep ==
    ASSUME ListingInv, NEW w \in Workers, NEW op \in Ops, NEW v \in Vehicles,
           decide_vehicle(w, op, v)
    PROVE  ListingInv' /\ OnlyGrows
<1> DEFINE s == [op |-> op, vehicle_id |-> v, read |-> vehicles[v],
                 row |-> Decide(vehicles[v], op)]
<1>1. /\ op \in {"approve", "reject"}
      /\ vehicles[v] # NULL /\ vehicles[v].approval_status = "pending"
      /\ session' = [session EXCEPT ![w] = s]
      /\ UNCHANGED <<vehicles, availability_blocks, vehicle_events, overtaken>>
  BY DEF decide_vehicle, Open
<1>2. s \in Session
  BY <1>1, ListingFields, DecideType DEF Session, Ops
<1>3. SessionIsBacked(s)
  BY <1>1 DEF SessionIsBacked
<1> HIDE DEF s
<1> QED BY <1>1, <1>2, <1>3, SessionStep

\* The outbox after a commit: as before, or one event longer.
LEMMA OutboxGrows ==
    ASSUME ListingInv, NEW s \in Session,
           vehicle_events' = vehicle_events \o Emits(s)
    PROVE  /\ vehicle_events' \in Seq(VehicleEvent)
           /\ Len(vehicle_events') =
                 Len(vehicle_events) + (IF s.op = "reject" THEN 0 ELSE 1)
           /\ \A e \in 1..Len(vehicle_events) :
                 vehicle_events'[e] = vehicle_events[e]
           /\ s.op # "reject" =>
                 LET e == Len(vehicle_events) + 1
                 IN  /\ vehicle_events'[e].vehicle_id = s.vehicle_id
                     /\ vehicle_events'[e].data = s.row
<1> DEFINE ev == [vehicle_id |-> s.vehicle_id, data |-> s.row,
                  event_type |-> IF s.op = "update" THEN "vehicle_updated"
                                 ELSE "vehicle_approved"]
<1>1. vehicle_events \in Seq(VehicleEvent)
  BY DEF ListingInv, ListingTypeOK
<1>2. s.op \in Ops /\ s.vehicle_id \in Vehicles /\ s.row \in Vehicle
  BY DEF Session
<1>3. CASE s.op = "reject"
  <2>1. Emits(s) = << >>
    BY <1>3 DEF Emits
  <2> QED BY <1>1, <1>3, <2>1
<1>4. CASE s.op # "reject"
  <2>1. Emits(s) = <<ev>>
    BY <1>2, <1>4 DEF Emits, Ops
  <2>2. /\ ev \in VehicleEvent /\ ev.vehicle_id = s.vehicle_id
        /\ ev.data = s.row
    BY <1>2 DEF VehicleEvent
  <2> HIDE DEF ev
  <2> QED BY <1>1, <1>4, <2>1, <2>2
<1> QED BY <1>3, <1>4

\* A transaction commits, possibly over a version it has not read
\* (service.py:101-153).
LEMMA CommitStep ==
    ASSUME ListingInv, NEW w \in Workers, Commit(w)
    PROVE  ListingInv' /\ OnlyGrows
<1> USE ListingFields
<1> DEFINE s == session[w]
           v == s.vehicle_id
           n == Len(vehicle_events)
<1>1. /\ s # NULL
      /\ Len(vehicle_events \o Emits(s)) <= MaxEvents
      /\ vehicles' = [vehicles EXCEPT ![v] = Save(s)]
      /\ vehicle_events' = vehicle_events \o Emits(s)
      /\ overtaken' = IF vehicles[v] = s.read THEN overtaken
                      ELSE overtaken \cup {v}
      /\ session' = [session EXCEPT ![w] = NULL]
      /\ UNCHANGED availability_blocks
  BY DEF Commit
<1>2. /\ s \in Session /\ v \in Vehicles /\ s.read \in Vehicle
      /\ s.op \in {"update", "approve", "reject"}
  BY <1>1 DEF Ops
<1>3. SessionIsBacked(s)
  BY <1>1 DEF ListingInv, SessionsAreBacked
<1>4. vehicles[v] \in Vehicle /\ vehicles[v] # NULL
  BY <1>2, <1>3 DEF SessionIsBacked
<1>5. Save(s) \in Vehicle /\ Save(s) # NULL
  BY <1>2, <1>4, SaveType, NullAssumption
<1>6. /\ s.op = "update" =>
            Save(s).approval_status = vehicles[v].approval_status
      /\ s.op = "approve" => Save(s).approval_status = "approved"
      /\ s.op = "reject" => Save(s).approval_status = "rejected"
  BY <1>2, <1>3, <1>4, SaveStatus
<1>7. /\ vehicle_events' \in Seq(VehicleEvent)
      /\ Len(vehicle_events') = n + (IF s.op = "reject" THEN 0 ELSE 1)
      /\ \A e \in 1..n : vehicle_events'[e] = vehicle_events[e]
      /\ s.op # "reject" => /\ vehicle_events'[n + 1].vehicle_id = v
                            /\ vehicle_events'[n + 1].data = s.row
  BY <1>1, <1>2, OutboxGrows
<1>8. /\ s.op = "update" => s.row.approval_status = s.read.approval_status
      /\ s.op = "approve" => s.row.approval_status = "approved"
      /\ s.op = "reject" =>
            s.row = [s.read EXCEPT !.approval_status = "rejected"]
  BY <1>2, <1>3, <1>4, SaveStatus DEF SessionIsBacked
<1>9. \A g \in Workers : session'[g] # NULL => session'[g] = session[g]
  BY <1>1 DEF ListingInv, ListingTypeOK
<1>10. /\ vehicles'[v] = Save(s)
       /\ \A u \in Vehicles \ {v} : vehicles'[u] = vehicles[u]
  BY <1>1, <1>2 DEF ListingInv, ListingTypeOK
<1> HIDE DEF s
<1>11. ListingTypeOK'
  BY <1>1, <1>5, <1>7 DEF ListingInv, ListingTypeOK, DaysOf
<1>12. \A u \in Vehicles : vehicles[u] # NULL =>
          /\ vehicles'[u] # NULL
          /\ vehicles[u].approval_status # "pending" =>
                vehicles'[u].approval_status # "pending"
  BY <1>2, <1>5, <1>6, <1>8, <1>10
<1>13. SessionsAreBacked'
  BY <1>9, <1>12 DEF ListingInv, SessionsAreBacked, SessionIsBacked
<1>14. EventsAreBacked'
  <2> SUFFICES ASSUME NEW e \in 1..Len(vehicle_events')
               PROVE  /\ vehicles'[vehicle_events'[e].vehicle_id] # NULL
                      /\ vehicle_events'[e].data.approval_status = "approved" =>
                            vehicles'[vehicle_events'[e].vehicle_id].approval_status
                               # "pending"
    BY <1>7 DEF EventsAreBacked, VehicleOf, Data
  <2>1. CASE e \in 1..n
    BY <1>7, <1>12, <2>1 DEF ListingInv, EventsAreBacked, VehicleOf, Data
  <2>2. CASE e \notin 1..n
    <3>1. s.op # "reject" /\ e = n + 1
      BY <1>7, <2>2
    <3>2. /\ vehicle_events'[e].vehicle_id = v
          /\ vehicle_events'[e].data = s.row
      BY <1>7, <3>1
    <3>3. vehicles'[v] # NULL
      BY <1>5, <1>10
    <3>4. s.row.approval_status = "approved" =>
             vehicles'[v].approval_status # "pending"
      BY <1>2, <1>3, <1>6, <1>8, <1>10, <3>1 DEF SessionIsBacked
    <3> QED BY <3>2, <3>3, <3>4
  <2> QED BY <2>1, <2>2
<1>15. LastEventTellsRow'
  <2> SUFFICES ASSUME NEW u \in Vehicles, u \notin overtaken',
                      NEW e \in LastEventOf(u)'
               PROVE  LET d == vehicle_events'[e].data
                      IN  \/ vehicles'[u] = d
                          \/ /\ d.approval_status = "pending"
                             /\ vehicles'[u] =
                                   [d EXCEPT !.approval_status = "rejected"]
    BY DEF LastEventTellsRow
  <2>1. /\ e \in 1..Len(vehicle_events')
        /\ vehicle_events'[e].vehicle_id = u
        /\ \A f \in 1..Len(vehicle_events') :
              vehicle_events'[f].vehicle_id = u => f <= e
    BY <1>7 DEF LastEventOf
  <2>2. u \notin overtaken
    BY <1>1
  <2>3. ASSUME e \in 1..n PROVE e \in LastEventOf(u)
    BY <1>7, <2>1, <2>3 DEF LastEventOf
  <2>4. ASSUME NEW d, e \in LastEventOf(u), d = vehicle_events[e].data
        PROVE  \/ vehicles[u] = d
               \/ /\ d.approval_status = "pending"
                  /\ vehicles[u] = [d EXCEPT !.approval_status = "rejected"]
    BY <2>2, <2>4 DEF ListingInv, LastEventTellsRow
  <2>5. CASE u # v
    <3>1. e \in 1..n
      BY <1>2, <1>7, <2>1, <2>5
    <3> QED BY <1>7, <1>10, <2>3, <2>4, <2>5, <3>1
  <2>6. CASE u = v /\ s.op # "reject"
    <3>1. e = n + 1
      BY <1>7, <2>1, <2>6
    <3>2. vehicles[v] = s.read
      BY <1>1, <1>2, <2>6
    <3> QED BY <1>2, <1>7, <1>10, <2>6, <3>1, <3>2, SaveOverSame
  <2>7. CASE u = v /\ s.op = "reject"
    <3>1. e \in 1..n
      BY <1>7, <2>1, <2>7
    <3>2. vehicles[v] = s.read /\ s.read.approval_status = "pending"
      BY <1>1, <1>2, <1>3, <2>7 DEF SessionIsBacked
    <3>3. PICK d \in Vehicle : d = vehicle_events[e].data
      BY <3>1 DEF Data
    <3>4. [d EXCEPT !.approval_status = "rejected"].approval_status = "rejected"
      BY DEF Vehicle
    <3>5. d = s.read
      BY <2>3, <2>4, <2>7, <3>1, <3>2, <3>3, <3>4
    <3>6. vehicles'[v] = [d EXCEPT !.approval_status = "rejected"]
      BY <1>2, <1>8, <1>10, <2>7, <3>2, <3>5, SaveOverSame
    <3> QED BY <1>7, <2>7, <3>1, <3>2, <3>3, <3>5, <3>6
  <2> QED BY <2>5, <2>6, <2>7
<1>16. Len(vehicle_events') <= MaxEvents
  BY <1>1
<1> QED
  BY <1>7, <1>11, <1>12, <1>13, <1>14, <1>15, <1>16 DEF ListingInv, OnlyGrows, UndecidedAgain

\* A host blocks days.
LEMMA BlockStep ==
    ASSUME ListingInv, NEW host \in Hosts, NEW block \in AvailabilityBlock,
           add_availability_block(host, block)
    PROVE  ListingInv' /\ OnlyGrows
<1>1. /\ availability_blocks' = availability_blocks \cup {block}
      /\ \A other \in availability_blocks : ~ Overlaps(other, block)
      /\ UNCHANGED <<vehicles, vehicle_events, session, overtaken>>
  BY DEF add_availability_block
<1>2. availability_blocks \subseteq AvailabilityBlock
  BY DEF ListingInv, ListingTypeOK
<1>3. ASSUME NEW a \in availability_blocks, a.vehicle_id = block.vehicle_id
      PROVE  DaysOf(a) \cap DaysOf(block) = {}
  <2>1. /\ a.start_date \in Int /\ a.end_date \in Int
        /\ block.start_date \in Int /\ block.end_date \in Int
    BY <1>2, ListingConstants DEF AvailabilityBlock
  <2>2. a.start_date > block.end_date \/ block.start_date > a.end_date
    BY <1>1, <1>3, <2>1 DEF Overlaps
  <2> QED BY <2>1, <2>2 DEF DaysOf
<1>4. ListingTypeOK'
  BY <1>1, <1>2, <1>3 DEF ListingInv, ListingTypeOK, DaysOf
<1>5. SessionsAreBacked' /\ EventsAreBacked' /\ LastEventTellsRow'
      /\ Len(vehicle_events') <= MaxEvents
  BY <1>1 DEF ListingInv, SessionsAreBacked, SessionIsBacked, EventsAreBacked,
     VehicleOf, Data, LastEventTellsRow, LastEventOf
<1> QED BY <1>1, <1>4, <1>5, ListingFields DEF ListingInv, OnlyGrows, UndecidedAgain

\* Every step of listing keeps its invariant and only appends events.
LEMMA ListingStep ==
    ASSUME ListingInv, ListingNext
    PROVE  ListingInv' /\ OnlyGrows
<1>1. ASSUME NEW w \in Workers, Rollback(w)
      PROVE  ListingInv' /\ OnlyGrows
  BY <1>1, SessionStep DEF Rollback
<1> QED
  BY <1>1, CreateStep, UpdateStep, DecideStep, CommitStep, BlockStep
     DEF ListingNext

\* A step that leaves listing alone keeps its invariant.
LEMMA ListingStutter ==
    ASSUME ListingInv, UNCHANGED listingVars
    PROVE  ListingInv'
<1>1. ListingTypeOK'
  BY DEF listingVars, ListingInv, ListingTypeOK, DaysOf
<1>2. SessionsAreBacked' /\ EventsAreBacked' /\ LastEventTellsRow'
      /\ Len(vehicle_events') <= MaxEvents
  BY DEF listingVars, ListingInv, SessionsAreBacked, SessionIsBacked,
     EventsAreBacked, VehicleOf, Data, LastEventTellsRow, LastEventOf
<1> QED BY <1>1, <1>2 DEF ListingInv

\* The empty catalogue satisfies the listing invariant.
LEMMA ListingStart ==
    ASSUME ListingInit
    PROVE  ListingInv
<1>1. /\ DOMAIN vehicle_events = {} /\ Len(vehicle_events) = 0
      /\ vehicle_events \in Seq(VehicleEvent)
  BY DEF ListingInit
<1>2. ListingTypeOK
  BY <1>1 DEF ListingInit, ListingTypeOK
<1>3. SessionsAreBacked /\ EventsAreBacked /\ LastEventTellsRow
  BY <1>1 DEF ListingInit, SessionsAreBacked, EventsAreBacked,
     LastEventTellsRow, LastEventOf
<1> QED BY <1>1, <1>2, <1>3, ListingConstants DEF ListingInv

\* The inductive invariant of listing alone.
THEOREM ListingInvariance == ListingSpec => []ListingInv
<1>1. ListingInv /\ [ListingNext]_listingVars => ListingInv'
  BY ListingStep, ListingStutter
<1> QED BY <1>1, ListingStart, PTL DEF ListingSpec

\* Interleaved UPDATEs of single columns never leave a row that is none, and
\* no day of a vehicle is blocked twice.
THEOREM ListingTyped == ListingSpec => []ListingTypeOK
<1>1. ListingInv => ListingTypeOK
  BY DEF ListingInv
<1> QED BY <1>1, ListingInvariance, PTL

\* The last event of a vehicle is the row, unless a transaction committed over
\* a version that it had not read.
THEOREM EventsTellRows == ListingSpec => []LastEventTellsRow
<1>1. ListingInv => LastEventTellsRow
  BY DEF ListingInv
<1> QED BY <1>1, ListingInvariance, PTL

\* No edit takes an admin's decision back.
THEOREM DecisionsStand == ListingSpec => DecisionSurvivesEdits
<1>1. ListingInv /\ [ListingNext]_listingVars =>
         [\A v \in Vehicles : ~ UndecidedAgain(v)]_listingVars
  BY ListingStep DEF OnlyGrows
<1> QED
  BY <1>1, ListingInvariance, PTL DEF ListingSpec, DecisionSurvivesEdits
-----------------------------------------------------------------------------
(* Search.                                                                 *)

\* A document in the index, or on its way there, is of a decided vehicle.
BackfillIsBacked ==
    \A row \in backfill : /\ vehicles[row.vehicle_id] # NULL
                          /\ vehicles[row.vehicle_id].approval_status # "pending"

\* The topic holds events of the outbox; before each, all earlier ones; and
\* everything the connector has passed.
TopicIsOrdered ==
    /\ \A k \in DOMAIN topic : topic[k] \in DOMAIN vehicle_events
    /\ \A k \in DOMAIN topic : \A e \in 1..topic[k] : \E j \in 1..k : topic[j] = e
    /\ \A e \in 1..published : \E j \in DOMAIN topic : topic[j] = e

Delivered(e) == \E j \in 1..offset : topic[j] = e

\* What lies behind the offset was claimed.
DeliveredWasClaimed ==
    \A j \in 1..offset : topic[j] \in processed \cup expired

\* Where a member can be with a record: only the owner of the partition is at
\* the record after the offset with the right to commit it, and what it has
\* claimed there the group had not met before, or the claim had expired.
Sound(m, w) ==
    /\ w.at <= offset + 1
    /\ ~ w.fenced => w.at = offset + 1 /\ owner = m
    /\ w.stage # "taken" => topic[w.at] \in processed \cup expired
    /\ w.stage = "claimed" /\ ~ w.fenced =>
          topic[w.at] \in expired \/ ~ Delivered(topic[w.at])

WorkIsSound == \A m \in Members : work[m] # NULL => Sound(m, work[m])

InHand(e) == \E m \in Members : /\ work[m] # NULL
                                /\ work[m].stage = "claimed"
                                /\ Event(m) = e

\* A claimed event was written, or will be, but for a failure in between.
ClaimedWasApplied == \A e \in processed : e \in applied \cup interrupted \/ InHand(e)

\* What was written is at or before the record after the offset.
AppliedIsDelivered ==
    /\ \A e \in applied : \E j \in 1..(offset + 1) : j \in DOMAIN topic /\ topic[j] = e
    /\ late \subseteq applied

\* The last event written for a vehicle is one of the vehicle, and it is what
\* the index shows.
ShownIsApplied ==
    /\ shown \in [Vehicles -> Nat]
    /\ \A v \in Vehicles : shown[v] # 0 =>
          shown[v] \in applied /\ VehicleOf(shown[v]) = v

IndexIsShown ==
    \A v \in Vehicles \ backfilled :
        index[v] = IF shown[v] = 0 THEN NULL ELSE Shows(shown[v])

\* Nothing newer than what is shown was written, unless a member wrote late or
\* a claim expired.
AppliedIsShown ==
    \A e \in applied : \/ shown[VehicleOf(e)] >= e
                       \/ shown[VehicleOf(e)] \in late
                       \/ \E f \in expired : VehicleOf(f) = VehicleOf(e)

ClaimsAreEvents == processed \cup expired \subseteq DOMAIN vehicle_events

SearchInv == /\ ListingInv
             /\ UndecidedIsHidden
             /\ BackfillIsBacked
             /\ TopicIsOrdered
             /\ DeliveredWasClaimed
             /\ WorkIsSound
             /\ ClaimedWasApplied
             /\ AppliedIsDelivered
             /\ ShownIsApplied
             /\ IndexIsShown
             /\ AppliedIsShown
             /\ ClaimsAreEvents

\* The types the indexing steps read off the invariant.
LEMMA SearchFields ==
    ASSUME SearchInv
    PROVE  /\ Len(vehicle_events) \in Nat
           /\ DOMAIN vehicle_events = 1..Len(vehicle_events)
           /\ topic \in Seq(Events) /\ Len(topic) \in Nat
           /\ DOMAIN topic = 1..Len(topic)
           /\ offset \in 0..Len(topic)
           /\ published \in 0..Len(vehicle_events)
           /\ \A e \in DOMAIN vehicle_events :
                 /\ VehicleOf(e) \in Vehicles /\ Data(e) \in Vehicle
                 /\ vehicle_to_document(Data(e)) \in Document
           /\ work \in [Members -> WorkItem \cup {NULL}]
           /\ \A m \in Members : work[m] # NULL =>
                 /\ work[m] \in WorkItem
                 /\ work[m].at \in DOMAIN topic /\ work[m].at \in Nat
                 /\ Event(m) = topic[work[m].at]
                 /\ Event(m) \in DOMAIN vehicle_events
                 /\ Event(m) \in Nat /\ Event(m) # 0 /\ Event(m) \in Events
                 /\ Sound(m, work[m])
<1>1. /\ topic \in Seq(Events) /\ Len(topic) \in Nat
      /\ DOMAIN topic = 1..Len(topic)
      /\ offset \in 0..Len(topic)
      /\ published \in 0..Len(vehicle_events)
      /\ work \in [Members -> WorkItem \cup {NULL}]
      /\ \A m \in Members : work[m] # NULL => work[m].at \in DOMAIN topic
  BY DEF SearchInv, UndecidedIsHidden, SearchTypeOK
<1>2. /\ Len(vehicle_events) \in Nat
      /\ DOMAIN vehicle_events = 1..Len(vehicle_events)
      /\ \A e \in DOMAIN vehicle_events :
            VehicleOf(e) \in Vehicles /\ Data(e) \in Vehicle
  BY ListingFields DEF SearchInv
<1>3. \A d \in Vehicle : vehicle_to_document(d) \in Document
  BY DEF vehicle_to_document, Document, Vehicle
<1>4. ASSUME NEW m \in Members, work[m] # NULL
      PROVE  /\ work[m] \in WorkItem
             /\ work[m].at \in DOMAIN topic /\ work[m].at \in Nat
             /\ Event(m) = topic[work[m].at]
             /\ Event(m) \in DOMAIN vehicle_events
             /\ Event(m) \in Nat /\ Event(m) # 0 /\ Event(m) \in Events
             /\ Sound(m, work[m])
  BY <1>1, <1>2, <1>4 DEF SearchInv, TopicIsOrdered, WorkIsSound, Event
<1> QED BY <1>1, <1>2, <1>3, <1>4

\* Listing goes on; nothing it does takes a shown vehicle back to undecided.
LEMMA ListingMoves ==
    ASSUME SearchInv, ListingNext, UNCHANGED searchVars
    PROVE  SearchInv'
<1> USE SearchFields
<1>1. ListingInv' /\ OnlyGrows
  BY ListingStep DEF SearchInv
<1>2. /\ UNCHANGED <<topic, published, processed, index, offset, backfill>>
      /\ UNCHANGED <<owner, alive, work>>
      /\ UNCHANGED <<applied, shown, interrupted, late, expired, backfilled>>
  BY DEF searchVars, group, history
<1>3. /\ Len(vehicle_events') \in Nat /\ Len(vehicle_events) <= Len(vehicle_events')
      /\ DOMAIN vehicle_events' = 1..Len(vehicle_events')
      /\ DOMAIN vehicle_events \subseteq DOMAIN vehicle_events'
  BY <1>1 DEF OnlyGrows, ListingInv, ListingTypeOK
<1>4. \A e \in DOMAIN vehicle_events :
         /\ vehicle_events'[e] = vehicle_events[e]
         /\ VehicleOf(e)' = VehicleOf(e) /\ Data(e)' = Data(e)
  BY <1>1 DEF OnlyGrows, VehicleOf, Data
<1>5. \A v \in Vehicles :
         vehicles[v] # NULL /\ vehicles[v].approval_status # "pending" =>
            vehicles'[v] # NULL /\ vehicles'[v].approval_status # "pending"
  BY <1>1 DEF OnlyGrows, UndecidedAgain
<1>6. SearchTypeOK'
  BY <1>2, <1>3 DEF SearchInv, UndecidedIsHidden, SearchTypeOK
<1>7. UndecidedIsHidden' /\ BackfillIsBacked'
  BY <1>2, <1>5, <1>6 DEF SearchInv, UndecidedIsHidden, BackfillIsBacked,
     SearchTypeOK
<1>8. TopicIsOrdered' /\ DeliveredWasClaimed' /\ WorkIsSound'
  BY <1>2, <1>3 DEF SearchInv, TopicIsOrdered, DeliveredWasClaimed, WorkIsSound,
     Sound, Delivered
<1>9. ClaimedWasApplied' /\ AppliedIsDelivered'
  BY <1>2 DEF SearchInv, ClaimedWasApplied, InHand, Event, AppliedIsDelivered
<1>10. applied \subseteq DOMAIN vehicle_events /\ expired \subseteq DOMAIN vehicle_events
  BY DEF SearchInv, AppliedIsDelivered, TopicIsOrdered, ClaimsAreEvents
<1>11. ShownIsApplied'
  BY <1>2, <1>4, <1>10 DEF SearchInv, ShownIsApplied
<1>12. IndexIsShown'
  BY <1>2, <1>4, <1>10 DEF SearchInv, ShownIsApplied, IndexIsShown, Shows
<1>13. AppliedIsShown' /\ ClaimsAreEvents'
  BY <1>2, <1>3, <1>4, <1>10 DEF SearchInv, AppliedIsShown, ClaimsAreEvents
<1> QED
  BY <1>1, <1>7, <1>8, <1>9, <1>11, <1>12, <1>13 DEF SearchInv

\* The connector publishes the next event.
LEMMA PublishStep ==
    ASSUME SearchInv, Publish, UNCHANGED listingVars
    PROVE  SearchInv'
<1> USE SearchFields
<1>1. /\ published < Len(vehicle_events) /\ published' = published + 1
      /\ topic' = Append(topic, published + 1)
      /\ UNCHANGED <<processed, index, offset, backfill, owner, alive, work>>
      /\ UNCHANGED <<applied, shown, interrupted, late, expired, backfilled>>
      /\ UNCHANGED <<vehicles, vehicle_events>>
  BY DEF Publish, group, history, listingVars
<1>2. published + 1 \in DOMAIN vehicle_events /\ published + 1 \in Events
  BY <1>1, ListingConstants DEF SearchInv, ListingInv, Events
<1>3. /\ topic' \in Seq(Events) /\ Len(topic') = Len(topic) + 1
      /\ DOMAIN topic' = 1..(Len(topic) + 1)
      /\ topic'[Len(topic) + 1] = published + 1
      /\ \A j \in 1..Len(topic) : topic'[j] = topic[j]
  BY <1>1, <1>2
<1>4. ListingInv'
  BY ListingStutter DEF SearchInv
<1>5. UndecidedIsHidden' /\ BackfillIsBacked'
  BY <1>1, <1>3 DEF SearchInv, UndecidedIsHidden, SearchTypeOK, BackfillIsBacked
<1>6. TopicIsOrdered'
  <2>0. /\ \A k \in DOMAIN topic : topic[k] \in DOMAIN vehicle_events
        /\ \A e \in 1..published : \E j \in DOMAIN topic : topic[j] = e
    BY DEF SearchInv, TopicIsOrdered
  <2>1. ASSUME NEW k \in DOMAIN topic' PROVE topic'[k] \in DOMAIN vehicle_events
    <3>1. CASE k = Len(topic) + 1
      BY <1>2, <1>3, <3>1
    <3>2. CASE k # Len(topic) + 1
      <4>1. k \in DOMAIN topic /\ topic'[k] = topic[k]
        BY <1>3, <3>2
      <4> QED BY <2>0, <4>1
    <3> QED BY <3>1, <3>2
  <2>2. ASSUME NEW e \in 1..published' PROVE \E j \in DOMAIN topic' : topic'[j] = e
    <3>1. CASE e = published + 1
      BY <1>3, <3>1
    <3>2. CASE e # published + 1
      <4>1. e \in 1..published
        BY <1>1, <3>2
      <4>2. PICK j \in DOMAIN topic : topic[j] = e
        BY <2>0, <4>1
      <4> QED BY <1>3, <4>2
    <3> QED BY <3>1, <3>2
  <2>3. ASSUME NEW k \in DOMAIN topic', NEW e \in 1..topic'[k]
        PROVE  \E j \in 1..k : topic'[j] = e
    <3>1. CASE k = Len(topic) + 1
      BY <1>1, <1>3, <2>2, <3>1
    <3>2. CASE k # Len(topic) + 1
      <4>1. k \in DOMAIN topic /\ topic'[k] = topic[k]
        BY <1>3, <3>2
      <4>2. PICK j \in 1..k : topic[j] = e
        BY <4>1 DEF SearchInv, TopicIsOrdered
      <4> QED BY <1>3, <4>1, <4>2
    <3> QED BY <3>1, <3>2
  <2> QED BY <1>1, <2>1, <2>2, <2>3 DEF TopicIsOrdered
<1>7. \A e : Delivered(e)' <=> Delivered(e)
  BY <1>1, <1>3 DEF Delivered
<1>8. DeliveredWasClaimed'
  BY <1>1, <1>3 DEF SearchInv, DeliveredWasClaimed
<1>9. \A m \in Members : work[m] # NULL => topic'[work[m].at] = topic[work[m].at]
  BY <1>3
<1>10. WorkIsSound'
  BY <1>1, <1>7, <1>9 DEF SearchInv, WorkIsSound, Sound
<1>11. ClaimedWasApplied'
  BY <1>1, <1>9 DEF SearchInv, ClaimedWasApplied, InHand, Event
<1>12. AppliedIsDelivered'
  BY <1>1, <1>3 DEF SearchInv, AppliedIsDelivered
<1>13. ShownIsApplied' /\ IndexIsShown' /\ AppliedIsShown' /\ ClaimsAreEvents'
  BY <1>1 DEF SearchInv, ShownIsApplied, IndexIsShown, Shows, Data,
     AppliedIsShown, VehicleOf, ClaimsAreEvents
<1> QED
  BY <1>4, <1>5, <1>6, <1>8, <1>10, <1>11, <1>12, <1>13 DEF SearchInv

\* Steps of search that publish nothing.
LEMMA TopicStays ==
    ASSUME SearchInv, UNCHANGED <<topic, published>>, UNCHANGED listingVars
    PROVE  /\ ListingInv' /\ TopicIsOrdered'
           /\ UNCHANGED <<vehicles, vehicle_events>>
           /\ \A e : VehicleOf(e)' = VehicleOf(e) /\ Data(e)' = Data(e)
                     /\ Shows(e)' = Shows(e)
<1>1. UNCHANGED <<vehicles, vehicle_events>>
  BY DEF listingVars
<1>2. ListingInv'
  BY ListingStutter DEF SearchInv
<1>3. TopicIsOrdered'
  BY <1>1 DEF SearchInv, TopicIsOrdered
<1> QED BY <1>1, <1>2, <1>3 DEF VehicleOf, Data, Shows

\* Steps of the group that write neither Redis nor Elasticsearch.
LEMMA StoresStay ==
    ASSUME SearchInv, UNCHANGED listingVars,
           UNCHANGED <<topic, published, processed, index, backfill>>,
           UNCHANGED <<applied, shown, late, expired, backfilled>>,
           offset' \in 0..Len(topic), offset <= offset',
           alive' \subseteq Members, owner' \in alive' \cup {NULL},
           work' \in [Members -> WorkItem \cup {NULL}],
           \A m \in Members : work'[m] # NULL => work'[m].at \in DOMAIN topic,
           DeliveredWasClaimed', WorkIsSound', ClaimedWasApplied'
    PROVE  SearchInv'
<1> USE SearchFields
<1>1. /\ ListingInv' /\ TopicIsOrdered'
      /\ UNCHANGED <<vehicles, vehicle_events>>
      /\ \A e : VehicleOf(e)' = VehicleOf(e) /\ Data(e)' = Data(e)
                /\ Shows(e)' = Shows(e)
  BY TopicStays
<1>2. SearchTypeOK'
  BY <1>1 DEF SearchInv, UndecidedIsHidden, SearchTypeOK
<1>3. UndecidedIsHidden' /\ BackfillIsBacked'
  BY <1>1, <1>2 DEF SearchInv, UndecidedIsHidden, BackfillIsBacked
<1>4. AppliedIsDelivered'
  <2>1. 1..(offset + 1) \subseteq 1..(offset' + 1)
    OBVIOUS
  <2> QED BY <2>1 DEF SearchInv, AppliedIsDelivered
<1>5. ShownIsApplied' /\ IndexIsShown' /\ AppliedIsShown' /\ ClaimsAreEvents'
  BY <1>1 DEF SearchInv, ShownIsApplied, IndexIsShown, AppliedIsShown,
     ClaimsAreEvents
<1> QED BY <1>1, <1>3, <1>4, <1>5 DEF SearchInv

\* Steps that leave the group and Redis alone.
LEMMA GroupStays ==
    ASSUME SearchInv, UNCHANGED <<topic, offset, owner, alive, work>>,
           UNCHANGED <<processed, expired, applied, interrupted, late>>
    PROVE  /\ DeliveredWasClaimed' /\ WorkIsSound'
           /\ ClaimedWasApplied' /\ AppliedIsDelivered'
BY DEF SearchInv, DeliveredWasClaimed, WorkIsSound, Sound, Delivered,
   ClaimedWasApplied, InHand, Event, AppliedIsDelivered

\* The connector goes back.
LEMMA ReplayStep ==
    ASSUME SearchInv, NEW n \in 0..MaxEvents, Replay(n), UNCHANGED listingVars
    PROVE  SearchInv'
<1> USE SearchFields
<1>1. /\ n < published /\ published' = n
      /\ UNCHANGED <<topic, processed, index, offset, backfill, owner, alive, work>>
      /\ UNCHANGED <<applied, shown, interrupted, late, expired, backfilled>>
      /\ UNCHANGED <<vehicles, vehicle_events>>
  BY DEF Replay, group, history, listingVars
<1>2. ListingInv'
  BY ListingStutter DEF SearchInv
<1>3. n \in Nat
  BY ListingConstants
<1>4. TopicIsOrdered'
  <2>1. 1..n \subseteq 1..published
    BY <1>1, <1>3
  <2> QED BY <1>1, <2>1 DEF SearchInv, TopicIsOrdered
<1>5. UndecidedIsHidden' /\ BackfillIsBacked'
  BY <1>1, <1>3 DEF SearchInv, UndecidedIsHidden, SearchTypeOK, BackfillIsBacked
<1>6. /\ DeliveredWasClaimed' /\ WorkIsSound' /\ ClaimedWasApplied'
      /\ AppliedIsDelivered'
  BY <1>1, GroupStays
<1>7. ShownIsApplied' /\ IndexIsShown' /\ AppliedIsShown' /\ ClaimsAreEvents'
  BY <1>1 DEF SearchInv, ShownIsApplied, IndexIsShown, Shows, Data,
     AppliedIsShown, VehicleOf, ClaimsAreEvents
<1> QED BY <1>2, <1>4, <1>5, <1>6, <1>7 DEF SearchInv

\* The owner takes the record after the offset.
LEMMA TakeStep ==
    ASSUME SearchInv, NEW m \in Members, Take(m), UNCHANGED listingVars
    PROVE  SearchInv'
<1> USE SearchFields
<1> DEFINE w == [at |-> offset + 1, stage |-> "taken", fenced |-> FALSE]
<1>1. /\ owner = m /\ work[m] = NULL /\ offset < Len(topic)
      /\ work' = [work EXCEPT ![m] = w]
      /\ UNCHANGED <<topic, published, processed, index, backfill>>
      /\ UNCHANGED <<applied, shown, late, expired, backfilled>>
      /\ UNCHANGED <<offset, owner, alive, interrupted>>
  BY DEF Take, history
<1>2. w \in WorkItem /\ w.at = offset + 1 /\ w.stage = "taken"
  BY DEF WorkItem
<1> HIDE DEF w
<1>3. /\ work' \in [Members -> WorkItem \cup {NULL}]
      /\ \A o \in Members : work'[o] = IF o = m THEN w ELSE work[o]
  BY <1>1, <1>2
<1>4. \A o \in Members : work'[o] # NULL => work'[o].at \in DOMAIN topic
  BY <1>1, <1>2, <1>3
<1>5. WorkIsSound'
  <2> SUFFICES ASSUME NEW o \in Members, work'[o] # NULL
               PROVE  Sound(o, work[o])'
    BY DEF WorkIsSound
  <2>1. CASE o = m
    BY <1>1, <1>2, <1>3, <2>1 DEF Sound
  <2>2. CASE o # m
    BY <1>1, <1>3, <2>2 DEF Sound, Delivered
  <2> QED BY <2>1, <2>2
<1>6. ClaimedWasApplied'
  <2>1. \A e : InHand(e) => InHand(e)'
    BY <1>1, <1>3 DEF InHand, Event
  <2> QED BY <1>1, <2>1 DEF SearchInv, ClaimedWasApplied
<1>7. DeliveredWasClaimed' /\ alive' \subseteq Members /\ owner' \in alive' \cup {NULL}
  BY <1>1 DEF SearchInv, DeliveredWasClaimed, UndecidedIsHidden, SearchTypeOK
<1> QED BY <1>1, <1>3, <1>4, <1>5, <1>6, <1>7, StoresStay

\* Committing the offset: that of the owner's record, or nothing.
LEMMA CommitOffsetStep ==
    ASSUME SearchInv, NEW m \in Members, CommitOffset(m), UNCHANGED listingVars
    PROVE  SearchInv'
<1> USE SearchFields
<1>1. /\ work[m] # NULL /\ work[m].stage = "done"
      /\ offset' = (IF work[m].fenced THEN offset ELSE work[m].at)
      /\ work' = [work EXCEPT ![m] = NULL]
      /\ UNCHANGED <<topic, published, processed, index, backfill>>
      /\ UNCHANGED <<applied, shown, late, expired, backfilled>>
      /\ UNCHANGED <<owner, alive, interrupted>>
  BY DEF CommitOffset, history
<1>2. /\ work' \in [Members -> WorkItem \cup {NULL}]
      /\ \A o \in Members : work'[o] = IF o = m THEN NULL ELSE work[o]
  BY <1>1
<1>3. /\ work[m].fenced => offset' = offset
      /\ ~ work[m].fenced => /\ offset' = offset + 1 /\ owner = m
                             /\ offset + 1 \in DOMAIN topic
                             /\ topic[offset + 1] \in processed \cup expired
  BY <1>1 DEF Sound
<1>4. offset' \in 0..Len(topic) /\ offset <= offset' /\ work[m].fenced \in BOOLEAN
  BY <1>1, <1>3 DEF WorkItem
<1>5. WorkIsSound'
  <2> SUFFICES ASSUME NEW o \in Members, o # m, work[o] # NULL
               PROVE  Sound(o, work[o])'
    BY <1>2 DEF WorkIsSound
  <2>1. Sound(o, work[o]) /\ work[o].fenced \in BOOLEAN
    BY DEF WorkItem
  <2>2. CASE work[m].fenced
    BY <1>1, <1>2, <1>3, <2>1, <2>2 DEF Sound, Delivered
  <2>3. CASE ~ work[m].fenced
    <3>1. work[o].fenced
      BY <1>3, <2>1, <2>3 DEF Sound
    <3> QED BY <1>1, <1>2, <1>3, <2>1, <2>3, <3>1 DEF Sound
  <2> QED BY <2>2, <2>3
<1>6. ClaimedWasApplied'
  <2>1. \A e : InHand(e) => InHand(e)'
    BY <1>1, <1>2 DEF InHand, Event
  <2> QED BY <1>1, <2>1 DEF SearchInv, ClaimedWasApplied
<1>7. DeliveredWasClaimed'
  BY <1>1, <1>3, <1>4 DEF SearchInv, DeliveredWasClaimed
<1>8. /\ alive' \subseteq Members /\ owner' \in alive' \cup {NULL}
      /\ \A o \in Members : work'[o] # NULL => work'[o].at \in DOMAIN topic
  BY <1>1, <1>2 DEF SearchInv, UndecidedIsHidden, SearchTypeOK
<1> QED BY <1>1, <1>2, <1>4, <1>5, <1>6, <1>7, <1>8, StoresStay

\* A member drops its record, and the partition may move: whoever was at work
\* on it without having it any longer is fenced.
LEMMA GroupMoves ==
    ASSUME SearchInv, UNCHANGED listingVars,
           UNCHANGED <<topic, published, processed, index, backfill>>,
           UNCHANGED <<applied, shown, late, expired, backfilled>>,
           UNCHANGED offset,
           alive' \subseteq Members, owner' \in alive' \cup {NULL},
           work' \in [Members -> WorkItem \cup {NULL}],
           interrupted \subseteq interrupted',
           \A o \in Members : work'[o] # NULL =>
              /\ work[o] # NULL
              /\ work'[o].at = work[o].at /\ work'[o].stage = work[o].stage
              /\ ~ work'[o].fenced => ~ work[o].fenced /\ (owner = o => owner' = o),
           \A o \in Members : work[o] # NULL /\ work[o].stage = "claimed" =>
              \/ work'[o] # NULL
              \/ Event(o) \in interrupted'
    PROVE  SearchInv'
<1> USE SearchFields
<1>1. WorkIsSound'
  BY DEF WorkIsSound, Sound, Delivered
<1>2. ClaimedWasApplied'
  <2> SUFFICES ASSUME NEW e \in processed, e \notin applied, e \notin interrupted'
               PROVE  InHand(e)'
    BY DEF ClaimedWasApplied
  <2>1. PICK o \in Members : /\ work[o] # NULL /\ work[o].stage = "claimed"
                             /\ Event(o) = e
    BY DEF SearchInv, ClaimedWasApplied, InHand
  <2>2. /\ work'[o] # NULL /\ work'[o].stage = "claimed"
        /\ topic'[work'[o].at] = e
    BY <2>1
  <2> QED BY <2>2 DEF InHand, Event
<1>3. /\ DeliveredWasClaimed' /\ offset' \in 0..Len(topic) /\ offset <= offset'
      /\ \A o \in Members : work'[o] # NULL => work'[o].at \in DOMAIN topic
  BY DEF SearchInv, DeliveredWasClaimed
<1> QED BY <1>1, <1>2, <1>3, StoresStay

\* An error ends the task of a member (kafka_consumer.py:83-96).
LEMMA RaiseStep ==
    ASSUME SearchInv, NEW m \in Members, Raise(m), UNCHANGED listingVars
    PROVE  SearchInv'
<1> USE SearchFields
<1>1. /\ work' = [work EXCEPT ![m] = NULL] /\ alive' = alive \ {m}
      /\ owner # m => owner' = owner
      /\ owner' \in alive' \cup {NULL}
      /\ alive' \subseteq Members
      /\ UNCHANGED <<topic, published, processed, index, backfill>>
      /\ UNCHANGED <<applied, shown, late, expired, backfilled>>
      /\ UNCHANGED offset
  BY DEF Raise, Assign, SearchInv, UndecidedIsHidden, SearchTypeOK
<1>2. /\ interrupted \subseteq interrupted'
      /\ work[m] # NULL /\ work[m].stage = "claimed" => Event(m) \in interrupted'
  BY DEF Raise, Interrupt
<1>3. /\ work' \in [Members -> WorkItem \cup {NULL}]
      /\ \A o \in Members : work'[o] = IF o = m THEN NULL ELSE work[o]
  BY <1>1
<1> QED BY <1>1, <1>2, <1>3, GroupMoves

\* A process starts again, and the partition may move (search/app.py:42-69).
LEMMA RestartStep ==
    ASSUME SearchInv, NEW m \in Members, Restart(m), UNCHANGED listingVars
    PROVE  SearchInv'
<1> USE SearchFields
<1>1. /\ alive' = alive \cup {m} /\ owner' \in alive'
      /\ alive' \subseteq Members
      /\ work' = [o \in Members |->
            IF o = m THEN NULL
            ELSE IF work[o] # NULL /\ owner = o /\ owner' # o
                 THEN [work[o] EXCEPT !.fenced = TRUE] ELSE work[o]]
      /\ UNCHANGED <<topic, published, processed, index, backfill>>
      /\ UNCHANGED <<applied, shown, late, expired, backfilled>>
      /\ UNCHANGED offset
  BY DEF Restart, SearchInv, UndecidedIsHidden, SearchTypeOK
<1>2. /\ interrupted \subseteq interrupted'
      /\ work[m] # NULL /\ work[m].stage = "claimed" => Event(m) \in interrupted'
  BY DEF Restart, Interrupt
<1>3. \A w \in WorkItem : LET x == [w EXCEPT !.fenced = TRUE]
                          IN  /\ x \in WorkItem /\ x.at = w.at
                              /\ x.stage = w.stage /\ x.fenced = TRUE
  BY DEF WorkItem
<1>4. work' \in [Members -> WorkItem \cup {NULL}]
  BY <1>1, <1>3
<1>5. \A o \in Members :
         /\ work'[o] # NULL =>
              /\ work[o] # NULL
              /\ work'[o].at = work[o].at /\ work'[o].stage = work[o].stage
              /\ ~ work'[o].fenced => ~ work[o].fenced /\ (owner = o => owner' = o)
         /\ work[o] # NULL /\ o # m => work'[o] # NULL
  BY <1>1, <1>3, WorkAssumption
<1> QED BY <1>1, <1>2, <1>4, <1>5, GroupMoves

\* The partition moves under its owner.
LEMMA RebalanceStep ==
    ASSUME SearchInv, NEW m \in Members, Rebalance(m), UNCHANGED listingVars
    PROVE  SearchInv'
<1> USE SearchFields
<1>1. /\ m \in alive /\ owner # m /\ owner # NULL /\ owner' = m
      /\ work' = (IF work[owner] = NULL THEN work
                  ELSE [work EXCEPT ![owner].fenced = TRUE])
      /\ UNCHANGED <<topic, published, processed, index, backfill>>
      /\ UNCHANGED <<applied, shown, late, expired, backfilled>>
      /\ UNCHANGED <<offset, alive, interrupted>>
  BY DEF Rebalance, history
<1>2. alive \subseteq Members /\ owner \in Members
  BY <1>1 DEF SearchInv, UndecidedIsHidden, SearchTypeOK
<1>3. \A w \in WorkItem : LET x == [w EXCEPT !.fenced = TRUE]
                          IN  /\ x \in WorkItem /\ x.at = w.at
                              /\ x.stage = w.stage /\ x.fenced = TRUE
  BY DEF WorkItem
<1>4. work' \in [Members -> WorkItem \cup {NULL}]
  BY <1>1, <1>2, <1>3
<1>5. \A o \in Members :
         /\ work'[o] # NULL =>
              /\ work[o] # NULL
              /\ work'[o].at = work[o].at /\ work'[o].stage = work[o].stage
              /\ ~ work'[o].fenced => ~ work[o].fenced /\ (owner = o => owner' = o)
         /\ work[o] # NULL => work'[o] # NULL
  BY <1>1, <1>2, <1>3, WorkAssumption
<1> QED BY <1>1, <1>2, <1>4, <1>5, GroupMoves

\* SET NX: a record that was delivered before finds the key, unless the key
\* has expired (consumers.py, redis_inbox.py).
LEMMA ClaimStep ==
    ASSUME SearchInv, NEW m \in Members, Claim(m), UNCHANGED listingVars
    PROVE  SearchInv'
<1> USE SearchFields
<1> DEFINE e == Event(m)
           stage == IF claim_event(e) THEN "claimed" ELSE "done"
           w == [work[m] EXCEPT !.stage = stage]
<1>1. /\ work[m] # NULL /\ work[m].stage = "taken"
      /\ work' = [work EXCEPT ![m] = w]
      /\ processed' = processed \cup {e}
      /\ UNCHANGED <<topic, published, index, offset, backfill, owner, alive>>
      /\ UNCHANGED <<applied, shown, interrupted, late, expired, backfilled>>
  BY DEF Claim, history
<1>2. /\ w \in WorkItem /\ w.at = work[m].at /\ w.fenced = work[m].fenced
      /\ w.stage = stage /\ stage \in {"claimed", "done"}
      /\ stage = "claimed" => e \notin processed
      /\ stage = "done" => e \in processed
  BY <1>1 DEF WorkItem, claim_event
<1>3. /\ e = topic[work[m].at] /\ e \in DOMAIN vehicle_events /\ e \in Events
  BY <1>1
<1>4. /\ ListingInv' /\ TopicIsOrdered'
      /\ UNCHANGED <<vehicles, vehicle_events>>
      /\ \A f : VehicleOf(f)' = VehicleOf(f) /\ Data(f)' = Data(f)
                /\ Shows(f)' = Shows(f)
  BY <1>1, TopicStays
<1> HIDE DEF w, stage, e
<1>5. /\ work' \in [Members -> WorkItem \cup {NULL}]
      /\ \A o \in Members : work'[o] = IF o = m THEN w ELSE work[o]
  BY <1>1, <1>2
<1>6. UndecidedIsHidden' /\ BackfillIsBacked'
  <2>1. SearchTypeOK'
    BY <1>1, <1>2, <1>3, <1>4, <1>5 DEF SearchInv, UndecidedIsHidden, SearchTypeOK
  <2> QED BY <1>1, <1>4, <2>1 DEF SearchInv, UndecidedIsHidden, BackfillIsBacked
<1>7. DeliveredWasClaimed'
  BY <1>1 DEF SearchInv, DeliveredWasClaimed
<1>8. WorkIsSound'
  <2> SUFFICES ASSUME NEW o \in Members, work'[o] # NULL
               PROVE  Sound(o, work[o])'
    BY DEF WorkIsSound
  <2>1. CASE o = m
    <3>1. Delivered(e) => e \in processed \cup expired
      BY DEF SearchInv, DeliveredWasClaimed, Delivered
    <3> QED BY <1>1, <1>2, <1>3, <1>5, <2>1, <3>1 DEF Sound, Delivered
  <2>2. CASE o # m
    BY <1>1, <1>5, <2>2 DEF Sound, Delivered
  <2> QED BY <2>1, <2>2
<1>9. ClaimedWasApplied'
  <2> SUFFICES ASSUME NEW f \in processed', f \notin applied \cup interrupted
               PROVE  InHand(f)'
    BY <1>1 DEF ClaimedWasApplied
  <2>1. CASE f \in processed
    <3>1. PICK o \in Members : /\ work[o] # NULL /\ work[o].stage = "claimed"
                               /\ topic[work[o].at] = f
      BY <2>1 DEF SearchInv, ClaimedWasApplied, InHand
    <3>2. o # m
      BY <1>1, <3>1
    <3> QED BY <1>1, <1>5, <3>1, <3>2 DEF InHand, Event
  <2>2. CASE f = e /\ e \notin processed
    <3>1. work'[m] # NULL /\ work'[m].stage = "claimed" /\ topic'[work'[m].at] = f
      BY <1>1, <1>2, <1>3, <1>5, <2>2, WorkAssumption
    <3> QED BY <3>1 DEF InHand, Event
  <2> QED BY <1>1, <2>1, <2>2
<1>10. AppliedIsDelivered' /\ ClaimsAreEvents'
  BY <1>1, <1>3, <1>4 DEF SearchInv, AppliedIsDelivered, ClaimsAreEvents
<1>11. ShownIsApplied' /\ IndexIsShown' /\ AppliedIsShown'
  BY <1>1, <1>4 DEF SearchInv, ShownIsApplied, IndexIsShown, AppliedIsShown
<1> QED BY <1>4, <1>6, <1>7, <1>8, <1>9, <1>10, <1>11 DEF SearchInv

\* What the owner of the partition writes is newer than everything written,
\* or its claim had expired: an event with a later one written was delivered
\* before.
LEMMA AppliedIsNewer ==
    ASSUME SearchInv, NEW m \in Members, work[m] # NULL,
           work[m].stage = "claimed", ~ work[m].fenced,
           NEW f \in applied, Event(m) < f
    PROVE  Event(m) \in expired
<1> USE SearchFields
<1> DEFINE e == Event(m)
<1>1. /\ work[m].at = offset + 1 /\ offset + 1 \in DOMAIN topic
      /\ topic[offset + 1] = e /\ e \in Nat /\ e # 0
      /\ e \in expired \/ ~ Delivered(e)
  BY DEF Sound
<1>2. PICK j \in 1..(offset + 1) : j \in DOMAIN topic /\ topic[j] = f
  BY DEF SearchInv, AppliedIsDelivered
<1>3. f \in Nat
  BY <1>2 DEF SearchInv, TopicIsOrdered
<1>4. j # offset + 1 /\ e # f
  BY <1>1, <1>2, <1>3
<1>5. j \in 1..offset /\ e \in 1..topic[j]
  BY <1>1, <1>2, <1>3, <1>4
<1>6. \E i \in 1..j : topic[i] = e
  BY <1>2, <1>5 DEF SearchInv, TopicIsOrdered
<1>7. Delivered(e)
  BY <1>5, <1>6 DEF Delivered
<1> QED BY <1>1, <1>7

\* The write to the index (service.py:9-19), in time or late.
LEMMA ApplyStep ==
    ASSUME SearchInv, NEW m \in Members, Apply(m), UNCHANGED listingVars
    PROVE  SearchInv'
<1> USE SearchFields
<1> DEFINE e == Event(m)
           v == VehicleOf(e)
           w == [work[m] EXCEPT !.stage = "done"]
<1>1. /\ work[m] # NULL /\ work[m].stage = "claimed"
      /\ work' = [work EXCEPT ![m] = w]
      /\ index' = [index EXCEPT ![v] = Shows(e)]
      /\ applied' = applied \cup {e}
      /\ shown' = [shown EXCEPT ![v] = e]
      /\ late' = (IF work[m].fenced THEN late \cup {e} ELSE late)
      /\ UNCHANGED <<topic, published, processed, offset, backfill, owner, alive>>
      /\ UNCHANGED <<interrupted, expired, backfilled>>
  BY DEF Apply, handle_vehicle_event, Shows
<1>2. /\ w \in WorkItem /\ w.at = work[m].at /\ w.fenced = work[m].fenced
      /\ w.stage = "done" /\ work[m].fenced \in BOOLEAN
  BY <1>1 DEF WorkItem
<1>3. /\ e = topic[work[m].at] /\ work[m].at \in DOMAIN topic
      /\ work[m].at \in 1..(offset + 1)
      /\ e \in DOMAIN vehicle_events /\ e \in Nat /\ e # 0
      /\ v \in Vehicles /\ Shows(e) \in Document \cup {NULL}
      /\ e \in processed \cup expired
  BY <1>1 DEF Sound, Shows
<1>4. /\ ListingInv' /\ TopicIsOrdered'
      /\ UNCHANGED <<vehicles, vehicle_events>>
      /\ \A f : VehicleOf(f)' = VehicleOf(f) /\ Data(f)' = Data(f)
                /\ Shows(f)' = Shows(f)
  BY <1>1, TopicStays
<1>5. /\ index \in [Vehicles -> Document \cup {NULL}]
      /\ shown \in [Vehicles -> Nat]
  BY DEF SearchInv, UndecidedIsHidden, SearchTypeOK, ShownIsApplied
<1>6. Shows(e) # NULL =>
         vehicles[v] # NULL /\ vehicles[v].approval_status # "pending"
  BY <1>3 DEF Shows, SearchInv, ListingInv, EventsAreBacked
<1>7. ~ work[m].fenced => \A f \in applied : e < f => e \in expired
  BY <1>1, AppliedIsNewer
<1>8. VehicleOf(e) = v
  OBVIOUS
<1> HIDE DEF w, v, e
<1>9. /\ work' \in [Members -> WorkItem \cup {NULL}]
      /\ \A o \in Members : work'[o] = IF o = m THEN w ELSE work[o]
      /\ index' \in [Vehicles -> Document \cup {NULL}]
      /\ \A u \in Vehicles : index'[u] = IF u = v THEN Shows(e) ELSE index[u]
      /\ shown' \in [Vehicles -> Nat]
      /\ \A u \in Vehicles : shown'[u] = IF u = v THEN e ELSE shown[u]
  BY <1>1, <1>2, <1>3, <1>5
<1>10. UndecidedIsHidden' /\ BackfillIsBacked'
  <2>1. SearchTypeOK'
    BY <1>1, <1>2, <1>3, <1>4, <1>9 DEF SearchInv, UndecidedIsHidden, SearchTypeOK
  <2> QED BY <1>1, <1>4, <1>6, <1>9, <2>1 DEF SearchInv, UndecidedIsHidden,
          BackfillIsBacked
<1>11. DeliveredWasClaimed' /\ ClaimsAreEvents'
  BY <1>1, <1>4 DEF SearchInv, DeliveredWasClaimed, ClaimsAreEvents
<1>12. WorkIsSound'
  <2> SUFFICES ASSUME NEW o \in Members, work'[o] # NULL
               PROVE  Sound(o, work[o])'
    BY DEF WorkIsSound
  <2>1. CASE o = m
    <3>1. Sound(m, work[m])
      BY <1>1
    <3> QED BY <1>1, <1>2, <1>3, <1>9, <2>1, <3>1 DEF Sound
  <2>2. CASE o # m
    BY <1>1, <1>9, <2>2 DEF Sound, Delivered
  <2> QED BY <2>1, <2>2
<1>13. ClaimedWasApplied'
  <2> SUFFICES ASSUME NEW f \in processed, f # e, f \notin applied \cup interrupted
               PROVE  InHand(f)'
    BY <1>1 DEF ClaimedWasApplied
  <2>1. PICK o \in Members : /\ work[o] # NULL /\ work[o].stage = "claimed"
                             /\ topic[work[o].at] = f
    BY DEF SearchInv, ClaimedWasApplied, InHand
  <2>2. o # m
    BY <1>3, <2>1
  <2> QED BY <1>1, <1>9, <2>1, <2>2 DEF InHand, Event
<1>14. AppliedIsDelivered'
  BY <1>1, <1>3 DEF SearchInv, AppliedIsDelivered
<1>15. ShownIsApplied'
  BY <1>1, <1>4, <1>8, <1>9 DEF SearchInv, ShownIsApplied
<1>16. IndexIsShown'
  BY <1>1, <1>3, <1>4, <1>9 DEF SearchInv, IndexIsShown
<1>17. AppliedIsShown'
  <2> SUFFICES ASSUME NEW f \in applied'
               PROVE  \/ shown'[VehicleOf(f)] >= f
                      \/ shown'[VehicleOf(f)] \in late'
                      \/ \E g \in expired : VehicleOf(g) = VehicleOf(f)
    BY <1>1, <1>4 DEF AppliedIsShown
  <2>1. CASE f = e
    BY <1>3, <1>8, <1>9, <2>1
  <2>2. CASE f \in applied /\ VehicleOf(f) # v
    <3>1. f \in DOMAIN vehicle_events /\ late \subseteq late'
      BY <1>1, <2>2 DEF SearchInv, AppliedIsDelivered, TopicIsOrdered
    <3>2. VehicleOf(f) \in Vehicles
      BY <3>1
    <3>3. shown'[VehicleOf(f)] = shown[VehicleOf(f)]
      BY <1>9, <2>2, <3>2
    <3> QED BY <2>2, <3>1, <3>3 DEF SearchInv, AppliedIsShown
  <2>3. CASE f \in applied /\ VehicleOf(f) = v /\ work[m].fenced
    <3>1. shown'[v] = e /\ e \in late'
      BY <1>1, <1>3, <1>9, <2>3
    <3> QED BY <2>3, <3>1
  <2>4. CASE f \in applied /\ VehicleOf(f) = v /\ ~ work[m].fenced
    <3>1. f \in Nat
      BY <2>4 DEF SearchInv, AppliedIsDelivered, TopicIsOrdered
    <3>2. CASE e < f
      BY <1>7, <1>8, <2>4, <3>2
    <3>3. CASE ~ (e < f)
      BY <1>3, <1>9, <2>4, <3>1, <3>3
    <3> QED BY <3>2, <3>3
  <2> QED BY <1>1, <2>1, <2>2, <2>3, <2>4
<1> QED
  BY <1>4, <1>10, <1>11, <1>12, <1>13, <1>14, <1>15, <1>16, <1>17 DEF SearchInv

\* A key of Redis runs out.
LEMMA ExpireStep ==
    ASSUME SearchInv, NEW x \in Events, Expire(x), UNCHANGED listingVars
    PROVE  SearchInv'
<1> USE SearchFields
<1>1. /\ x \in processed /\ processed' = processed \ {x}
      /\ expired' = expired \cup {x}
      /\ UNCHANGED <<topic, published, index, offset, backfill, owner, alive, work>>
      /\ UNCHANGED <<applied, shown, interrupted, late, backfilled>>
  BY DEF Expire, group
<1>2. /\ ListingInv' /\ TopicIsOrdered'
      /\ UNCHANGED <<vehicles, vehicle_events>>
      /\ \A e : VehicleOf(e)' = VehicleOf(e) /\ Data(e)' = Data(e)
                /\ Shows(e)' = Shows(e)
  BY <1>1, TopicStays
<1>3. processed' \cup expired' = processed \cup expired
  BY <1>1
<1>4. UndecidedIsHidden' /\ BackfillIsBacked'
  BY <1>1, <1>2 DEF SearchInv, UndecidedIsHidden, SearchTypeOK, BackfillIsBacked
<1>5. DeliveredWasClaimed' /\ WorkIsSound'
  BY <1>1, <1>3 DEF SearchInv, DeliveredWasClaimed, WorkIsSound, Sound, Delivered
<1>6. ClaimedWasApplied' /\ AppliedIsDelivered'
  BY <1>1 DEF SearchInv, ClaimedWasApplied, InHand, Event, AppliedIsDelivered
<1>7. ShownIsApplied' /\ IndexIsShown' /\ AppliedIsShown'
  BY <1>1, <1>2 DEF SearchInv, ShownIsApplied, IndexIsShown, AppliedIsShown
<1>8. ClaimsAreEvents'
  BY <1>2, <1>3 DEF SearchInv, ClaimsAreEvents
<1> QED BY <1>2, <1>4, <1>5, <1>6, <1>7, <1>8 DEF SearchInv

\* The backfill job reads a page of approved vehicles, or writes one of them,
\* as old as it may be by then.
LEMMA BackfillReadStep ==
    ASSUME SearchInv, BackfillRead, UNCHANGED listingVars
    PROVE  SearchInv'
<1>1. /\ UNCHANGED <<topic, published, processed, index, offset, owner, alive, work>>
      /\ UNCHANGED <<applied, shown, interrupted, late, expired, backfilled>>
  BY DEF BackfillRead, group, history
<1>2. /\ ListingInv' /\ TopicIsOrdered'
      /\ UNCHANGED <<vehicles, vehicle_events>>
      /\ \A e : VehicleOf(e)' = VehicleOf(e) /\ Data(e)' = Data(e)
                /\ Shows(e)' = Shows(e)
  BY <1>1, TopicStays
<1>3. ASSUME NEW row \in backfill'
      PROVE  /\ row.vehicle_id \in Vehicles /\ row.data \in Vehicle
             /\ vehicles[row.vehicle_id] # NULL
             /\ vehicles[row.vehicle_id].approval_status # "pending"
  <2>1. PICK v \in Vehicles :
           /\ vehicles[v] # NULL /\ vehicles[v].approval_status = "approved"
           /\ row = [vehicle_id |-> v, data |-> vehicles[v]]
    BY <1>3 DEF BackfillRead
  <2>2. vehicles[v] \in Vehicle
    BY <2>1, ListingFields DEF SearchInv
  <2> QED BY <2>1, <2>2
<1>4. UndecidedIsHidden' /\ BackfillIsBacked'
  BY <1>1, <1>2, <1>3 DEF SearchInv, UndecidedIsHidden, SearchTypeOK,
     BackfillIsBacked
<1>5. /\ DeliveredWasClaimed' /\ WorkIsSound' /\ ClaimedWasApplied'
      /\ AppliedIsDelivered'
  BY <1>1, GroupStays
<1>6. ShownIsApplied' /\ IndexIsShown' /\ AppliedIsShown' /\ ClaimsAreEvents'
  BY <1>1, <1>2 DEF SearchInv, ShownIsApplied, IndexIsShown, AppliedIsShown,
     ClaimsAreEvents
<1> QED BY <1>2, <1>4, <1>5, <1>6 DEF SearchInv

\* Writing a backfilled document keeps the invariant.
LEMMA BackfillWriteStep ==
    ASSUME SearchInv, NEW row \in backfill, BackfillWrite(row),
           UNCHANGED listingVars
    PROVE  SearchInv'
<1> DEFINE v == row.vehicle_id
           doc == IF row.data.approval_status = "approved"
                  THEN vehicle_to_document(row.data) ELSE NULL
<1>1. /\ backfill' = backfill \ {row}
      /\ index' = [index EXCEPT ![v] = doc]
      /\ backfilled' = backfilled \cup {v}
      /\ UNCHANGED <<topic, published, processed, offset, owner, alive, work>>
      /\ UNCHANGED <<applied, shown, interrupted, late, expired>>
  BY DEF BackfillWrite, handle_vehicle_event, group
<1>2. /\ ListingInv' /\ TopicIsOrdered'
      /\ UNCHANGED <<vehicles, vehicle_events>>
      /\ \A e : VehicleOf(e)' = VehicleOf(e) /\ Data(e)' = Data(e)
                /\ Shows(e)' = Shows(e)
  BY <1>1, TopicStays
<1>3. /\ v \in Vehicles /\ row.data \in Vehicle
      /\ vehicles[v] # NULL /\ vehicles[v].approval_status # "pending"
  BY DEF SearchInv, UndecidedIsHidden, SearchTypeOK, BackfillIsBacked
<1>4. doc \in Document \cup {NULL}
  BY <1>3 DEF vehicle_to_document, Document, Vehicle
<1>5. index \in [Vehicles -> Document \cup {NULL}]
  BY DEF SearchInv, UndecidedIsHidden, SearchTypeOK
<1> HIDE DEF doc, v
<1>6. /\ index' \in [Vehicles -> Document \cup {NULL}]
      /\ \A u \in Vehicles \ {v} : index'[u] = index[u]
  BY <1>1, <1>4, <1>5
<1>7. UndecidedIsHidden' /\ BackfillIsBacked'
  <2>1. SearchTypeOK' /\ BackfillIsBacked'
    BY <1>1, <1>2, <1>6 DEF SearchInv, UndecidedIsHidden, SearchTypeOK,
       BackfillIsBacked
  <2> QED BY <1>2, <1>3, <1>6, <2>1 DEF SearchInv, UndecidedIsHidden
<1>8. /\ DeliveredWasClaimed' /\ WorkIsSound' /\ ClaimedWasApplied'
      /\ AppliedIsDelivered'
  BY <1>1, GroupStays
<1>9. ShownIsApplied' /\ AppliedIsShown' /\ ClaimsAreEvents'
  BY <1>1, <1>2 DEF SearchInv, ShownIsApplied, AppliedIsShown, ClaimsAreEvents
<1>10. IndexIsShown'
  BY <1>1, <1>2, <1>6 DEF SearchInv, IndexIsShown
<1> QED BY <1>2, <1>7, <1>8, <1>9, <1>10 DEF SearchInv
-----------------------------------------------------------------------------
\* The inductive invariant of search fed by listing.
THEOREM SearchInvariance == Spec => []SearchInv
<1>1. Init => SearchInv
  <2> SUFFICES ASSUME Init PROVE SearchInv
    OBVIOUS
  <2>1. ListingInv
    BY ListingStart DEF Init
  <2>2. /\ topic \in Seq(Events) /\ Len(topic) = 0 /\ DOMAIN topic = {}
        /\ vehicle_events = << >>
    BY DEF Init, ListingInit
  <2>3. UndecidedIsHidden /\ BackfillIsBacked
    BY <2>2 DEF Init, UndecidedIsHidden, SearchTypeOK, BackfillIsBacked
  <2>4. TopicIsOrdered /\ DeliveredWasClaimed /\ WorkIsSound
        /\ ClaimedWasApplied /\ AppliedIsDelivered
    BY <2>2 DEF Init, TopicIsOrdered, DeliveredWasClaimed, WorkIsSound,
       ClaimedWasApplied, AppliedIsDelivered
  <2>5. ShownIsApplied /\ IndexIsShown /\ AppliedIsShown /\ ClaimsAreEvents
    BY DEF Init, ShownIsApplied, IndexIsShown, AppliedIsShown, ClaimsAreEvents
  <2> QED BY <2>1, <2>3, <2>4, <2>5 DEF SearchInv
<1>2. SearchInv /\ [Next]_vars => SearchInv'
  <2> SUFFICES ASSUME SearchInv, [Next]_vars PROVE SearchInv'
    OBVIOUS
  <2>1. CASE ListingNext /\ UNCHANGED searchVars
    BY <2>1, ListingMoves
  <2>2. CASE SearchNext /\ UNCHANGED listingVars
    <3>1. ASSUME NEW m \in Members,
                 Step(m) \/ Raise(m) \/ Restart(m) \/ Rebalance(m)
          PROVE  SearchInv'
      BY <2>2, <3>1, TakeStep, ClaimStep, ApplyStep, CommitOffsetStep,
         RaiseStep, RestartStep, RebalanceStep DEF Step
    <3> QED
      BY <2>2, <3>1, PublishStep, ReplayStep, ExpireStep, BackfillReadStep,
         BackfillWriteStep DEF SearchNext
  <2>3. CASE UNCHANGED vars
    <3>1. /\ UNCHANGED listingVars
          /\ UNCHANGED <<topic, published, processed, index, offset, backfill>>
          /\ UNCHANGED <<owner, alive, work>>
          /\ UNCHANGED <<applied, shown, interrupted, late, expired, backfilled>>
      BY <2>3 DEF vars, searchVars, group, history
    <3>2. offset \in Nat /\ offset \in 0..Len(topic)
      BY SearchFields
    <3>3. /\ alive \subseteq Members /\ owner \in alive \cup {NULL}
          /\ work \in [Members -> WorkItem \cup {NULL}]
          /\ \A m \in Members : work[m] # NULL => work[m].at \in DOMAIN topic
      BY DEF SearchInv, UndecidedIsHidden, SearchTypeOK
    <3> QED BY <3>1, <3>2, <3>3, StoresStay, GroupStays
  <2> QED BY <2>1, <2>2, <2>3 DEF Next
<1> QED BY <1>1, <1>2, PTL DEF Spec

\* A vehicle that no admin has decided on is never searchable, whatever is
\* redelivered, delayed or backfilled.
THEOREM HidesUndecided == Spec => []UndecidedIsHidden
<1>1. SearchInv => UndecidedIsHidden
  BY DEF SearchInv
<1> QED BY <1>1, SearchInvariance, PTL

\* Once everything is consumed, by however many members in turn, the index
\* shows the last event of a vehicle or one that was written late, but for the
\* three ways named: a failure between claim and write, a claim that expired,
\* and the backfill.
THEOREM ShowsLastEvent == Spec => []CaughtUpShowsLastEvent
<1>1. SearchInv => CaughtUpShowsLastEvent
  <2> SUFFICES ASSUME SearchInv, CaughtUp, NEW v \in Vehicles,
                      v \notin backfilled,
                      v \notin {VehicleOf(e) : e \in expired},
                      NEW e \in LastEventOf(v), e \notin interrupted
               PROVE  \E f \in {e} \cup late :
                         VehicleOf(f) = v /\ index[v] = Shows(f)
    BY DEF CaughtUpShowsLastEvent
  <2> USE SearchFields
  <2>1. /\ e \in DOMAIN vehicle_events /\ VehicleOf(e) = v
        /\ \A f \in DOMAIN vehicle_events : VehicleOf(f) = v => f <= e
    BY DEF LastEventOf, VehicleOf
  <2>2. e \in 1..published
    BY <2>1 DEF CaughtUp
  <2>3. PICK j \in DOMAIN topic : topic[j] = e
    BY <2>2 DEF SearchInv, TopicIsOrdered
  <2>4. e \in processed \cup expired
    BY <2>3 DEF CaughtUp, SearchInv, DeliveredWasClaimed
  <2>5. e \notin expired
    BY <2>1
  <2>6. e \in applied
    BY <2>4, <2>5 DEF CaughtUp, SearchInv, ClaimedWasApplied, InHand
  <2>7. shown[v] >= e \/ shown[v] \in late
    BY <2>1, <2>6 DEF SearchInv, AppliedIsShown
  <2>8. applied \subseteq DOMAIN vehicle_events /\ late \subseteq applied
    BY DEF SearchInv, AppliedIsDelivered, TopicIsOrdered
  <2>9. shown[v] \in Nat /\ shown[v] # 0
    BY <2>1, <2>7, <2>8 DEF SearchInv, ShownIsApplied
  <2>10. /\ shown[v] \in DOMAIN vehicle_events /\ VehicleOf(shown[v]) = v
         /\ index[v] = Shows(shown[v])
    BY <2>8, <2>9 DEF SearchInv, ShownIsApplied, IndexIsShown
  <2>11. shown[v] = e \/ shown[v] \in late
    BY <2>1, <2>7, <2>9, <2>10
  <2> QED BY <2>10, <2>11
<1> QED BY <1>1, SearchInvariance, PTL

\* Redelivery never takes a vehicle back to an older version while the claim
\* of the event lives (redis_inbox.py:12-14); only a member that has lost the
\* partition does.
THEOREM NeverGoesBack == Spec => NeverShowsOlder
<1>1. SearchInv /\ [Next]_vars =>
         [\A v \in Vehicles :
             shown'[v] < shown[v] => shown'[v] \in expired \cup late']_vars
  <2> SUFFICES ASSUME SearchInv, Next, NEW v \in Vehicles, shown'[v] < shown[v]
               PROVE  shown'[v] \in expired \cup late'
    OBVIOUS
  <2>1. shown \in [Vehicles -> Nat]
    BY DEF SearchInv, ShownIsApplied
  <2>2. shown' # shown
    BY <2>1
  <2>3. PICK m \in Members : Apply(m)
    BY <2>2 DEF Next, searchVars, SearchNext, Publish, Replay, Step, Take, Claim,
       CommitOffset, Raise, Restart, Rebalance, Expire, BackfillRead,
       BackfillWrite, history
  <2>4. shown'[v] = Event(m)
    BY <2>1, <2>3 DEF Apply
  <2>5. CASE work[m].fenced
    BY <2>3, <2>4, <2>5 DEF Apply
  <2>6. CASE ~ work[m].fenced
    <3>1. /\ work[m] # NULL /\ work[m].stage = "claimed"
      BY <2>3 DEF Apply
    <3>2. Event(m) \in Nat
      BY <3>1, SearchFields
    <3>3. shown[v] \in applied
      BY <2>1, <2>4, <3>2 DEF SearchInv, ShownIsApplied
    <3>4. Event(m) \in expired
      BY <2>4, <2>6, <3>1, <3>3, AppliedIsNewer
    <3> QED BY <2>4, <3>4
  <2> QED BY <2>5, <2>6
<1> QED BY <1>1, SearchInvariance, PTL DEF Spec, NeverShowsOlder
===============================================================================
