------------------------------- MODULE Telemetry -------------------------------
(***************************************************************************)
(* The telemetry service (src/services/telemetry).                         *)
(*                                                                         *)
(* A vehicle sends packets over a WebSocket, one at a time.  The ingest    *)
(* loop reads the kill switch for each packet, then publishes the packet   *)
(* to the raw topic.  A consumer group copies the topic in batches: to     *)
(* Mongo, then the last position of each vehicle to Redis, then it commits *)
(* the offset.  A member may fail between any two of these, and a          *)
(* rebalance may give its partition away while it is still at work.  As in *)
(* Notification, a task that ends with an error stays dead until its       *)
(* process restarts for some other reason.                                 *)
(*                                                                         *)
(* One partition is modelled: the key is the vehicle, so its records share *)
(* one.  A record is named by its place in the topic, which also stands    *)
(* for position and time in it.                                            *)
(***************************************************************************)
EXTENDS Integers, Sequences, FiniteSets

CONSTANTS
    Vehicles,
    Connections,   \* WebSockets
    Speeds,        \* speeds that vehicles report
    MaxSpeed,      \* the largest speed_kph a packet may have
    Members,       \* replicas, as members of the consumer group "telemetry"
    BatchSize,     \* max_records of one poll
    MaxPackets,    \* bound: records in the topic
    MaxFaults,     \* bound: failures and rebalances
    NULL

ASSUME TelemetryConstants ==
    /\ Speeds \subseteq Nat
    /\ {MaxSpeed, BatchSize, MaxPackets, MaxFaults} \subseteq Nat
    /\ Members # {}

VARIABLES
    kill_switch,   \* whether Redis has the key kill-switch:<vehicle>
    connection,    \* an open WebSocket and the packet it is working on
    raw,           \* the raw topic
    owner,         \* the member that the partition is assigned to, or NULL
    alive,         \* members whose consumer task runs
    offset,        \* the group's committed offset
    batch,         \* the batch each member is working on, or NULL
    packets,       \* Mongo: record -> number of documents
    location       \* Redis vehicle-location:<vehicle>: a record, 0 if none

VARIABLES          \* history, for the properties only
    again,         \* record -> number of its batches that were cut off
    overtaken,     \* vehicles whose position was last written by a member
                   \* that no longer owned the partition
    faults

ingestVars == <<kill_switch, connection, raw>>
consumerVars == <<owner, alive, offset, batch, packets, location, again, overtaken,
                  faults>>
vars == <<ingestVars, consumerVars>>

\* A packet in progress, with what the switch has been since its receipt.
Packet == [speed_kph : 0..MaxSpeed, seen : SUBSET BOOLEAN]

\* An open WebSocket; active is what is_active answered.
WebSocket == [vehicle_id : Vehicles, packet : Packet \cup {NULL},
              active : BOOLEAN \cup {NULL}]

\* Records from + 1 to upto of the topic.  A batch is fenced when its member
\* has lost the partition.
Batch == [from : Nat, upto : Nat, stored : BOOLEAN,
          positions : SUBSET Vehicles, fenced : BOOLEAN]

ASSUME NullAssumption ==
    NULL \notin Packet \cup WebSocket \cup Batch \cup BOOLEAN \cup Members
-----------------------------------------------------------------------------
(* The kill switch, written by the admin service.                          *)

\* What a packet in progress has seen of the switch is history.
Witness(cn, v, on) ==
    IF cn = NULL \/ cn.vehicle_id # v \/ cn.packet = NULL THEN cn
    ELSE [cn EXCEPT !.packet.seen = @ \cup {on}]

SetSwitch(v, on) ==
    /\ kill_switch' = [kill_switch EXCEPT ![v] = on]
    /\ connection' = [c \in Connections |-> Witness(connection[c], v, on)]
    /\ UNCHANGED <<raw, consumerVars>>
-----------------------------------------------------------------------------
(* The ingest loop of one connection.                                      *)

Idle(v) == [vehicle_id |-> v, packet |-> NULL, active |-> NULL]

\* decode_token lets the client in; another token closes the WebSocket.
Accept(c, v) ==
    /\ connection[c] = NULL
    /\ connection' = [connection EXCEPT ![c] = Idle(v)]
    /\ UNCHANGED <<kill_switch, raw, consumerVars>>

\* A packet that the schema refuses is answered "rejected" and forgotten.
parse_packet(speed) == speed <= MaxSpeed

Receive(c, speed) ==
    /\ connection[c] # NULL
    /\ connection[c].packet = NULL
    /\ parse_packet(speed)
    /\ connection' = [connection EXCEPT ![c].packet =
          [speed_kph |-> speed, seen |-> {kill_switch[connection[c].vehicle_id]}]]
    /\ UNCHANGED <<kill_switch, raw, consumerVars>>

\* Mutant: an error of Redis counts as "not active".
FailOpen(c) ==
    /\ connection[c] # NULL
    /\ connection[c].packet # NULL /\ connection[c].active = NULL
    /\ \E active \in {FALSE, kill_switch[connection[c].vehicle_id]} :
          connection' = [connection EXCEPT ![c].active = active]
    /\ UNCHANGED <<kill_switch, raw, consumerVars>>

is_active(c) ==
    /\ connection[c] # NULL
    /\ connection[c].packet # NULL /\ connection[c].active = NULL
    /\ connection' = [connection EXCEPT
          ![c].active = kill_switch[connection[c].vehicle_id]]
    /\ UNCHANGED <<kill_switch, raw, consumerVars>>

apply_kill_switch(speed, active) == IF active THEN 0 ELSE speed

\* send_and_wait and the acknowledgement.  When the acknowledgement of the
\* broker is lost, the handler raises and the connection closes although
\* the record is in the topic.
publish_packet(c) ==
    /\ connection[c] # NULL
    /\ connection[c].active # NULL
    /\ Len(raw) < MaxPackets
    /\ LET cn == connection[c]
       IN  /\ raw' = Append(raw,
                [vehicle_id |-> cn.vehicle_id,
                 speed_kph |-> apply_kill_switch(cn.packet.speed_kph, cn.active)])
           /\ \E next \in {NULL, Idle(cn.vehicle_id)} :
                 connection' = [connection EXCEPT ![c] = next]
    /\ UNCHANGED <<kill_switch, consumerVars>>

\* WebSocketDisconnect, an error of Redis or Kafka, or a crash: the packet
\* in progress is gone.
Disconnect(c) ==
    /\ connection[c] # NULL
    /\ connection' = [connection EXCEPT ![c] = NULL]
    /\ UNCHANGED <<kill_switch, raw, consumerVars>>
-----------------------------------------------------------------------------
(* The consumer.                                                           *)

Records(b) == b.from + 1 .. b.upto

VehiclesIn(b) == {raw[i].vehicle_id : i \in Records(b)}

\* Mutant: the first packet of a vehicle in the batch.
FirstOf(v, S) ==
    CHOOSE i \in S : /\ raw[i].vehicle_id = v
                     /\ \A j \in S : raw[j].vehicle_id = v => j >= i

\* build_batch: the last packet of a vehicle among the records wins.
LastOf(v, S) ==
    CHOOSE i \in S : /\ raw[i].vehicle_id = v
                     /\ \A j \in S : raw[j].vehicle_id = v => j <= i

\* getmany returns what has arrived, up to its limit.  A member that is
\* given the partition starts from the committed offset, and one that keeps
\* it has committed what it fetched before.
getmany(m, n) ==
    /\ owner = m
    /\ batch[m] = NULL
    /\ n \in 1..BatchSize
    /\ offset + n <= Len(raw)
    /\ batch' = [batch EXCEPT ![m] =
          [from |-> offset, upto |-> offset + n, stored |-> FALSE,
           positions |-> {}, fenced |-> FALSE]]
    /\ UNCHANGED <<ingestVars, owner, alive, offset, packets, location, again,
                   overtaken, faults>>

\* The documents of records S are inserted; there is no key to refuse one.
insert_many(S) ==
    [i \in 1..MaxPackets |-> packets[i] + (IF i \in S THEN 1 ELSE 0)]

write_batch(m) ==
    /\ batch[m] # NULL
    /\ ~ batch[m].stored
    /\ packets' = insert_many(Records(batch[m]))
    /\ batch' = [batch EXCEPT ![m].stored = TRUE,
                              ![m].positions = VehiclesIn(batch[m])]
    /\ UNCHANGED <<ingestVars, owner, alive, offset, location, again, overtaken,
                   faults>>

write_latest_position(m, v) ==
    /\ batch[m] # NULL
    /\ v \in batch[m].positions
    /\ location' = [location EXCEPT ![v] = LastOf(v, Records(batch[m]))]
    /\ batch' = [batch EXCEPT ![m].positions = @ \ {v}]
    /\ overtaken' = IF batch[m].fenced THEN overtaken \cup {v}
                    ELSE overtaken \ {v}
    /\ UNCHANGED <<ingestVars, owner, alive, offset, packets, again, faults>>

\* Mutant: the offset of the first record of the batch is committed.
CommitFirst(m) ==
    /\ batch[m] # NULL
    /\ batch[m].stored /\ batch[m].positions = {}
    /\ offset' = IF batch[m].fenced THEN offset ELSE batch[m].from
    /\ batch' = [batch EXCEPT ![m] = NULL]
    /\ UNCHANGED <<ingestVars, owner, alive, packets, location, again, overtaken,
                   faults>>

\* consumer.commit() speaks for the partitions of the current assignment.
commit(m) ==
    /\ batch[m] # NULL
    /\ batch[m].stored /\ batch[m].positions = {}
    /\ offset' = IF batch[m].fenced THEN offset ELSE batch[m].upto
    /\ batch' = [batch EXCEPT ![m] = NULL]
    /\ UNCHANGED <<ingestVars, owner, alive, packets, location, again, overtaken,
                   faults>>

CutOff(m) ==
    [i \in 1..MaxPackets |->
        again[i] + (IF batch[m] # NULL /\ ~ batch[m].fenced
                       /\ i \in Records(batch[m]) THEN 1 ELSE 0)]

Fault == faults < MaxFaults /\ faults' = faults + 1

\* Who may have the partition, once m's task has ended.
Assign(m) == IF owner # m THEN owner' = owner
             ELSE IF alive' = {} THEN owner' = NULL ELSE owner' \in alive'

\* Mutant: the group of a failed member starts from the end of the topic.
RestartAtLatest(m) ==
    /\ Fault
    /\ m \in alive
    /\ batch' = [batch EXCEPT ![m] = NULL]
    /\ alive' = alive
    /\ Assign(m)
    /\ offset' = Len(raw)
    /\ again' = CutOff(m)
    /\ UNCHANGED <<ingestVars, packets, location, overtaken>>

\* The process dies and comes back, or an error ends the task and the process
\* goes on without it; either way the batch is gone.  An insert_many under
\* way may have written a first part of it.
Fail(m) ==
    /\ Fault
    /\ m \in alive
    /\ IF batch[m] # NULL /\ ~ batch[m].stored
       THEN \E k \in 0 .. Cardinality(Records(batch[m])) :
               packets' = insert_many(batch[m].from + 1 .. batch[m].from + k)
       ELSE UNCHANGED packets
    /\ batch' = [batch EXCEPT ![m] = NULL]
    /\ alive' \in {alive, alive \ {m}}
    /\ Assign(m)
    /\ again' = CutOff(m)
    /\ UNCHANGED <<ingestVars, offset, location, overtaken>>

\* A process whose task is dead restarts, for whatever reason.
Restart(m) ==
    /\ m \notin alive
    /\ alive' = alive \cup {m}
    /\ owner' = IF owner = NULL THEN m ELSE owner
    /\ UNCHANGED <<ingestVars, offset, batch, packets, location, again,
                   overtaken, faults>>

\* The partition is given to another member; the one that had it goes on
\* with its batch, not knowing.
Rebalance(m) ==
    /\ Fault
    /\ m \in alive /\ owner \notin {m, NULL}
    /\ owner' = m
    /\ again' = CutOff(owner)
    /\ batch' = IF batch[owner] = NULL THEN batch
                ELSE [batch EXCEPT ![owner].fenced = TRUE]
    /\ UNCHANGED <<ingestVars, alive, offset, packets, location, overtaken>>

\* ex=ttl_seconds.
Expire(v) ==
    /\ location[v] # 0
    /\ location' = [location EXCEPT ![v] = 0]
    /\ UNCHANGED <<ingestVars, owner, alive, offset, batch, packets, again,
                   overtaken, faults>>
-----------------------------------------------------------------------------
Init ==
    /\ kill_switch = [v \in Vehicles |-> FALSE]
    /\ connection = [c \in Connections |-> NULL]
    /\ raw = << >>
    /\ owner \in Members /\ alive = Members
    /\ offset = 0
    /\ batch = [m \in Members |-> NULL]
    /\ packets = [i \in 1..MaxPackets |-> 0]
    /\ location = [v \in Vehicles |-> 0]
    /\ again = [i \in 1..MaxPackets |-> 0]
    /\ overtaken = {} /\ faults = 0

Consume(m) ==
    \/ \E n \in 1..BatchSize : getmany(m, n)
    \/ write_batch(m)
    \/ \E v \in Vehicles : write_latest_position(m, v)
    \/ commit(m)

Next ==
    \/ \E v \in Vehicles, on \in BOOLEAN : SetSwitch(v, on)
    \/ \E c \in Connections, v \in Vehicles : Accept(c, v)
    \/ \E c \in Connections, speed \in Speeds : Receive(c, speed)
    \/ \E c \in Connections : is_active(c) \/ publish_packet(c) \/ Disconnect(c)
    \/ \E m \in Members : Consume(m) \/ Fail(m) \/ Restart(m) \/ Rebalance(m)
    \/ \E v \in Vehicles : Expire(v)

\* A consumer task that can go on goes on; nobody owes a restart.
Fairness == \A m \in Members : WF_vars(Consume(m))

Spec == Init /\ [][Next]_vars /\ Fairness
-----------------------------------------------------------------------------
(* Properties.                                                             *)

\* Topic, stores and batches keep their shape; no published speed is beyond
\* the bound of the schema (schemas.py:6-10).
TelemetryTypeOK ==
    /\ kill_switch \in [Vehicles -> BOOLEAN]
    /\ connection \in [Connections -> WebSocket \cup {NULL}]
    /\ raw \in Seq([vehicle_id : Vehicles, speed_kph : 0..MaxSpeed])
    /\ offset \in 0..Len(raw)
    /\ packets \in [1..MaxPackets -> Nat]
    /\ location \in [Vehicles -> 0..Len(raw)]
    /\ batch \in [Members -> Batch \cup {NULL}]
    /\ \A m \in Members : batch[m] # NULL =>
          m \in alive /\ batch[m].upto <= Len(raw)
    /\ IF alive = {} THEN owner = NULL ELSE owner \in alive

\* "enforced server-side, not merely recorded" (ingest.py:21-24): a packet
\* during which the switch was on all the time, from receipt to
\* publication, is in the topic with speed zero, whatever the vehicle
\* reports; and one during which it was off is left as it was.  Only a
\* packet during which it changed may go either way.
EnforcedWhileOn ==
    [][\A c \in Connections :
          raw' # raw /\ connection'[c] # connection[c] =>
              LET packet == connection[c].packet
                  published == raw'[Len(raw')].speed_kph
              IN  /\ packet.seen = {TRUE} => published = 0
                  /\ packet.seen = {FALSE} => published = packet.speed_kph]_vars

\* Mongo holds what was delivered: no record below the committed offset is
\* missing, whatever failures and rebalances came between (consumer.py:54-65
\* commits last), and a record is there again only as often as a batch with it
\* was cut off.
StoredAsDelivered ==
    /\ TelemetryTypeOK
    /\ \A i \in 1..offset : packets[i] >= 1
    /\ \A i \in 1..MaxPackets : packets[i] <= 1 + again[i]

CaughtUp == offset = Len(raw) /\ \A m \in Members : batch[m] = NULL

RecordsOf(v) == {i \in DOMAIN raw : raw[i].vehicle_id = v}

\* "where is it now" (consumer.py:14-16): once everything is consumed, the
\* position of a vehicle is that of its last packet, or it has expired,
\* whatever was delivered again, unless a member that had lost the
\* partition wrote it last.
CaughtUpShowsLast ==
    CaughtUp =>
        \A v \in Vehicles \ overtaken :
            location[v] \in {0} \cup {i \in RecordsOf(v) :
                                        \A j \in RecordsOf(v) : j <= i}

\* A packet in the topic is stored in the end, as long as one replica keeps a
\* living task: an error or a rebalance, in whatever state it leaves batch and
\* offset, never strands a record.
PublishedIsStored ==
    \A i \in 1..MaxPackets :
        Len(raw) >= i ~> (packets[i] >= 1 \/ alive = {})
===============================================================================
