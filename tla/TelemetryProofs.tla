----------------------------- MODULE TelemetryProofs ----------------------------
(***************************************************************************)
(* Proofs about Telemetry, for any number of vehicles, connections,        *)
(* replicas, records and faults, and any size of a batch.                  *)
(*                                                                         *)
(* A member that has lost the partition goes on writing.  The argument     *)
(* separates its batch, which is fenced, from the one of the owner, which  *)
(* is live: only a live batch starts at the committed offset and moves it. *)
(* What a fenced batch still has to insert is counted as a repetition from *)
(* the moment it is fenced.                                                *)
(***************************************************************************)
EXTENDS Telemetry, FiniteSetTheorems, WellFoundedInduction, TLAPS

\* A packet in progress has seen the switch as it is, and as is_active
\* found it.
SeenIsTrue ==
    \A c \in Connections : connection[c] # NULL =>
        LET cn == connection[c]
        IN  /\ cn.packet # NULL => kill_switch[cn.vehicle_id] \in cn.packet.seen
            /\ cn.active # NULL => cn.packet # NULL /\ cn.active \in cn.packet.seen

Has(m, i) == batch[m] # NULL /\ i \in Records(batch[m])

Live(m) == batch[m] # NULL /\ ~ batch[m].fenced

\* Batches are of the topic, which is bounded.
BatchesAreOfTopic ==
    /\ Len(raw) <= MaxPackets
    /\ faults \in Nat
    /\ again \in [1..MaxPackets -> Nat]
    /\ alive \subseteq Members
    /\ \A m \in Members : batch[m] # NULL =>
          /\ batch[m].from < batch[m].upto
          /\ batch[m].positions \subseteq VehiclesIn(batch[m])
          /\ ~ batch[m].stored => batch[m].positions = {}

\* The live batch is that of the owner, and is next.
LiveIsNext ==
    \A m \in Members : Live(m) => owner = m /\ batch[m].from = offset

\* What is committed is stored, and what a batch says it has stored.
StoredIsThere ==
    /\ \A i \in 1..offset : packets[i] >= 1
    /\ \A m \in Members : batch[m] # NULL /\ batch[m].stored =>
          \A i \in Records(batch[m]) : packets[i] >= 1

\* Members whose fenced batch is going to insert record i.
Late(i) == {m \in Members : /\ Has(m, i)
                            /\ batch[m].fenced
                            /\ ~ batch[m].stored}

\* The record is there for good, or by the live batch.
Counts(i) == \/ i <= offset
             \/ \E m \in Members : Live(m) /\ batch[m].stored /\ Has(m, i)

CopiesAreAccounted ==
    \A i \in 1..MaxPackets :
        /\ IsFiniteSet(Late(i))
        /\ packets[i] + Cardinality(Late(i)) <= again[i] + 1
        /\ ~ Counts(i) => packets[i] + Cardinality(Late(i)) <= again[i]

\* Record i is the last one of v up to record n.
IsLastUpTo(v, i, n) ==
    /\ i \in DOMAIN raw
    /\ raw[i].vehicle_id = v
    /\ \A j \in DOMAIN raw : raw[j].vehicle_id = v /\ j <= n => j <= i

\* A position that no overtaken member wrote is at least as new as the
\* offset, and as the live batch if that has written it.
PositionIsNew ==
    \A v \in Vehicles \ overtaken : location[v] # 0 =>
        /\ IsLastUpTo(v, location[v], offset)
        /\ \A m \in Members :
              Live(m) /\ batch[m].stored /\ v \notin batch[m].positions =>
                  IsLastUpTo(v, location[v], batch[m].upto)

IInv == /\ TelemetryTypeOK
        /\ SeenIsTrue
        /\ BatchesAreOfTopic
        /\ LiveIsNext
        /\ StoredIsThere
        /\ CopiesAreAccounted
        /\ PositionIsNew
-----------------------------------------------------------------------------
(* Naturals.                                                               *)

\* The least of a set of naturals, by well-foundedness.
LEMMA Least ==
    ASSUME NEW T, T \subseteq Nat, T # {}
    PROVE  \E x \in T : \A y \in T : x <= y
  <1> DEFINE R == OpToRel(<, Nat)
  <1>1. IsWellFoundedOn(R, Nat)
    BY NatLessThanWellFounded
  <1>2. \A y, x \in Nat : y < x => <<y, x>> \in R
    BY DEF OpToRel
  <1> HIDE DEF R
  <1>3. PICK x \in T : \A y \in T : ~ (<<y, x>> \in R)
    BY <1>1, WFMin
  <1>4. \A y \in T : ~ (y < x)
    BY <1>2, <1>3
  <1>5. \A y \in T : y \in Nat
    OBVIOUS
  <1> QED BY <1>4, <1>5

\* The greatest of a bounded set, by the least of its complements.
LEMMA Greatest ==
    ASSUME NEW n \in Nat, NEW T, T \subseteq 1 .. n, T # {}
    PROVE  \E x \in T : \A y \in T : y <= x
  <1> DEFINE U == {n - x : x \in T}
  <1>1. \A y \in T : y \in 1 .. n
    OBVIOUS
  <1>2. U \subseteq Nat
    BY <1>1
  <1>3. U # {}
    OBVIOUS
  <1>4. PICK u \in U : \A w \in U : u <= w
    <2> HIDE DEF U
    <2> QED BY <1>2, <1>3, Least
  <1>5. PICK x \in T : u = n - x
    OBVIOUS
  <1>6. \A y \in T : n - x <= n - y
    BY <1>4, <1>5
  <1> QED BY <1>1, <1>6
-----------------------------------------------------------------------------
(* What the invariant says of the topic, a batch and a connection.         *)

Record == [vehicle_id : Vehicles, speed_kph : 0..MaxSpeed]

\* The topic and the offsets have their types and ranges.
LEMMA TopicFields ==
    ASSUME IInv
    PROVE  /\ raw \in Seq(Record)
           /\ Len(raw) \in Nat
           /\ DOMAIN raw = 1..Len(raw)
           /\ \A i \in DOMAIN raw : raw[i].vehicle_id \in Vehicles
           /\ offset \in Nat
           /\ offset <= Len(raw)
           /\ Len(raw) <= MaxPackets
           /\ MaxPackets \in Nat
           /\ MaxSpeed \in Nat
           /\ BatchSize \in Nat
           /\ packets \in [1..MaxPackets -> Nat]
           /\ again \in [1..MaxPackets -> Nat]
           /\ location \in [Vehicles -> 0..Len(raw)]
           /\ batch \in [Members -> Batch \cup {NULL}]
           /\ alive \subseteq Members
  <1>1. raw \in Seq(Record)
    BY DEF IInv, TelemetryTypeOK, Record
  <1>2. Len(raw) \in Nat /\ DOMAIN raw = 1..Len(raw)
    BY <1>1
  <1>3. \A i \in DOMAIN raw : raw[i] \in Record
    BY <1>1
  <1>4. \A i \in DOMAIN raw : raw[i].vehicle_id \in Vehicles
    BY <1>3 DEF Record
  <1>5. MaxPackets \in Nat /\ MaxSpeed \in Nat /\ BatchSize \in Nat
    BY TelemetryConstants
  <1> QED BY <1>1, <1>2, <1>4, <1>5
          DEF IInv, TelemetryTypeOK, BatchesAreOfTopic

\* A batch in hand is not empty and lies within the topic.
LEMMA BatchFields ==
    ASSUME IInv, NEW m \in Members, batch[m] # NULL
    PROVE  /\ batch[m] \in Batch
           /\ batch[m].from \in Nat
           /\ batch[m].upto \in Nat
           /\ batch[m].stored \in BOOLEAN
           /\ batch[m].positions \in SUBSET Vehicles
           /\ batch[m].fenced \in BOOLEAN
           /\ m \in alive
           /\ batch[m].from < batch[m].upto
           /\ batch[m].upto <= Len(raw)
           /\ Records(batch[m]) \subseteq DOMAIN raw
           /\ Records(batch[m]) \subseteq 1..MaxPackets
           /\ batch[m].positions \subseteq VehiclesIn(batch[m])
           /\ ~ batch[m].stored => batch[m].positions = {}
  <1>1. batch[m] \in Batch
    BY TopicFields
  <1>2. /\ batch[m].from \in Nat
        /\ batch[m].upto \in Nat
        /\ batch[m].stored \in BOOLEAN
        /\ batch[m].positions \in SUBSET Vehicles
        /\ batch[m].fenced \in BOOLEAN
    BY <1>1 DEF Batch
  <1>3. /\ m \in alive
        /\ batch[m].from < batch[m].upto
        /\ batch[m].upto <= Len(raw)
        /\ batch[m].positions \subseteq VehiclesIn(batch[m])
        /\ ~ batch[m].stored => batch[m].positions = {}
    BY DEF IInv, TelemetryTypeOK, BatchesAreOfTopic
  <1>4. /\ Records(batch[m]) \subseteq DOMAIN raw
        /\ Records(batch[m]) \subseteq 1..MaxPackets
    BY <1>2, <1>3, TopicFields DEF Records
  <1> QED BY <1>1, <1>2, <1>3, <1>4

\* The fields of an open connection have their types.
LEMMA SocketFields ==
    ASSUME IInv, NEW c \in Connections, connection[c] # NULL
    PROVE  /\ connection[c] \in WebSocket
           /\ connection[c].vehicle_id \in Vehicles
           /\ connection[c].packet \in Packet \cup {NULL}
           /\ connection[c].active \in BOOLEAN \cup {NULL}
           /\ kill_switch[connection[c].vehicle_id] \in BOOLEAN
           /\ connection[c].packet # NULL =>
                 /\ connection[c].packet.speed_kph \in 0..MaxSpeed
                 /\ connection[c].packet.seen \in SUBSET BOOLEAN
  <1>1. connection[c] \in WebSocket
    BY DEF IInv, TelemetryTypeOK
  <1>2. /\ connection[c].vehicle_id \in Vehicles
        /\ connection[c].packet \in Packet \cup {NULL}
        /\ connection[c].active \in BOOLEAN \cup {NULL}
    BY <1>1 DEF WebSocket
  <1>3. kill_switch[connection[c].vehicle_id] \in BOOLEAN
    BY <1>2 DEF IInv, TelemetryTypeOK
  <1>4. connection[c].packet # NULL =>
                 /\ connection[c].packet.speed_kph \in 0..MaxSpeed
                 /\ connection[c].packet.seen \in SUBSET BOOLEAN
    BY <1>2 DEF Packet
  <1> QED BY <1>1, <1>2, <1>3, <1>4

\* At most one batch is live.
LEMMA LiveIsOne ==
    ASSUME IInv, NEW m \in Members, NEW o \in Members, Live(m), Live(o)
    PROVE  m = o
  BY DEF IInv, LiveIsNext
-----------------------------------------------------------------------------
(* The initial state.                                                      *)

\* The empty topic satisfies the invariant.
LEMMA InitIInv == Init => IInv
  <1> SUFFICES ASSUME Init PROVE IInv
    OBVIOUS
  <1> USE DEF Init
  <1>1. MaxPackets \in Nat /\ MaxSpeed \in Nat /\ Members # {}
    BY TelemetryConstants
  <1>2. \A m \in Members : batch[m] = NULL
    OBVIOUS
  <1>3. \A c \in Connections : connection[c] = NULL
    OBVIOUS
  <1>4. raw \in Seq([vehicle_id : Vehicles, speed_kph : 0..MaxSpeed]) /\ Len(raw) = 0
    OBVIOUS
  <1>5. connection \in [Connections -> WebSocket \cup {NULL}]
    OBVIOUS
  <1>6. batch \in [Members -> Batch \cup {NULL}]
    OBVIOUS
  <1>7. TelemetryTypeOK
    BY <1>1, <1>2, <1>4, <1>5, <1>6 DEF TelemetryTypeOK
  <1>8. SeenIsTrue
    BY <1>3 DEF SeenIsTrue
  <1>9. BatchesAreOfTopic
    BY <1>1, <1>2, <1>4 DEF BatchesAreOfTopic
  <1>10. LiveIsNext
    BY <1>2 DEF LiveIsNext, Live
  <1>11. StoredIsThere
    BY <1>2 DEF StoredIsThere
  <1>12. CopiesAreAccounted
    <2> SUFFICES ASSUME NEW i \in 1..MaxPackets
                 PROVE  /\ IsFiniteSet(Late(i))
                        /\ packets[i] + Cardinality(Late(i)) <= again[i] + 1
                        /\ packets[i] + Cardinality(Late(i)) <= again[i]
      BY DEF CopiesAreAccounted
    <2>1. Late(i) = {}
      BY <1>2 DEF Late, Has
    <2>2. IsFiniteSet({}) /\ Cardinality({}) = 0
      BY FS_EmptySet
    <2> QED BY <2>1, <2>2
  <1>13. PositionIsNew
    BY DEF PositionIsNew
  <1> QED BY <1>7, <1>8, <1>9, <1>10, <1>11, <1>12, <1>13 DEF IInv
-----------------------------------------------------------------------------
(* The ingest loop.                                                        *)

\* What a step leaves alone that writes neither to the topic nor to what
\* the consumers keep.
LEMMA ConsumersStand ==
    ASSUME IInv, UNCHANGED <<raw, consumerVars>>
    PROVE  /\ (/\ kill_switch' \in [Vehicles -> BOOLEAN]
               /\ connection' \in [Connections -> WebSocket \cup {NULL}])
                 => TelemetryTypeOK'
           /\ BatchesAreOfTopic'
           /\ LiveIsNext'
           /\ StoredIsThere'
           /\ CopiesAreAccounted'
           /\ PositionIsNew'
  <1>1. UNCHANGED <<raw, owner, alive, offset, batch, packets, location, again,
                    overtaken, faults>>
    BY DEF consumerVars
  <1>2. (/\ kill_switch' \in [Vehicles -> BOOLEAN]
         /\ connection' \in [Connections -> WebSocket \cup {NULL}])
           => TelemetryTypeOK'
    BY <1>1 DEF IInv, TelemetryTypeOK
  <1>3. BatchesAreOfTopic' /\ LiveIsNext'
    BY <1>1 DEF IInv, BatchesAreOfTopic, LiveIsNext, Live, VehiclesIn, Records
  <1>4. StoredIsThere'
    BY <1>1 DEF IInv, StoredIsThere, Records
  <1>5. \A i : Late(i)' = Late(i) /\ Counts(i)' = Counts(i)
    BY <1>1 DEF Late, Counts, Has, Live, Records
  <1>6. CopiesAreAccounted'
    BY <1>1, <1>5 DEF IInv, CopiesAreAccounted
  <1>7. PositionIsNew'
    BY <1>1 DEF IInv, PositionIsNew, IsLastUpTo, Live
  <1> QED BY <1>2, <1>3, <1>4, <1>6, <1>7

\* Setting a kill switch keeps the invariant.
LEMMA SwitchStep ==
    ASSUME IInv, NEW v \in Vehicles, NEW on \in BOOLEAN, SetSwitch(v, on)
    PROVE  IInv'
  <1>1. /\ kill_switch' \in [Vehicles -> BOOLEAN]
        /\ kill_switch'[v] = on
        /\ \A u \in Vehicles \ {v} : kill_switch'[u] = kill_switch[u]
        /\ UNCHANGED <<raw, consumerVars>>
        /\ connection' = [c \in Connections |-> Witness(connection[c], v, on)]
    BY DEF SetSwitch, IInv, TelemetryTypeOK
  <1>2. ASSUME NEW c \in Connections
        PROVE  /\ connection'[c] \in WebSocket \cup {NULL}
               /\ connection'[c] # NULL =>
                    LET cn == connection'[c]
                    IN  /\ cn.packet # NULL =>
                              kill_switch'[cn.vehicle_id] \in cn.packet.seen
                        /\ cn.active # NULL =>
                              cn.packet # NULL /\ cn.active \in cn.packet.seen
    <2>1. connection'[c] = Witness(connection[c], v, on)
      BY <1>1
    <2>2. CASE connection[c] = NULL
      BY <2>1, <2>2 DEF Witness
    <2>3. CASE connection[c] # NULL
      <3> DEFINE cn == connection[c]
      <3>1. /\ cn \in WebSocket
            /\ cn.vehicle_id \in Vehicles
            /\ cn.packet \in Packet \cup {NULL}
            /\ cn.active \in BOOLEAN \cup {NULL}
        BY <2>3, SocketFields
      <3>2. /\ cn.packet # NULL => kill_switch[cn.vehicle_id] \in cn.packet.seen
            /\ cn.active # NULL => cn.packet # NULL /\ cn.active \in cn.packet.seen
        BY <2>3 DEF IInv, SeenIsTrue
      <3>3. CASE cn.vehicle_id # v \/ cn.packet = NULL
        <4>1. connection'[c] = cn
          BY <2>1, <3>3 DEF Witness
        <4> QED BY <4>1, <3>1, <3>2, <3>3, <1>1
      <3>4. CASE cn.vehicle_id = v /\ cn.packet # NULL
        <4> DEFINE p == [cn.packet EXCEPT !.seen = @ \cup {on}]
                   new == [cn EXCEPT !.packet = p]
        <4>1. /\ p \in Packet
              /\ p.seen = cn.packet.seen \cup {on}
          BY <3>1, <3>4 DEF Packet
        <4>2. p # NULL
          BY <4>1, NullAssumption
        <4>3. connection'[c] = new
          BY <2>1, <2>3, <3>4 DEF Witness
        <4> HIDE DEF p
        <4>4. /\ new \in WebSocket
              /\ new.vehicle_id = cn.vehicle_id
              /\ new.packet = p
              /\ new.active = cn.active
          BY <3>1, <4>1 DEF WebSocket
        <4> HIDE DEF new, cn
        <4> QED BY <1>1, <3>2, <3>4, <4>1, <4>2, <4>3, <4>4
      <3> QED BY <3>3, <3>4
    <2> QED BY <2>2, <2>3
  <1>3. connection' \in [Connections -> WebSocket \cup {NULL}]
    BY <1>1, <1>2
  <1>4. SeenIsTrue'
    BY <1>2 DEF SeenIsTrue
  <1> QED BY <1>1, <1>3, <1>4, ConsumersStand DEF IInv

\* The steps of one connection short of publication.
LEMMA SocketStep ==
    ASSUME IInv, NEW c \in Connections, NEW new \in WebSocket \cup {NULL},
           connection' = [connection EXCEPT ![c] = new],
           UNCHANGED <<kill_switch, raw, consumerVars>>,
           new # NULL =>
              /\ new.packet # NULL => kill_switch[new.vehicle_id] \in new.packet.seen
              /\ new.active # NULL => new.packet # NULL /\ new.active \in new.packet.seen
    PROVE  IInv'
  <1>1. /\ connection' \in [Connections -> WebSocket \cup {NULL}]
        /\ connection'[c] = new
        /\ \A d \in Connections \ {c} : connection'[d] = connection[d]
        /\ kill_switch' \in [Vehicles -> BOOLEAN]
    BY DEF IInv, TelemetryTypeOK
  <1>2. SeenIsTrue'
    BY <1>1 DEF IInv, SeenIsTrue
  <1> QED BY <1>1, <1>2, ConsumersStand DEF IInv

\* A connection that was just accepted has nothing in flight.
LEMMA IdleFields ==
    ASSUME NEW v \in Vehicles
    PROVE  /\ Idle(v) \in WebSocket
           /\ Idle(v).vehicle_id = v
           /\ Idle(v).packet = NULL
           /\ Idle(v).active = NULL
  BY DEF Idle, WebSocket

\* A step of one connection that publishes nothing keeps the invariant.
LEMMA ConnectionStep ==
    ASSUME IInv, NEW c \in Connections,
           \/ \E v \in Vehicles : Accept(c, v)
           \/ \E speed \in Speeds : Receive(c, speed)
           \/ is_active(c)
           \/ Disconnect(c)
    PROVE  IInv'
  <1>1. ASSUME NEW v \in Vehicles, Accept(c, v)
        PROVE  IInv'
    <2>1. /\ connection' = [connection EXCEPT ![c] = Idle(v)]
          /\ UNCHANGED <<kill_switch, raw, consumerVars>>
      BY <1>1 DEF Accept
    <2> QED BY <2>1, IdleFields, SocketStep
  <1>2. ASSUME NEW speed \in Speeds, Receive(c, speed)
        PROVE  IInv'
    <2> DEFINE cn == connection[c]
               p == [speed_kph |-> speed, seen |-> {kill_switch[cn.vehicle_id]}]
               new == [cn EXCEPT !.packet = p]
    <2>1. /\ cn # NULL
          /\ cn.packet = NULL
          /\ speed <= MaxSpeed
          /\ connection' = [connection EXCEPT ![c] = new]
          /\ UNCHANGED <<kill_switch, raw, consumerVars>>
      BY <1>2 DEF Receive, parse_packet
    <2>2. /\ cn \in WebSocket
          /\ kill_switch[cn.vehicle_id] \in BOOLEAN
          /\ cn.active = NULL
      BY <2>1, SocketFields DEF IInv, SeenIsTrue
    <2>3. speed \in 0..MaxSpeed
      BY <2>1, TelemetryConstants
    <2>4. p \in Packet /\ p.seen = {kill_switch[cn.vehicle_id]}
      BY <2>2, <2>3 DEF Packet
    <2> HIDE DEF p
    <2>5. /\ new \in WebSocket
          /\ new.vehicle_id = cn.vehicle_id
          /\ new.packet = p
          /\ new.active = NULL
      BY <2>2, <2>4 DEF WebSocket
    <2> HIDE DEF new
    <2> QED BY <2>1, <2>4, <2>5, SocketStep
  <1>3. ASSUME is_active(c)
        PROVE  IInv'
    <2> DEFINE cn == connection[c]
               on == kill_switch[cn.vehicle_id]
               new == [cn EXCEPT !.active = on]
    <2>1. /\ cn # NULL
          /\ cn.packet # NULL
          /\ connection' = [connection EXCEPT ![c] = new]
          /\ UNCHANGED <<kill_switch, raw, consumerVars>>
      BY <1>3 DEF is_active
    <2>2. /\ cn \in WebSocket
          /\ on \in BOOLEAN
          /\ on \in cn.packet.seen
      BY <2>1, SocketFields DEF IInv, SeenIsTrue
    <2>3. /\ new \in WebSocket
          /\ new.vehicle_id = cn.vehicle_id
          /\ new.packet = cn.packet
          /\ new.active = on
      BY <2>2 DEF WebSocket
    <2> HIDE DEF new
    <2> QED BY <2>1, <2>2, <2>3, SocketStep
  <1>4. ASSUME Disconnect(c)
        PROVE  IInv'
    BY <1>4, SocketStep DEF Disconnect
  <1> QED BY <1>1, <1>2, <1>3, <1>4

\* Publishing a packet keeps the invariant.
LEMMA PublishStep ==
    ASSUME IInv, NEW c \in Connections, publish_packet(c)
    PROVE  IInv'
  <1> DEFINE cn == connection[c]
             rec == [vehicle_id |-> cn.vehicle_id,
                     speed_kph |-> apply_kill_switch(cn.packet.speed_kph, cn.active)]
             n == Len(raw)
  <1>1. /\ cn # NULL
        /\ cn.active # NULL
        /\ n < MaxPackets
        /\ raw' = Append(raw, rec)
        /\ \E next \in {NULL, Idle(cn.vehicle_id)} :
              connection' = [connection EXCEPT ![c] = next]
        /\ UNCHANGED <<kill_switch, owner, alive, offset, batch, packets, location,
                       again, overtaken, faults>>
    BY DEF publish_packet, consumerVars
  <1>2. /\ cn.vehicle_id \in Vehicles
        /\ cn.active \in BOOLEAN
        /\ cn.packet # NULL
        /\ cn.packet.speed_kph \in 0..MaxSpeed
    BY <1>1, SocketFields DEF IInv, SeenIsTrue
  <1>3. rec \in Record
    BY <1>2, TelemetryConstants DEF Record, apply_kill_switch
  <1> HIDE DEF rec
  <1>4. /\ raw \in Seq(Record)
        /\ n \in Nat
        /\ DOMAIN raw = 1..n
        /\ offset \in Nat
        /\ offset <= n
        /\ MaxPackets \in Nat
    BY TopicFields
  <1>5. /\ raw' \in Seq(Record)
        /\ Len(raw') = n + 1
        /\ DOMAIN raw' = 1 .. n + 1
        /\ \A i \in 1..n : raw'[i] = raw[i]
    BY <1>1, <1>3, <1>4
  <1>6. PICK next \in {NULL, Idle(cn.vehicle_id)} :
           connection' = [connection EXCEPT ![c] = next]
    BY <1>1
  <1>7. next = NULL \/ (next \in WebSocket /\ next.packet = NULL /\ next.active = NULL)
    BY <1>2, <1>6, IdleFields
  <1>8. /\ connection' \in [Connections -> WebSocket \cup {NULL}]
        /\ connection'[c] = next
        /\ \A d \in Connections \ {c} : connection'[d] = connection[d]
    BY <1>6, <1>7 DEF IInv, TelemetryTypeOK
  <1>9. SeenIsTrue'
    BY <1>1, <1>7, <1>8 DEF IInv, SeenIsTrue
  <1> HIDE DEF n
  <1>10. ASSUME NEW m \in Members, batch[m] # NULL
         PROVE  /\ m \in alive
                /\ batch[m].upto \in Nat
                /\ batch[m].upto <= n
                /\ batch[m].upto <= Len(raw')
                /\ VehiclesIn(batch[m])' = VehiclesIn(batch[m])
    <2>1. /\ m \in alive
          /\ batch[m].upto \in Nat
          /\ batch[m].upto <= n
          /\ Records(batch[m]) \subseteq 1..n
      BY <1>4, <1>10, BatchFields DEF n
    <2>2. Records(batch[m])' = Records(batch[m])
      BY <1>1 DEF Records
    <2>3. \A i \in Records(batch[m]) : raw'[i] = raw[i]
      BY <2>1, <1>5
    <2>4. VehiclesIn(batch[m])' = VehiclesIn(batch[m])
      BY <2>2, <2>3 DEF VehiclesIn
    <2> QED BY <1>4, <1>5, <2>1, <2>4
  <1>11. TelemetryTypeOK'
    <2>1. location' \in [Vehicles -> 0..Len(raw')]
      BY <1>1, <1>4, <1>5, TopicFields DEF n
    <2>2. raw' \in Seq([vehicle_id : Vehicles, speed_kph : 0..MaxSpeed])
      BY <1>5 DEF Record
    <2> QED BY <1>1, <1>4, <1>5, <1>8, <1>10, <2>1, <2>2
            DEF IInv, TelemetryTypeOK
  <1>12. BatchesAreOfTopic'
    BY <1>1, <1>4, <1>5, <1>10 DEF IInv, BatchesAreOfTopic, n
  <1>13. LiveIsNext'
    BY <1>1 DEF IInv, LiveIsNext, Live
  <1>14. StoredIsThere'
    BY <1>1 DEF IInv, StoredIsThere, Records
  <1>15. CopiesAreAccounted'
    <2>1. \A i : Late(i)' = Late(i) /\ Counts(i)' = Counts(i)
      BY <1>1 DEF Late, Counts, Has, Live, Records
    <2> QED BY <1>1, <2>1 DEF IInv, CopiesAreAccounted
  <1>16. PositionIsNew'
    <2> SUFFICES ASSUME NEW v \in Vehicles \ overtaken, location[v] # 0
                 PROVE  /\ IsLastUpTo(v, location[v], offset)'
                        /\ \A m \in Members :
                              Live(m) /\ batch[m].stored /\ v \notin batch[m].positions =>
                                  IsLastUpTo(v, location[v], batch[m].upto)'
      BY <1>1 DEF PositionIsNew, Live
    <2>1. location[v] \in Nat
      BY <1>4, TopicFields
    <2>2. /\ IsLastUpTo(v, location[v], offset)
          /\ \A m \in Members :
                Live(m) /\ batch[m].stored /\ v \notin batch[m].positions =>
                    IsLastUpTo(v, location[v], batch[m].upto)
      BY DEF IInv, PositionIsNew
    <2>3. location'[v] = location[v] /\ offset' = offset /\ batch' = batch
      BY <1>1
    <2>4. IsLastUpTo(v, location[v], offset)'
      BY <1>4, <1>5, <2>2, <2>3 DEF IsLastUpTo
    <2>5. ASSUME NEW m \in Members, Live(m), batch[m].stored,
                 v \notin batch[m].positions
          PROVE  IsLastUpTo(v, location[v], batch[m].upto)'
      <3>1. /\ IsLastUpTo(v, location[v], batch[m].upto)
            /\ batch[m].upto \in Nat
            /\ batch[m].upto <= n
        BY <2>2, <2>5, <1>10 DEF Live
      <3> QED BY <1>4, <1>5, <2>3, <3>1 DEF IsLastUpTo
    <2> QED BY <2>4, <2>5
  <1> QED BY <1>9, <1>11, <1>12, <1>13, <1>14, <1>15, <1>16 DEF IInv
-----------------------------------------------------------------------------
(* Facts the steps of the consumers share.                                 *)

\* A step of a consumer leaves the ingest loop alone.
LEMMA IngestStands ==
    ASSUME IInv, UNCHANGED ingestVars
    PROVE  /\ UNCHANGED raw
           /\ SeenIsTrue'
           /\ kill_switch' \in [Vehicles -> BOOLEAN]
           /\ connection' \in [Connections -> WebSocket \cup {NULL}]
           /\ raw' \in Seq([vehicle_id : Vehicles, speed_kph : 0..MaxSpeed])
           /\ Len(raw') = Len(raw)
  BY DEF IInv, SeenIsTrue, TelemetryTypeOK, ingestVars

\* Two sets that differ in one element at most.
LEMMA ToggleCard ==
    ASSUME NEW A, NEW B, NEW m, IsFiniteSet(A), A \ {m} = B \ {m}
    PROVE  /\ IsFiniteSet(B)
           /\ Cardinality(A) \in Nat
           /\ Cardinality(B) \in Nat
           /\ (m \in A <=> m \in B) => Cardinality(B) = Cardinality(A)
           /\ m \in A /\ m \notin B => Cardinality(A) = Cardinality(B) + 1
           /\ m \notin A /\ m \in B => Cardinality(B) = Cardinality(A) + 1
  <1>1. Cardinality(A) \in Nat
    BY FS_CardinalityType
  <1>2. CASE m \in A <=> m \in B
    <2>1. A = B
      BY <1>2
    <2> QED BY <1>1, <1>2, <2>1
  <1>3. CASE m \in A /\ m \notin B
    <2>1. B = A \ {m}
      BY <1>3
    <2>2. IsFiniteSet(A \ {m}) /\ Cardinality(A \ {m}) = Cardinality(A) - 1
      BY <1>3, FS_RemoveElement
    <2>3. Cardinality(B) \in Nat
      BY <2>1, <2>2, FS_CardinalityType
    <2> QED BY <1>1, <1>3, <2>1, <2>2, <2>3
  <1>4. CASE m \notin A /\ m \in B
    <2>1. B = A \cup {m}
      BY <1>4
    <2>2. /\ IsFiniteSet(A \cup {m})
          /\ Cardinality(A \cup {m}) = Cardinality(A) + 1
      BY <1>4, FS_AddElement
    <2> QED BY <1>1, <1>4, <2>1, <2>2
  <1> QED BY <1>2, <1>3, <1>4

\* When one batch changes, a record is late for one member more or less at
\* most, and the copies of it stay accounted for if that is made up for.
LEMMA AccountStep ==
    ASSUME IInv, NEW m \in Members,
           \A o \in Members \ {m} : batch'[o] = batch[o],
           NEW i \in 1..MaxPackets,
           packets'[i] \in Nat, again'[i] \in Nat,
           \/ /\ m \in Late(i) <=> m \in Late(i)'
              /\ packets'[i] - again'[i] <= packets[i] - again[i]
              /\ Counts(i) => Counts(i)'
           \/ /\ m \in Late(i) <=> m \in Late(i)'
              /\ packets'[i] - again'[i] <= packets[i] - again[i] - 1
           \/ /\ m \in Late(i) <=> m \in Late(i)'
              /\ packets'[i] - again'[i] <= packets[i] - again[i] + 1
              /\ ~ Counts(i) /\ Counts(i)'
           \/ /\ m \in Late(i) /\ m \notin Late(i)'
              /\ packets'[i] - again'[i] <= packets[i] - again[i] + 1
              /\ Counts(i) => Counts(i)'
           \/ /\ m \notin Late(i) /\ m \in Late(i)'
              /\ packets'[i] - again'[i] <= packets[i] - again[i] - 1
              /\ Counts(i) => Counts(i)'
    PROVE  /\ IsFiniteSet(Late(i))'
           /\ packets'[i] + Cardinality(Late(i))' <= again'[i] + 1
           /\ ~ Counts(i)' => packets'[i] + Cardinality(Late(i))' <= again'[i]
  <1>1. /\ IsFiniteSet(Late(i))
        /\ packets[i] + Cardinality(Late(i)) <= again[i] + 1
        /\ ~ Counts(i) => packets[i] + Cardinality(Late(i)) <= again[i]
    BY DEF IInv, CopiesAreAccounted
  <1>2. packets[i] \in Nat /\ again[i] \in Nat
    BY TopicFields
  <1>3. Late(i) \ {m} = Late(i)' \ {m}
    BY DEF Late, Has, Records
  <1> DEFINE A == Late(i)
             B == Late(i)'
             a == Cardinality(A)
             b == Cardinality(B)
  <1>4. /\ IsFiniteSet(B)
        /\ a \in Nat
        /\ b \in Nat
        /\ (m \in A <=> m \in B) => b = a
        /\ m \in A /\ m \notin B => a = b + 1
        /\ m \notin A /\ m \in B => b = a + 1
    <2> HIDE DEF A, B
    <2>1. IsFiniteSet(A) /\ A \ {m} = B \ {m}
      BY <1>1, <1>3 DEF A, B
    <2> QED BY <2>1, ToggleCard
  <1> DEFINE p == packets[i]  q == packets'[i]  g == again[i]  h == again'[i]
             k == Counts(i)   l == Counts(i)'
             r == m \in A     t == m \in B
  <1>5. /\ a \in Nat /\ b \in Nat /\ p \in Nat /\ q \in Nat /\ g \in Nat /\ h \in Nat
        /\ (r <=> t) => b = a
        /\ r /\ ~ t => a = b + 1
        /\ ~ r /\ t => b = a + 1
        /\ p + a <= g + 1
        /\ ~ k => p + a <= g
        /\ \/ (r <=> t) /\ q - h <= p - g /\ (k => l)
           \/ (r <=> t) /\ q - h <= p - g - 1
           \/ (r <=> t) /\ q - h <= p - g + 1 /\ ~ k /\ l
           \/ r /\ ~ t /\ q - h <= p - g + 1 /\ (k => l)
           \/ ~ r /\ t /\ q - h <= p - g - 1 /\ (k => l)
    BY <1>1, <1>2, <1>4
  <1> HIDE DEF a, b, p, q, g, h, k, l, r, t
  <1>6. q + b <= h + 1 /\ (~ l => q + b <= h)
    BY <1>5
  <1> QED BY <1>4, <1>6 DEF a, b, q, h, l, A, B
-----------------------------------------------------------------------------
(* The consumers.                                                          *)

\* A member that fetches a batch keeps the invariant.
LEMMA FetchStep ==
    ASSUME IInv, NEW m \in Members, NEW n \in 1..BatchSize, getmany(m, n)
    PROVE  IInv'
  <1> DEFINE new == [from |-> offset, upto |-> offset + n, stored |-> FALSE,
                     positions |-> {}, fenced |-> FALSE]
  <1>1. /\ owner = m
        /\ batch[m] = NULL
        /\ offset + n <= Len(raw)
        /\ batch' = [batch EXCEPT ![m] = new]
        /\ UNCHANGED <<ingestVars, owner, alive, offset, packets, location, again,
                       overtaken, faults>>
    BY DEF getmany
  <1>2. n \in Nat \ {0} /\ offset \in Nat /\ offset + n \in Nat
    BY TopicFields
  <1>3. /\ new \in Batch
        /\ new.from = offset
        /\ new.upto = offset + n
        /\ new.stored = FALSE
        /\ new.positions = {}
        /\ new.fenced = FALSE
    BY <1>2 DEF Batch
  <1>4. new # NULL
    BY <1>3, NullAssumption
  <1> HIDE DEF new
  <1>5. /\ batch' \in [Members -> Batch \cup {NULL}]
        /\ batch'[m] = new
        /\ \A o \in Members \ {m} : batch'[o] = batch[o]
    BY <1>1, <1>3, TopicFields
  <1>6. m \in alive
    BY <1>1, NullAssumption DEF IInv, TelemetryTypeOK
  <1>7. /\ UNCHANGED raw
        /\ SeenIsTrue'
        /\ kill_switch' \in [Vehicles -> BOOLEAN]
        /\ connection' \in [Connections -> WebSocket \cup {NULL}]
        /\ raw' \in Seq([vehicle_id : Vehicles, speed_kph : 0..MaxSpeed])
    BY <1>1, IngestStands
  <1>8. TelemetryTypeOK'
    BY <1>1, <1>3, <1>5, <1>6, <1>7 DEF IInv, TelemetryTypeOK
  <1>9. BatchesAreOfTopic'
    <2>1. \A o \in Members \ {m} : VehiclesIn(batch[o])' = VehiclesIn(batch[o])
      BY <1>5, <1>7 DEF VehiclesIn, Records
    <2> QED BY <1>1, <1>2, <1>3, <1>5, <1>7, <2>1 DEF IInv, BatchesAreOfTopic
  <1>10. \A o \in Members \ {m} : ~ Live(o)
    BY <1>1 DEF IInv, LiveIsNext
  <1>11. LiveIsNext'
    BY <1>1, <1>3, <1>5, <1>10 DEF LiveIsNext, Live
  <1>12. StoredIsThere'
    BY <1>1, <1>3, <1>5 DEF IInv, StoredIsThere, Records
  <1>13. CopiesAreAccounted'
    <2> SUFFICES ASSUME NEW i \in 1..MaxPackets
                 PROVE  /\ IsFiniteSet(Late(i))'
                        /\ packets'[i] + Cardinality(Late(i))' <= again'[i] + 1
                        /\ ~ Counts(i)' =>
                              packets'[i] + Cardinality(Late(i))' <= again'[i]
      BY DEF CopiesAreAccounted
    <2>1. m \notin Late(i) /\ m \notin Late(i)'
      BY <1>1, <1>3, <1>5 DEF Late, Has
    <2>2. Counts(i) => Counts(i)'
      BY <1>1, <1>5, <1>10 DEF Counts, Live
    <2>3. /\ packets'[i] = packets[i] /\ again'[i] = again[i]
          /\ packets[i] \in Nat /\ again[i] \in Nat
      BY <1>1, TopicFields
    <2> QED BY <1>5, <2>1, <2>2, <2>3, AccountStep
  <1>14. PositionIsNew'
    <2>1. \A o \in Members : ~ (Live(o)' /\ batch'[o].stored)
      BY <1>3, <1>5, <1>10 DEF Live
    <2> QED BY <1>1, <1>7, <2>1 DEF IInv, PositionIsNew, IsLastUpTo
  <1> QED BY <1>7, <1>8, <1>9, <1>11, <1>12, <1>13, <1>14 DEF IInv

\* What an insert does to the number of documents of each record.
LEMMA InsertFacts ==
    ASSUME IInv, NEW S, packets' = insert_many(S)
    PROVE  /\ packets' \in [1..MaxPackets -> Nat]
           /\ \A i \in 1..MaxPackets :
                 /\ packets[i] \in Nat
                 /\ packets'[i] \in Nat
                 /\ i \in S => packets'[i] = packets[i] + 1
                 /\ i \notin S => packets'[i] = packets[i]
  <1>1. \A i \in 1..MaxPackets : packets[i] \in Nat
    BY TopicFields
  <1>2. \A i \in 1..MaxPackets : packets[i] + (IF i \in S THEN 1 ELSE 0) \in Nat
    BY <1>1
  <1>3. packets' \in [1..MaxPackets -> Nat]
    BY <1>2 DEF insert_many
  <1>4. \A i \in 1..MaxPackets :
           packets'[i] = packets[i] + (IF i \in S THEN 1 ELSE 0)
    BY DEF insert_many
  <1> QED BY <1>1, <1>3, <1>4

\* Storing a batch keeps the invariant.
LEMMA WriteStep ==
    ASSUME IInv, NEW m \in Members, write_batch(m)
    PROVE  IInv'
  <1> DEFINE b == batch[m]
             new == [b EXCEPT !.stored = TRUE, !.positions = VehiclesIn(b)]
  <1>1. /\ b # NULL
        /\ ~ b.stored
        /\ packets' = insert_many(Records(b))
        /\ batch' = [batch EXCEPT ![m] = new]
        /\ UNCHANGED <<ingestVars, owner, alive, offset, location, again, overtaken,
                       faults>>
    BY DEF write_batch
  <1>2. /\ b \in Batch
        /\ b.from \in Nat
        /\ b.upto \in Nat
        /\ b.fenced \in BOOLEAN
        /\ m \in alive
        /\ b.from < b.upto
        /\ b.upto <= Len(raw)
        /\ Records(b) \subseteq DOMAIN raw
        /\ Records(b) \subseteq 1..MaxPackets
    BY <1>1, BatchFields
  <1>3. VehiclesIn(b) \subseteq Vehicles
    BY <1>2, TopicFields DEF VehiclesIn
  <1>4. /\ new \in Batch
        /\ new.from = b.from
        /\ new.upto = b.upto
        /\ new.stored = TRUE
        /\ new.positions = VehiclesIn(b)
        /\ new.fenced = b.fenced
    BY <1>2, <1>3 DEF Batch
  <1>5. new # NULL
    BY <1>4, NullAssumption
  <1>6. Records(new) = Records(b)
    BY <1>4 DEF Records
  <1>7. VehiclesIn(new) = VehiclesIn(b)
    BY <1>6 DEF VehiclesIn
  <1> HIDE DEF new
  <1>8. /\ batch' \in [Members -> Batch \cup {NULL}]
        /\ batch'[m] = new
        /\ \A o \in Members \ {m} : batch'[o] = batch[o]
    BY <1>1, <1>4, TopicFields
  <1>9. /\ UNCHANGED raw
        /\ SeenIsTrue'
        /\ kill_switch' \in [Vehicles -> BOOLEAN]
        /\ connection' \in [Connections -> WebSocket \cup {NULL}]
        /\ raw' \in Seq([vehicle_id : Vehicles, speed_kph : 0..MaxSpeed])
    BY <1>1, IngestStands
  <1>10. /\ packets' \in [1..MaxPackets -> Nat]
         /\ \A i \in 1..MaxPackets :
               /\ packets[i] \in Nat
               /\ packets'[i] \in Nat
               /\ i \in Records(b) => packets'[i] = packets[i] + 1
               /\ i \notin Records(b) => packets'[i] = packets[i]
    BY <1>1, InsertFacts
  <1>11. TelemetryTypeOK'
    BY <1>1, <1>2, <1>4, <1>8, <1>9, <1>10 DEF IInv, TelemetryTypeOK
  <1>12. \A o \in Members : VehiclesIn(batch[o])' = VehiclesIn(batch'[o])
    BY <1>9 DEF VehiclesIn, Records
  <1>13. BatchesAreOfTopic'
    BY <1>1, <1>2, <1>4, <1>7, <1>8, <1>9, <1>12 DEF IInv, BatchesAreOfTopic
  <1>14. \A o \in Members : Live(o)' <=> Live(o)
    BY <1>1, <1>4, <1>5, <1>8 DEF Live
  <1>15. LiveIsNext'
    BY <1>1, <1>4, <1>8, <1>14 DEF IInv, LiveIsNext
  <1>16. StoredIsThere'
    <2>1. \A i \in 1..MaxPackets : packets'[i] >= packets[i]
      BY <1>10
    <2>2. \A i \in 1..offset : i \in 1..MaxPackets /\ packets[i] >= 1
      BY TopicFields DEF IInv, StoredIsThere
    <2>3. \A i \in 1..offset' : packets'[i] >= 1
      BY <1>1, <1>10, <2>1, <2>2, TopicFields
    <2>4. ASSUME NEW o \in Members, batch'[o] # NULL, batch'[o].stored,
                 NEW i \in Records(batch'[o])
          PROVE  packets'[i] >= 1
      <3>1. CASE o = m
        <4>1. i \in Records(b) /\ i \in 1..MaxPackets
          BY <3>1, <2>4, <1>2, <1>6, <1>8
        <4> QED BY <4>1, <1>10
      <3>2. CASE o # m
        <4>1. batch[o] # NULL /\ batch[o].stored /\ i \in Records(batch[o])
          BY <3>2, <2>4, <1>8
        <4>2. i \in 1..MaxPackets /\ packets[i] >= 1
          BY <4>1, BatchFields DEF IInv, StoredIsThere
        <4> QED BY <4>2, <2>1, <1>10, TopicFields
      <3> QED BY <3>1, <3>2
    <2> QED BY <2>3, <2>4 DEF StoredIsThere, Records
  <1>17. CopiesAreAccounted'
    <2> SUFFICES ASSUME NEW i \in 1..MaxPackets
                 PROVE  /\ IsFiniteSet(Late(i))'
                        /\ packets'[i] + Cardinality(Late(i))' <= again'[i] + 1
                        /\ ~ Counts(i)' =>
                              packets'[i] + Cardinality(Late(i))' <= again'[i]
      BY DEF CopiesAreAccounted
    <2>1. /\ again'[i] = again[i]
          /\ packets[i] \in Nat /\ again[i] \in Nat /\ packets'[i] \in Nat
          /\ i \in Records(b) => packets'[i] = packets[i] + 1
          /\ i \notin Records(b) => packets'[i] = packets[i]
      BY <1>1, <1>10, TopicFields
    <2>2. m \notin Late(i)'
      BY <1>4, <1>8 DEF Late
    <2>3. m \in Late(i) <=> i \in Records(b) /\ b.fenced
      BY <1>1 DEF Late, Has
    <2>4. Counts(i) => Counts(i)'
      BY <1>1, <1>4, <1>6, <1>8, <1>14 DEF Counts, Has, Records
    <2>5. CASE i \notin Records(b)
      BY <1>8, <2>1, <2>2, <2>3, <2>4, <2>5, AccountStep
    <2>6. CASE i \in Records(b) /\ b.fenced
      BY <1>8, <2>1, <2>2, <2>3, <2>4, <2>6, AccountStep
    <2>7. CASE i \in Records(b) /\ ~ b.fenced
      <3>1. Live(m)
        BY <1>1, <2>7 DEF Live
      <3>2. ~ Counts(i)
        <4>1. ~ (i <= offset)
          BY <1>2, <2>7, <3>1, TopicFields DEF IInv, LiveIsNext, Records
        <4> QED BY <4>1, <3>1, <1>1, LiveIsOne DEF Counts
      <3>3. Counts(i)'
        BY <1>4, <1>5, <1>6, <1>8, <1>14, <2>7, <3>1 DEF Counts, Has, Records
      <3> QED BY <1>8, <2>1, <2>2, <2>3, <2>7, <3>2, <3>3, AccountStep
    <2> QED BY <2>5, <2>6, <2>7
  <1>18. PositionIsNew'
    <2> SUFFICES ASSUME NEW v \in Vehicles \ overtaken, location[v] # 0
                 PROVE  /\ IsLastUpTo(v, location[v], offset)
                        /\ \A o \in Members :
                              Live(o) /\ batch'[o].stored /\ v \notin batch'[o].positions
                                 => IsLastUpTo(v, location[v], batch'[o].upto)
      BY <1>1, <1>9, <1>14 DEF PositionIsNew, IsLastUpTo
    <2>1. /\ IsLastUpTo(v, location[v], offset)
          /\ \A o \in Members :
                Live(o) /\ batch[o].stored /\ v \notin batch[o].positions
                   => IsLastUpTo(v, location[v], batch[o].upto)
      BY DEF IInv, PositionIsNew
    <2>2. ASSUME Live(m), v \notin VehiclesIn(b)
          PROVE  IsLastUpTo(v, location[v], b.upto)
      <3>1. b.from = offset
        BY <2>2 DEF IInv, LiveIsNext
      <3>2. \A j \in DOMAIN raw : raw[j].vehicle_id = v /\ j <= b.upto => j <= offset
        BY <1>2, <2>2, <3>1, TopicFields DEF VehiclesIn, Records
      <3> QED BY <2>1, <3>2 DEF IsLastUpTo
    <2> QED BY <1>4, <1>8, <2>1, <2>2
  <1> QED BY <1>9, <1>11, <1>13, <1>15, <1>16, <1>17, <1>18 DEF IInv

\* build_batch finds the last packet of a vehicle that is in the batch.
LEMMA LastOfFacts ==
    ASSUME IInv, NEW m \in Members, batch[m] # NULL, NEW v \in VehiclesIn(batch[m])
    PROVE  LET last == LastOf(v, Records(batch[m]))
           IN  /\ last \in Records(batch[m])
               /\ raw[last].vehicle_id = v
               /\ \A j \in Records(batch[m]) : raw[j].vehicle_id = v => j <= last
  <1> DEFINE S == Records(batch[m])
             T == {i \in S : raw[i].vehicle_id = v}
  <1>1. S \subseteq 1..MaxPackets /\ MaxPackets \in Nat
    BY BatchFields, TopicFields
  <1>2. T # {}
    BY DEF VehiclesIn
  <1>3. PICK x \in T : \A y \in T : y <= x
    <2>1. T \subseteq 1..MaxPackets
      BY <1>1
    <2> HIDE DEF T
    <2> QED BY <1>1, <1>2, <2>1, Greatest
  <1>4. \E i \in S : /\ raw[i].vehicle_id = v
                     /\ \A j \in S : raw[j].vehicle_id = v => j <= i
    BY <1>3
  <1> HIDE DEF S
  <1>5. /\ LastOf(v, S) \in S
        /\ raw[LastOf(v, S)].vehicle_id = v
        /\ \A j \in S : raw[j].vehicle_id = v => j <= LastOf(v, S)
    BY <1>4 DEF LastOf
  <1> QED BY <1>5 DEF S

\* Writing a vehicle's latest position keeps the invariant.
LEMMA PositionStep ==
    ASSUME IInv, NEW m \in Members, NEW v \in Vehicles, write_latest_position(m, v)
    PROVE  IInv'
  <1> DEFINE b == batch[m]
             new == [b EXCEPT !.positions = @ \ {v}]
             last == LastOf(v, Records(b))
  <1>1. /\ b # NULL
        /\ v \in b.positions
        /\ location' = [location EXCEPT ![v] = last]
        /\ batch' = [batch EXCEPT ![m] = new]
        /\ overtaken' = IF b.fenced THEN overtaken \cup {v} ELSE overtaken \ {v}
        /\ UNCHANGED <<ingestVars, owner, alive, offset, packets, again, faults>>
    BY DEF write_latest_position
  <1>2. /\ b \in Batch
        /\ b.from \in Nat
        /\ b.upto \in Nat
        /\ b.stored \in BOOLEAN
        /\ b.fenced \in BOOLEAN
        /\ b.positions \in SUBSET Vehicles
        /\ m \in alive
        /\ b.from < b.upto
        /\ b.upto <= Len(raw)
        /\ Records(b) \subseteq DOMAIN raw
        /\ b.positions \subseteq VehiclesIn(b)
        /\ ~ b.stored => b.positions = {}
    BY <1>1, BatchFields
  <1>3. b.stored
    BY <1>1, <1>2
  <1>4. /\ last \in Records(b)
        /\ raw[last].vehicle_id = v
        /\ \A j \in Records(b) : raw[j].vehicle_id = v => j <= last
    BY <1>1, <1>2, LastOfFacts
  <1> HIDE DEF last
  <1>5. /\ new \in Batch
        /\ new.from = b.from
        /\ new.upto = b.upto
        /\ new.stored = b.stored
        /\ new.positions = b.positions \ {v}
        /\ new.fenced = b.fenced
    BY <1>2 DEF Batch
  <1>6. new # NULL
    BY <1>5, NullAssumption
  <1>7. Records(new) = Records(b)
    BY <1>5 DEF Records
  <1>8. VehiclesIn(new) = VehiclesIn(b)
    BY <1>7 DEF VehiclesIn
  <1> HIDE DEF new
  <1>9. /\ batch' \in [Members -> Batch \cup {NULL}]
        /\ batch'[m] = new
        /\ \A o \in Members \ {m} : batch'[o] = batch[o]
    BY <1>1, <1>5, TopicFields
  <1>10. /\ UNCHANGED raw
         /\ SeenIsTrue'
         /\ kill_switch' \in [Vehicles -> BOOLEAN]
         /\ connection' \in [Connections -> WebSocket \cup {NULL}]
         /\ raw' \in Seq([vehicle_id : Vehicles, speed_kph : 0..MaxSpeed])
    BY <1>1, IngestStands
  <1>11. /\ location' \in [Vehicles -> 0..Len(raw)]
         /\ location'[v] = last
         /\ \A u \in Vehicles \ {v} : location'[u] = location[u]
    <2>1. last \in 0..Len(raw)
      BY <1>2, <1>4, TopicFields
    <2> QED BY <1>1, <2>1, TopicFields
  <1>12. TelemetryTypeOK'
    BY <1>1, <1>2, <1>5, <1>9, <1>10, <1>11 DEF IInv, TelemetryTypeOK
  <1>13. \A o \in Members : VehiclesIn(batch[o])' = VehiclesIn(batch'[o])
    BY <1>10 DEF VehiclesIn, Records
  <1>14. BatchesAreOfTopic'
    BY <1>1, <1>2, <1>5, <1>8, <1>9, <1>10, <1>13 DEF IInv, BatchesAreOfTopic
  <1>15. \A o \in Members : Live(o)' <=> Live(o)
    BY <1>1, <1>5, <1>6, <1>9 DEF Live
  <1>16. LiveIsNext'
    BY <1>1, <1>5, <1>9, <1>15 DEF IInv, LiveIsNext
  <1>17. StoredIsThere'
    BY <1>1, <1>5, <1>7, <1>9 DEF IInv, StoredIsThere, Records
  <1>18. CopiesAreAccounted'
    <2> SUFFICES ASSUME NEW i \in 1..MaxPackets
                 PROVE  /\ IsFiniteSet(Late(i))'
                        /\ packets'[i] + Cardinality(Late(i))' <= again'[i] + 1
                        /\ ~ Counts(i)' =>
                              packets'[i] + Cardinality(Late(i))' <= again'[i]
      BY DEF CopiesAreAccounted
    <2>1. m \notin Late(i) /\ m \notin Late(i)'
      BY <1>3, <1>5, <1>9 DEF Late
    <2>2. Counts(i) => Counts(i)'
      BY <1>1, <1>5, <1>6, <1>7, <1>9, <1>15 DEF Counts, Has, Records
    <2>3. /\ packets'[i] = packets[i] /\ again'[i] = again[i]
          /\ packets[i] \in Nat /\ again[i] \in Nat
      BY <1>1, TopicFields
    <2> QED BY <1>9, <2>1, <2>2, <2>3, AccountStep
  <1>19. PositionIsNew'
    <2> SUFFICES ASSUME NEW u \in Vehicles \ overtaken', location'[u] # 0
                 PROVE  /\ IsLastUpTo(u, location'[u], offset)
                        /\ \A o \in Members :
                              Live(o) /\ batch'[o].stored /\ u \notin batch'[o].positions
                                 => IsLastUpTo(u, location'[u], batch'[o].upto)
      BY <1>1, <1>10, <1>15 DEF PositionIsNew, IsLastUpTo
    <2>1. CASE u = v
      <3>1. Live(m) /\ b.from = offset
        BY <1>1, <2>1 DEF Live, IInv, LiveIsNext
      <3>2. IsLastUpTo(v, last, b.upto)
        BY <1>2, <1>4, TopicFields DEF IsLastUpTo, Records
      <3>3. IsLastUpTo(v, last, offset)
        BY <1>2, <3>1, <3>2, TopicFields DEF IsLastUpTo
      <3>4. \A o \in Members : Live(o) => o = m
        BY <3>1, LiveIsOne
      <3> QED BY <1>5, <1>9, <1>11, <2>1, <3>2, <3>3, <3>4
    <2>2. CASE u # v
      <3>1. /\ IsLastUpTo(u, location[u], offset)
            /\ \A o \in Members :
                  Live(o) /\ batch[o].stored /\ u \notin batch[o].positions
                     => IsLastUpTo(u, location[u], batch[o].upto)
        BY <1>1, <1>11, <2>2 DEF IInv, PositionIsNew
      <3> QED BY <1>5, <1>9, <1>11, <2>2, <3>1
    <2> QED BY <2>1, <2>2
  <1> QED BY <1>10, <1>12, <1>14, <1>16, <1>17, <1>18, <1>19 DEF IInv

\* Committing a batch's offset keeps the invariant.
LEMMA CommitStep ==
    ASSUME IInv, NEW m \in Members, commit(m)
    PROVE  IInv'
  <1> DEFINE b == batch[m]
  <1>1. /\ b # NULL
        /\ b.stored
        /\ b.positions = {}
        /\ offset' = IF b.fenced THEN offset ELSE b.upto
        /\ batch' = [batch EXCEPT ![m] = NULL]
        /\ UNCHANGED <<ingestVars, owner, alive, packets, location, again, overtaken,
                       faults>>
    BY DEF commit
  <1>2. /\ b.from \in Nat
        /\ b.upto \in Nat
        /\ b.fenced \in BOOLEAN
        /\ b.from < b.upto
        /\ b.upto <= Len(raw)
    BY <1>1, BatchFields
  <1>3. /\ batch' \in [Members -> Batch \cup {NULL}]
        /\ batch'[m] = NULL
        /\ \A o \in Members \ {m} : batch'[o] = batch[o]
    BY <1>1, TopicFields
  <1>4. /\ UNCHANGED raw
        /\ SeenIsTrue'
        /\ kill_switch' \in [Vehicles -> BOOLEAN]
        /\ connection' \in [Connections -> WebSocket \cup {NULL}]
        /\ raw' \in Seq([vehicle_id : Vehicles, speed_kph : 0..MaxSpeed])
    BY <1>1, IngestStands
  <1>5. /\ offset \in Nat /\ offset' \in Nat
        /\ offset' <= Len(raw)
        /\ Len(raw) \in Nat
    BY <1>1, <1>2, TopicFields
  <1>6. TelemetryTypeOK'
    BY <1>1, <1>3, <1>4, <1>5 DEF IInv, TelemetryTypeOK
  <1>7. BatchesAreOfTopic'
    <2>1. \A o \in Members : VehiclesIn(batch[o])' = VehiclesIn(batch'[o])
      BY <1>4 DEF VehiclesIn, Records
    <2> QED BY <1>1, <1>3, <1>4, <2>1 DEF IInv, BatchesAreOfTopic
  <1>8. \A o \in Members : Live(o)' => o # m /\ Live(o) /\ batch'[o] = batch[o]
    BY <1>3 DEF Live
  <1>9. ~ b.fenced => Live(m) /\ b.from = offset /\ \A o \in Members : Live(o) => o = m
    BY <1>1, LiveIsOne DEF Live, IInv, LiveIsNext
  <1>10. LiveIsNext'
    BY <1>1, <1>8, <1>9 DEF IInv, LiveIsNext
  <1>11. StoredIsThere'
    <2>1. \A i \in 1..offset' : i \in 1..offset \/ (~ b.fenced /\ i \in Records(b))
      BY <1>1, <1>2, <1>5, <1>9 DEF Records
    <2>2. \A i \in Records(b) : packets[i] >= 1
      BY <1>1 DEF IInv, StoredIsThere
    <2>3. \A i \in 1..offset' : packets'[i] >= 1
      BY <1>1, <2>1, <2>2 DEF IInv, StoredIsThere
    <2>4. \A o \in Members : batch'[o] # NULL /\ batch'[o].stored =>
             \A i \in Records(batch'[o]) : packets'[i] >= 1
      BY <1>1, <1>3 DEF IInv, StoredIsThere
    <2> QED BY <2>3, <2>4 DEF StoredIsThere, Records
  <1>12. CopiesAreAccounted'
    <2> SUFFICES ASSUME NEW i \in 1..MaxPackets
                 PROVE  /\ IsFiniteSet(Late(i))'
                        /\ packets'[i] + Cardinality(Late(i))' <= again'[i] + 1
                        /\ ~ Counts(i)' =>
                              packets'[i] + Cardinality(Late(i))' <= again'[i]
      BY DEF CopiesAreAccounted
    <2>1. m \notin Late(i) /\ m \notin Late(i)'
      BY <1>1, <1>3 DEF Late, Has
    <2>2. Counts(i) => Counts(i)'
      <3>1. CASE b.fenced
        <4>1. offset' = offset /\ \A o \in Members : Live(o) => o # m
          BY <1>1, <3>1 DEF Live
        <4> QED BY <1>3, <4>1 DEF Counts, Has, Live, Records
      <3>2. CASE ~ b.fenced
        <4>1. offset' = b.upto /\ offset < offset'
          BY <1>1, <1>2, <1>9, <3>2
        <4>2. i <= offset => i <= offset'
          BY <1>5, <4>1
        <4>3. Has(m, i) => i <= offset'
          BY <1>2, <4>1 DEF Has, Records
        <4> QED BY <1>9, <3>2, <4>2, <4>3 DEF Counts
      <3> QED BY <1>2, <3>1, <3>2
    <2>3. /\ packets'[i] = packets[i] /\ again'[i] = again[i]
          /\ packets[i] \in Nat /\ again[i] \in Nat
      BY <1>1, TopicFields
    <2> QED BY <1>3, <2>1, <2>2, <2>3, AccountStep
  <1>13. PositionIsNew'
    <2> SUFFICES ASSUME NEW v \in Vehicles \ overtaken, location[v] # 0
                 PROVE  /\ IsLastUpTo(v, location[v], offset')
                        /\ \A o \in Members :
                              Live(o)' /\ batch'[o].stored /\ v \notin batch'[o].positions
                                 => IsLastUpTo(v, location[v], batch'[o].upto)
      BY <1>1, <1>4 DEF PositionIsNew, IsLastUpTo
    <2>1. /\ IsLastUpTo(v, location[v], offset)
          /\ \A o \in Members :
                Live(o) /\ batch[o].stored /\ v \notin batch[o].positions
                   => IsLastUpTo(v, location[v], batch[o].upto)
      BY DEF IInv, PositionIsNew
    <2> QED BY <1>1, <1>8, <1>9, <2>1
  <1> QED BY <1>4, <1>6, <1>7, <1>10, <1>11, <1>12, <1>13 DEF IInv

\* What a cut off batch adds to the repetitions.
LEMMA CutOffFacts ==
    ASSUME IInv, NEW m \in Members, again' = CutOff(m)
    PROVE  /\ again' \in [1..MaxPackets -> Nat]
           /\ \A i \in 1..MaxPackets :
                 /\ again[i] \in Nat
                 /\ again'[i] \in Nat
                 /\ Live(m) /\ i \in Records(batch[m]) => again'[i] = again[i] + 1
                 /\ ~ (Live(m) /\ i \in Records(batch[m])) => again'[i] = again[i]
  <1>1. \A i \in 1..MaxPackets : again[i] \in Nat
    BY TopicFields
  <1>2. \A i \in 1..MaxPackets :
           again'[i] = again[i] + (IF batch[m] # NULL /\ ~ batch[m].fenced
                                      /\ i \in Records(batch[m]) THEN 1 ELSE 0)
    BY DEF CutOff
  <1>3. \A i \in 1..MaxPackets :
                 /\ Live(m) /\ i \in Records(batch[m]) => again'[i] = again[i] + 1
                 /\ ~ (Live(m) /\ i \in Records(batch[m])) => again'[i] = again[i]
    BY <1>1, <1>2 DEF Live
  <1>4. \A i \in 1..MaxPackets : again'[i] \in Nat
    BY <1>1, <1>3
  <1>5. again' \in [1..MaxPackets -> Nat]
    BY <1>4 DEF CutOff
  <1> QED BY <1>1, <1>3, <1>4, <1>5

\* What a failing insert may have written is a first part of the batch.
LEMMA PartFacts ==
    ASSUME IInv, NEW m \in Members, Fail(m)
    PROVE  /\ packets' \in [1..MaxPackets -> Nat]
           /\ \A i \in 1..MaxPackets :
                 /\ packets[i] \in Nat
                 /\ packets'[i] \in {packets[i], packets[i] + 1}
                 /\ packets'[i] # packets[i] =>
                       batch[m] # NULL /\ ~ batch[m].stored /\ i \in Records(batch[m])
  <1>1. CASE batch[m] # NULL /\ ~ batch[m].stored
    <2>1. PICK k \in 0 .. Cardinality(Records(batch[m])) :
             packets' = insert_many(batch[m].from + 1 .. batch[m].from + k)
      BY <1>1 DEF Fail
    <2> DEFINE S == batch[m].from + 1 .. batch[m].from + k
    <2>2. /\ batch[m].from \in Nat
          /\ batch[m].upto \in Nat
          /\ batch[m].from < batch[m].upto
      BY <1>1, BatchFields
    <2>3. Cardinality(batch[m].from + 1 .. batch[m].upto)
             = batch[m].upto - (batch[m].from + 1) + 1
      <3>1. /\ batch[m].from + 1 \in Int
            /\ batch[m].upto \in Int
            /\ ~ (batch[m].from + 1 > batch[m].upto)
        BY <2>2
      <3> QED BY <3>1, FS_Interval
    <2>4. Cardinality(Records(batch[m])) = batch[m].upto - batch[m].from
      BY <2>2, <2>3 DEF Records
    <2>5. S \subseteq Records(batch[m])
      BY <2>1, <2>2, <2>4 DEF Records
    <2> HIDE DEF S
    <2>6. /\ packets' \in [1..MaxPackets -> Nat]
          /\ \A i \in 1..MaxPackets :
                /\ packets[i] \in Nat
                /\ packets'[i] \in Nat
                /\ i \in S => packets'[i] = packets[i] + 1
                /\ i \notin S => packets'[i] = packets[i]
      <3>1. packets' = insert_many(S)
        BY <2>1 DEF S
      <3> QED BY <3>1, InsertFacts
    <2> QED BY <1>1, <2>5, <2>6
  <1>2. CASE ~ (batch[m] # NULL /\ ~ batch[m].stored)
    BY <1>2, TopicFields DEF Fail
  <1> QED BY <1>1, <1>2

\* A member that fails with a batch in hand keeps the invariant.
LEMMA FailStep ==
    ASSUME IInv, NEW m \in Members, Fail(m)
    PROVE  IInv'
  <1> DEFINE b == batch[m]
  <1>1. /\ m \in alive
        /\ faults' = faults + 1
        /\ batch' = [batch EXCEPT ![m] = NULL]
        /\ alive' \in {alive, alive \ {m}}
        /\ owner # m => owner' = owner
        /\ owner = m => IF alive' = {} THEN owner' = NULL ELSE owner' \in alive'
        /\ again' = CutOff(m)
        /\ UNCHANGED <<ingestVars, offset, location, overtaken>>
    BY DEF Fail, Fault, Assign
  <1>2. /\ batch' \in [Members -> Batch \cup {NULL}]
        /\ batch'[m] = NULL
        /\ \A o \in Members \ {m} : batch'[o] = batch[o]
    BY <1>1, TopicFields
  <1>3. /\ UNCHANGED raw
        /\ SeenIsTrue'
        /\ kill_switch' \in [Vehicles -> BOOLEAN]
        /\ connection' \in [Connections -> WebSocket \cup {NULL}]
        /\ raw' \in Seq([vehicle_id : Vehicles, speed_kph : 0..MaxSpeed])
    BY <1>1, IngestStands
  <1>4. /\ packets' \in [1..MaxPackets -> Nat]
        /\ \A i \in 1..MaxPackets :
              /\ packets[i] \in Nat
              /\ packets'[i] \in {packets[i], packets[i] + 1}
              /\ packets'[i] # packets[i] =>
                    b # NULL /\ ~ b.stored /\ i \in Records(b)
    BY PartFacts
  <1>5. /\ again' \in [1..MaxPackets -> Nat]
        /\ \A i \in 1..MaxPackets :
              /\ again[i] \in Nat
              /\ again'[i] \in Nat
              /\ Live(m) /\ i \in Records(b) => again'[i] = again[i] + 1
              /\ ~ (Live(m) /\ i \in Records(b)) => again'[i] = again[i]
    BY <1>1, CutOffFacts
  <1>6. IF alive' = {} THEN owner' = NULL ELSE owner' \in alive'
    <2>1. owner # m => owner \in alive /\ owner \in alive'
      BY <1>1 DEF IInv, TelemetryTypeOK
    <2> QED BY <1>1, <2>1
  <1>7. TelemetryTypeOK'
    BY <1>1, <1>2, <1>3, <1>4, <1>6 DEF IInv, TelemetryTypeOK
  <1>8. BatchesAreOfTopic'
    <2>1. \A o \in Members : VehiclesIn(batch[o])' = VehiclesIn(batch'[o])
      BY <1>3 DEF VehiclesIn, Records
    <2> QED BY <1>1, <1>2, <1>3, <1>5, <2>1 DEF IInv, BatchesAreOfTopic
  <1>9. \A o \in Members : Live(o)' => o # m /\ Live(o) /\ batch'[o] = batch[o]
    BY <1>2 DEF Live
  <1>10. LiveIsNext'
    BY <1>1, <1>9 DEF IInv, LiveIsNext
  <1>11. StoredIsThere'
    <2>1. \A i \in 1..MaxPackets : packets'[i] >= packets[i]
      BY <1>4
    <2>2. \A i \in 1..offset : i \in 1..MaxPackets /\ packets[i] >= 1
      BY TopicFields DEF IInv, StoredIsThere
    <2>3. \A i \in 1..offset' : packets'[i] >= 1
      BY <1>1, <1>4, <2>1, <2>2
    <2>4. ASSUME NEW o \in Members, batch'[o] # NULL, batch'[o].stored,
                 NEW i \in Records(batch'[o])
          PROVE  packets'[i] >= 1
      <3>1. batch[o] # NULL /\ batch[o].stored /\ i \in Records(batch[o])
        BY <2>4, <1>2
      <3>2. i \in 1..MaxPackets /\ packets[i] >= 1
        BY <3>1, BatchFields DEF IInv, StoredIsThere
      <3> QED BY <3>2, <1>4
    <2> QED BY <2>3, <2>4 DEF StoredIsThere, Records
  <1>12. CopiesAreAccounted'
    <2> SUFFICES ASSUME NEW i \in 1..MaxPackets
                 PROVE  /\ IsFiniteSet(Late(i))'
                        /\ packets'[i] + Cardinality(Late(i))' <= again'[i] + 1
                        /\ ~ Counts(i)' =>
                              packets'[i] + Cardinality(Late(i))' <= again'[i]
      BY DEF CopiesAreAccounted
    <2>1. m \notin Late(i)'
      BY <1>2 DEF Late, Has
    <2>2. m \in Late(i) <=> b # NULL /\ i \in Records(b) /\ b.fenced /\ ~ b.stored
      BY DEF Late, Has
    <2>3. \A o \in Members : Live(o) /\ o # m => Live(o)'
      BY <1>2 DEF Live
    <2>4. ~ (Live(m) /\ b.stored /\ i \in Records(b)) => (Counts(i) => Counts(i)')
      BY <1>1, <1>2, <2>3 DEF Counts, Has, Records
    <2>5. /\ packets[i] \in Nat /\ packets'[i] \in Nat
          /\ again[i] \in Nat /\ again'[i] \in Nat
      BY <1>4, <1>5
    <2>6. CASE b = NULL \/ i \notin Records(b) \/ (b.fenced /\ b.stored)
      <3>1. packets'[i] = packets[i] /\ again'[i] = again[i]
        BY <1>4, <1>5, <2>6 DEF Live
      <3> QED BY <1>2, <2>1, <2>2, <2>4, <2>5, <2>6, <3>1, AccountStep DEF Live
    <2>7. CASE b # NULL /\ i \in Records(b) /\ b.fenced /\ ~ b.stored
      <3>1. packets'[i] <= packets[i] + 1 /\ again'[i] = again[i]
        BY <1>4, <1>5, <2>7 DEF Live
      <3> QED BY <1>2, <2>1, <2>2, <2>4, <2>5, <2>7, <3>1, AccountStep
    <2>8. CASE b # NULL /\ i \in Records(b) /\ ~ b.fenced /\ b.stored
      <3>1. packets'[i] = packets[i] /\ again'[i] = again[i] + 1
        BY <1>4, <1>5, <2>8 DEF Live
      <3> QED BY <1>2, <2>1, <2>2, <2>5, <2>8, <3>1, AccountStep
    <2>9. CASE b # NULL /\ i \in Records(b) /\ ~ b.fenced /\ ~ b.stored
      <3>1. packets'[i] <= packets[i] + 1 /\ again'[i] = again[i] + 1
        BY <1>4, <1>5, <2>9 DEF Live
      <3> QED BY <1>2, <2>1, <2>2, <2>4, <2>5, <2>9, <3>1, AccountStep
    <2> QED BY <2>6, <2>7, <2>8, <2>9
  <1>13. PositionIsNew'
    BY <1>1, <1>3, <1>9 DEF IInv, PositionIsNew, IsLastUpTo
  <1> QED BY <1>3, <1>7, <1>8, <1>10, <1>11, <1>12, <1>13 DEF IInv

\* Giving the partition to another member keeps the invariant.
LEMMA RebalanceStep ==
    ASSUME IInv, NEW n \in Members, Rebalance(n)
    PROVE  IInv'
  <1>m. PICK m : m = owner
    OBVIOUS
  <1> DEFINE b == batch[m]
             new == IF b = NULL THEN NULL ELSE [b EXCEPT !.fenced = TRUE]
  <1>1. /\ n \in alive
        /\ m # n /\ m # NULL
        /\ faults' = faults + 1
        /\ owner' = n
        /\ again' = CutOff(m)
        /\ batch' = IF b = NULL THEN batch ELSE [batch EXCEPT ![m].fenced = TRUE]
        /\ UNCHANGED <<ingestVars, alive, offset, packets, location, overtaken>>
    BY <1>m DEF Rebalance, Fault
  <1>2. m \in Members /\ m \in alive
    BY <1>1, <1>m, TopicFields DEF IInv, TelemetryTypeOK
  <1>3. b # NULL =>
          /\ new \in Batch
          /\ new.from = b.from
          /\ new.upto = b.upto
          /\ new.stored = b.stored
          /\ new.positions = b.positions
          /\ new.fenced = TRUE
    <2> SUFFICES ASSUME b # NULL
                 PROVE  LET r == [b EXCEPT !.fenced = TRUE]
                        IN  /\ r \in Batch
                            /\ r.from = b.from
                            /\ r.upto = b.upto
                            /\ r.stored = b.stored
                            /\ r.positions = b.positions
                            /\ r.fenced = TRUE
      OBVIOUS
    <2>1. b \in Batch
      BY <1>2, BatchFields
    <2> QED BY <2>1 DEF Batch
  <1>4. new # NULL <=> b # NULL
    BY <1>3, NullAssumption
  <1>5. /\ batch' \in [Members -> Batch \cup {NULL}]
        /\ batch'[m] = new
        /\ \A o \in Members \ {m} : batch'[o] = batch[o]
    BY <1>1, <1>2, <1>3, TopicFields
  <1>6. b # NULL => Records(new) = Records(b)
    BY <1>3 DEF Records
  <1>7. b # NULL => VehiclesIn(new) = VehiclesIn(b)
    BY <1>6 DEF VehiclesIn
  <1> HIDE DEF new
  <1>8. /\ UNCHANGED raw
        /\ SeenIsTrue'
        /\ kill_switch' \in [Vehicles -> BOOLEAN]
        /\ connection' \in [Connections -> WebSocket \cup {NULL}]
        /\ raw' \in Seq([vehicle_id : Vehicles, speed_kph : 0..MaxSpeed])
    BY <1>1, IngestStands
  <1>9. /\ again' \in [1..MaxPackets -> Nat]
        /\ \A i \in 1..MaxPackets :
              /\ again[i] \in Nat
              /\ again'[i] \in Nat
              /\ Live(m) /\ i \in Records(b) => again'[i] = again[i] + 1
              /\ ~ (Live(m) /\ i \in Records(b)) => again'[i] = again[i]
    BY <1>1, <1>2, CutOffFacts
  <1>10. TelemetryTypeOK'
    BY <1>1, <1>2, <1>3, <1>4, <1>5, <1>8 DEF IInv, TelemetryTypeOK
  <1>11. BatchesAreOfTopic'
    <2>1. \A o \in Members : VehiclesIn(batch[o])' = VehiclesIn(batch'[o])
      BY <1>8 DEF VehiclesIn, Records
    <2>2. \A o \in Members : batch'[o] # NULL =>
             /\ batch[o] # NULL
             /\ batch'[o].from = batch[o].from
             /\ batch'[o].upto = batch[o].upto
             /\ batch'[o].stored = batch[o].stored
             /\ batch'[o].positions = batch[o].positions
             /\ VehiclesIn(batch'[o]) = VehiclesIn(batch[o])
      BY <1>3, <1>4, <1>5, <1>7
    <2>3. \A o \in Members : batch[o] # NULL =>
             /\ batch[o].from < batch[o].upto
             /\ batch[o].positions \subseteq VehiclesIn(batch[o])
             /\ ~ batch[o].stored => batch[o].positions = {}
      BY BatchFields
    <2>4. \A o \in Members : batch'[o] # NULL =>
             /\ batch'[o].from < batch'[o].upto
             /\ batch'[o].positions \subseteq VehiclesIn(batch[o])'
             /\ ~ batch'[o].stored => batch'[o].positions = {}
      BY <2>1, <2>2, <2>3
    <2>5. Len(raw') <= MaxPackets /\ faults' \in Nat /\ alive' \subseteq Members
      BY <1>1, <1>8 DEF IInv, BatchesAreOfTopic
    <2> QED BY <1>9, <2>4, <2>5 DEF BatchesAreOfTopic
  <1>12. \A o \in Members : ~ Live(o)'
    BY <1>3, <1>4, <1>5, <1>m DEF Live, IInv, LiveIsNext
  <1>13. LiveIsNext'
    BY <1>12 DEF LiveIsNext
  <1>14. StoredIsThere'
    <2>1. \A o \in Members : batch'[o] # NULL /\ batch'[o].stored =>
             /\ batch[o] # NULL /\ batch[o].stored
             /\ Records(batch'[o]) = Records(batch[o])
      BY <1>3, <1>4, <1>5, <1>6
    <2>2. \A o \in Members : batch'[o] # NULL /\ batch'[o].stored =>
             \A i \in Records(batch'[o]) : packets'[i] >= 1
      BY <1>1, <2>1 DEF IInv, StoredIsThere
    <2> QED BY <1>1, <2>2 DEF IInv, StoredIsThere, Records
  <1>15. CopiesAreAccounted'
    <2> SUFFICES ASSUME NEW i \in 1..MaxPackets
                 PROVE  /\ IsFiniteSet(Late(i))'
                        /\ packets'[i] + Cardinality(Late(i))' <= again'[i] + 1
                        /\ ~ Counts(i)' =>
                              packets'[i] + Cardinality(Late(i))' <= again'[i]
      BY DEF CopiesAreAccounted
    <2>1. m \in Late(i) <=> b # NULL /\ i \in Records(b) /\ b.fenced /\ ~ b.stored
      BY <1>2 DEF Late, Has
    <2>2. m \in Late(i)' <=> b # NULL /\ i \in Records(b) /\ ~ b.stored
      BY <1>2, <1>3, <1>4, <1>5, <1>6 DEF Late, Has, Records
    <2>3. \A o \in Members : Live(o) => o = m
      BY <1>m DEF IInv, LiveIsNext
    <2>4. ~ (Live(m) /\ b.stored /\ i \in Records(b)) => (Counts(i) => Counts(i)')
      BY <1>1, <2>3 DEF Counts, Has
    <2>5. /\ packets[i] \in Nat /\ packets'[i] \in Nat /\ packets'[i] = packets[i]
          /\ again[i] \in Nat /\ again'[i] \in Nat
      BY <1>1, <1>9, TopicFields
    <2>6. CASE b = NULL \/ i \notin Records(b) \/ b.fenced
      <3>1. again'[i] = again[i]
        BY <1>9, <2>6 DEF Live
      <3> QED BY <1>2, <1>5, <2>1, <2>2, <2>4, <2>5, <2>6, <3>1, AccountStep DEF Live
    <2>7. CASE b # NULL /\ i \in Records(b) /\ ~ b.fenced /\ b.stored
      <3>1. again'[i] = again[i] + 1
        BY <1>9, <2>7 DEF Live
      <3> QED BY <1>2, <1>5, <2>1, <2>2, <2>5, <2>7, <3>1, AccountStep
    <2>8. CASE b # NULL /\ i \in Records(b) /\ ~ b.fenced /\ ~ b.stored
      <3>1. again'[i] = again[i] + 1
        BY <1>9, <2>8 DEF Live
      <3> QED BY <1>2, <1>5, <2>1, <2>2, <2>4, <2>5, <2>8, <3>1, AccountStep
    <2> QED BY <2>6, <2>7, <2>8
  <1>16. PositionIsNew'
    BY <1>1, <1>8, <1>12 DEF IInv, PositionIsNew, IsLastUpTo
  <1> QED BY <1>8, <1>10, <1>11, <1>13, <1>14, <1>15, <1>16 DEF IInv

\* A member restarts without a batch, and gets the partition only if nobody
\* has it.
LEMMA RestartStep ==
    ASSUME IInv, NEW m \in Members, Restart(m)
    PROVE  IInv'
  <1>1. /\ m \notin alive
        /\ alive' = alive \cup {m}
        /\ owner = NULL => owner' = m
        /\ owner # NULL => owner' = owner
        /\ UNCHANGED <<ingestVars, offset, batch, packets, location, again,
                       overtaken, faults>>
    BY DEF Restart
  <1>2. UNCHANGED raw /\ SeenIsTrue'
    BY <1>1, IngestStands
  <1>3. /\ \A o \in Members : batch[o] # NULL => o \in alive
        /\ IF alive = {} THEN owner = NULL ELSE owner \in alive
        /\ alive \subseteq Members
    BY DEF IInv, TelemetryTypeOK, BatchesAreOfTopic
  <1>4. owner' \in alive' /\ alive' # {} /\ alive' \subseteq Members
    BY <1>1, <1>3, NullAssumption
  <1>5. kill_switch' = kill_switch /\ connection' = connection
    BY <1>1 DEF ingestVars
  <1>6. TelemetryTypeOK'
    BY <1>1, <1>2, <1>4, <1>5 DEF IInv, TelemetryTypeOK
  <1>7. \A o : VehiclesIn(batch[o])' = VehiclesIn(batch[o])
    BY <1>1, <1>2 DEF VehiclesIn, Records
  <1>8. BatchesAreOfTopic'
    BY <1>1, <1>2, <1>4, <1>7 DEF IInv, BatchesAreOfTopic
  <1>9. \A o : Live(o)' <=> Live(o)
    BY <1>1 DEF Live
  <1>10. \A o \in Members : Live(o) => owner = o /\ owner # NULL
    BY NullAssumption DEF IInv, LiveIsNext
  <1>11. LiveIsNext'
    BY <1>1, <1>9, <1>10 DEF IInv, LiveIsNext
  <1>12. StoredIsThere'
    BY <1>1 DEF IInv, StoredIsThere, Records
  <1>13. \A i : Late(i)' = Late(i) /\ (Counts(i)' <=> Counts(i))
    BY <1>1 DEF Late, Counts, Has, Live, Records
  <1>14. CopiesAreAccounted'
    BY <1>1, <1>13 DEF IInv, CopiesAreAccounted
  <1>15. PositionIsNew'
    BY <1>1, <1>2, <1>9 DEF IInv, PositionIsNew, IsLastUpTo
  <1> QED BY <1>2, <1>6, <1>8, <1>11, <1>12, <1>14, <1>15 DEF IInv

\* The expiry of a cached position keeps the invariant.
LEMMA ExpireStep ==
    ASSUME IInv, NEW v \in Vehicles, Expire(v)
    PROVE  IInv'
  <1>1. /\ location' = [location EXCEPT ![v] = 0]
        /\ UNCHANGED <<ingestVars, owner, alive, offset, batch, packets, again,
                       overtaken, faults>>
    BY DEF Expire
  <1>2. /\ location' \in [Vehicles -> 0..Len(raw)]
        /\ location'[v] = 0
        /\ \A u \in Vehicles \ {v} : location'[u] = location[u]
    BY <1>1, TopicFields
  <1>3. UNCHANGED raw /\ SeenIsTrue'
    BY <1>1, IngestStands
  <1>4. kill_switch' = kill_switch /\ connection' = connection
    BY <1>1 DEF ingestVars
  <1>5. TelemetryTypeOK'
    BY <1>1, <1>2, <1>3, <1>4 DEF IInv, TelemetryTypeOK
  <1>6. \A o : VehiclesIn(batch[o])' = VehiclesIn(batch[o])
    BY <1>1, <1>3 DEF VehiclesIn, Records
  <1>7. BatchesAreOfTopic'
    BY <1>1, <1>3, <1>6 DEF IInv, BatchesAreOfTopic
  <1>8. \A o : Live(o)' <=> Live(o)
    BY <1>1 DEF Live
  <1>9. LiveIsNext'
    BY <1>1, <1>8 DEF IInv, LiveIsNext
  <1>10. StoredIsThere'
    BY <1>1 DEF IInv, StoredIsThere, Records
  <1>11. \A i : Late(i)' = Late(i) /\ (Counts(i)' <=> Counts(i))
    BY <1>1 DEF Late, Counts, Has, Live, Records
  <1>12. CopiesAreAccounted'
    BY <1>1, <1>11 DEF IInv, CopiesAreAccounted
  <1>13. \A u \in Vehicles : location'[u] # 0 => location'[u] = location[u]
    BY <1>2
  <1>14. PositionIsNew'
    BY <1>1, <1>3, <1>8, <1>13 DEF IInv, PositionIsNew, IsLastUpTo
  <1> QED BY <1>3, <1>5, <1>7, <1>9, <1>10, <1>12, <1>14 DEF IInv
-----------------------------------------------------------------------------
(* The theorems.                                                           *)

\* Every step of telemetry keeps the invariant: one case per action.
LEMMA NextStep == IInv /\ [Next]_vars => IInv'
  <1> SUFFICES ASSUME IInv, [Next]_vars PROVE IInv'
    OBVIOUS
  <1>1. ASSUME NEW v \in Vehicles, NEW on \in BOOLEAN, SetSwitch(v, on)
        PROVE  IInv'
    BY <1>1, SwitchStep
  <1>2. ASSUME NEW c \in Connections, NEW v \in Vehicles, Accept(c, v)
        PROVE  IInv'
    BY <1>2, ConnectionStep
  <1>3. ASSUME NEW c \in Connections, NEW speed \in Speeds, Receive(c, speed)
        PROVE  IInv'
    BY <1>3, ConnectionStep
  <1>4. ASSUME NEW c \in Connections, is_active(c) PROVE IInv'
    BY <1>4, ConnectionStep
  <1>5. ASSUME NEW c \in Connections, publish_packet(c) PROVE IInv'
    BY <1>5, PublishStep
  <1>6. ASSUME NEW c \in Connections, Disconnect(c) PROVE IInv'
    BY <1>6, ConnectionStep
  <1>7. ASSUME NEW m \in Members, Consume(m) PROVE IInv'
    BY <1>7, FetchStep, WriteStep, PositionStep, CommitStep DEF Consume
  <1>8. ASSUME NEW m \in Members, Fail(m) PROVE IInv'
    BY <1>8, FailStep
  <1>9. ASSUME NEW m \in Members, Restart(m) PROVE IInv'
    BY <1>9, RestartStep
  <1>10. ASSUME NEW m \in Members, Rebalance(m) PROVE IInv'
    BY <1>10, RebalanceStep
  <1>11. ASSUME NEW v \in Vehicles, Expire(v) PROVE IInv'
    BY <1>11, ExpireStep
  <1>12. CASE UNCHANGED vars
    <2>1. /\ UNCHANGED <<raw, consumerVars>>
          /\ kill_switch' = kill_switch /\ connection' = connection
      BY <1>12 DEF vars, ingestVars
    <2>2. SeenIsTrue'
      BY <2>1 DEF IInv, SeenIsTrue
    <2>3. /\ kill_switch' \in [Vehicles -> BOOLEAN]
          /\ connection' \in [Connections -> WebSocket \cup {NULL}]
      BY <2>1 DEF IInv, TelemetryTypeOK
    <2> QED BY <2>1, <2>2, <2>3, ConsumersStand DEF IInv
  <1> QED BY <1>1, <1>2, <1>3, <1>4, <1>5, <1>6, <1>7, <1>8, <1>9, <1>10, <1>11,
             <1>12 DEF Next

\* In every reachable state a live batch is the owner's and starts at the
\* committed offset, and every copy of a document is accounted for, through
\* failures, dead tasks, restarts and rebalances.
THEOREM Invariance == Spec => []IInv
  BY InitIInv, NextStep, PTL DEF Spec

\* Mongo has every record below the committed offset, and has it again only
\* as often as a batch with it was cut off: run_telemetry_consumer commits
\* after it has written (consumer.py:54-65).
THEOREM StoresAsDelivered == Spec => []StoredAsDelivered
  <1>1. IInv => StoredAsDelivered
    <2> SUFFICES ASSUME IInv, NEW i \in 1..MaxPackets
                 PROVE  packets[i] <= 1 + again[i]
      BY DEF StoredAsDelivered, IInv, StoredIsThere
    <2>1. /\ IsFiniteSet(Late(i))
          /\ packets[i] + Cardinality(Late(i)) <= again[i] + 1
      BY DEF IInv, CopiesAreAccounted
    <2>2. Cardinality(Late(i)) \in Nat
      BY <2>1, FS_CardinalityType
    <2>3. packets[i] \in Nat /\ again[i] \in Nat
      BY TopicFields
    <2> QED BY <2>1, <2>2, <2>3
  <1> QED BY <1>1, Invariance, PTL

\* When the consumer has caught up, the position of a vehicle in Redis is that
\* of its last packet, or it has expired, unless a member that had lost the
\* partition wrote it last (build_batch and write_latest_position).
THEOREM ShowsLast == Spec => []CaughtUpShowsLast
  <1>1. IInv => CaughtUpShowsLast
    <2> SUFFICES ASSUME IInv, CaughtUp, NEW v \in Vehicles \ overtaken,
                        location[v] # 0
                 PROVE  /\ location[v] \in RecordsOf(v)
                        /\ \A j \in RecordsOf(v) : j <= location[v]
      BY DEF CaughtUpShowsLast
    <2>1. IsLastUpTo(v, location[v], Len(raw))
      BY DEF IInv, PositionIsNew, CaughtUp
    <2>2. \A j \in DOMAIN raw : j <= Len(raw)
      BY TopicFields
    <2> QED BY <2>1, <2>2 DEF IsLastUpTo, RecordsOf
  <1> QED BY <1>1, Invariance, PTL

\* What publish_packet appends, by what its packet has seen of the switch.
LEMMA PublishEnforces ==
    ASSUME IInv, NEW c \in Connections, publish_packet(c)
    PROVE  /\ connection[c].packet.seen = {TRUE} =>
                 raw'[Len(raw')].speed_kph = 0
           /\ connection[c].packet.seen = {FALSE} =>
                 raw'[Len(raw')].speed_kph = connection[c].packet.speed_kph
           /\ \A d \in Connections : d # c => connection'[d] = connection[d]
  <1> DEFINE cn == connection[c]
             published == apply_kill_switch(cn.packet.speed_kph, cn.active)
             rec == [vehicle_id |-> cn.vehicle_id, speed_kph |-> published]
  <1>1. /\ cn # NULL
        /\ cn.active # NULL
        /\ raw' = Append(raw, rec)
        /\ \E next \in {NULL, Idle(cn.vehicle_id)} :
              connection' = [connection EXCEPT ![c] = next]
    BY DEF publish_packet
  <1>2. cn.active \in BOOLEAN /\ cn.packet # NULL /\ cn.active \in cn.packet.seen
    BY <1>1, SocketFields DEF IInv, SeenIsTrue
  <1>3. /\ cn.packet.seen = {TRUE} => published = 0
        /\ cn.packet.seen = {FALSE} => published = cn.packet.speed_kph
    BY <1>2 DEF apply_kill_switch
  <1>4. rec.speed_kph = published
    OBVIOUS
  <1> HIDE DEF rec
  <1>5. raw'[Len(raw')] = rec
    BY <1>1, TopicFields
  <1>6. \A d \in Connections : d # c => connection'[d] = connection[d]
    BY <1>1 DEF IInv, TelemetryTypeOK
  <1> QED BY <1>3, <1>4, <1>5, <1>6

\* Only publish_packet writes to the topic.
LEMMA OnlyPublishes ==
    ASSUME [Next]_vars, raw' # raw
    PROVE  \E c \in Connections : publish_packet(c)
  <1>1. ASSUME NEW v \in Vehicles, NEW on \in BOOLEAN, SetSwitch(v, on)
        PROVE  FALSE
    BY <1>1 DEF SetSwitch
  <1>2. ASSUME NEW c \in Connections, NEW v \in Vehicles, Accept(c, v)
        PROVE  FALSE
    BY <1>2 DEF Accept
  <1>3. ASSUME NEW c \in Connections, NEW speed \in Speeds, Receive(c, speed)
        PROVE  FALSE
    BY <1>3 DEF Receive
  <1>4. ASSUME NEW c \in Connections, is_active(c) \/ Disconnect(c)
        PROVE  FALSE
    BY <1>4 DEF is_active, Disconnect
  <1>5. ASSUME NEW m \in Members, Consume(m) \/ Fail(m) \/ Restart(m) \/ Rebalance(m)
        PROVE  FALSE
    BY <1>5 DEF Consume, getmany, write_batch, write_latest_position, commit,
                Fail, Restart, Rebalance, ingestVars
  <1>6. ASSUME NEW v \in Vehicles, Expire(v) PROVE FALSE
    BY <1>6 DEF Expire, ingestVars
  <1>7. CASE UNCHANGED vars
    BY <1>7 DEF vars, ingestVars
  <1> QED BY <1>1, <1>2, <1>3, <1>4, <1>5, <1>6, <1>7 DEF Next

\* A packet during which the switch was on all the time is published with
\* speed zero, and one during which it was off as it came: is_active is read
\* between receipt and publication of that very packet (ingest.py:21-24).
THEOREM EnforcesSwitch == Spec => EnforcedWhileOn
  <1>1. IInv /\ [Next]_vars =>
          [\A c \in Connections :
              raw' # raw /\ connection'[c] # connection[c] =>
                  LET packet == connection[c].packet
                      published == raw'[Len(raw')].speed_kph
                  IN  /\ packet.seen = {TRUE} => published = 0
                      /\ packet.seen = {FALSE} =>
                            published = packet.speed_kph]_vars
    <2> SUFFICES ASSUME IInv, [Next]_vars, NEW c \in Connections, raw' # raw,
                        connection'[c] # connection[c]
                 PROVE  /\ connection[c].packet.seen = {TRUE} =>
                              raw'[Len(raw')].speed_kph = 0
                        /\ connection[c].packet.seen = {FALSE} =>
                              raw'[Len(raw')].speed_kph = connection[c].packet.speed_kph
      OBVIOUS
    <2>1. PICK d \in Connections : publish_packet(d)
      BY OnlyPublishes
    <2>2. d = c
      BY <2>1, PublishEnforces
    <2> QED BY <2>1, <2>2, PublishEnforces
  <1> QED BY <1>1, Invariance, PTL DEF Spec, EnforcedWhileOn
===============================================================================
