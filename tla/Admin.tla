-------------------------------- MODULE Admin ---------------------------------
(***************************************************************************)
(* The admin service (src/services/admin) and the kill switch              *)
(* (src/shared/kill_switch.py).                                            *)
(*                                                                         *)
(* An operation of an admin has its effect elsewhere: a decision is        *)
(* forwarded to the listing service, the kill switch is a key in Redis.    *)
(* Only after the effect does the handler write the audit row, and it      *)
(* commits it together with the idempotency key.  Between the two the      *)
(* handler may die, lose its client, or lose the answer of listing, which  *)
(* carries on alone.                                                       *)
(*                                                                         *)
(* A key here is an admin with a value of the header.  A request that is   *)
(* carried out is named by its place in requests; that number is what a    *)
(* key stores and what a handler works on.                                 *)
(***************************************************************************)
EXTENDS Guard

CONSTANTS
    Vehicles,
    MaxRequests    \* bound: requests carried out, replays not counted

ASSUME AdminConstants == MaxRequests \in Nat

VARIABLES
    vehicles,          \* approval_status in listing
    kill_switch,       \* whether Redis has the key kill-switch:<vehicle>
    admin_actions,     \* the audit trail, in commit order
    remote             \* decisions that listing is working on

VARIABLES              \* history, for the properties only
    requests,          \* the requests carried out
    done,              \* requests whose effect has happened, in its order
    lost,              \* requests whose handler was interrupted
    overlapped,        \* requests that were in progress beside another
    answer             \* the last answer: the request made, what it was told

admin_vars == <<vehicles, kill_switch, admin_actions, idempotency_keys, remote,
                session, requests, done, lost, overlapped, answer>>
-----------------------------------------------------------------------------
Decisions == {"approve", "reject"}
Toggles == {"activate", "deactivate"}

Operation == [type : Decisions \cup Toggles, vehicle_id : Vehicles]
AdminRequest == [key : Keys, op : Operation]

Happened == {done[i] : i \in DOMAIN done}
Audited == {admin_actions[i] : i \in DOMAIN admin_actions}
InProgress == {session[h] : h \in Handlers} \ {NULL}

Op(n) == requests[n].op

\* approve_vehicle and reject_vehicle of listing.
Decided(type) == IF type = "approve" THEN "approved" ELSE "rejected"

\* Mutant: the key is set to "0", and EXISTS still finds it.
SetToZero(type) == TRUE

\* SET kill-switch:<vehicle> or DEL: whether the key exists afterwards.
Switched(type) == type = "activate"
-----------------------------------------------------------------------------
(* The guard.  No endpoint of admin has a body, so every stored key passes *)
(* for the same request, whatever its path.                                *)

Begin(h, r) ==
    /\ session[h] = NULL
    /\ Len(requests) < MaxRequests
    /\ idempotency_keys[r.key] = NULL
    /\ requests' = Append(requests, r)
    /\ session' = [session EXCEPT ![h] = Len(requests) + 1]
    /\ overlapped' = IF InProgress = {} THEN overlapped
                     ELSE overlapped \cup InProgress \cup {Len(requests) + 1}
    /\ UNCHANGED <<vehicles, kill_switch, admin_actions, idempotency_keys,
                   remote, done, lost, answer>>

Replay(r) ==
    /\ idempotency_keys[r.key] # NULL
    /\ answer' = [request |-> r, told |-> idempotency_keys[r.key]]
    /\ UNCHANGED <<vehicles, kill_switch, admin_actions, idempotency_keys,
                   remote, session, requests, done, lost, overlapped>>
-----------------------------------------------------------------------------
(* The effect.                                                             *)

Waiting(h) == session[h] \in remote \cup Happened

\* listing_client.approve_vehicle or reject_vehicle, up to the read of the
\* vehicle in listing.  The forwarded call has a key of its own each time.
Forward(h) ==
    /\ session[h] # NULL /\ ~ Waiting(h)
    /\ Op(session[h]).type \in Decisions
    /\ vehicles[Op(session[h]).vehicle_id] = "pending"
    /\ remote' = remote \cup {session[h]}
    /\ UNCHANGED <<vehicles, kill_switch, admin_actions, idempotency_keys,
                   session, requests, done, lost, answer, overlapped>>

\* Listing answers 409: UpstreamError, and nothing is recorded.
Refused(h) ==
    /\ session[h] # NULL /\ ~ Waiting(h)
    /\ Op(session[h]).type \in Decisions
    /\ vehicles[Op(session[h]).vehicle_id] # "pending"
    /\ session' = [session EXCEPT ![h] = NULL]
    /\ UNCHANGED <<vehicles, kill_switch, admin_actions, idempotency_keys,
                   remote, requests, done, lost, answer, overlapped>>

\* Listing commits, whether or not its caller still waits.
Decide(n) ==
    /\ n \in remote
    /\ vehicles' = [vehicles EXCEPT ![Op(n).vehicle_id] = Decided(Op(n).type)]
    /\ remote' = remote \ {n}
    /\ done' = Append(done, n)
    /\ UNCHANGED <<kill_switch, admin_actions, idempotency_keys, session,
                   requests, lost, answer, overlapped>>

\* Listing fails and answers 500: UpstreamError.
Fail(n) ==
    /\ n \in remote
    /\ remote' = remote \ {n}
    /\ session' = [h \in Handlers |-> IF session[h] = n THEN NULL ELSE session[h]]
    /\ UNCHANGED <<vehicles, kill_switch, admin_actions, idempotency_keys,
                   requests, done, lost, answer, overlapped>>

\* kill_switch.activate and kill_switch.deactivate.
Toggle(h) ==
    /\ session[h] # NULL /\ ~ Waiting(h)
    /\ Op(session[h]).type \in Toggles
    /\ kill_switch' = [kill_switch EXCEPT
          ![Op(session[h]).vehicle_id] = Switched(Op(session[h]).type)]
    /\ done' = Append(done, session[h])
    /\ UNCHANGED <<vehicles, admin_actions, idempotency_keys, remote, session,
                   requests, lost, answer, overlapped>>
-----------------------------------------------------------------------------
(* The record.                                                             *)

\* Mutant: whoever finds its key stored meanwhile rolls back.
RecordUnlessStored(h) ==
    /\ session[h] # NULL /\ session[h] \in Happened
    /\ LET n == session[h]
           k == requests[n].key
           first == IF idempotency_keys[k] = NULL THEN n ELSE idempotency_keys[k]
       IN  /\ admin_actions' = IF first = n THEN Append(admin_actions, n)
                               ELSE admin_actions
           /\ idempotency_keys' = [idempotency_keys EXCEPT ![k] = first]
           /\ answer' = [request |-> requests[n], told |-> first]
    /\ session' = [session EXCEPT ![h] = NULL]
    /\ UNCHANGED <<vehicles, kill_switch, remote, requests, done, lost,
                   overlapped>>

\* actions_repo.record, guard.store and the answer.  The loser of the insert
\* of the key answers with what the winner stored and commits its audit row.
Record(h) ==
    /\ session[h] # NULL /\ session[h] \in Happened
    /\ LET n == session[h]
           k == requests[n].key
           first == IF idempotency_keys[k] = NULL THEN n ELSE idempotency_keys[k]
       IN  /\ admin_actions' = Append(admin_actions, n)
           /\ idempotency_keys' = [idempotency_keys EXCEPT ![k] = first]
           /\ answer' = [request |-> requests[n], told |-> first]
    /\ session' = [session EXCEPT ![h] = NULL]
    /\ UNCHANGED <<vehicles, kill_switch, remote, requests, done, lost,
                   overlapped>>

\* Mutant: the key is committed before the effect, and stays.
InterruptKeepsKey(h) ==
    /\ session[h] # NULL
    /\ lost' = lost \cup {session[h]}
    /\ idempotency_keys' = [idempotency_keys EXCEPT
          ![requests[session[h]].key] = IF @ = NULL THEN session[h] ELSE @]
    /\ session' = [session EXCEPT ![h] = NULL]
    /\ UNCHANGED <<vehicles, kill_switch, admin_actions, remote, requests,
                   done, answer, overlapped>>

\* The process dies, listing does not answer in time, or Redis or Postgres
\* fails: the transaction of the audit row leaves nothing.
Interrupt(h) ==
    /\ session[h] # NULL
    /\ lost' = lost \cup {session[h]}
    /\ session' = [session EXCEPT ![h] = NULL]
    /\ UNCHANGED <<vehicles, kill_switch, admin_actions, idempotency_keys,
                   remote, requests, done, answer, overlapped>>
-----------------------------------------------------------------------------
AdminInit ==
    /\ vehicles = [v \in Vehicles |-> "pending"]
    /\ kill_switch = [v \in Vehicles |-> FALSE]
    /\ admin_actions = << >> /\ requests = << >> /\ done = << >>
    /\ idempotency_keys = [k \in Keys |-> NULL]
    /\ remote = {} /\ lost = {} /\ overlapped = {}
    /\ session = [h \in Handlers |-> NULL]
    /\ answer = NULL

AdminNext ==
    \/ \E h \in Handlers, r \in AdminRequest : Begin(h, r)
    \/ \E r \in AdminRequest : Replay(r)
    \/ \E h \in Handlers : Forward(h) \/ Refused(h) \/ Toggle(h)
    \/ \E n \in remote : Decide(n) \/ Fail(n)
    \/ \E h \in Handlers : Record(h) \/ Interrupt(h)

AdminSpec == AdminInit /\ [][AdminNext]_admin_vars
-----------------------------------------------------------------------------
(* Properties.                                                             *)

\* Tables, keys and sessions keep their shape.
AdminTypeOK ==
    LET Numbers == 1 .. Len(requests)
    IN  /\ vehicles \in [Vehicles -> {"pending", "approved", "rejected"}]
        /\ kill_switch \in [Vehicles -> BOOLEAN]
        /\ requests \in Seq(AdminRequest)
        /\ admin_actions \in Seq(Numbers) /\ done \in Seq(Numbers)
        /\ idempotency_keys \in [Keys -> Numbers \cup {NULL}]
        /\ session \in [Handlers -> Numbers \cup {NULL}]
        /\ remote \cup lost \cup overlapped \subseteq Numbers

\* The audit trail is what happened.  It never claims what did not: a
\* decision that listing refused or lost, or a switch that was not set, has no
\* row, and no request has two (admin/service.py:18-24, clients.py:25-26).
\* And "every admin operation this service performs ... is recorded here"
\* (models.py:14-15), but for the one hole of recording after the effect: the
\* handler was interrupted in between.  In particular two concurrent requests
\* with one key are both recorded, as both took effect.
TrailIsTrue ==
    /\ AdminTypeOK
    /\ Audited \subseteq Happened
    /\ Happened \subseteq Audited \cup lost \cup InProgress
    /\ \A i, j \in DOMAIN admin_actions :
          admin_actions[i] = admin_actions[j] => i = j

\* The key was given to no other operation.
KeyIsHonest(r) ==
    \A n \in DOMAIN requests : requests[n].key = r.key => requests[n].op = r.op

\* An admin who is told that an operation succeeded can rely on it: it did
\* happen and is in the trail, also when the answer is a replay, provided
\* that the key was not used for another operation.  The guard compares
\* bodies only, and here all are empty (idempotency.py:122).
AnsweredIsDone ==
    answer # NULL /\ KeyIsHonest(answer.request) =>
        \E n \in Happened \cap Audited : Op(n) = answer.request.op

TogglesOf(v) ==
    {n \in DOMAIN requests : Op(n).type \in Toggles /\ Op(n).vehicle_id = v}

\* What an admin reads in the trail is what telemetry finds in Redis: the
\* last row about the switch of a vehicle says how it stands, unless a toggle
\* of it was interrupted, is in progress, or ran beside another request (rows
\* are committed after the effects, so in another order, kill_switch.py:12-21).
TrailTellsSwitch ==
    \A v \in Vehicles :
        LET rows == {i \in DOMAIN admin_actions : admin_actions[i] \in TogglesOf(v)}
        IN  TogglesOf(v) \cap (lost \cup InProgress \cup overlapped) = {} =>
              (kill_switch[v] <=>
                 \E i \in rows : /\ \A j \in rows : j <= i
                                 /\ Op(admin_actions[i]).type = "activate")
===============================================================================
