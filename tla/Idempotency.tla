----------------------------- MODULE Idempotency -----------------------------
(***************************************************************************)
(* The idempotency guard of every mutating endpoint                        *)
(* (src/shared/idempotency.py) and the purge of old keys.                  *)
(*                                                                         *)
(* A request is two steps: the lookup of its key, and the endpoint's work  *)
(* with the insert of the key and the commit.  The second is one step:     *)
(* nothing it writes is visible before the commit, and a second insert of  *)
(* the same key waits for the first to end.  Any number of requests run at *)
(* the same time; a client may repeat a request while the first is open,   *)
(* after its answer was lost, or much later.                               *)
(*                                                                         *)
(* What an endpoint does is one effect with a number; its response names   *)
(* that number.                                                            *)
(***************************************************************************)
EXTENDS Guard

CONSTANTS
    Callers,     \* consumer ids
    Endpoints,   \* method and path, the ids in the path included
    Bodies,      \* request bodies; the hash of a body stands for the body
    OlderThan,   \* age at which a key may be purged
    MaxClock,    \* bound: the clock
    MaxEffects   \* bound: requests carried out

ASSUME IdempotencyConstants ==
    /\ OlderThan \in Nat
    /\ MaxClock \in Nat
    /\ MaxEffects \in Nat

\* A row of the table idempotency_keys.
KeyRow == [request_hash : Bodies, response : Nat, created_at : Nat]

ASSUME NullAssumption == NULL \notin KeyRow

\* The table maps a caller and a key to a row.
VARIABLES
    effects,           \* what committed requests did
    answers,           \* responses given so far, refusals not included
    clock

vars == <<idempotency_keys, effects, answers, session, clock>>

Request == [consumer_id : Callers, key : Keys, endpoint : Endpoints,
            body : Bodies]

Slots == Callers \X Keys
-----------------------------------------------------------------------------
(* The primary key (consumer_id, key).                                     *)

\* Mutant: the key alone, without its consumer.
UnscopedSlot(r) == <<CHOOSE c \in Callers : TRUE, r.key>>

Slot(r) == <<r.consumer_id, r.key>>

Row(r) == idempotency_keys[Slot(r)]

\* request_hash is the hash of the body alone.
SameRequest(row, r) == row.request_hash = r.body

\* idempotency_guard_dependency and the first test of respond_idempotently.
\* A key stored for another body is a 409, which changes nothing.
Lookup(h, r) ==
    /\ session[h] = NULL
    /\ \/ /\ Row(r) = NULL
          /\ session' = [session EXCEPT ![h] =
                [request |-> r, opened |-> clock,
                 saw |-> {e.id : e \in effects}]]
          /\ UNCHANGED answers
       \/ /\ Row(r) # NULL
          /\ SameRequest(Row(r), r)
          /\ answers' = answers \cup
                {[request |-> r, response |-> Row(r).response]}
          /\ UNCHANGED session
    /\ UNCHANGED <<idempotency_keys, effects, clock>>

Effect(s, n) == [id |-> n, request |-> s.request, opened |-> s.opened,
                 committed |-> clock, saw |-> s.saw]

\* INSERT ... ON CONFLICT DO NOTHING; created_at is the transaction's start.
Stored(r, n, opened) ==
    IF Row(r) # NULL THEN Row(r)
    ELSE [request_hash |-> r.body, response |-> n, created_at |-> opened]

\* Mutant: the handler answers for itself although it lost the insert.
OwnResponse(r, n) == n

\* The second test of respond_idempotently: the loser of the insert answers
\* with what the winner stored.
Told(r, n) == IF Row(r) # NULL THEN Row(r).response ELSE n

\* build_response_json, guard.store and the answer.  A handler that finds
\* its key stored meanwhile for the same body commits what it did all the
\* same; for another body it is a 409 and its work is rolled back (Abandon).
Store(h) ==
    /\ session[h] # NULL
    /\ LET s == session[h]
           r == s.request
           n == Cardinality(effects) + 1
       IN  /\ n <= MaxEffects
           /\ Row(r) # NULL => SameRequest(Row(r), r)
           /\ effects' = effects \cup {Effect(s, n)}
           /\ idempotency_keys' = [idempotency_keys EXCEPT
                 ![Slot(r)] = Stored(r, n, s.opened)]
           /\ answers' = answers \cup
                 {[request |-> r, response |-> Told(r, n)]}
    /\ session' = [session EXCEPT ![h] = NULL]
    /\ UNCHANGED clock

\* The endpoint refuses the request, the store finds another body under the
\* key, or the process dies: the transaction leaves nothing.
Abandon(h) ==
    /\ session[h] # NULL
    /\ session' = [session EXCEPT ![h] = NULL]
    /\ UNCHANGED <<idempotency_keys, effects, answers, clock>>

\* Mutant: the purge forgets the age of a key.
PurgeEverything ==
    /\ idempotency_keys' = [k \in Slots |-> NULL]
    /\ UNCHANGED <<effects, answers, session, clock>>

\* purge_expired_idempotency_keys.
Purge ==
    /\ idempotency_keys' = [k \in Slots |->
          IF idempotency_keys[k] # NULL
             /\ idempotency_keys[k].created_at < clock - OlderThan
          THEN NULL ELSE idempotency_keys[k]]
    /\ UNCHANGED <<effects, answers, session, clock>>

Tick ==
    /\ clock < MaxClock
    /\ clock' = clock + 1
    /\ UNCHANGED <<idempotency_keys, effects, answers, session>>
-----------------------------------------------------------------------------
Init ==
    /\ idempotency_keys = [k \in Slots |-> NULL]
    /\ effects = {}
    /\ answers = {}
    /\ session = [h \in Handlers |-> NULL]
    /\ clock = 0

Next ==
    \/ \E h \in Handlers, r \in Request : Lookup(h, r)
    \/ \E h \in Handlers : Store(h)
    \/ \E h \in Handlers : Abandon(h)
    \/ Purge
    \/ Tick

Spec == Init /\ [][Next]_vars
-----------------------------------------------------------------------------
(* Properties.                                                             *)

EffectIds == 1 .. Cardinality(effects)

\* Tables and sessions keep their shape, and a stored response is one that
\* a committed request produced: the key and the effect commit together or
\* not at all (idempotency.py:49-81).
TypeOK ==
    /\ idempotency_keys \in
          [Slots -> [request_hash : Bodies, response : EffectIds,
                     created_at : 0 .. clock] \cup {NULL}]
    /\ effects \subseteq
          [id : EffectIds, request : Request, opened : 0 .. clock,
           committed : 0 .. clock, saw : SUBSET EffectIds]
    /\ answers \subseteq [request : Request, response : EffectIds]
    /\ session \in
          [Handlers -> [request : Request, opened : 0 .. clock,
                        saw : SUBSET EffectIds] \cup {NULL}]

EffectOf(n) == CHOOSE e \in effects : e.id = n

\* Two different callers never collide on a key (idempotency.py:25-27): a
\* caller is only ever shown the result of a request of its own, sent with
\* the same key and the same body; and what it is shown was committed.
ReplayIsOwn ==
    /\ TypeOK
    /\ \A a \in answers :
          LET origin == EffectOf(a.response).request
          IN  /\ origin.consumer_id = a.request.consumer_id
              /\ origin.key = a.request.key
              /\ origin.body = a.request.body

SameKey(r, s) == r.consumer_id = s.consumer_id /\ r.key = s.key

\* A key has one answer: two requests with the same key are told the same,
\* also when they run at the same time and both are carried out, unless the
\* later result was stored after the earlier one's key could expire.
AnswersAgree ==
    \A a, b \in answers :
        SameKey(a.request, b.request) /\ a.response < b.response =>
            EffectOf(b.response).committed - EffectOf(a.response).opened
                > OlderThan

\* A result with this key was stored before f, and old enough to be purged.
ExpiredBefore(f, time) ==
    \E g \in effects : /\ g.id < f.id
                       /\ SameKey(g.request, f.request)
                       /\ time - g.opened > OlderThan

\* A key takes effect twice only when two requests with the same body both
\* looked it up before either had committed, or when it expired in between:
\* before the lookup, for a retry that began after the first had committed.
RepeatedOnlyIfRacedOrExpired ==
    \A e, f \in effects :
        e.id < f.id /\ SameKey(e.request, f.request) =>
            IF e.id \in f.saw THEN ExpiredBefore(f, f.opened)
            ELSE e.request.body = f.request.body \/ ExpiredBefore(f, f.committed)

\* README.md:47-48: "The same command or event landing twice produces one
\* effect, not two", for two requests within the lifetime of a key.
OneEffect ==
    \A e, f \in effects :
        e.request = f.request /\ e.id < f.id =>
            f.committed - e.opened > OlderThan
==============================================================================
