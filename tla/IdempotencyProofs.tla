--------------------------- MODULE IdempotencyProofs ---------------------------
(***************************************************************************)
(* Proofs about Idempotency, for any number of callers, keys, bodies and   *)
(* requests in progress, and any age at which keys are purged.             *)
(*                                                                         *)
(* The guard keeps no history, so each property about pairs of requests    *)
(* rests on what the table still knows of the earlier one: its key is      *)
(* there (MatchesKeyOrExpired, AnswerIsCurrent), or it is old enough for   *)
(* the purge to have taken it.                                             *)
(***************************************************************************)
EXTENDS Idempotency, FiniteSetTheorems, TLAPS

\* Effects are numbered without repetition.
Numbered == /\ IsFiniteSet(effects)
            /\ {e.id : e \in effects} = EffectIds
            /\ \A e, f \in effects : e.id = f.id => e = f

\* The request that stored row is one that the row would be replayed for.
StoredBy(e, k, row) == /\ e.id = row.response
                       /\ Slot(e.request) = k
                       /\ e.request.body = row.request_hash
                       /\ e.opened = row.created_at

KeyIsBacked ==
    \A k \in Slots : idempotency_keys[k] # NULL =>
        \E e \in effects : StoredBy(e, k, idempotency_keys[k])

\* Whoever stores a key is told what it stores.
KeyWasAnswered ==
    \A k \in Slots : idempotency_keys[k] # NULL =>
        \E a \in answers : /\ Slot(a.request) = k
                           /\ a.response = idempotency_keys[k].response

\* A result with the key of r may have been purged by now.
MayBePurged(r, time) ==
    \E g \in effects : SameKey(g.request, r) /\ time - g.opened > OlderThan

\* What a request did is still known by its key, for its body only, or the
\* key may have been purged.
MatchesKeyOrExpired ==
    \A e \in effects :
        \/ /\ Row(e.request) # NULL
           /\ Row(e.request).request_hash = e.request.body
        \/ MayBePurged(e.request, clock)

\* An answer is what the key still says, or its result may have been purged.
AnswerIsCurrent ==
    \A a \in answers :
        \/ Row(a.request) # NULL /\ Row(a.request).response = a.response
        \/ \A e \in effects : e.id = a.response => clock - e.opened > OlderThan

\* A request that was let in found nothing, so what it saw had expired.
SawOnlyExpired ==
    \A h \in Handlers : session[h] # NULL =>
        \A e \in effects :
            /\ e.id \in session[h].saw
            /\ SameKey(e.request, session[h].request)
            => MayBePurged(session[h].request, session[h].opened)

\* ReplayIsOwn and AnswersAgree without CHOOSE.
ShownIsOwn ==
    \A a \in answers, e \in effects : e.id = a.response =>
        /\ SameKey(e.request, a.request)
        /\ e.request.body = a.request.body

ShownAgree ==
    \A a, b \in answers, e, f \in effects :
        /\ SameKey(a.request, b.request)
        /\ e.id = a.response /\ f.id = b.response /\ e.id < f.id
        => f.committed - e.opened > OlderThan

IInv == /\ TypeOK /\ clock \in Nat
        /\ Numbered
        /\ KeyIsBacked
        /\ KeyWasAnswered
        /\ MatchesKeyOrExpired
        /\ AnswerIsCurrent
        /\ SawOnlyExpired
        /\ ShownIsOwn
        /\ ShownAgree
        /\ RepeatedOnlyIfRacedOrExpired
-----------------------------------------------------------------------------
(* What the invariant says of the fields.                                  *)

\* Two requests have the same key exactly when they share a slot.
LEMMA SameSlot ==
    ASSUME NEW r, NEW s
    PROVE  SameKey(r, s) <=> Slot(r) = Slot(s)
BY DEF SameKey, Slot

\* The row a request is filed under is one of the table's rows.
LEMMA SlotType == \A r \in Request : Slot(r) \in Slots
BY DEF Request, Slot, Slots

\* Rows, effects, answers and sessions, field by field.
LEMMA Fields ==
    ASSUME IInv
    PROVE  /\ clock \in Nat /\ OlderThan \in Nat
           /\ Cardinality(effects) \in Nat
           /\ \A k \in Slots : idempotency_keys[k] # NULL =>
                 /\ idempotency_keys[k].response \in EffectIds
                 /\ idempotency_keys[k].created_at \in Nat
           /\ \A e \in effects :
                 /\ e.id \in EffectIds /\ e.id \in Nat
                 /\ e.request \in Request
                 /\ e.opened \in Nat /\ e.committed \in Nat
           /\ \A a \in answers :
                 a.request \in Request /\ a.response \in EffectIds
           /\ \A h \in Handlers : session[h] # NULL =>
                 /\ session[h].request \in Request
                 /\ session[h].opened \in 0 .. clock
                 /\ session[h].saw \subseteq EffectIds
<1>1. /\ clock \in Nat /\ OlderThan \in Nat
      /\ Cardinality(effects) \in Nat
  BY IdempotencyConstants, FS_CardinalityType DEF IInv, Numbered
<1>2. \A k \in Slots : idempotency_keys[k] # NULL =>
         /\ idempotency_keys[k].response \in EffectIds
         /\ idempotency_keys[k].created_at \in Nat
  BY <1>1 DEF IInv, TypeOK
<1>3. \A e \in effects :
         /\ e.id \in EffectIds /\ e.id \in Nat
         /\ e.request \in Request
         /\ e.opened \in Nat /\ e.committed \in Nat
  BY <1>1 DEF IInv, TypeOK, EffectIds
<1>4. \A a \in answers : a.request \in Request /\ a.response \in EffectIds
  BY DEF IInv, TypeOK
<1>5. \A h \in Handlers : session[h] # NULL =>
         /\ session[h].request \in Request
         /\ session[h].opened \in 0 .. clock
         /\ session[h].saw \subseteq EffectIds
  BY DEF IInv, TypeOK
<1> QED BY <1>1, <1>2, <1>3, <1>4, <1>5

\* Old enough to be purged stays old enough.
LEMMA PurgedStays ==
    ASSUME IInv, effects \subseteq effects', NEW r, NEW t \in Int,
           NEW u \in Int, t <= u, MayBePurged(r, t)
    PROVE  \E g \in effects' : SameKey(g.request, r) /\ u - g.opened > OlderThan
<1>1. PICK g \in effects : SameKey(g.request, r) /\ t - g.opened > OlderThan
  BY DEF MayBePurged
<1>2. u - g.opened > OlderThan
  BY <1>1, Fields
<1> QED BY <1>1, <1>2
-----------------------------------------------------------------------------
(* The actions.                                                            *)

\* The guard lets a new key in, or replays what the key says
\* (idempotency.py:107-153).
LEMMA LookupStep ==
    ASSUME IInv, NEW h \in Handlers, NEW r \in Request, Lookup(h, r)
    PROVE  IInv'
<1> USE Fields
<1>1. Slot(r) \in Slots
  BY SlotType
<1>2. CASE Row(r) = NULL
  <2> DEFINE s == [request |-> r, opened |-> clock,
                   saw |-> {e.id : e \in effects}]
  <2>1. /\ session' = [session EXCEPT ![h] = s]
        /\ UNCHANGED <<idempotency_keys, effects, answers, clock>>
    BY <1>2 DEF Lookup
  <2>2. s \in [request : Request, opened : 0 .. clock, saw : SUBSET EffectIds]
    BY DEF IInv, Numbered
  <2>3. TypeOK'
    <3> HIDE DEF s
    <3> QED BY <2>1, <2>2 DEF IInv, TypeOK, EffectIds
  <2>4. SawOnlyExpired'
    <3> SUFFICES ASSUME NEW g \in Handlers, session'[g] # NULL,
                        NEW e \in effects, e.id \in session'[g].saw,
                        SameKey(e.request, session'[g].request)
                 PROVE  MayBePurged(session'[g].request, session'[g].opened)
      BY <2>1 DEF SawOnlyExpired, MayBePurged
    <3>1. CASE g = h
      <4>1. session'[g].request = r /\ session'[g].opened = clock
        BY <2>1, <3>1 DEF IInv, TypeOK
      <4>2. Row(e.request) = NULL
        BY <1>2, <4>1, SameSlot DEF Row
      <4>3. MayBePurged(e.request, clock)
        BY <4>2 DEF IInv, MatchesKeyOrExpired
      <4> QED BY <4>1, <4>3 DEF MayBePurged, SameKey
    <3>2. CASE g # h
      <4>1. session'[g] = session[g]
        BY <2>1, <3>2 DEF IInv, TypeOK
      <4> QED BY <4>1 DEF IInv, SawOnlyExpired
    <3> QED BY <3>1, <3>2
  <2>5. Numbered' /\ KeyIsBacked' /\ KeyWasAnswered' /\ MatchesKeyOrExpired'
        /\ AnswerIsCurrent'
    BY <2>1 DEF IInv, Numbered, EffectIds, KeyIsBacked, StoredBy,
       KeyWasAnswered, MatchesKeyOrExpired, Row, MayBePurged, AnswerIsCurrent
  <2>6. ShownIsOwn' /\ ShownAgree' /\ RepeatedOnlyIfRacedOrExpired'
        /\ clock' \in Nat
    BY <2>1 DEF IInv, ShownIsOwn, ShownAgree, RepeatedOnlyIfRacedOrExpired,
       ExpiredBefore
  <2> QED BY <2>3, <2>4, <2>5, <2>6 DEF IInv
<1>3. CASE Row(r) # NULL
  <2> DEFINE a == [request |-> r, response |-> Row(r).response]
  <2>1. /\ SameRequest(Row(r), r)
        /\ answers' = answers \cup {a}
        /\ UNCHANGED <<idempotency_keys, effects, session, clock>>
    BY <1>3 DEF Lookup
  <2>2. TypeOK'
    BY <1>1, <1>3, <2>1 DEF IInv, TypeOK, EffectIds, Row
  <2>3. a.request = r /\ a.response = Row(r).response
    OBVIOUS
  <2> HIDE DEF a
  <2>4. PICK o \in effects : StoredBy(o, Slot(r), Row(r))
    BY <1>1, <1>3 DEF IInv, KeyIsBacked, Row
  <2>5. PICK b \in answers : Slot(b.request) = Slot(r)
                             /\ b.response = Row(r).response
    BY <1>1, <1>3 DEF IInv, KeyWasAnswered, Row
  <2>6. Numbered' /\ KeyIsBacked' /\ KeyWasAnswered' /\ MatchesKeyOrExpired'
        /\ SawOnlyExpired' /\ RepeatedOnlyIfRacedOrExpired' /\ clock' \in Nat
    BY <2>1 DEF IInv, Numbered, EffectIds, KeyIsBacked, StoredBy,
       KeyWasAnswered, MatchesKeyOrExpired, Row, MayBePurged, SawOnlyExpired,
       RepeatedOnlyIfRacedOrExpired, ExpiredBefore
  <2>7. AnswerIsCurrent'
    BY <1>3, <2>1, <2>3 DEF IInv, AnswerIsCurrent, Row
  <2>8. ShownIsOwn'
    <3> SUFFICES ASSUME NEW e \in effects, e.id = a.response
                 PROVE  SameKey(e.request, r) /\ e.request.body = r.body
      BY <2>1, <2>3 DEF IInv, ShownIsOwn
    <3>1. e = o
      BY <2>3, <2>4 DEF StoredBy, IInv, Numbered
    <3> QED BY <2>1, <2>4, <3>1, SameSlot DEF StoredBy, SameRequest
  <2>9. ShownAgree'
    <3>1. \A c \in answers' : \E d \in answers :
             Slot(d.request) = Slot(c.request) /\ d.response = c.response
      BY <2>1, <2>3, <2>5
    <3> QED BY <2>1, <3>1, SameSlot DEF IInv, ShownAgree
  <2> QED BY <2>2, <2>6, <2>7, <2>8, <2>9 DEF IInv
<1> QED BY <1>2, <1>3

\* One more request is carried out.  Its number is new, so nobody has seen
\* it or been told of it; and it repeats an earlier request only in a race
\* or after the key could expire, whether or not it finds the key stored.
LEMMA OneMoreEffect ==
    ASSUME IInv, NEW h \in Handlers, session[h] # NULL,
           NEW n, n = Cardinality(effects) + 1,
           Row(session[h].request) # NULL =>
               SameRequest(Row(session[h].request), session[h].request),
           effects' = effects \cup {Effect(session[h], n)},
           session' = [session EXCEPT ![h] = NULL],
           UNCHANGED clock
    PROVE  /\ n \in Nat /\ n \notin EffectIds
           /\ Numbered' /\ EffectIds' = EffectIds \cup {n}
           /\ effects' \subseteq
                 [id : EffectIds', request : Request, opened : 0 .. clock,
                  committed : 0 .. clock, saw : SUBSET EffectIds']
           /\ session' \in
                 [Handlers -> [request : Request, opened : 0 .. clock,
                               saw : SUBSET EffectIds'] \cup {NULL}]
           /\ SawOnlyExpired'
           /\ RepeatedOnlyIfRacedOrExpired'
<1> USE Fields
<1> DEFINE s == session[h]
           f == Effect(s, n)
<1>1. /\ f.id = n /\ f.request = s.request /\ f.opened = s.opened
      /\ f.committed = clock /\ f.saw = s.saw
      /\ f \in [id : {n}, request : Request, opened : 0 .. clock,
                committed : 0 .. clock, saw : SUBSET EffectIds]
  BY DEF Effect
<1> HIDE DEF f
<1>2. n \in Nat /\ n \notin EffectIds
  BY DEF EffectIds
<1>3. f \notin effects
  BY <1>1, <1>2
<1>4. /\ IsFiniteSet(effects')
      /\ Cardinality(effects') = n
  BY <1>3, FS_AddElement DEF IInv, Numbered, f
<1>5. EffectIds' = EffectIds \cup {n}
  BY <1>4 DEF EffectIds
<1>6. Numbered'
  <2>1. {e.id : e \in effects'} = EffectIds'
    BY <1>1, <1>5 DEF IInv, Numbered, f
  <2>2. \A d, e \in effects' : d.id = e.id => d = e
    BY <1>1, <1>2 DEF IInv, Numbered, f
  <2> QED BY <1>4, <2>1, <2>2 DEF Numbered
<1>7. effects' \subseteq
         [id : EffectIds', request : Request, opened : 0 .. clock,
          committed : 0 .. clock, saw : SUBSET EffectIds']
  <2>1. effects \subseteq
         [id : EffectIds', request : Request, opened : 0 .. clock,
          committed : 0 .. clock, saw : SUBSET EffectIds']
    BY <1>5 DEF IInv, TypeOK
  <2>2. f \in
         [id : EffectIds', request : Request, opened : 0 .. clock,
          committed : 0 .. clock, saw : SUBSET EffectIds']
    BY <1>1, <1>5
  <2> QED BY <2>1, <2>2 DEF f
<1>8. session' \in
         [Handlers -> [request : Request, opened : 0 .. clock,
                       saw : SUBSET EffectIds'] \cup {NULL}]
  BY <1>5 DEF IInv, TypeOK
<1>9. SawOnlyExpired'
  <2> SUFFICES ASSUME NEW g \in Handlers, session'[g] # NULL,
                      NEW e \in effects', e.id \in session'[g].saw,
                      SameKey(e.request, session'[g].request)
               PROVE  \E d \in effects' :
                         /\ SameKey(d.request, session'[g].request)
                         /\ session'[g].opened - d.opened > OlderThan
    BY DEF SawOnlyExpired, MayBePurged
  <2>1. g # h /\ session'[g] = session[g]
    BY DEF IInv, TypeOK
  <2>2. e \in effects
    BY <1>1, <1>2, <2>1 DEF f
  <2>3. MayBePurged(session[g].request, session[g].opened)
    BY <2>1, <2>2 DEF IInv, SawOnlyExpired
  <2> QED BY <2>1, <2>3 DEF MayBePurged
<1>10. RepeatedOnlyIfRacedOrExpired'
  <2>1. ASSUME NEW d \in effects, NEW e \in effects,
               d.id < e.id, SameKey(d.request, e.request)
        PROVE  IF d.id \in e.saw THEN ExpiredBefore(e, e.opened)'
               ELSE \/ d.request.body = e.request.body
                    \/ ExpiredBefore(e, e.committed)'
    BY <2>1 DEF IInv, RepeatedOnlyIfRacedOrExpired, ExpiredBefore
  <2>2. ASSUME NEW d \in effects, SameKey(d.request, f.request)
        PROVE  IF d.id \in f.saw THEN ExpiredBefore(f, s.opened)
               ELSE \/ d.request.body = f.request.body
                    \/ ExpiredBefore(f, clock)
    <3>1. \A g \in effects : g.id < f.id
      BY <1>1 DEF EffectIds
    <3>2. CASE d.id \in f.saw
      <4>1. MayBePurged(s.request, s.opened)
        BY <1>1, <2>2, <3>2 DEF IInv, SawOnlyExpired
      <4> QED BY <1>1, <3>1, <3>2, <4>1 DEF MayBePurged, ExpiredBefore
    <3>3. CASE d.id \notin f.saw
      <4>1. Slot(d.request) = Slot(s.request)
        BY <1>1, <2>2, SameSlot
      <4>2. CASE Row(d.request) # NULL
                 /\ Row(d.request).request_hash = d.request.body
        BY <1>1, <3>3, <4>1, <4>2 DEF Row, SameRequest
      <4>3. CASE MayBePurged(d.request, clock)
        <5>1. PICK g \in effects : SameKey(g.request, d.request)
                                   /\ clock - g.opened > OlderThan
          BY <4>3 DEF MayBePurged
        <5>2. SameKey(g.request, f.request)
          BY <2>2, <5>1 DEF SameKey
        <5>3. ExpiredBefore(f, clock)
          BY <3>1, <5>1, <5>2 DEF ExpiredBefore
        <5> QED BY <3>3, <5>3
      <4> QED BY <4>2, <4>3 DEF IInv, MatchesKeyOrExpired
    <3> QED BY <3>2, <3>3
  <2>3. ASSUME NEW d \in effects, SameKey(d.request, f.request)
        PROVE  IF d.id \in f.saw
               THEN \E g \in effects' : /\ g.id < f.id
                                        /\ SameKey(g.request, f.request)
                                        /\ f.opened - g.opened > OlderThan
               ELSE \/ d.request.body = f.request.body
                    \/ \E g \in effects' : /\ g.id < f.id
                                           /\ SameKey(g.request, f.request)
                                           /\ f.committed - g.opened > OlderThan
    BY <1>1, <2>2, <2>3 DEF ExpiredBefore
  <2>4. ASSUME NEW e \in effects' PROVE ~ (f.id < e.id)
    BY <1>1 DEF EffectIds, f
  <2> QED
    BY <2>1, <2>3, <2>4 DEF RepeatedOnlyIfRacedOrExpired, ExpiredBefore, f
<1> QED BY <1>2, <1>5, <1>6, <1>7, <1>8, <1>9, <1>10

\* The endpoint does its work and stores the key, or finds it stored by a
\* request that ran at the same time and answers what that one stored
\* (idempotency.py:49-104).
LEMMA StoreStep ==
    ASSUME IInv, NEW h \in Handlers, Store(h)
    PROVE  IInv'
<1> USE Fields
<1> DEFINE s == session[h]
           r == s.request
           n == Cardinality(effects) + 1
           f == Effect(s, n)
           a == [request |-> r, response |-> Told(r, n)]
<1>1. /\ s # NULL
      /\ Row(r) # NULL => SameRequest(Row(r), r)
      /\ effects' = effects \cup {f}
      /\ idempotency_keys' = [idempotency_keys EXCEPT
            ![Slot(r)] = Stored(r, n, s.opened)]
      /\ answers' = answers \cup {a}
      /\ session' = [session EXCEPT ![h] = NULL]
      /\ UNCHANGED clock
  BY DEF Store
<1>2. /\ r \in Request /\ Slot(r) \in Slots
      /\ s.opened \in 0 .. clock
  BY <1>1, SlotType
<1>3. /\ n \in Nat /\ n \notin EffectIds
      /\ Numbered' /\ EffectIds' = EffectIds \cup {n}
      /\ effects' \subseteq
            [id : EffectIds', request : Request, opened : 0 .. clock,
             committed : 0 .. clock, saw : SUBSET EffectIds']
      /\ session' \in
            [Handlers -> [request : Request, opened : 0 .. clock,
                          saw : SUBSET EffectIds'] \cup {NULL}]
      /\ SawOnlyExpired'
      /\ RepeatedOnlyIfRacedOrExpired'
  BY <1>1, OneMoreEffect
<1>4. /\ f.id = n /\ f.request = r /\ f.opened = s.opened
      /\ f.committed = clock
  BY DEF Effect
<1>5. a.request = r /\ a.response = Told(r, n)
  OBVIOUS
<1>6. r.body \in Bodies
  BY <1>2 DEF Request
<1>7. idempotency_keys \in
          [Slots -> [request_hash : Bodies, response : EffectIds,
                     created_at : 0 .. clock] \cup {NULL}]
  BY DEF IInv, TypeOK
<1> HIDE DEF s, f, a, n
<1>8. \A k \in Slots : idempotency_keys'[k] =
         IF k = Slot(r) THEN Stored(r, n, s.opened) ELSE idempotency_keys[k]
  BY <1>1, <1>2, <1>7
<1>9. clock' \in Nat /\ clock' = clock
  BY <1>1
<1>10. effects \subseteq effects' /\ f \in effects'
  BY <1>1
<1>11. \A e \in effects' : e \in effects \/ e = f
  BY <1>1
<1>12. \A b \in answers' : b \in answers \/ b = a
  BY <1>1
<1>13. \A b \in answers : b.response # n
  BY <1>3
<1>14. \A e \in effects : e.id # n
  BY <1>3
\* The key is new, and so is the answer.
<1>20. CASE Row(r) = NULL
  <2> DEFINE row == [request_hash |-> r.body, response |-> n,
                     created_at |-> s.opened]
  <2>1. Stored(r, n, s.opened) = row /\ Told(r, n) = n
    BY <1>20 DEF Stored, Told
  <2>2. /\ row.request_hash = r.body /\ row.response = n
        /\ row.created_at = s.opened
        /\ row \in [request_hash : Bodies, response : EffectIds',
                    created_at : 0 .. clock]
    BY <1>2, <1>3, <1>6
  <2>3. row # NULL
    <3>1. row \in KeyRow
      BY <1>2, <1>3, <1>6 DEF KeyRow
    <3> QED BY <3>1, NullAssumption
  <2> HIDE DEF row
  <2>4. \A k \in Slots : idempotency_keys'[k] =
           IF k = Slot(r) THEN row ELSE idempotency_keys[k]
    BY <1>8, <2>1
  <2>5. TypeOK'
    <3>1. idempotency_keys' \in
             [Slots -> [request_hash : Bodies, response : EffectIds',
                        created_at : 0 .. clock] \cup {NULL}]
      BY <1>1, <1>3, <1>7, <2>1, <2>2
    <3>2. answers' \subseteq [request : Request, response : EffectIds']
      <4>1. a \in [request : Request, response : EffectIds']
        BY <1>2, <1>3, <2>1 DEF a
      <4> QED BY <1>1, <1>3, <4>1 DEF IInv, TypeOK
    <3> QED BY <1>3, <1>9, <3>1, <3>2 DEF TypeOK
  <2>6. KeyIsBacked'
    BY <1>4, <1>10, <2>2, <2>4 DEF IInv, KeyIsBacked, StoredBy
  <2>7. KeyWasAnswered'
    BY <1>1, <1>5, <2>1, <2>2, <2>4 DEF IInv, KeyWasAnswered
  <2>8. MatchesKeyOrExpired'
    <3> SUFFICES ASSUME NEW e \in effects'
                 PROVE  \/ /\ idempotency_keys'[Slot(e.request)] # NULL
                           /\ idempotency_keys'[Slot(e.request)].request_hash
                                 = e.request.body
                        \/ \E g \in effects' :
                              /\ SameKey(g.request, e.request)
                              /\ clock - g.opened > OlderThan
      BY <1>9 DEF MatchesKeyOrExpired, MayBePurged, Row
    <3>1. CASE e = f
      BY <1>2, <1>4, <2>2, <2>3, <2>4, <3>1
    <3>2. CASE e \in effects /\ Slot(e.request) = Slot(r)
      BY <1>10, <1>20, <3>2 DEF IInv, MatchesKeyOrExpired, MayBePurged, Row
    <3>3. CASE e \in effects /\ Slot(e.request) # Slot(r)
      <4>1. idempotency_keys'[Slot(e.request)] = idempotency_keys[Slot(e.request)]
        BY <2>4, <3>3, SlotType
      <4> QED
        BY <1>10, <3>3, <4>1 DEF IInv, MatchesKeyOrExpired, MayBePurged, Row
    <3> QED BY <1>11, <3>1, <3>2, <3>3
  <2>9. \A b \in answers : Slot(b.request) = Slot(r) =>
           \A e \in effects : e.id = b.response => clock - e.opened > OlderThan
    BY <1>20 DEF IInv, AnswerIsCurrent, Row
  <2>10. AnswerIsCurrent'
    <3> SUFFICES ASSUME NEW b \in answers'
                 PROVE  \/ /\ idempotency_keys'[Slot(b.request)] # NULL
                           /\ idempotency_keys'[Slot(b.request)].response
                                 = b.response
                        \/ \A e \in effects' : e.id = b.response =>
                                             clock - e.opened > OlderThan
      BY <1>9 DEF AnswerIsCurrent, Row
    <3>1. CASE b = a
      BY <1>2, <1>5, <2>1, <2>2, <2>3, <2>4, <3>1
    <3>2. CASE b \in answers /\ Slot(b.request) = Slot(r)
      BY <1>4, <1>11, <1>13, <2>9, <3>2
    <3>3. CASE b \in answers /\ Slot(b.request) # Slot(r)
      <4>1. idempotency_keys'[Slot(b.request)] = idempotency_keys[Slot(b.request)]
        BY <2>4, <3>3, SlotType
      <4> QED BY <1>4, <1>11, <1>13, <3>3, <4>1 DEF IInv, AnswerIsCurrent, Row
    <3> QED BY <1>12, <3>1, <3>2, <3>3
  <2>11. ShownIsOwn'
    <3> SUFFICES ASSUME NEW b \in answers', NEW e \in effects',
                        e.id = b.response
                 PROVE  /\ SameKey(e.request, b.request)
                        /\ e.request.body = b.request.body
      BY DEF ShownIsOwn
    <3>1. CASE b = a
      BY <1>4, <1>5, <1>11, <1>14, <2>1, <3>1, SameSlot
    <3>2. CASE b \in answers
      BY <1>4, <1>11, <1>13, <3>2 DEF IInv, ShownIsOwn
    <3> QED BY <1>12, <3>1, <3>2
  <2>12. ShownAgree'
    <3> SUFFICES ASSUME NEW b \in answers', NEW c \in answers',
                        NEW d \in effects', NEW e \in effects',
                        SameKey(b.request, c.request),
                        d.id = b.response, e.id = c.response, d.id < e.id
                 PROVE  e.committed - d.opened > OlderThan
      BY DEF ShownAgree
    <3>1. d # f /\ d \in effects
      BY <1>3, <1>4, <1>11 DEF EffectIds, n
    <3>2. b \in answers
      BY <1>5, <1>12, <1>14, <2>1, <3>1
    <3>3. CASE c = a
      <4>1. e = f
        BY <1>5, <1>11, <1>14, <2>1, <3>3
      <4>2. Slot(b.request) = Slot(r)
        BY <1>5, <3>3, SameSlot
      <4> QED BY <1>4, <2>9, <3>1, <3>2, <4>1, <4>2
    <3>4. CASE c \in answers
      <4>1. e \in effects
        BY <1>4, <1>11, <1>13, <3>4
      <4> QED BY <3>1, <3>2, <3>4, <4>1 DEF IInv, ShownAgree
    <3> QED BY <1>12, <3>3, <3>4
  <2> QED
    BY <1>3, <1>9, <2>5, <2>6, <2>7, <2>8, <2>10, <2>11, <2>12 DEF IInv
\* Another request stored the key meanwhile.
<1>21. CASE Row(r) # NULL
  <2>1. Stored(r, n, s.opened) = Row(r) /\ Told(r, n) = Row(r).response
    BY <1>21 DEF Stored, Told
  <2>2. idempotency_keys' = idempotency_keys
    BY <1>1, <1>2, <1>7, <2>1 DEF Row
  <2>3. PICK o \in effects : StoredBy(o, Slot(r), Row(r))
    BY <1>2, <1>21 DEF IInv, KeyIsBacked, Row
  <2>4. PICK b \in answers : Slot(b.request) = Slot(r)
                             /\ b.response = Row(r).response
    BY <1>2, <1>21 DEF IInv, KeyWasAnswered, Row
  <2>5. a.response = b.response /\ a.response # n
    BY <1>5, <1>13, <2>1, <2>4
  <2>6. TypeOK'
    <3>1. idempotency_keys' \in
             [Slots -> [request_hash : Bodies, response : EffectIds',
                        created_at : 0 .. clock] \cup {NULL}]
      BY <1>3, <1>7, <2>2
    <3>2. answers' \subseteq [request : Request, response : EffectIds']
      <4>1. a \in [request : Request, response : EffectIds']
        BY <1>2, <1>3, <2>1, <2>4 DEF a
      <4> QED BY <1>1, <1>3, <4>1 DEF IInv, TypeOK
    <3> QED BY <1>3, <1>9, <3>1, <3>2 DEF TypeOK
  <2>7. KeyIsBacked' /\ KeyWasAnswered'
    BY <1>1, <1>10, <2>2 DEF IInv, KeyIsBacked, KeyWasAnswered
  <2>8. MatchesKeyOrExpired'
    <3> SUFFICES ASSUME NEW e \in effects'
                 PROVE  \/ /\ Row(e.request) # NULL
                           /\ Row(e.request).request_hash = e.request.body
                        \/ \E g \in effects' :
                              /\ SameKey(g.request, e.request)
                              /\ clock - g.opened > OlderThan
      BY <1>9, <2>2 DEF MatchesKeyOrExpired, MayBePurged, Row
    <3>1. CASE e = f
      BY <1>1, <1>4, <1>21, <3>1 DEF SameRequest
    <3>2. CASE e \in effects
      BY <1>10, <3>2 DEF IInv, MatchesKeyOrExpired, MayBePurged
    <3> QED BY <1>11, <3>1, <3>2
  <2>9. AnswerIsCurrent'
    <3> SUFFICES ASSUME NEW c \in answers'
                 PROVE  \/ Row(c.request) # NULL
                           /\ Row(c.request).response = c.response
                        \/ \A e \in effects' : e.id = c.response =>
                                             clock - e.opened > OlderThan
      BY <1>9, <2>2 DEF AnswerIsCurrent, Row
    <3>1. CASE c = a
      BY <1>5, <1>21, <2>1, <3>1
    <3>2. CASE c \in answers
      BY <1>4, <1>11, <1>13, <3>2 DEF IInv, AnswerIsCurrent
    <3> QED BY <1>12, <3>1, <3>2
  <2>10. ShownIsOwn'
    <3> SUFFICES ASSUME NEW c \in answers', NEW e \in effects',
                        e.id = c.response
                 PROVE  /\ SameKey(e.request, c.request)
                        /\ e.request.body = c.request.body
      BY DEF ShownIsOwn
    <3>1. e \in effects
      BY <1>4, <1>11, <1>12, <1>13, <2>5
    <3>2. CASE c = a
      <4>1. e = o
        BY <1>5, <2>1, <2>3, <3>1, <3>2 DEF StoredBy, IInv, Numbered
      <4> QED
        BY <1>1, <1>5, <1>21, <2>3, <3>2, <4>1, SameSlot DEF StoredBy, SameRequest
    <3>3. CASE c \in answers
      BY <3>1, <3>3 DEF IInv, ShownIsOwn
    <3> QED BY <1>12, <3>2, <3>3
  <2>11. ShownAgree'
    <3>1. \A c \in answers' : \E d \in answers :
             Slot(d.request) = Slot(c.request) /\ d.response = c.response
      BY <1>5, <1>12, <2>4, <2>5
    <3> SUFFICES ASSUME NEW b1 \in answers', NEW c1 \in answers',
                        NEW d \in effects', NEW e \in effects',
                        SameKey(b1.request, c1.request),
                        d.id = b1.response, e.id = c1.response, d.id < e.id
                 PROVE  e.committed - d.opened > OlderThan
      BY DEF ShownAgree
    <3>2. d \in effects /\ e \in effects
      BY <1>4, <1>11, <1>12, <1>13, <2>5
    <3> QED BY <3>1, <3>2, SameSlot DEF IInv, ShownAgree
  <2> QED
    BY <1>3, <1>9, <2>6, <2>7, <2>8, <2>9, <2>10, <2>11 DEF IInv
<1> QED BY <1>20, <1>21

\* A request ends without a trace.
LEMMA AbandonStep ==
    ASSUME IInv, NEW h \in Handlers, Abandon(h)
    PROVE  IInv'
<1>1. /\ session' = [session EXCEPT ![h] = NULL]
      /\ UNCHANGED <<idempotency_keys, effects, answers, clock>>
  BY DEF Abandon
<1>2. TypeOK'
  BY <1>1 DEF IInv, TypeOK, EffectIds
<1>3. SawOnlyExpired'
  <2>1. \A g \in Handlers : session'[g] # NULL => session'[g] = session[g]
    BY <1>1 DEF IInv, TypeOK
  <2> QED BY <1>1, <2>1 DEF IInv, SawOnlyExpired, MayBePurged
<1>4. Numbered' /\ KeyIsBacked' /\ KeyWasAnswered' /\ MatchesKeyOrExpired'
      /\ AnswerIsCurrent'
  BY <1>1 DEF IInv, Numbered, EffectIds, KeyIsBacked, StoredBy,
     KeyWasAnswered, MatchesKeyOrExpired, Row, MayBePurged, AnswerIsCurrent
<1>5. ShownIsOwn' /\ ShownAgree' /\ RepeatedOnlyIfRacedOrExpired'
      /\ clock' \in Nat
  BY <1>1 DEF IInv, ShownIsOwn, ShownAgree, RepeatedOnlyIfRacedOrExpired,
     ExpiredBefore
<1> QED BY <1>2, <1>3, <1>4, <1>5 DEF IInv

\* The purge takes only keys whose results are older than OlderThan
\* (the effect that stored a key began when the key was created).
LEMMA PurgeStep ==
    ASSUME IInv, Purge
    PROVE  IInv'
<1> USE Fields
<1>1. UNCHANGED <<effects, answers, session, clock>>
  BY DEF Purge
<1>2. \A k \in Slots :
         \/ idempotency_keys'[k] = idempotency_keys[k]
         \/ /\ idempotency_keys'[k] = NULL
            /\ idempotency_keys[k] # NULL
            /\ idempotency_keys[k].created_at < clock - OlderThan
  BY DEF Purge
<1>3. TypeOK'
  <2>1. idempotency_keys' \in
           [Slots -> [request_hash : Bodies, response : EffectIds,
                      created_at : 0 .. clock] \cup {NULL}]
    BY DEF Purge, IInv, TypeOK
  <2> QED BY <1>1, <2>1 DEF IInv, TypeOK, EffectIds
<1>4. \A k \in Slots : idempotency_keys'[k] # idempotency_keys[k] =>
         \E g \in effects : /\ StoredBy(g, k, idempotency_keys[k])
                            /\ clock - g.opened > OlderThan
  <2> SUFFICES ASSUME NEW k \in Slots,
                      idempotency_keys'[k] # idempotency_keys[k]
               PROVE  \E g \in effects : /\ StoredBy(g, k, idempotency_keys[k])
                                         /\ clock - g.opened > OlderThan
    OBVIOUS
  <2>1. PICK g \in effects : StoredBy(g, k, idempotency_keys[k])
    BY <1>2 DEF IInv, KeyIsBacked
  <2>2. clock - g.opened > OlderThan
    BY <1>2, <2>1 DEF StoredBy
  <2> QED BY <2>1, <2>2
<1>5. KeyIsBacked' /\ KeyWasAnswered'
  <2>1. \A k \in Slots : idempotency_keys'[k] # NULL =>
           idempotency_keys'[k] = idempotency_keys[k]
    BY <1>2
  <2> QED BY <1>1, <2>1 DEF IInv, KeyIsBacked, KeyWasAnswered
<1>6. MatchesKeyOrExpired'
  <2> SUFFICES ASSUME NEW e \in effects
               PROVE  \/ /\ idempotency_keys'[Slot(e.request)] # NULL
                         /\ idempotency_keys'[Slot(e.request)].request_hash
                               = e.request.body
                      \/ MayBePurged(e.request, clock)
    BY <1>1 DEF MatchesKeyOrExpired, MayBePurged, Row
  <2>1. Slot(e.request) \in Slots
    BY SlotType
  <2>2. CASE idempotency_keys'[Slot(e.request)] = idempotency_keys[Slot(e.request)]
    BY <2>2 DEF IInv, MatchesKeyOrExpired, Row
  <2>3. CASE idempotency_keys'[Slot(e.request)] # idempotency_keys[Slot(e.request)]
    BY <1>4, <2>1, <2>3, SameSlot DEF StoredBy, MayBePurged
  <2> QED BY <2>2, <2>3
<1>7. AnswerIsCurrent'
  <2> SUFFICES ASSUME NEW a \in answers
               PROVE  \/ /\ idempotency_keys'[Slot(a.request)] # NULL
                         /\ idempotency_keys'[Slot(a.request)].response
                               = a.response
                      \/ \A e \in effects : e.id = a.response =>
                                           clock - e.opened > OlderThan
    BY <1>1 DEF AnswerIsCurrent, Row
  <2>1. Slot(a.request) \in Slots
    BY SlotType
  <2>2. CASE idempotency_keys'[Slot(a.request)] = idempotency_keys[Slot(a.request)]
    BY <2>2 DEF IInv, AnswerIsCurrent, Row
  <2>3. CASE idempotency_keys'[Slot(a.request)] # idempotency_keys[Slot(a.request)]
    <3>1. PICK g \in effects :
             /\ StoredBy(g, Slot(a.request), idempotency_keys[Slot(a.request)])
             /\ clock - g.opened > OlderThan
      BY <1>4, <2>1, <2>3
    <3>2. CASE Row(a.request).response = a.response
      BY <3>1, <3>2 DEF Row, StoredBy, IInv, Numbered
    <3>3. CASE \A e \in effects : e.id = a.response =>
                                   clock - e.opened > OlderThan
      BY <3>3
    <3> QED BY <3>2, <3>3 DEF IInv, AnswerIsCurrent
  <2> QED BY <2>2, <2>3
<1>8. Numbered' /\ SawOnlyExpired' /\ clock' \in Nat
  BY <1>1 DEF IInv, Numbered, EffectIds, SawOnlyExpired, MayBePurged
<1>9. ShownIsOwn' /\ ShownAgree' /\ RepeatedOnlyIfRacedOrExpired'
  BY <1>1 DEF IInv, ShownIsOwn, ShownAgree, RepeatedOnlyIfRacedOrExpired,
     ExpiredBefore
<1> QED BY <1>3, <1>5, <1>6, <1>7, <1>8, <1>9 DEF IInv

\* Time passes.
LEMMA TickStep ==
    ASSUME IInv, Tick
    PROVE  IInv'
<1> USE Fields
<1>1. /\ clock' = clock + 1
      /\ UNCHANGED <<idempotency_keys, effects, answers, session>>
  BY DEF Tick
<1>2. TypeOK'
  <2>1. 0 .. clock \subseteq 0 .. clock'
    BY <1>1
  <2>2. EffectIds' = EffectIds
    BY <1>1 DEF EffectIds
  <2>3. idempotency_keys \in
           [Slots -> [request_hash : Bodies, response : EffectIds,
                      created_at : 0 .. clock'] \cup {NULL}]
    BY <2>1 DEF IInv, TypeOK
  <2>4. effects \subseteq
           [id : EffectIds, request : Request, opened : 0 .. clock',
            committed : 0 .. clock', saw : SUBSET EffectIds]
    BY <2>1 DEF IInv, TypeOK
  <2>5. session \in
           [Handlers -> [request : Request, opened : 0 .. clock',
                         saw : SUBSET EffectIds] \cup {NULL}]
    BY <2>1 DEF IInv, TypeOK
  <2> QED BY <1>1, <2>2, <2>3, <2>4, <2>5 DEF IInv, TypeOK
<1>3. MatchesKeyOrExpired'
  <2> SUFFICES ASSUME NEW e \in effects
               PROVE  \/ /\ Row(e.request) # NULL
                         /\ Row(e.request).request_hash = e.request.body
                      \/ \E g \in effects' : /\ SameKey(g.request, e.request)
                                             /\ clock' - g.opened > OlderThan
    BY <1>1 DEF MatchesKeyOrExpired, MayBePurged, Row
  <2>1. CASE MayBePurged(e.request, clock)
    BY <1>1, <2>1, PurgedStays
  <2> QED BY <2>1 DEF IInv, MatchesKeyOrExpired
<1>4. AnswerIsCurrent'
  <2>1. \A e \in effects : clock - e.opened > OlderThan =>
                           clock' - e.opened > OlderThan
    BY <1>1
  <2> QED BY <1>1, <2>1 DEF IInv, AnswerIsCurrent, Row
<1>5. Numbered' /\ KeyIsBacked' /\ KeyWasAnswered' /\ SawOnlyExpired'
      /\ clock' \in Nat
  BY <1>1 DEF IInv, Numbered, EffectIds, KeyIsBacked, KeyWasAnswered,
     SawOnlyExpired, MayBePurged
<1>6. ShownIsOwn' /\ ShownAgree' /\ RepeatedOnlyIfRacedOrExpired'
  BY <1>1 DEF IInv, ShownIsOwn, ShownAgree, RepeatedOnlyIfRacedOrExpired,
     ExpiredBefore
<1> QED BY <1>2, <1>3, <1>4, <1>5, <1>6 DEF IInv
-----------------------------------------------------------------------------
\* The inductive invariant, for every guard, store and purge.
THEOREM Invariance == Spec => []IInv
<1>1. Init => IInv
  <2> SUFFICES ASSUME Init PROVE IInv
    OBVIOUS
  <2>1. IsFiniteSet({}) /\ Cardinality({}) = 0
    BY FS_EmptySet
  <2>2. EffectIds = {}
    BY <2>1 DEF Init, EffectIds
  <2>3. TypeOK /\ clock \in Nat
    BY DEF Init, TypeOK
  <2>4. Numbered
    BY <2>1, <2>2 DEF Init, Numbered
  <2>5. \A k \in Slots : idempotency_keys[k] = NULL
    BY DEF Init
  <2>6. KeyIsBacked /\ KeyWasAnswered
    BY <2>5 DEF KeyIsBacked, KeyWasAnswered
  <2>7. MatchesKeyOrExpired /\ AnswerIsCurrent /\ ShownIsOwn /\ ShownAgree
        /\ RepeatedOnlyIfRacedOrExpired /\ SawOnlyExpired
    BY DEF Init, MatchesKeyOrExpired, AnswerIsCurrent, ShownIsOwn, ShownAgree,
       RepeatedOnlyIfRacedOrExpired, SawOnlyExpired
  <2> QED BY <2>3, <2>4, <2>6, <2>7 DEF IInv
<1>2. IInv /\ [Next]_vars => IInv'
  <2> SUFFICES ASSUME IInv, [Next]_vars PROVE IInv'
    OBVIOUS
  <2>1. CASE \E h \in Handlers, r \in Request : Lookup(h, r)
    BY <2>1, LookupStep
  <2>2. CASE \E h \in Handlers : Store(h)
    BY <2>2, StoreStep
  <2>3. CASE \E h \in Handlers : Abandon(h)
    BY <2>3, AbandonStep
  <2>4. CASE Purge
    BY <2>4, PurgeStep
  <2>5. CASE Tick
    BY <2>5, TickStep
  <2>6. CASE UNCHANGED vars
    <3>1. TypeOK' /\ Numbered' /\ KeyIsBacked' /\ KeyWasAnswered'
          /\ clock' \in Nat
      BY <2>6 DEF vars, IInv, TypeOK, Numbered, EffectIds, KeyIsBacked,
         KeyWasAnswered
    <3>2. MatchesKeyOrExpired' /\ AnswerIsCurrent' /\ SawOnlyExpired'
      BY <2>6 DEF vars, IInv, MatchesKeyOrExpired, Row, MayBePurged,
         AnswerIsCurrent, SawOnlyExpired
    <3>3. ShownIsOwn' /\ ShownAgree' /\ RepeatedOnlyIfRacedOrExpired'
      BY <2>6 DEF vars, IInv, ShownIsOwn, ShownAgree,
         RepeatedOnlyIfRacedOrExpired, ExpiredBefore
    <3> QED BY <3>1, <3>2, <3>3 DEF IInv
  <2> QED BY <2>1, <2>2, <2>3, <2>4, <2>5, <2>6 DEF Next
<1> QED BY <1>1, <1>2, PTL DEF Spec

\* The effect that an answer names is there, and is the only one.
LEMMA NamedEffect ==
    ASSUME IInv, NEW n \in EffectIds
    PROVE  EffectOf(n) \in effects /\ EffectOf(n).id = n
BY DEF IInv, Numbered, EffectOf

\* Nobody is ever shown the result of another caller, another key or another
\* body, and nothing that was not committed (idempotency.py:25-27, 49-81).
THEOREM RepliesAreOwn == Spec => []ReplayIsOwn
<1>1. IInv => ReplayIsOwn
  <2> SUFFICES ASSUME IInv, NEW a \in answers
               PROVE  LET origin == EffectOf(a.response).request
                      IN  /\ origin.consumer_id = a.request.consumer_id
                          /\ origin.key = a.request.key
                          /\ origin.body = a.request.body
    BY DEF ReplayIsOwn, IInv
  <2>1. /\ EffectOf(a.response) \in effects
        /\ EffectOf(a.response).id = a.response
    BY Fields, NamedEffect
  <2> QED BY <2>1 DEF IInv, ShownIsOwn, SameKey
<1> QED BY <1>1, Invariance, PTL

\* Requests with one key are told one thing as long as the key lives, however
\* many of them run at the same time (idempotency.py:83-104).
THEOREM RepliesAgree == Spec => []AnswersAgree
<1>1. IInv => AnswersAgree
  <2> SUFFICES ASSUME IInv, NEW a \in answers, NEW b \in answers,
                      SameKey(a.request, b.request), a.response < b.response
               PROVE  EffectOf(b.response).committed
                         - EffectOf(a.response).opened > OlderThan
    BY DEF AnswersAgree
  <2>1. /\ EffectOf(a.response) \in effects
        /\ EffectOf(a.response).id = a.response
        /\ EffectOf(b.response) \in effects
        /\ EffectOf(b.response).id = b.response
    BY Fields, NamedEffect
  <2> QED BY <2>1 DEF IInv, ShownAgree
<1> QED BY <1>1, Invariance, PTL

\* A key takes effect twice only in a race of equal requests or once a result
\* stored under it was old enough to be purged: the exact extent to which
\* the promise of one effect per command (README.md:47-48) holds.
THEOREM RepeatsAreExcused == Spec => []RepeatedOnlyIfRacedOrExpired
<1>1. IInv => RepeatedOnlyIfRacedOrExpired
  BY DEF IInv
<1> QED BY <1>1, Invariance, PTL
===============================================================================
