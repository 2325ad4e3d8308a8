------------------------------ MODULE AccessProofs ------------------------------
(***************************************************************************)
(* Proofs about Auth and Admin, two services behind the guard of Guard,    *)
(* each a specification of its own, for any number of keys, of requests in *)
(* progress, of e-mails and of vehicles.                                   *)
(*                                                                         *)
(* Auth.  Looking for the e-mail first proves nothing about the moment of  *)
(* the insert.  What makes accounts unique is InsertIsAlone: the unique    *)
(* column lets one transaction at a time hold an e-mail, and none at all   *)
(* once there is an account.                                               *)
(*                                                                         *)
(* Admin.  The effect and its row are two steps, so the trail is compared  *)
(* with history: a request in progress has no row yet, what listing works  *)
(* on has not happened, and requests that did not race took effect and     *)
(* were recorded in the order in which they began.                         *)
(***************************************************************************)
EXTENDS Auth, Admin, FiniteSetTheorems, TLAPS
-----------------------------------------------------------------------------
(* Auth.                                                                   *)

\* A transaction that has inserted an e-mail is the only one that has, and
\* there is no account with it.
InsertIsAlone ==
    \A h \in Handlers : session[h] # NULL /\ session[h].stage = "inserted" =>
        /\ ~ Registered(EmailOf(h))
        /\ ~ Inserting(EmailOf(h), h)

\* A stored key names the account that its request made.
KeyIsBacked ==
    \A k \in Keys : idempotency_keys[k] # NULL =>
        \E u \in users : /\ u.id = idempotency_keys[k].response
                         /\ u.email = idempotency_keys[k].request_hash.email
                         /\ u.password = idempotency_keys[k].request_hash.password

\* The key of a request that made an account is there until it is purged.
KeyIsKept ==
    \A u \in users : u.by.key \notin purged => idempotency_keys[u.by.key] # NULL

\* A request that began without its key had not made an account before.
BegunIsNew ==
    \A h \in Handlers :
        session[h] # NULL /\ session[h].request.key \notin purged =>
            ~ \E u \in session[h].saw : u.by = session[h].request

AnswersAreTyped ==
    \A a \in answers : /\ a.request \in Request
                       /\ a.told \in Nat \cup {NULL}

IInv == /\ OneAccountPerEmail
        /\ IsFiniteSet(users)
        /\ InsertIsAlone
        /\ KeyIsBacked
        /\ KeyIsKept
        /\ BegunIsNew
        /\ AnswersAreTyped
        /\ RegisteredCanLogIn
        /\ RefusedIsTaken
-----------------------------------------------------------------------------
(* Steps that touch neither the accounts nor the keys.                     *)

\* A transaction that begins, advances or ends: the parts of the invariant
\* about users, keys and old answers are not its concern.
LEMMA SessionStep ==
    ASSUME IInv, NEW h \in Handlers, NEW s \in Transaction \cup {NULL},
           session' = [session EXCEPT ![h] = s],
           UNCHANGED <<users, idempotency_keys, purged>>,
           s # NULL /\ s.stage = "inserted" =>
               /\ ~ Registered(s.request.body.email)
               /\ ~ Inserting(s.request.body.email, h),
           s # NULL /\ s.request.key \notin purged =>
               ~ \E u \in s.saw : u.by = s.request
    PROVE  /\ OneAccountPerEmail' /\ IsFiniteSet(users)' /\ InsertIsAlone'
           /\ KeyIsBacked' /\ KeyIsKept' /\ BegunIsNew'
<1>1. session \in [Handlers -> Transaction \cup {NULL}]
  BY DEF IInv, OneAccountPerEmail, AuthTypeOK
<1>2. OneAccountPerEmail'
  BY <1>1 DEF IInv, OneAccountPerEmail, AuthTypeOK, Transaction, Ids
<1>3. InsertIsAlone'
  <2> SUFFICES ASSUME NEW g \in Handlers, session'[g] # NULL,
                      session'[g].stage = "inserted"
               PROVE  /\ ~ Registered(EmailOf(g))'
                      /\ ~ Inserting(EmailOf(g), g)'
    BY DEF InsertIsAlone
  <2>1. CASE g = h
    BY <1>1, <2>1 DEF Registered, EmailOf, Inserting
  <2>2. CASE g # h
    <3>1. session'[g] = session[g]
      BY <1>1, <2>2
    <3>2. /\ ~ Registered(EmailOf(g))
          /\ ~ Inserting(EmailOf(g), g)
      BY <3>1 DEF IInv, InsertIsAlone
    <3>3. ~ Registered(EmailOf(g))'
      BY <3>1, <3>2 DEF Registered, EmailOf
    <3>4. ~ Inserting(EmailOf(g), g)'
      <4> SUFFICES ASSUME NEW o \in Handlers \ {g}, session'[o] # NULL,
                          session'[o].stage = "inserted",
                          EmailOf(o)' = EmailOf(g)'
                   PROVE  FALSE
        BY DEF Inserting
      <4>1. CASE o = h
        BY <1>1, <2>2, <3>1, <4>1 DEF EmailOf, Inserting
      <4>2. CASE o # h
        BY <1>1, <3>1, <3>2, <4>2 DEF EmailOf, Inserting
      <4> QED BY <4>1, <4>2
    <3> QED BY <3>3, <3>4
  <2> QED BY <2>1, <2>2
<1>4. KeyIsBacked' /\ KeyIsKept' /\ IsFiniteSet(users)'
  BY DEF IInv, KeyIsBacked, KeyIsKept
<1>5. BegunIsNew'
  BY <1>1 DEF IInv, BegunIsNew
<1> QED BY <1>2, <1>3, <1>4, <1>5

\* Answers given before stay true while accounts are only added and keys
\* only purged.
LEMMA AnswersStay ==
    ASSUME IInv, users \subseteq users', purged \subseteq purged',
           NEW a \in answers
    PROVE  /\ a.request \in Request /\ a.told \in Nat \cup {NULL}
           /\ a.told # NULL =>
                 /\ authenticate(a.request.body.email, a.request.body.password)'
                 /\ \E u \in users' : /\ u.id = a.told
                                      /\ u.email = a.request.body.email
           /\ a.told = NULL =>
                 /\ Registered(a.request.body.email)'
                 /\ a.request.key \notin purged' =>
                       ~ \E u \in a.saw : u.by = a.request
<1>1. a.request \in Request /\ a.told \in Nat \cup {NULL}
  BY DEF IInv, AnswersAreTyped
<1>2. a.told # NULL =>
         /\ authenticate(a.request.body.email, a.request.body.password)'
         /\ \E u \in users' : u.id = a.told /\ u.email = a.request.body.email
  BY DEF IInv, RegisteredCanLogIn, authenticate
<1>3. a.told = NULL =>
         /\ Registered(a.request.body.email)'
         /\ a.request.key \notin purged' =>
               ~ \E u \in a.saw : u.by = a.request
  BY DEF IInv, RefusedIsTaken, Registered
<1> QED BY <1>1, <1>2, <1>3

\* No new answer, no new obligation.
LEMMA NoAnswer ==
    ASSUME IInv, users \subseteq users', purged \subseteq purged',
           UNCHANGED answers
    PROVE  AnswersAreTyped' /\ RegisteredCanLogIn' /\ RefusedIsTaken'
BY AnswersStay DEF AnswersAreTyped, RegisteredCanLogIn, RefusedIsTaken

\* What an answer is.
LEMMA AnswerFields ==
    ASSUME NEW r, NEW saw, NEW told
    PROVE  /\ Answer(r, saw, told).request = r
           /\ Answer(r, saw, told).saw = saw
           /\ Answer(r, saw, told).told = told
BY DEF Answer
-----------------------------------------------------------------------------
(* The actions.                                                            *)

\* The guard lets a new request in, or replays the account that the key
\* names (idempotency.py:107-153).
LEMMA LookupStep ==
    ASSUME IInv, NEW h \in Handlers, NEW r \in Request, Lookup(h, r)
    PROVE  IInv'
<1> DEFINE row == idempotency_keys[r.key]
<1>1. r.key \in Keys /\ r.body \in Body
  BY DEF Request
<1>2. CASE row = NULL
  <2> DEFINE s == [request |-> r, stage |-> "begun", saw |-> users]
  <2>1. /\ session' = [session EXCEPT ![h] = s]
        /\ UNCHANGED <<users, idempotency_keys, answers, purged>>
    BY <1>2 DEF Lookup
  <2>2. s \in Transaction
    BY DEF Transaction
  <2>3. r.key \notin purged => ~ \E u \in users : u.by = r
    BY <1>2 DEF IInv, KeyIsKept
  <2>4. /\ OneAccountPerEmail' /\ IsFiniteSet(users)' /\ InsertIsAlone'
        /\ KeyIsBacked' /\ KeyIsKept' /\ BegunIsNew'
    BY <2>1, <2>2, <2>3, SessionStep
  <2> QED BY <2>1, <2>4, NoAnswer DEF IInv
<1>3. CASE row # NULL
  <2> DEFINE a == Answer(r, users, row.response)
  <2>1. /\ SameRequest(row, r)
        /\ answers' = answers \cup {a}
        /\ UNCHANGED <<users, idempotency_keys, session, purged>>
    BY <1>3 DEF Lookup
  <2>2. /\ OneAccountPerEmail' /\ IsFiniteSet(users)' /\ InsertIsAlone'
        /\ KeyIsBacked' /\ KeyIsKept' /\ BegunIsNew'
    BY <2>1 DEF IInv, OneAccountPerEmail, AuthTypeOK, Transaction, Ids,
       InsertIsAlone, KeyIsBacked, KeyIsKept, BegunIsNew, Registered,
       Inserting, EmailOf
  <2>3. PICK u \in users : /\ u.id = row.response
                           /\ u.email = row.request_hash.email
                           /\ u.password = row.request_hash.password
    BY <1>1, <1>3 DEF IInv, KeyIsBacked
  <2>4. u.email = r.body.email /\ u.password = r.body.password
    BY <2>1, <2>3 DEF SameRequest
  <2>5. u.id \in Nat
    BY DEF IInv, OneAccountPerEmail, AuthTypeOK, User
  <2>6. a.request = r /\ a.told = u.id /\ a.told # NULL
    BY <2>3, <2>5, AnswerFields, AuthConstants, NullIsNoNumber
  <2>7. AnswersAreTyped'
    BY <2>1, <2>5, <2>6, AnswersStay DEF AnswersAreTyped
  <2>8. RegisteredCanLogIn'
    <3> HIDE DEF a
    <3> QED BY <2>1, <2>4, <2>6, AnswersStay DEF RegisteredCanLogIn, authenticate
  <2>9. RefusedIsTaken'
    <3> HIDE DEF a
    <3> QED BY <2>1, <2>6, AnswersStay DEF RefusedIsTaken
  <2> QED BY <2>2, <2>7, <2>8, <2>9 DEF IInv
<1> QED BY <1>2, <1>3

\* A refusal is told while there is an account with the e-mail.
LEMMA RefuseStep ==
    ASSUME IInv, NEW h \in Handlers, session[h] # NULL,
           Registered(EmailOf(h)), Refuse(h)
    PROVE  IInv'
<1> DEFINE s == session[h]
           a == Answer(s.request, s.saw, NULL)
<1>1. s \in Transaction
  BY DEF IInv, OneAccountPerEmail, AuthTypeOK
<1>2. /\ session' = [session EXCEPT ![h] = NULL]
      /\ answers' = answers \cup {a}
      /\ UNCHANGED <<users, idempotency_keys, purged>>
  BY DEF Refuse
<1>3. /\ OneAccountPerEmail' /\ IsFiniteSet(users)' /\ InsertIsAlone'
      /\ KeyIsBacked' /\ KeyIsKept' /\ BegunIsNew'
  BY <1>2, SessionStep
<1>4. /\ a.request = s.request /\ a.saw = s.saw /\ a.told = NULL
      /\ s.request \in Request
  BY <1>1, AnswerFields DEF Transaction
<1>5. AnswersAreTyped' /\ RegisteredCanLogIn'
  <2> HIDE DEF a
  <2> QED BY <1>2, <1>4, AnswersStay DEF AnswersAreTyped, RegisteredCanLogIn
<1>6. \E u \in users' : u.email = s.request.body.email
  BY <1>2 DEF Registered, EmailOf
<1>7. s.request.key \notin purged => ~ \E u \in s.saw : u.by = s.request
  BY DEF IInv, BegunIsNew
<1>8. RefusedIsTaken'
  <2> HIDE DEF a
  <2> QED BY <1>2, <1>4, <1>6, <1>7, AnswersStay DEF RefusedIsTaken, Registered
<1> QED BY <1>3, <1>5, <1>8 DEF IInv

\* A transaction goes on to its next statement.
LEMMA ProceedStep ==
    ASSUME IInv, NEW h \in Handlers, session[h] # NULL,
           NEW stage \in {"free", "inserted"}, Proceed(h, stage),
           stage = "inserted" => /\ ~ Registered(EmailOf(h))
                                 /\ ~ Inserting(EmailOf(h), h)
    PROVE  IInv'
<1> DEFINE s == [session[h] EXCEPT !.stage = stage]
<1>1. session \in [Handlers -> Transaction \cup {NULL}]
  BY DEF IInv, OneAccountPerEmail, AuthTypeOK
<1>2. /\ s \in Transaction
      /\ s.request = session[h].request /\ s.saw = session[h].saw
      /\ s.stage = stage
  BY <1>1 DEF Transaction
<1>3. /\ session' = [session EXCEPT ![h] = s]
      /\ UNCHANGED <<users, idempotency_keys, answers, purged>>
  BY DEF Proceed
<1>4. s.request.key \notin purged => ~ \E u \in s.saw : u.by = s.request
  BY <1>2 DEF IInv, BegunIsNew
<1> HIDE DEF s
<1>5. /\ OneAccountPerEmail' /\ IsFiniteSet(users)' /\ InsertIsAlone'
      /\ KeyIsBacked' /\ KeyIsKept' /\ BegunIsNew'
  BY <1>2, <1>3, <1>4, SessionStep DEF EmailOf
<1> QED BY <1>3, <1>5, NoAnswer DEF IInv

\* The commit adds one account, its key and the answer at once
\* (idempotency.py:48-104).
LEMMA StoreStep ==
    ASSUME IInv, NEW h \in Handlers, store(h)
    PROVE  IInv'
<1> DEFINE s == session[h]
           r == s.request
           n == Cardinality(users) + 1
           u == [id |-> n, email |-> r.body.email, password |-> r.body.password,
                 by |-> r]
           row == [request_hash |-> r.body, response |-> n]
           a == Answer(r, s.saw, n)
<1>1. session \in [Handlers -> Transaction \cup {NULL}] /\ users \subseteq User
      /\ idempotency_keys \in
            [Keys -> [request_hash : Body, response : Ids] \cup {NULL}]
      /\ {x.id : x \in users} = Ids
  BY DEF IInv, OneAccountPerEmail, AuthTypeOK
<1>2. /\ s # NULL /\ s.stage = "inserted" /\ idempotency_keys[r.key] = NULL
      /\ users' = users \cup {u}
      /\ idempotency_keys' = [idempotency_keys EXCEPT ![r.key] = row]
      /\ answers' = answers \cup {a}
      /\ session' = [session EXCEPT ![h] = NULL]
      /\ UNCHANGED purged
  BY DEF store, NewUser
<1>3. s \in Transaction /\ r \in Request /\ r.key \in Keys /\ r.body \in Body
      /\ r.body.email \in Emails /\ r.body.password \in Passwords
  BY <1>1, <1>2 DEF Transaction, Request, Body
<1>4. Cardinality(users) \in Nat /\ n \in Nat
  BY FS_CardinalityType DEF IInv
<1>5. u \in User /\ u.id = n /\ u.email = r.body.email
      /\ u.password = r.body.password /\ u.by = r
  BY <1>3, <1>4 DEF User
<1>6. \A x \in users : x.email # r.body.email
  BY <1>2 DEF IInv, InsertIsAlone, Registered, EmailOf
<1>7. /\ IsFiniteSet(users')
      /\ Cardinality(users') = n
  BY <1>2, <1>5, <1>6, FS_AddElement DEF IInv
<1> HIDE DEF u, n
<1>8. Ids' = Ids \cup {n}
  BY <1>4, <1>7 DEF Ids, n
<1>9. AuthTypeOK'
  <2>1. users' \subseteq User /\ {x.id : x \in users'} = Ids'
    <3>1. {x.id : x \in users'} = {x.id : x \in users} \cup {u.id}
      BY <1>2
    <3> QED BY <1>1, <1>2, <1>5, <1>8, <3>1
  <2>2. idempotency_keys' \in
           [Keys -> [request_hash : Body, response : Ids'] \cup {NULL}]
    <3>1. row \in [request_hash : Body, response : Ids']
      BY <1>3, <1>8
    <3>2. \A k \in Keys : idempotency_keys[k] \in
             [request_hash : Body, response : Ids'] \cup {NULL}
      BY <1>1, <1>8
    <3> HIDE DEF row
    <3> QED BY <1>1, <1>2, <3>1, <3>2
  <2>3. session' \in [Handlers -> Transaction' \cup {NULL}]
    <3>1. \A t \in Transaction : t \in Transaction'
      BY <1>2 DEF Transaction
    <3> QED BY <1>1, <1>2, <3>1
  <2> QED BY <2>1, <2>2, <2>3 DEF AuthTypeOK
<1>10. OneAccountPerEmail'
  <2>1. \A x, y \in users' : x.email = y.email => x = y
    BY <1>2, <1>5, <1>6 DEF IInv, OneAccountPerEmail
  <2> QED BY <1>9, <2>1 DEF OneAccountPerEmail
<1>11. InsertIsAlone'
  <2> SUFFICES ASSUME NEW g \in Handlers, session'[g] # NULL,
                      session'[g].stage = "inserted"
               PROVE  /\ ~ Registered(EmailOf(g))'
                      /\ ~ Inserting(EmailOf(g), g)'
    BY DEF InsertIsAlone
  <2>1. g # h /\ session'[g] = session[g]
    BY <1>1, <1>2
  <2>2. /\ ~ Registered(EmailOf(g))
        /\ ~ Inserting(EmailOf(g), g)
    BY <2>1 DEF IInv, InsertIsAlone
  <2>3. session[g].request.body.email # r.body.email
    BY <1>2, <2>1, <2>2 DEF Inserting, EmailOf
  <2>4. ~ Registered(EmailOf(g))'
    BY <1>2, <1>5, <2>1, <2>2, <2>3 DEF Registered, EmailOf
  <2>5. \A o \in Handlers \ {g} : session'[o] # NULL => session'[o] = session[o]
    BY <1>1, <1>2
  <2>6. ~ Inserting(EmailOf(g), g)'
    BY <2>1, <2>2, <2>5 DEF Inserting, EmailOf
  <2> QED BY <2>4, <2>6
<1>12. KeyIsBacked'
  <2> SUFFICES ASSUME NEW k \in Keys, idempotency_keys'[k] # NULL
               PROVE  \E x \in users' :
                         /\ x.id = idempotency_keys'[k].response
                         /\ x.email = idempotency_keys'[k].request_hash.email
                         /\ x.password =
                               idempotency_keys'[k].request_hash.password
    BY DEF KeyIsBacked
  <2>1. CASE k = r.key
    <3>1. idempotency_keys'[k] = row
      BY <1>1, <1>2, <1>3, <2>1
    <3>2. u \in users'
      BY <1>2
    <3> QED BY <1>5, <3>1, <3>2
  <2>2. CASE k # r.key
    <3>1. idempotency_keys'[k] = idempotency_keys[k]
      BY <1>1, <1>2, <2>2
    <3> QED BY <1>2, <3>1 DEF IInv, KeyIsBacked
  <2> QED BY <2>1, <2>2
<1>13. KeyIsKept'
  <2>1. row # NULL
    <3>1. row \in KeyRow
      BY <1>3, <1>4 DEF KeyRow
    <3> QED BY <3>1, AuthConstants, NullIsNoNumber
  <2> HIDE DEF row
  <2> QED BY <1>1, <1>2, <1>3, <1>5, <2>1 DEF IInv, KeyIsKept
<1>14. BegunIsNew'
  <2>1. \A g \in Handlers : session'[g] # NULL => session'[g] = session[g]
    BY <1>1, <1>2
  <2> QED BY <1>2, <2>1 DEF IInv, BegunIsNew
<1>15. a.request = r /\ a.told = n /\ a.told # NULL
  BY <1>4, AnswerFields, AuthConstants, NullIsNoNumber
<1>16. AnswersAreTyped'
  <2> HIDE DEF a
  <2> QED BY <1>2, <1>3, <1>4, <1>15, AnswersStay DEF AnswersAreTyped
<1>17. u \in users' /\ users \subseteq users'
  BY <1>2
<1>18. RegisteredCanLogIn'
  <2> HIDE DEF a
  <2> QED BY <1>2, <1>5, <1>15, <1>17, AnswersStay
          DEF RegisteredCanLogIn, authenticate
<1>19. RefusedIsTaken'
  <2> HIDE DEF a
  <2> QED BY <1>2, <1>15, <1>17, AnswersStay DEF RefusedIsTaken
<1> QED BY <1>7, <1>10, <1>11, <1>12, <1>13, <1>14, <1>16, <1>18, <1>19 DEF IInv

\* A purge takes a key and records it.
LEMMA PurgeStep ==
    ASSUME IInv, NEW k \in Keys, Purge(k)
    PROVE  IInv'
<1>1. idempotency_keys \in
         [Keys -> [request_hash : Body, response : Ids] \cup {NULL}]
  BY DEF IInv, OneAccountPerEmail, AuthTypeOK
<1>2. /\ idempotency_keys' = [idempotency_keys EXCEPT ![k] = NULL]
      /\ purged' = purged \cup {k}
      /\ UNCHANGED <<users, session, answers>>
  BY DEF Purge
<1>3. OneAccountPerEmail' /\ IsFiniteSet(users)'
  BY <1>1, <1>2 DEF IInv, OneAccountPerEmail, AuthTypeOK, Transaction, Ids
<1>4. InsertIsAlone'
  BY <1>2 DEF IInv, InsertIsAlone, Registered, Inserting, EmailOf
<1>5. KeyIsBacked'
  BY <1>1, <1>2 DEF IInv, KeyIsBacked
<1>6. KeyIsKept'
  BY <1>1, <1>2 DEF IInv, KeyIsKept
<1>7. BegunIsNew'
  BY <1>2 DEF IInv, BegunIsNew
<1>8. AnswersAreTyped' /\ RegisteredCanLogIn' /\ RefusedIsTaken'
  BY <1>2, NoAnswer
<1> QED BY <1>3, <1>4, <1>5, <1>6, <1>7, <1>8 DEF IInv

\* The invariant holds in every state that auth reaches.
THEOREM Invariance == Spec => []IInv
<1>1. Init => IInv
  <2> SUFFICES ASSUME Init
               PROVE  IInv
    OBVIOUS
  <2>1. Ids = {} /\ IsFiniteSet(users)
    BY FS_EmptySet DEF Init, Ids
  <2> QED BY <2>1 DEF Init, IInv, OneAccountPerEmail, AuthTypeOK,
          InsertIsAlone, KeyIsBacked, KeyIsKept, BegunIsNew, AnswersAreTyped,
          RegisteredCanLogIn, RefusedIsTaken
<1>2. IInv /\ [Next]_vars => IInv'
  <2> SUFFICES ASSUME IInv, [Next]_vars
               PROVE  IInv'
    OBVIOUS
  <2>1. ASSUME NEW h \in Handlers, get_by_email(h)
        PROVE  IInv'
    BY <2>1, RefuseStep, ProceedStep DEF get_by_email
  <2>2. ASSUME NEW h \in Handlers, create(h)
        PROVE  IInv'
    BY <2>2, RefuseStep, ProceedStep DEF create
  <2>3. ASSUME NEW h \in Handlers, Abandon(h)
        PROVE  IInv'
    <3>1. /\ session' = [session EXCEPT ![h] = NULL]
          /\ UNCHANGED <<users, idempotency_keys, answers, purged>>
      BY <2>3 DEF Abandon
    <3>2. /\ OneAccountPerEmail' /\ IsFiniteSet(users)' /\ InsertIsAlone'
          /\ KeyIsBacked' /\ KeyIsKept' /\ BegunIsNew'
      BY <3>1, SessionStep
    <3> QED BY <3>1, <3>2, NoAnswer DEF IInv
  <2>4. CASE UNCHANGED vars
    <3>1. /\ OneAccountPerEmail' /\ IsFiniteSet(users)' /\ InsertIsAlone'
          /\ KeyIsBacked' /\ KeyIsKept' /\ BegunIsNew'
      BY <2>4 DEF vars, IInv, OneAccountPerEmail, AuthTypeOK, Transaction, Ids,
         InsertIsAlone, KeyIsBacked, KeyIsKept, BegunIsNew, Registered,
         Inserting, EmailOf
    <3>2. users \subseteq users' /\ purged \subseteq purged' /\ UNCHANGED answers
      BY <2>4 DEF vars
    <3> QED BY <3>1, <3>2, NoAnswer DEF IInv
  <2> QED BY <2>1, <2>2, <2>3, <2>4, LookupStep, StoreStep, PurgeStep DEF Next
<1> QED BY <1>1, <1>2, PTL DEF Spec

\* One account per e-mail, however registrations overlap (service.py:15-26).
THEOREM AccountsAreUnique == Spec => []OneAccountPerEmail
<1>1. IInv => OneAccountPerEmail
  BY DEF IInv
<1> QED BY <1>1, Invariance, PTL

\* Whoever is told "registered" can log in, replayed answers and shared keys
\* included (routes.py:38-62).
THEOREM SuccessIsReal == Spec => []RegisteredCanLogIn
<1>1. IInv => RegisteredCanLogIn
  BY DEF IInv
<1> QED BY <1>1, Invariance, PTL

\* Whoever is told "email already registered" is told the truth, and not
\* about an account of its own earlier request (routes.py:55-57).
THEOREM RefusalIsReal == Spec => []RefusedIsTaken
<1>1. IInv => RefusedIsTaken
  BY DEF IInv
<1> QED BY <1>1, Invariance, PTL
-----------------------------------------------------------------------------
(* Admin: the invariant.                                                   *)

\* Two handlers carry out two requests.
HandlersDiffer ==
    \A g, h \in Handlers : session[g] = session[h] /\ session[h] # NULL => g = h

\* A request in progress has no row yet.
OpenIsUnrecorded == InProgress \cap Audited = {}

\* What listing is working on is a decision that has not happened, and whose
\* handler waits or was interrupted.
RemoteIsAsked ==
    \A n \in remote : /\ Op(n).type \in Decisions
                      /\ n \notin Happened
                      /\ n \in InProgress \cup lost

\* A stored key names a recorded request with that key, and so does an answer.
KeysAreBacked ==
    \A k \in Keys : idempotency_keys[k] # NULL =>
        /\ idempotency_keys[k] \in Audited
        /\ requests[idempotency_keys[k]].key = k

AnswerIsBacked ==
    answer # NULL => /\ answer.told \in Audited
                     /\ requests[answer.told].key = answer.request.key

\* A request that began after one still in progress ran beside it.
RacesAreMarked ==
    \A n \in InProgress, m \in DOMAIN requests :
        m > n => n \in overlapped /\ m \in overlapped

\* The last toggle that took effect says how the switch stands.
LastToggle(v, i) ==
    /\ done[i] \in TogglesOf(v)
    /\ \A j \in DOMAIN done : done[j] \in TogglesOf(v) => j <= i

SwitchTellsDone ==
    \A v \in Vehicles :
        kill_switch[v] <=> \E i \in DOMAIN done : /\ LastToggle(v, i)
                                                  /\ Op(done[i]).type = "activate"

\* Toggles that ran alone took effect, and were recorded, in the order in
\* which they began.
EffectsInOrder ==
    \A i, j \in DOMAIN done :
        /\ i < j
        /\ Op(done[i]).type \in Toggles /\ Op(done[j]).type \in Toggles
        /\ done[i] \notin overlapped /\ done[j] \notin overlapped
        => done[i] < done[j]

RowsInOrder ==
    \A i, j \in DOMAIN admin_actions :
        /\ i < j
        /\ admin_actions[i] \notin overlapped /\ admin_actions[j] \notin overlapped
        => admin_actions[i] < admin_actions[j]

TrailInv == /\ TrailIsTrue
            /\ HandlersDiffer
            /\ OpenIsUnrecorded
            /\ RemoteIsAsked
            /\ KeysAreBacked
            /\ AnswerIsBacked
            /\ RacesAreMarked
            /\ SwitchTellsDone
            /\ EffectsInOrder
            /\ RowsInOrder
-----------------------------------------------------------------------------
(* Facts about numbers, sequences and sessions.                            *)

\* Where the numbers of requests are.
LEMMA Numbering ==
    ASSUME AdminTypeOK
    PROVE  /\ Len(requests) \in Nat /\ DOMAIN requests = 1 .. Len(requests)
           /\ \A n \in DOMAIN requests : requests[n] \in AdminRequest
           /\ Len(done) \in Nat /\ DOMAIN done = 1 .. Len(done)
           /\ \A i \in DOMAIN done : done[i] \in DOMAIN requests
           /\ Len(admin_actions) \in Nat
           /\ DOMAIN admin_actions = 1 .. Len(admin_actions)
           /\ \A i \in DOMAIN admin_actions : admin_actions[i] \in DOMAIN requests
           /\ Happened \subseteq DOMAIN requests
           /\ Audited \subseteq DOMAIN requests
           /\ InProgress \subseteq DOMAIN requests
           /\ \A h \in Handlers : session[h] # NULL =>
                 session[h] \in DOMAIN requests /\ session[h] \in InProgress
           /\ \A n \in DOMAIN requests : n # NULL /\ n \in Nat
<1>1. /\ Len(requests) \in Nat /\ DOMAIN requests = 1 .. Len(requests)
      /\ \A n \in DOMAIN requests : requests[n] \in AdminRequest
  BY DEF AdminTypeOK
<1>2. /\ Len(done) \in Nat /\ DOMAIN done = 1 .. Len(done)
      /\ \A i \in DOMAIN done : done[i] \in DOMAIN requests
  BY <1>1 DEF AdminTypeOK
<1>3. /\ Len(admin_actions) \in Nat
      /\ DOMAIN admin_actions = 1 .. Len(admin_actions)
      /\ \A i \in DOMAIN admin_actions : admin_actions[i] \in DOMAIN requests
  BY <1>1 DEF AdminTypeOK
<1>4. Happened \subseteq DOMAIN requests /\ Audited \subseteq DOMAIN requests
  BY <1>2, <1>3 DEF Happened, Audited
<1>5. \A h \in Handlers : session[h] # NULL =>
         session[h] \in DOMAIN requests /\ session[h] \in InProgress
  BY <1>1 DEF AdminTypeOK, InProgress
<1>6. InProgress \subseteq DOMAIN requests
  BY <1>1 DEF AdminTypeOK, InProgress
<1>7. \A n \in DOMAIN requests : n # NULL /\ n \in Nat
  BY <1>1, NullIsNoNumber
<1> QED BY <1>1, <1>2, <1>3, <1>4, <1>5, <1>6, <1>7

\* A handler that ends its request leaves the others in progress.
LEMMA Ending ==
    ASSUME AdminTypeOK, HandlersDiffer, NEW h \in Handlers, session[h] # NULL,
           session' = [session EXCEPT ![h] = NULL]
    PROVE  /\ InProgress' = InProgress \ {session[h]}
           /\ HandlersDiffer'
           /\ session' \in [Handlers -> 1 .. Len(requests) \cup {NULL}]
<1>1. /\ session'[h] = NULL
      /\ \A g \in Handlers : g # h => session'[g] = session[g]
      /\ session' \in [Handlers -> 1 .. Len(requests) \cup {NULL}]
  BY DEF AdminTypeOK
<1>2. InProgress' = InProgress \ {session[h]}
  BY <1>1 DEF InProgress, HandlersDiffer
<1>3. HandlersDiffer'
  BY <1>1 DEF HandlersDiffer
<1> QED BY <1>1, <1>2, <1>3

\* An effect, and a row, at the end of its sequence.
LEMMA AppendedEffect ==
    ASSUME AdminTypeOK, NEW n \in DOMAIN requests, done' = Append(done, n)
    PROVE  /\ Happened' = Happened \cup {n}
           /\ DOMAIN done' = DOMAIN done \cup {Len(done) + 1}
           /\ \A i \in DOMAIN done : done'[i] = done[i]
           /\ done'[Len(done) + 1] = n
           /\ done' \in Seq(1 .. Len(requests))
           /\ Len(done) + 1 \notin DOMAIN done
<1>1. /\ DOMAIN done' = DOMAIN done \cup {Len(done) + 1}
      /\ \A i \in DOMAIN done : done'[i] = done[i]
      /\ done'[Len(done) + 1] = n
      /\ done' \in Seq(1 .. Len(requests))
      /\ Len(done) + 1 \notin DOMAIN done
  BY DEF AdminTypeOK
<1>2. Happened' = Happened \cup {n}
  BY <1>1 DEF Happened
<1> QED BY <1>1, <1>2

\* Appending a logged request to the audit trail keeps the rows before it.
LEMMA AppendedRow ==
    ASSUME AdminTypeOK, NEW n \in DOMAIN requests,
           admin_actions' = Append(admin_actions, n)
    PROVE  /\ Audited' = Audited \cup {n}
           /\ DOMAIN admin_actions' =
                 DOMAIN admin_actions \cup {Len(admin_actions) + 1}
           /\ \A i \in DOMAIN admin_actions : admin_actions'[i] = admin_actions[i]
           /\ admin_actions'[Len(admin_actions) + 1] = n
           /\ admin_actions' \in Seq(1 .. Len(requests))
           /\ Len(admin_actions) + 1 \notin DOMAIN admin_actions
<1>1. /\ DOMAIN admin_actions' = DOMAIN admin_actions \cup {Len(admin_actions) + 1}
      /\ \A i \in DOMAIN admin_actions : admin_actions'[i] = admin_actions[i]
      /\ admin_actions'[Len(admin_actions) + 1] = n
      /\ admin_actions' \in Seq(1 .. Len(requests))
      /\ Len(admin_actions) + 1 \notin DOMAIN admin_actions
  BY DEF AdminTypeOK
<1>2. Audited' = Audited \cup {n}
  BY <1>1 DEF Audited
<1> QED BY <1>1, <1>2

\* What the parts of the invariant about sequences look at: unchanged when
\* requests, done, rows and switches are, and races are not forgotten.
LEMMA OrdersKept ==
    ASSUME TrailInv, UNCHANGED <<requests, done, admin_actions, kill_switch>>,
           overlapped \subseteq overlapped'
    PROVE  SwitchTellsDone' /\ EffectsInOrder' /\ RowsInOrder'
<1>1. SwitchTellsDone'
  <2>1. SwitchTellsDone
    BY DEF TrailInv
  <2>2. \A v : TogglesOf(v)' = TogglesOf(v)
    BY DEF TogglesOf, Op
  <2>3. \A v, i : LastToggle(v, i)' <=> LastToggle(v, i)
    BY <2>2 DEF LastToggle
  <2>4. \A n : Op(n)' = Op(n)
    BY DEF Op
  <2> QED BY <2>1, <2>3, <2>4 DEF SwitchTellsDone
<1>2. EffectsInOrder'
  BY DEF TrailInv, EffectsInOrder, Op
<1>3. RowsInOrder'
  BY DEF TrailInv, RowsInOrder
<1> QED BY <1>1, <1>2, <1>3
-----------------------------------------------------------------------------
(* Steps that have no effect and write no row.                             *)

\* A step that leaves rows, switch, trail and keys alone keeps TrailInv.
LEMMA QuietStep ==
    ASSUME TrailInv,
           UNCHANGED <<vehicles, kill_switch, admin_actions, idempotency_keys,
                       requests, done, overlapped>>,
           session' \in [Handlers -> 1 .. Len(requests) \cup {NULL}],
           HandlersDiffer', InProgress' \subseteq InProgress,
           remote' \cup lost' \subseteq 1 .. Len(requests),
           Happened \subseteq Audited \cup lost' \cup InProgress',
           \A n \in remote' : /\ Op(n).type \in Decisions
                              /\ n \notin Happened
                              /\ n \in InProgress' \cup lost',
           AnswerIsBacked'
    PROVE  TrailInv'
<1>1. Happened' = Happened /\ Audited' = Audited
  BY DEF Happened, Audited
<1>2. TrailIsTrue'
  <2>1. AdminTypeOK'
    BY DEF TrailInv, TrailIsTrue, AdminTypeOK
  <2>2. /\ Audited' \subseteq Happened'
        /\ Happened' \subseteq Audited' \cup lost' \cup InProgress'
    BY <1>1 DEF TrailInv, TrailIsTrue
  <2>3. \A i, j \in DOMAIN admin_actions' :
           admin_actions'[i] = admin_actions'[j] => i = j
    BY DEF TrailInv, TrailIsTrue
  <2> QED BY <2>1, <2>2, <2>3 DEF TrailIsTrue
<1>3. OpenIsUnrecorded'
  BY <1>1 DEF TrailInv, OpenIsUnrecorded
<1>4. RemoteIsAsked'
  BY <1>1 DEF RemoteIsAsked, Op
<1>5. KeysAreBacked'
  BY <1>1 DEF TrailInv, KeysAreBacked
<1>6. RacesAreMarked'
  BY DEF TrailInv, RacesAreMarked
<1> QED BY <1>2, <1>3, <1>4, <1>5, <1>6, OrdersKept DEF TrailInv

\* A handler that ends without a row: refused or interrupted.
LEMMA EndStep ==
    ASSUME TrailInv, NEW h \in Handlers, session[h] # NULL,
           session' = [session EXCEPT ![h] = NULL],
           UNCHANGED <<vehicles, kill_switch, admin_actions, idempotency_keys,
                       requests, done, answer, overlapped>>,
           \/ /\ remote' = remote /\ lost' = lost
              /\ session[h] \notin remote \cup Happened
           \/ remote' = remote /\ lost' = lost \cup {session[h]}
    PROVE  TrailInv'
<1>1. AdminTypeOK /\ HandlersDiffer
  BY DEF TrailInv, TrailIsTrue
<1>2. /\ InProgress' = InProgress \ {session[h]}
      /\ HandlersDiffer'
      /\ session' \in [Handlers -> 1 .. Len(requests) \cup {NULL}]
  BY <1>1, Ending
<1>3. remote' \cup lost' \subseteq 1 .. Len(requests)
  BY <1>1, Numbering DEF AdminTypeOK
<1>4. Happened \subseteq Audited \cup lost' \cup InProgress'
  BY <1>2 DEF TrailInv, TrailIsTrue
<1>5. \A n \in remote' : /\ Op(n).type \in Decisions
                         /\ n \notin Happened
                         /\ n \in InProgress' \cup lost'
  BY <1>2 DEF TrailInv, RemoteIsAsked
<1>6. AnswerIsBacked'
  BY DEF TrailInv, AnswerIsBacked, Audited
<1>7. InProgress' \subseteq InProgress
  BY <1>2
<1> QED BY <1>2, <1>3, <1>4, <1>5, <1>6, <1>7, QuietStep

\* Answering from a stored idempotency key keeps TrailInv.
LEMMA ReplayStep ==
    ASSUME TrailInv, NEW r \in AdminRequest, Replay(r)
    PROVE  TrailInv'
<1>1. /\ UNCHANGED <<vehicles, kill_switch, admin_actions, idempotency_keys,
                     requests, done, overlapped>>
      /\ UNCHANGED <<remote, session, lost>>
      /\ idempotency_keys[r.key] # NULL
      /\ answer' = [request |-> r, told |-> idempotency_keys[r.key]]
  BY DEF Replay
<1>2. InProgress' = InProgress /\ HandlersDiffer' /\ Audited' = Audited
  BY <1>1 DEF InProgress, TrailInv, HandlersDiffer, Audited
<1>3. /\ session' \in [Handlers -> 1 .. Len(requests) \cup {NULL}]
      /\ remote' \cup lost' \subseteq 1 .. Len(requests)
      /\ Happened \subseteq Audited \cup lost' \cup InProgress'
  BY <1>1, <1>2 DEF TrailInv, TrailIsTrue, AdminTypeOK
<1>4. \A n \in remote' : /\ Op(n).type \in Decisions
                         /\ n \notin Happened
                         /\ n \in InProgress' \cup lost'
  BY <1>1, <1>2 DEF TrailInv, RemoteIsAsked
<1>5. AnswerIsBacked'
  <2>1. r.key \in Keys
    BY DEF AdminRequest
  <2> QED BY <1>1, <1>2, <2>1 DEF TrailInv, KeysAreBacked, AnswerIsBacked
<1> QED BY <1>1, <1>2, <1>3, <1>4, <1>5, QuietStep

\* Forwarding a decision to listing keeps TrailInv.
LEMMA ForwardStep ==
    ASSUME TrailInv, NEW h \in Handlers, Forward(h)
    PROVE  TrailInv'
<1>1. /\ UNCHANGED <<vehicles, kill_switch, admin_actions, idempotency_keys,
                     requests, done, overlapped>>
      /\ UNCHANGED <<session, lost, answer>>
      /\ remote' = remote \cup {session[h]}
      /\ session[h] # NULL /\ session[h] \notin Happened
      /\ Op(session[h]).type \in Decisions
  BY DEF Forward, Waiting
<1>2. InProgress' = InProgress /\ HandlersDiffer' /\ AnswerIsBacked'
  BY <1>1 DEF InProgress, TrailInv, HandlersDiffer, AnswerIsBacked, Audited
<1>3. session[h] \in 1 .. Len(requests) /\ session[h] \in InProgress
  BY <1>1, Numbering DEF TrailInv, TrailIsTrue
<1>4. /\ session' \in [Handlers -> 1 .. Len(requests) \cup {NULL}]
      /\ remote' \cup lost' \subseteq 1 .. Len(requests)
      /\ Happened \subseteq Audited \cup lost' \cup InProgress'
  BY <1>1, <1>2, <1>3 DEF TrailInv, TrailIsTrue, AdminTypeOK
<1>5. \A n \in remote' : /\ Op(n).type \in Decisions
                         /\ n \notin Happened
                         /\ n \in InProgress' \cup lost'
  BY <1>1, <1>2, <1>3 DEF TrailInv, RemoteIsAsked
<1> QED BY <1>1, <1>2, <1>4, <1>5, QuietStep

\* A decision that listing answers with 409 keeps TrailInv.
LEMMA RefusedStep ==
    ASSUME TrailInv, NEW h \in Handlers, Refused(h)
    PROVE  TrailInv'
BY EndStep DEF Refused, Waiting

\* A handler lost in the middle of its request keeps TrailInv.
LEMMA InterruptStep ==
    ASSUME TrailInv, NEW h \in Handlers, Interrupt(h)
    PROVE  TrailInv'
BY EndStep DEF Interrupt

\* A decision that fails in listing keeps TrailInv.
LEMMA FailStep ==
    ASSUME TrailInv, NEW n \in remote, Fail(n)
    PROVE  TrailInv'
<1>1. /\ UNCHANGED <<vehicles, kill_switch, admin_actions, idempotency_keys,
                     requests, done, answer, overlapped, lost>>
      /\ remote' = remote \ {n}
      /\ session' = [h \in Handlers |-> IF session[h] = n THEN NULL ELSE session[h]]
      /\ n \notin Happened
  BY DEF Fail, TrailInv, RemoteIsAsked
<1>2. /\ session' \in [Handlers -> 1 .. Len(requests) \cup {NULL}]
      /\ remote' \cup lost' \subseteq 1 .. Len(requests)
  BY <1>1 DEF TrailInv, TrailIsTrue, AdminTypeOK
<1>3. InProgress' = InProgress \ {n} /\ HandlersDiffer'
  BY <1>1 DEF InProgress, TrailInv, HandlersDiffer
<1>4. Happened \subseteq Audited \cup lost' \cup InProgress'
  BY <1>1, <1>3 DEF TrailInv, TrailIsTrue
<1>5. \A m \in remote' : /\ Op(m).type \in Decisions
                         /\ m \notin Happened
                         /\ m \in InProgress' \cup lost'
  BY <1>1, <1>3 DEF TrailInv, RemoteIsAsked
<1>6. AnswerIsBacked' /\ InProgress' \subseteq InProgress
  BY <1>1, <1>3 DEF TrailInv, AnswerIsBacked, Audited
<1> QED BY <1>1, <1>2, <1>3, <1>4, <1>5, <1>6, QuietStep
-----------------------------------------------------------------------------
(* A new request, an effect and a row.                                     *)

\* A handler that starts on a new request keeps TrailInv.
LEMMA BeginStep ==
    ASSUME TrailInv, NEW h \in Handlers, NEW r \in AdminRequest, Begin(h, r)
    PROVE  TrailInv'
<1> DEFINE n == Len(requests) + 1
<1>1. /\ UNCHANGED <<vehicles, kill_switch, admin_actions, idempotency_keys>>
      /\ UNCHANGED <<remote, done, lost, answer>>
      /\ session[h] = NULL
      /\ requests' = Append(requests, r)
      /\ session' = [session EXCEPT ![h] = n]
      /\ InProgress # {} => overlapped' = overlapped \cup InProgress \cup {n}
      /\ InProgress = {} => overlapped' = overlapped
  BY DEF Begin
<1>2. AdminTypeOK /\ HandlersDiffer
  BY DEF TrailInv, TrailIsTrue
<1>3. /\ Len(requests) \in Nat /\ DOMAIN requests = 1 .. Len(requests)
      /\ Happened \subseteq DOMAIN requests
      /\ Audited \subseteq DOMAIN requests
      /\ InProgress \subseteq DOMAIN requests
      /\ \A i \in DOMAIN done : done[i] \in DOMAIN requests
      /\ \A i \in DOMAIN admin_actions : admin_actions[i] \in DOMAIN requests
      /\ \A g \in Handlers : session[g] # NULL => session[g] \in DOMAIN requests
  BY <1>2, Numbering
<1>4. /\ requests' \in Seq(AdminRequest)
      /\ Len(requests') = n /\ n \in Nat /\ n # NULL
      /\ DOMAIN requests' = DOMAIN requests \cup {n}
      /\ n \notin DOMAIN requests
      /\ \A m \in DOMAIN requests : requests'[m] = requests[m] /\ m < n
  <2>1. requests \in Seq(AdminRequest)
    BY <1>2 DEF AdminTypeOK
  <2>2. n \in Nat /\ n # NULL
    BY <1>3, NullIsNoNumber
  <2> QED BY <1>1, <1>3, <2>1, <2>2
<1> HIDE DEF n
<1>5. \A m \in DOMAIN requests : Op(m)' = Op(m)
  BY <1>4 DEF Op
<1>6. Happened' = Happened /\ Audited' = Audited
  BY <1>1 DEF Happened, Audited
<1>7. /\ session'[h] = n
      /\ \A g \in Handlers : g # h => session'[g] = session[g]
  BY <1>1, <1>2 DEF AdminTypeOK
<1>8. InProgress' = InProgress \cup {n}
  BY <1>1, <1>4, <1>7 DEF InProgress
<1>9. HandlersDiffer'
  BY <1>2, <1>3, <1>4, <1>7 DEF HandlersDiffer
<1>10. AdminTypeOK'
  <2> DEFINE Old == 1 .. Len(requests)
             New == 1 .. Len(requests')
  <2>1. Old \subseteq New /\ n \in New
    BY <1>3, <1>4 DEF n
  <2>2. /\ vehicles' \in [Vehicles -> {"pending", "approved", "rejected"}]
        /\ kill_switch' \in [Vehicles -> BOOLEAN]
    BY <1>1, <1>2 DEF AdminTypeOK
  <2>3. /\ admin_actions \in Seq(Old) /\ done \in Seq(Old)
        /\ idempotency_keys \in [Keys -> Old \cup {NULL}]
        /\ session \in [Handlers -> Old \cup {NULL}]
        /\ remote \cup lost \cup overlapped \subseteq Old
        /\ InProgress \subseteq Old
    BY <1>2, <1>3 DEF AdminTypeOK
  <2> HIDE DEF Old, New
  <2>4. admin_actions' \in Seq(New) /\ done' \in Seq(New)
    BY <1>1, <2>1, <2>3
  <2>5. /\ idempotency_keys' \in [Keys -> New \cup {NULL}]
        /\ session' \in [Handlers -> New \cup {NULL}]
        /\ remote' \cup lost' \cup overlapped' \subseteq New
    BY <1>1, <2>1, <2>3
  <2> QED BY <1>4, <2>2, <2>4, <2>5 DEF AdminTypeOK, New
<1>11. TrailIsTrue'
  BY <1>1, <1>6, <1>8, <1>10 DEF TrailInv, TrailIsTrue
<1>12. OpenIsUnrecorded'
  BY <1>3, <1>4, <1>6, <1>8 DEF TrailInv, OpenIsUnrecorded
<1>13. remote \subseteq DOMAIN requests
  BY <1>2, <1>3 DEF AdminTypeOK
<1>14. RemoteIsAsked'
  BY <1>1, <1>5, <1>6, <1>8, <1>13 DEF TrailInv, RemoteIsAsked
<1>15. KeysAreBacked' /\ AnswerIsBacked'
  BY <1>1, <1>3, <1>4, <1>6 DEF TrailInv, KeysAreBacked, AnswerIsBacked
<1>16. overlapped \subseteq overlapped'
  BY <1>1
<1>17. RacesAreMarked'
  <2> SUFFICES ASSUME NEW k \in InProgress', NEW m \in DOMAIN requests', m > k
               PROVE  k \in overlapped' /\ m \in overlapped'
    BY DEF RacesAreMarked
  <2>1. k \in InProgress
    <3>1. \A j \in DOMAIN requests : j \in Nat
      BY <1>3
    <3> QED BY <1>3, <1>4, <1>8, <3>1
  <2>2. CASE m = n
    BY <1>1, <2>1, <2>2
  <2>3. CASE m # n
    BY <1>4, <1>16, <2>1, <2>3 DEF TrailInv, RacesAreMarked
  <2> QED BY <2>2, <2>3
<1>18. SwitchTellsDone'
  <2>1. \A v : \A m \in DOMAIN requests : m \in TogglesOf(v)' <=> m \in TogglesOf(v)
    BY <1>4, <1>5 DEF TogglesOf
  <2>2. \A v : \A i \in DOMAIN done : LastToggle(v, i)' <=> LastToggle(v, i)
    BY <1>1, <1>3, <2>1 DEF LastToggle
  <2>3. \A i \in DOMAIN done : Op(done[i])' = Op(done[i])
    BY <1>1, <1>3, <1>4 DEF Op
  <2> QED BY <1>1, <2>2, <2>3 DEF TrailInv, SwitchTellsDone
<1>19. EffectsInOrder'
  <2>1. \A i \in DOMAIN done : Op(done[i])' = Op(done[i])
    BY <1>1, <1>3, <1>4 DEF Op
  <2> QED BY <1>1, <1>16, <2>1 DEF TrailInv, EffectsInOrder
<1>20. RowsInOrder'
  BY <1>1, <1>16 DEF TrailInv, RowsInOrder
<1> QED BY <1>9, <1>11, <1>12, <1>14, <1>15, <1>17, <1>18, <1>19, <1>20 DEF TrailInv

\* Listing commits a decision: it is not a toggle.
LEMMA DecideStep ==
    ASSUME TrailInv, NEW n \in remote, Decide(n)
    PROVE  TrailInv'
<1>1. /\ UNCHANGED <<kill_switch, admin_actions, idempotency_keys, session>>
      /\ UNCHANGED <<requests, lost, answer, overlapped>>
      /\ vehicles' = [vehicles EXCEPT ![Op(n).vehicle_id] = Decided(Op(n).type)]
      /\ remote' = remote \ {n}
      /\ done' = Append(done, n)
  BY DEF Decide
<1>2. /\ AdminTypeOK /\ n \in DOMAIN requests /\ n \notin Happened
      /\ Op(n).type \in Decisions /\ n \in InProgress \cup lost
  <2>1. AdminTypeOK
    BY DEF TrailInv, TrailIsTrue
  <2>2. n \in DOMAIN requests
    BY <2>1, Numbering DEF AdminTypeOK
  <2> QED BY <2>1, <2>2 DEF TrailInv, RemoteIsAsked
<1>3. PICK k : /\ k = Len(done) + 1
               /\ Happened' = Happened \cup {n}
               /\ DOMAIN done' = DOMAIN done \cup {k}
               /\ \A i \in DOMAIN done : done'[i] = done[i]
               /\ done'[k] = n
               /\ done' \in Seq(1 .. Len(requests))
               /\ k \notin DOMAIN done
  BY <1>1, <1>2, AppendedEffect
<1>4. Audited' = Audited /\ InProgress' = InProgress
  BY <1>1 DEF Audited, InProgress
<1>5. AdminTypeOK'
  <2>1. vehicles' \in [Vehicles -> {"pending", "approved", "rejected"}]
    BY <1>1, <1>2 DEF AdminTypeOK, Decided
  <2> QED BY <1>1, <1>2, <1>3, <2>1 DEF AdminTypeOK
<1>6. TrailIsTrue'
  BY <1>1, <1>2, <1>3, <1>4, <1>5 DEF TrailInv, TrailIsTrue
<1>7. HandlersDiffer' /\ OpenIsUnrecorded' /\ KeysAreBacked' /\ AnswerIsBacked'
      /\ RacesAreMarked' /\ RowsInOrder'
  BY <1>1, <1>4 DEF TrailInv, HandlersDiffer, OpenIsUnrecorded, KeysAreBacked,
     AnswerIsBacked, RacesAreMarked, RowsInOrder
<1>8. RemoteIsAsked'
  BY <1>1, <1>3, <1>4 DEF TrailInv, RemoteIsAsked, Op
<1>9. /\ \A m : Op(m)' = Op(m)
      /\ \A i : Op(done[i])' = Op(done'[i])
  BY <1>1 DEF Op
<1>10. Op(n).type \notin Toggles
  BY <1>2 DEF Decisions, Toggles
<1>11. SwitchTellsDone'
  <2>1. \A v : TogglesOf(v)' = TogglesOf(v) /\ n \notin TogglesOf(v)
    BY <1>1, <1>9, <1>10 DEF TogglesOf
  <2>2. \A v : \A i \in DOMAIN done : LastToggle(v, i)' <=> LastToggle(v, i)
    BY <1>3, <2>1 DEF LastToggle
  <2>3. \A v : ~ LastToggle(v, k)'
    BY <1>3, <2>1 DEF LastToggle
  <2>4. \A v : (\E i \in DOMAIN done' : LastToggle(v, i)' /\ Op(done[i])'.type = "activate")
           <=> (\E i \in DOMAIN done : LastToggle(v, i) /\ Op(done[i]).type = "activate")
    BY <1>3, <1>9, <2>2, <2>3
  <2> QED BY <1>1, <2>4 DEF TrailInv, SwitchTellsDone
<1>12. EffectsInOrder'
  <2>1. EffectsInOrder
    BY DEF TrailInv
  <2> QED BY <1>1, <1>3, <1>9, <1>10, <2>1 DEF EffectsInOrder
<1> QED BY <1>6, <1>7, <1>8, <1>11, <1>12 DEF TrailInv

\* The switch is set: the toggle is now the last one of its vehicle.
LEMMA ToggleStep ==
    ASSUME TrailInv, NEW h \in Handlers, Toggle(h)
    PROVE  TrailInv'
<1>0. PICK n : n = session[h]
  OBVIOUS
<1>1. /\ UNCHANGED <<vehicles, admin_actions, idempotency_keys, session>>
      /\ UNCHANGED <<remote, requests, lost, answer, overlapped>>
      /\ kill_switch' = [kill_switch EXCEPT ![Op(n).vehicle_id] = Switched(Op(n).type)]
      /\ done' = Append(done, n)
      /\ n # NULL /\ n \notin remote /\ n \notin Happened
      /\ Op(n).type \in Toggles
  BY <1>0 DEF Toggle, Waiting
<1>2. /\ AdminTypeOK /\ n \in DOMAIN requests /\ n \in InProgress
      /\ DOMAIN done = 1 .. Len(done) /\ Len(done) \in Nat
      /\ \A i \in DOMAIN done : done[i] \in Nat /\ done[i] \in DOMAIN requests
      /\ n \in Nat
  BY <1>0, <1>1, Numbering DEF TrailInv, TrailIsTrue
<1>3. PICK k : /\ k = Len(done) + 1
               /\ Happened' = Happened \cup {n}
               /\ DOMAIN done' = DOMAIN done \cup {k}
               /\ \A i \in DOMAIN done : done'[i] = done[i]
               /\ done'[k] = n
               /\ done' \in Seq(1 .. Len(requests))
               /\ k \notin DOMAIN done
  BY <1>1, <1>2, AppendedEffect
<1>4. Audited' = Audited /\ InProgress' = InProgress
  BY <1>1 DEF Audited, InProgress
<1>5. AdminTypeOK'
  <2>1. kill_switch' \in [Vehicles -> BOOLEAN]
    BY <1>1, <1>2 DEF AdminTypeOK, Switched
  <2> QED BY <1>1, <1>2, <1>3, <2>1 DEF AdminTypeOK
<1>6. TrailIsTrue'
  BY <1>1, <1>2, <1>3, <1>4, <1>5 DEF TrailInv, TrailIsTrue
<1>7. HandlersDiffer' /\ OpenIsUnrecorded' /\ KeysAreBacked' /\ AnswerIsBacked'
      /\ RacesAreMarked' /\ RowsInOrder'
  BY <1>1, <1>4 DEF TrailInv, HandlersDiffer, OpenIsUnrecorded, KeysAreBacked,
     AnswerIsBacked, RacesAreMarked, RowsInOrder
<1>8. RemoteIsAsked'
  BY <1>1, <1>3, <1>4 DEF TrailInv, RemoteIsAsked, Op
<1>9. /\ \A m : Op(m)' = Op(m)
      /\ \A i : Op(done[i])' = Op(done'[i])
  BY <1>1 DEF Op
<1>10. \A v : TogglesOf(v)' = TogglesOf(v)
  BY <1>1, <1>9 DEF TogglesOf
<1>11. SwitchTellsDone'
  <2> SUFFICES ASSUME NEW v \in Vehicles
               PROVE  kill_switch'[v] <=>
                         \E i \in DOMAIN done' : /\ LastToggle(v, i)'
                                                 /\ Op(done[i])'.type = "activate"
    BY DEF SwitchTellsDone
  <2>1. CASE v = Op(n).vehicle_id
    <3>1. n \in TogglesOf(v)
      BY <1>1, <1>2, <2>1 DEF TogglesOf
    <3>2. LastToggle(v, k)'
      BY <1>2, <1>3, <1>10, <3>1 DEF LastToggle
    <3>3. \A i \in DOMAIN done : ~ LastToggle(v, i)'
      BY <1>2, <1>3, <1>10, <3>1 DEF LastToggle
    <3>4. kill_switch'[v] <=> Op(n).type = "activate"
      BY <1>1, <1>2, <2>1 DEF AdminTypeOK, Switched
    <3> QED BY <1>3, <1>9, <3>2, <3>3, <3>4
  <2>2. CASE v # Op(n).vehicle_id
    <3>1. n \notin TogglesOf(v)
      BY <2>2 DEF TogglesOf
    <3>2. \A i \in DOMAIN done : LastToggle(v, i)' <=> LastToggle(v, i)
      BY <1>3, <1>10, <3>1 DEF LastToggle
    <3>3. ~ LastToggle(v, k)'
      BY <1>3, <1>10, <3>1 DEF LastToggle
    <3>4. kill_switch'[v] = kill_switch[v]
      BY <1>1, <1>2, <2>2 DEF AdminTypeOK
    <3>5. (\E i \in DOMAIN done' : LastToggle(v, i)' /\ Op(done[i])'.type = "activate")
           <=> (\E i \in DOMAIN done : LastToggle(v, i) /\ Op(done[i]).type = "activate")
      BY <1>3, <1>9, <3>2, <3>3
    <3> QED BY <3>4, <3>5 DEF TrailInv, SwitchTellsDone
  <2> QED BY <2>1, <2>2
<1>12. EffectsInOrder'
  <2>1. \A i \in DOMAIN done :
           done[i] \notin overlapped /\ n \notin overlapped => done[i] < n
    <3>1. \A i \in DOMAIN done : done[i] # n
      BY <1>1 DEF Happened
    <3>2. \A i \in DOMAIN done : done[i] > n => n \in overlapped
      BY <1>2 DEF TrailInv, RacesAreMarked
    <3> QED BY <1>2, <3>1, <3>2
  <2>2. EffectsInOrder
    BY DEF TrailInv
  <2> QED BY <1>1, <1>2, <1>3, <1>9, <2>1, <2>2 DEF EffectsInOrder
<1> QED BY <1>6, <1>7, <1>8, <1>11, <1>12 DEF TrailInv

\* The row of a request in progress comes after those of all it did not race.
LEMMA RecordStep ==
    ASSUME TrailInv, NEW h \in Handlers, Record(h)
    PROVE  TrailInv'
<1>0. PICK n : n = session[h]
  OBVIOUS
<1>1. PICK first :
         /\ UNCHANGED <<vehicles, kill_switch, remote, requests>>
         /\ UNCHANGED <<done, lost, overlapped>>
         /\ n # NULL /\ n \in Happened
         /\ session' = [session EXCEPT ![h] = NULL]
         /\ admin_actions' = Append(admin_actions, n)
         /\ idempotency_keys' = [idempotency_keys EXCEPT ![requests[n].key] = first]
         /\ answer' = [request |-> requests[n], told |-> first]
         /\ \/ first = n
            \/ first = idempotency_keys[requests[n].key] /\ first # NULL
  <2> DEFINE f == IF idempotency_keys[requests[n].key] = NULL THEN n
                  ELSE idempotency_keys[requests[n].key]
  <2>1. /\ UNCHANGED <<vehicles, kill_switch, remote, requests>>
        /\ UNCHANGED <<done, lost, overlapped>>
        /\ n # NULL /\ n \in Happened
        /\ session' = [session EXCEPT ![h] = NULL]
        /\ admin_actions' = Append(admin_actions, n)
        /\ idempotency_keys' = [idempotency_keys EXCEPT ![requests[n].key] = f]
        /\ answer' = [request |-> requests[n], told |-> f]
    BY <1>0 DEF Record
  <2>2. \/ f = n
        \/ f = idempotency_keys[requests[n].key] /\ f # NULL
    OBVIOUS
  <2> HIDE DEF f
  <2> QED BY <2>1, <2>2
<1>2. /\ AdminTypeOK /\ HandlersDiffer /\ n \in DOMAIN requests
      /\ n \in InProgress /\ n \in Nat
      /\ requests[n] \in AdminRequest
      /\ DOMAIN admin_actions = 1 .. Len(admin_actions) /\ Len(admin_actions) \in Nat
      /\ \A i \in DOMAIN admin_actions :
            admin_actions[i] \in Nat /\ admin_actions[i] \in DOMAIN requests
      /\ DOMAIN requests = 1 .. Len(requests)
  BY <1>0, <1>1, Numbering DEF TrailInv, TrailIsTrue
<1>3. PICK k : /\ k = Len(admin_actions) + 1
               /\ Audited' = Audited \cup {n}
               /\ DOMAIN admin_actions' = DOMAIN admin_actions \cup {k}
               /\ \A i \in DOMAIN admin_actions : admin_actions'[i] = admin_actions[i]
               /\ admin_actions'[k] = n
               /\ admin_actions' \in Seq(1 .. Len(requests))
               /\ k \notin DOMAIN admin_actions
  BY <1>1, <1>2, AppendedRow
<1>4. /\ InProgress' = InProgress \ {n}
      /\ HandlersDiffer'
      /\ session' \in [Handlers -> 1 .. Len(requests) \cup {NULL}]
  BY <1>0, <1>1, <1>2, Ending
<1>5. Happened' = Happened /\ \A m : Op(m)' = Op(m)
  BY <1>1 DEF Happened, Op
<1>6. requests[n].key \in Keys
  BY <1>2 DEF AdminRequest
<1>7. n \notin Audited
  BY <1>2 DEF TrailInv, OpenIsUnrecorded
<1>8. first \in Audited' /\ requests[first].key = requests[n].key
  BY <1>1, <1>3, <1>6 DEF TrailInv, KeysAreBacked
<1>9. first \in 1 .. Len(requests)
  <2>1. Audited \subseteq DOMAIN requests
    BY <1>2, Numbering
  <2> QED BY <1>2, <1>3, <1>8, <2>1
<1>10. AdminTypeOK'
  <2>1. idempotency_keys' \in [Keys -> 1 .. Len(requests) \cup {NULL}]
    BY <1>1, <1>2, <1>9 DEF AdminTypeOK
  <2> QED BY <1>1, <1>2, <1>3, <1>4, <2>1 DEF AdminTypeOK
<1>11. TrailIsTrue'
  <2>1. Audited' \subseteq Happened'
    BY <1>1, <1>3, <1>5 DEF TrailInv, TrailIsTrue
  <2>2. Happened' \subseteq Audited' \cup lost' \cup InProgress'
    BY <1>1, <1>3, <1>4, <1>5 DEF TrailInv, TrailIsTrue
  <2>3. \A i \in DOMAIN admin_actions : admin_actions[i] # n
    BY <1>7 DEF Audited
  <2>4. \A i, j \in DOMAIN admin_actions' :
           admin_actions'[i] = admin_actions'[j] => i = j
    BY <1>3, <2>3 DEF TrailInv, TrailIsTrue
  <2> QED BY <1>10, <2>1, <2>2, <2>4 DEF TrailIsTrue
<1>12. OpenIsUnrecorded'
  BY <1>3, <1>4 DEF TrailInv, OpenIsUnrecorded
<1>13. RemoteIsAsked'
  BY <1>1, <1>4, <1>5 DEF TrailInv, RemoteIsAsked
<1>14. KeysAreBacked'
  <2>1. \A c \in Keys : idempotency_keys'[c] = IF c = requests[n].key THEN first
                                               ELSE idempotency_keys[c]
    BY <1>1, <1>2 DEF AdminTypeOK
  <2> QED BY <1>1, <1>3, <1>8, <2>1 DEF TrailInv, KeysAreBacked
<1>15. AnswerIsBacked'
  BY <1>1, <1>8 DEF AnswerIsBacked
<1>16. RacesAreMarked'
  BY <1>1, <1>4 DEF TrailInv, RacesAreMarked
<1>17. SwitchTellsDone'
  <2>1. \A v : TogglesOf(v)' = TogglesOf(v)
    BY <1>1, <1>5 DEF TogglesOf
  <2>2. \A v, i : LastToggle(v, i)' <=> LastToggle(v, i)
    BY <1>1, <2>1 DEF LastToggle
  <2>3. \A i : Op(done[i])' = Op(done[i])
    BY <1>1 DEF Op
  <2> QED BY <1>1, <2>2, <2>3 DEF TrailInv, SwitchTellsDone
<1>18. EffectsInOrder'
  BY <1>1 DEF TrailInv, EffectsInOrder, Op
<1>19. RowsInOrder'
  <2>1. \A i \in DOMAIN admin_actions :
           admin_actions[i] \notin overlapped /\ n \notin overlapped =>
              admin_actions[i] < n
    <3>1. \A i \in DOMAIN admin_actions : admin_actions[i] # n
      BY <1>7 DEF Audited
    <3>2. \A i \in DOMAIN admin_actions : admin_actions[i] > n => n \in overlapped
      BY <1>2 DEF TrailInv, RacesAreMarked
    <3> QED BY <1>2, <3>1, <3>2
  <2>2. RowsInOrder
    BY DEF TrailInv
  <2> QED BY <1>1, <1>2, <1>3, <2>1, <2>2 DEF RowsInOrder
<1> QED BY <1>4, <1>11, <1>12, <1>13, <1>14, <1>15, <1>16, <1>17, <1>18, <1>19
        DEF TrailInv
-----------------------------------------------------------------------------
(* The results.                                                            *)

\* The empty trail satisfies TrailInv.
LEMMA TrailInit == AdminInit => TrailInv
<1> SUFFICES ASSUME AdminInit PROVE TrailInv
  OBVIOUS
<1>1. /\ Happened = {} /\ Audited = {} /\ InProgress = {}
      /\ DOMAIN done = {} /\ DOMAIN admin_actions = {} /\ DOMAIN requests = {}
  BY DEF AdminInit, Happened, Audited, InProgress
<1>2. AdminTypeOK
  BY DEF AdminInit, AdminTypeOK
<1>3. TrailIsTrue
  BY <1>1, <1>2 DEF TrailIsTrue
<1>4. HandlersDiffer /\ OpenIsUnrecorded /\ RemoteIsAsked /\ KeysAreBacked
      /\ AnswerIsBacked /\ RacesAreMarked
  BY <1>1 DEF AdminInit, HandlersDiffer, OpenIsUnrecorded, RemoteIsAsked,
     KeysAreBacked, AnswerIsBacked, RacesAreMarked
<1>5. SwitchTellsDone
  BY <1>1 DEF AdminInit, SwitchTellsDone
<1>6. EffectsInOrder /\ RowsInOrder
  BY <1>1 DEF EffectsInOrder, RowsInOrder
<1> QED BY <1>3, <1>4, <1>5, <1>6 DEF TrailInv

\* Every step of admin keeps TrailInv: one case per action.
LEMMA TrailStep == TrailInv /\ [AdminNext]_admin_vars => TrailInv'
<1> SUFFICES ASSUME TrailInv, [AdminNext]_admin_vars PROVE TrailInv'
  OBVIOUS
<1>1. ASSUME NEW h \in Handlers, NEW r \in AdminRequest, Begin(h, r) PROVE TrailInv'
  BY <1>1, BeginStep
<1>2. ASSUME NEW r \in AdminRequest, Replay(r) PROVE TrailInv'
  BY <1>2, ReplayStep
<1>3. ASSUME NEW h \in Handlers, Forward(h) \/ Refused(h) \/ Toggle(h) PROVE TrailInv'
  BY <1>3, ForwardStep, RefusedStep, ToggleStep
<1>4. ASSUME NEW n \in remote, Decide(n) \/ Fail(n) PROVE TrailInv'
  BY <1>4, DecideStep, FailStep
<1>5. ASSUME NEW h \in Handlers, Record(h) \/ Interrupt(h) PROVE TrailInv'
  BY <1>5, RecordStep, InterruptStep
<1>6. CASE UNCHANGED admin_vars
  <2>1. /\ UNCHANGED <<vehicles, kill_switch, admin_actions, idempotency_keys,
                       requests, done, overlapped>>
        /\ UNCHANGED <<remote, session, lost, answer>>
    BY <1>6 DEF admin_vars
  <2>2. InProgress' = InProgress /\ HandlersDiffer' /\ AnswerIsBacked'
    BY <2>1 DEF InProgress, TrailInv, HandlersDiffer, AnswerIsBacked, Audited
  <2>3. /\ session' \in [Handlers -> 1 .. Len(requests) \cup {NULL}]
        /\ remote' \cup lost' \subseteq 1 .. Len(requests)
        /\ Happened \subseteq Audited \cup lost' \cup InProgress'
    BY <2>1, <2>2 DEF TrailInv, TrailIsTrue, AdminTypeOK
  <2>4. \A n \in remote' : /\ Op(n).type \in Decisions
                           /\ n \notin Happened
                           /\ n \in InProgress' \cup lost'
    BY <2>1, <2>2 DEF TrailInv, RemoteIsAsked
  <2> QED BY <2>1, <2>2, <2>3, <2>4, QuietStep
<1> QED BY <1>1, <1>2, <1>3, <1>4, <1>5, <1>6 DEF AdminNext

\* TrailInv holds in every reachable state.
LEMMA TrailInvariance == AdminSpec => []TrailInv
BY TrailInit, TrailStep, PTL DEF AdminSpec

\* The audit trail records what happened, no more and, but for interrupted
\* handlers, no less, and nothing twice (admin/service.py:18-24).
THEOREM AuditIsTrue == AdminSpec => []TrailIsTrue
<1>1. TrailInv => TrailIsTrue
  BY DEF TrailInv
<1> QED BY <1>1, TrailInvariance, PTL

\* Whoever is told that an operation succeeded, at first hand or by a replay,
\* can rely on it (shared/idempotency.py:122).
THEOREM AnswersAreTrue == AdminSpec => []AnsweredIsDone
<1>1. TrailInv => AnsweredIsDone
  <2> SUFFICES ASSUME TrailInv, answer # NULL, KeyIsHonest(answer.request)
               PROVE  \E n \in Happened \cap Audited : Op(n) = answer.request.op
    BY DEF AnsweredIsDone
  <2>1. /\ answer.told \in Audited
        /\ requests[answer.told].key = answer.request.key
    BY DEF TrailInv, AnswerIsBacked
  <2>2. answer.told \in Happened /\ answer.told \in DOMAIN requests
    BY <2>1, Numbering DEF TrailInv, TrailIsTrue
  <2>3. Op(answer.told) = answer.request.op
    BY <2>1, <2>2 DEF KeyIsHonest, Op
  <2> QED BY <2>1, <2>2, <2>3
<1> QED BY <1>1, TrailInvariance, PTL

\* The last row about the switch of a vehicle says how it stands in Redis,
\* unless a toggle was interrupted or raced (kill_switch.py:12-21).
THEOREM TrailShowsSwitch == AdminSpec => []TrailTellsSwitch
<1>1. TrailInv => TrailTellsSwitch
  <2> SUFFICES ASSUME TrailInv, NEW v \in Vehicles,
                      TogglesOf(v) \cap (lost \cup InProgress \cup overlapped) = {}
               PROVE  LET rows == {i \in DOMAIN admin_actions :
                                      admin_actions[i] \in TogglesOf(v)}
                      IN  kill_switch[v] <=>
                            \E i \in rows : /\ \A j \in rows : j <= i
                                            /\ Op(admin_actions[i]).type = "activate"
    BY DEF TrailTellsSwitch
  <2> DEFINE rows == {i \in DOMAIN admin_actions : admin_actions[i] \in TogglesOf(v)}
             LastRow(i) == i \in rows /\ \A j \in rows : j <= i
  <2>1. /\ DOMAIN done = 1 .. Len(done) /\ Len(done) \in Nat
        /\ DOMAIN admin_actions = 1 .. Len(admin_actions) /\ Len(admin_actions) \in Nat
        /\ \A i \in DOMAIN done : done[i] \in Nat
        /\ \A i \in DOMAIN admin_actions : admin_actions[i] \in Nat
    BY Numbering DEF TrailInv, TrailIsTrue
  <2>2. \A n \in TogglesOf(v) : n \in Happened <=> n \in Audited
    BY DEF TrailInv, TrailIsTrue
  <2>3. \A n \in TogglesOf(v) : n \notin overlapped /\ Op(n).type \in Toggles
    BY DEF TogglesOf
  <2>4. \A i, j \in DOMAIN done :
           done[i] \in TogglesOf(v) /\ done[j] \in TogglesOf(v) /\ i < j =>
              done[i] < done[j]
    BY <2>3 DEF TrailInv, EffectsInOrder
  <2>5. \A i, j \in DOMAIN admin_actions :
           admin_actions[i] \in TogglesOf(v) /\ admin_actions[j] \in TogglesOf(v)
           /\ i < j => admin_actions[i] < admin_actions[j]
    BY <2>3 DEF TrailInv, RowsInOrder
  <2>6. ASSUME NEW i \in DOMAIN done, LastToggle(v, i)
        PROVE  \E j \in DOMAIN admin_actions :
                  LastRow(j) /\ admin_actions[j] = done[i]
    <3>1. done[i] \in TogglesOf(v) /\ done[i] \in Audited
      BY <2>2, <2>6 DEF LastToggle, Happened
    <3>2. PICK j \in DOMAIN admin_actions : admin_actions[j] = done[i]
      BY <3>1 DEF Audited
    <3>3. ASSUME NEW l \in rows PROVE l <= j
      <4>1. PICK k \in DOMAIN done : done[k] = admin_actions[l]
        BY <2>2, <3>3 DEF Happened, Audited
      <4>2. k <= i
        BY <2>6, <3>3, <4>1 DEF LastToggle
      <4>3. admin_actions[l] <= admin_actions[j]
        BY <2>1, <2>4, <3>1, <3>2, <3>3, <4>1, <4>2
      <4> QED BY <2>1, <2>5, <3>1, <3>2, <3>3, <4>3
    <3> QED BY <3>1, <3>2, <3>3
  <2>7. ASSUME NEW j \in DOMAIN admin_actions, LastRow(j)
        PROVE  \E i \in DOMAIN done : LastToggle(v, i) /\ done[i] = admin_actions[j]
    <3>1. admin_actions[j] \in TogglesOf(v) /\ admin_actions[j] \in Happened
      BY <2>2, <2>7 DEF Audited
    <3>2. PICK i \in DOMAIN done : done[i] = admin_actions[j]
      BY <3>1 DEF Happened
    <3>3. ASSUME NEW k \in DOMAIN done, done[k] \in TogglesOf(v) PROVE k <= i
      <4>1. PICK l \in DOMAIN admin_actions : admin_actions[l] = done[k]
        BY <2>2, <3>3 DEF Happened, Audited
      <4>2. l <= j
        BY <2>7, <3>3, <4>1
      <4>3. done[k] <= done[i]
        BY <2>1, <2>5, <3>1, <3>2, <3>3, <4>1, <4>2
      <4> QED BY <2>1, <2>4, <3>1, <3>2, <3>3, <4>3
    <3> QED BY <3>1, <3>2, <3>3 DEF LastToggle
  <2>8. kill_switch[v] <=> \E i \in DOMAIN done : /\ LastToggle(v, i)
                                                  /\ Op(done[i]).type = "activate"
    BY DEF TrailInv, SwitchTellsDone
  <2>9. (\E i \in DOMAIN done : LastToggle(v, i) /\ Op(done[i]).type = "activate")
        <=> \E j \in DOMAIN admin_actions :
               LastRow(j) /\ Op(admin_actions[j]).type = "activate"
    <3> HIDE DEF LastRow
    <3>1. ASSUME NEW i \in DOMAIN done, LastToggle(v, i), Op(done[i]).type = "activate"
          PROVE  \E j \in DOMAIN admin_actions :
                    LastRow(j) /\ Op(admin_actions[j]).type = "activate"
      BY <2>6, <3>1
    <3>2. ASSUME NEW j \in DOMAIN admin_actions, LastRow(j),
                 Op(admin_actions[j]).type = "activate"
          PROVE  \E i \in DOMAIN done : LastToggle(v, i) /\ Op(done[i]).type = "activate"
      BY <2>7, <3>2
    <3> QED BY <3>1, <3>2
  <2> QED BY <2>8, <2>9
<1> QED BY <1>1, TrailInvariance, PTL
=================================================================================
