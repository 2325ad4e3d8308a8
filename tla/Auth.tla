--------------------------------- MODULE Auth ---------------------------------
(***************************************************************************)
(* Registration in the auth service (src/services/auth), behind the        *)
(* idempotency guard.  It is the only operation of the service that writes *)
(* anything: login, refresh and me read the users and sign tokens.         *)
(*                                                                         *)
(* A registration is one transaction in four steps: the lookup of the key, *)
(* the look for the e-mail, the insert of the user, and the insert of the  *)
(* key with the commit.  Clients are not logged in yet, so all of them     *)
(* share one space of idempotency keys.                                    *)
(***************************************************************************)
EXTENDS Guard

CONSTANTS
    Emails,
    Passwords    \* a password; name and role of the body would add nothing

VARIABLES
    users,             \* the table; the id is the number of the row
    answers,           \* history: answers to registrations
    purged             \* history: keys that have been purged

vars == <<users, idempotency_keys, session, answers, purged>>

Body == [email : Emails, password : Passwords]
Request == [key : Keys, body : Body]

\* A row of idempotency_keys.
KeyRow == [request_hash : Body, response : Nat]

ASSUME AuthConstants == NULL \notin KeyRow

\* A row of users; "by" is history.
User == [id : Nat, email : Emails, password : Passwords, by : Request]

\* "told" is the id of the account, or NULL for "email already registered";
\* "saw", history, the accounts there were when the request began.
Answer(r, saw, told) == [request |-> r, saw |-> saw, told |-> told]
-----------------------------------------------------------------------------
(* The guard.                                                              *)

\* Mutant: the hash leaves out the body.
AnyRequest(row, r) == TRUE

SameRequest(row, r) == row.request_hash = r.body

\* A key stored for another body is a 409 about the key, which changes
\* nothing.
Lookup(h, r) ==
    LET row == idempotency_keys[r.key]
    IN  /\ session[h] = NULL
        /\ \/ /\ row = NULL
              /\ session' = [session EXCEPT ![h] =
                    [request |-> r, stage |-> "begun", saw |-> users]]
              /\ UNCHANGED answers
           \/ /\ row # NULL
              /\ SameRequest(row, r)
              /\ answers' = answers \cup {Answer(r, users, row.response)}
              /\ UNCHANGED session
        /\ UNCHANGED <<users, idempotency_keys, purged>>
-----------------------------------------------------------------------------
(* register_user.                                                          *)

Registered(email) == \E u \in users : u.email = email

EmailOf(h) == session[h].request.body.email

\* EmailAlreadyRegisteredError: rollback and 409.
Refuse(h) ==
    /\ session' = [session EXCEPT ![h] = NULL]
    /\ answers' = answers \cup
          {Answer(session[h].request, session[h].saw, NULL)}
    /\ UNCHANGED <<users, idempotency_keys, purged>>

Proceed(h, stage) ==
    /\ session' = [session EXCEPT ![h].stage = stage]
    /\ UNCHANGED <<users, idempotency_keys, answers, purged>>

get_by_email(h) ==
    /\ session[h] # NULL
    /\ session[h].stage = "begun"
    /\ IF Registered(EmailOf(h)) THEN Refuse(h) ELSE Proceed(h, "free")

\* Another transaction has inserted the e-mail and not ended yet.
Inserting(email, h) ==
    \E o \in Handlers \ {h} : /\ session[o] # NULL
                              /\ session[o].stage = "inserted"
                              /\ EmailOf(o) = email

\* Mutant: the e-mail column is not unique.
CreateAnyway(h) ==
    /\ session[h] # NULL
    /\ session[h].stage = "free"
    /\ Proceed(h, "inserted")

\* The unique e-mail: the insert waits for a concurrent one to end, and is
\* refused if that one committed.
create(h) ==
    /\ session[h] # NULL
    /\ session[h].stage = "free"
    /\ ~ Inserting(EmailOf(h), h)
    /\ IF Registered(EmailOf(h)) THEN Refuse(h) ELSE Proceed(h, "inserted")
-----------------------------------------------------------------------------
(* The end of the transaction.                                             *)

NewUser(h) ==
    LET r == session[h].request
    IN  [id |-> Cardinality(users) + 1, email |-> r.body.email,
         password |-> r.body.password, by |-> r]

\* Mutant: the key is stored after the commit, if the process gets there.
StoreAfterCommit(h) ==
    /\ session[h] # NULL
    /\ session[h].stage = "inserted"
    /\ LET r == session[h].request
       IN  /\ users' = users \cup {NewUser(h)}
           /\ \/ idempotency_keys' = [idempotency_keys EXCEPT ![r.key] =
                    [request_hash |-> r.body, response |-> NewUser(h).id]]
              \/ UNCHANGED idempotency_keys
    /\ session' = [session EXCEPT ![h] = NULL]
    /\ UNCHANGED <<answers, purged>>

\* guard.store and the answer.  When the key was stored meanwhile for
\* another body, the request is a 409 and leaves nothing (Abandon); for the
\* same body this is never reached, since the e-mail is taken then.
store(h) ==
    /\ session[h] # NULL
    /\ session[h].stage = "inserted"
    /\ LET r == session[h].request
           row == idempotency_keys[r.key]
       IN  /\ row = NULL
           /\ users' = users \cup {NewUser(h)}
           /\ idempotency_keys' = [idempotency_keys EXCEPT ![r.key] =
                 [request_hash |-> r.body, response |-> NewUser(h).id]]
           /\ answers' = answers \cup
                 {Answer(r, session[h].saw, NewUser(h).id)}
    /\ session' = [session EXCEPT ![h] = NULL]
    /\ UNCHANGED purged

\* The transaction ends without a commit: a conflict on the key, or a crash.
Abandon(h) ==
    /\ session[h] # NULL
    /\ session' = [session EXCEPT ![h] = NULL]
    /\ UNCHANGED <<users, idempotency_keys, answers, purged>>

\* run_idempotency_cleanup_loop forgets an old key.
Purge(k) ==
    /\ idempotency_keys[k] # NULL
    /\ idempotency_keys' = [idempotency_keys EXCEPT ![k] = NULL]
    /\ purged' = purged \cup {k}
    /\ UNCHANGED <<users, session, answers>>
-----------------------------------------------------------------------------
Init ==
    /\ users = {} /\ answers = {} /\ purged = {}
    /\ idempotency_keys = [k \in Keys |-> NULL]
    /\ session = [h \in Handlers |-> NULL]

Next ==
    \/ \E h \in Handlers, r \in Request : Lookup(h, r)
    \/ \E h \in Handlers : get_by_email(h) \/ create(h) \/ store(h) \/ Abandon(h)
    \/ \E k \in Keys : Purge(k)

Spec == Init /\ [][Next]_vars
-----------------------------------------------------------------------------
(* Properties.                                                             *)

Ids == 1 .. Cardinality(users)

Transaction == [request : Request, stage : {"begun", "free", "inserted"},
                saw : SUBSET users]

\* Tables and transactions keep their shape, and a stored response names a
\* user that exists: user and key commit together (idempotency.py:48-81).
AuthTypeOK ==
    /\ users \subseteq User /\ {u.id : u \in users} = Ids
    /\ idempotency_keys \in
          [Keys -> [request_hash : Body, response : Ids] \cup {NULL}]
    /\ session \in [Handlers -> Transaction \cup {NULL}]

\* However registrations of one e-mail overlap, one of them makes the
\* account (service.py:18-26: look first, then insert).
OneAccountPerEmail ==
    /\ AuthTypeOK
    /\ \A u, w \in users : u.email = w.email => u = w

\* authenticate_user.
authenticate(email, password) ==
    \E u \in users : u.email = email /\ u.password = password

\* Whoever is told that its registration succeeded can log in with the
\* password it chose, also when the answer is a replay and although
\* strangers share its space of keys (auth/app.py:32).
RegisteredCanLogIn ==
    \A a \in answers : a.told # NULL =>
        /\ authenticate(a.request.body.email, a.request.body.password)
        /\ \E u \in users : u.id = a.told /\ u.email = a.request.body.email

\* "email already registered" is true and about somebody else: there is an
\* account, and not just a registration in progress that may yet fail; and it
\* was not made by the very request that is now repeated, unless the key was
\* purged.  (A client that repeats its registration too early, while the first
\* is in progress, can be told so about its own.)
RefusedIsTaken ==
    \A a \in answers : a.told = NULL =>
        /\ Registered(a.request.body.email)
        /\ a.request.key \notin purged => ~ \E u \in a.saw : u.by = a.request
===============================================================================
