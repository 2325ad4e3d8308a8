--------------------------- MODULE NotificationProofs ---------------------------
(***************************************************************************)
(* Proofs about Notification and with it the consumer loop and inbox that  *)
(* three services share: for any number of replicas, events, restarts and  *)
(* rebalances, it implements Delivery.                                     *)
(*                                                                         *)
(* Neither the offset nor the assignment of the partition keeps two        *)
(* members off one record.  The argument is about the inbox alone: at most *)
(* one open transaction has claimed an event, and what lies before the     *)
(* offset, or before the record of any member, is in the inbox.            *)
(***************************************************************************)
EXTENDS Notification, TLAPS

Claimed(m) == work[m] # NULL /\ work[m].stage = "claimed"

\* Everything before the committed offset is handled.
OffsetIsBacked == \A j \in 1..offset : topic[j] \in inbox

\* A member only ever works on a record whose predecessors are handled.
InTurn ==
    \A m \in Members : work[m] # NULL =>
        \A j \in 1..(work[m].at - 1) : topic[j] \in inbox

\* Where a transaction is tells whether its event is in the inbox, and who
\* has been notified.
StageIsTrue ==
    \A m \in Members : work[m] # NULL =>
        /\ work[m].stage = "claimed" => Event(m) \notin inbox
        /\ work[m].stage \in {"passed", "committed"} => Event(m) \in inbox
        /\ work[m].stage = "taken" => work[m].told = {}
        /\ work[m].told # {} => "renter" \in work[m].told

\* The row of the inbox is locked by one transaction.
ClaimIsAlone ==
    \A m, o \in Members :
        Claimed(m) /\ Claimed(o) /\ Event(m) = Event(o) => m = o

Counted ==
    /\ sent \in [Events \X Parties \X Channels -> Nat]
    /\ cut \in [Events -> Nat]

\* An open transaction has logged what it logged.
ToldWasSent ==
    \A m \in Members, n \in Events \X Parties \X Channels :
        Claimed(m) /\ n[1] = Event(m) /\ n[2] \in work[m].told
            /\ n[1] \in Notifiable /\ OptedIn(n) => sent[n] >= 1

HandledWasSent ==
    \A n \in Events \X Parties \X Channels :
        n[1] \in inbox \cap Notifiable /\ OptedIn(n) => sent[n] >= 1

SentIsWanted ==
    \A n \in Events \X Parties \X Channels :
        sent[n] > 0 => n[1] \in Notifiable /\ OptedIn(n)

\* One line may be there beyond those of the transactions that were cut off:
\* that of the transaction that committed, or of the one that is open.
HasLine(n) ==
    \/ n[1] \in inbox
    \/ \E m \in Members : Claimed(m) /\ Event(m) = n[1] /\ n[2] \in work[m].told

SentIsAccounted ==
    \A n \in Events \X Parties \X Channels :
        /\ sent[n] <= 1 + cut[n[1]]
        /\ ~ HasLine(n) => sent[n] <= cut[n[1]]

IInv == /\ NotificationTypeOK
        /\ OffsetIsBacked
        /\ InTurn
        /\ StageIsTrue
        /\ ClaimIsAlone
        /\ Counted
        /\ ToldWasSent
        /\ HandledWasSent
        /\ SentIsWanted
        /\ SentIsAccounted
-----------------------------------------------------------------------------
(* What the invariant says of the record a member works on.                *)

\* The types and ranges the steps below read off the invariant.
LEMMA Facts ==
    ASSUME IInv
    PROVE  /\ topic \in Seq(Events) /\ Len(topic) \in Nat
           /\ DOMAIN topic = 1..Len(topic)
           /\ offset \in 0..Len(topic)
           /\ \A m \in Members : work[m] # NULL =>
                 /\ work[m] \in WorkItem
                 /\ work[m].at \in 1..Len(topic)
                 /\ Event(m) \in Events
BY DEF IInv, NotificationTypeOK, Event

\* Records lose their members, the topic grows, the offset moves on: a step
\* that opens nothing, claims nothing and notifies nobody.  A transaction
\* that is lost with a claim is counted as cut off.
LEMMA KeepStep ==
    ASSUME IInv, NotificationTypeOK',
           UNCHANGED <<inbox, sent>>,
           \A j \in 1..Len(topic) : topic'[j] = topic[j],
           \A j \in 1..offset' : topic'[j] \in inbox,
           cut' \in [Events -> Nat],
           \A e \in Events : cut'[e] >= cut[e],
           \A o \in Members :
              \/ /\ work'[o] = NULL
                 /\ Claimed(o) => cut'[Event(o)] >= 1 + cut[Event(o)]
              \/ /\ work[o] # NULL /\ work'[o] # NULL
                 /\ work'[o].at = work[o].at
                 /\ work'[o].stage = work[o].stage
                 /\ work'[o].told = work[o].told
    PROVE  IInv'
<1> USE Facts
<1> DEFINE Kept(o) == /\ work[o] # NULL
                      /\ work'[o].at = work[o].at
                      /\ work'[o].stage = work[o].stage
                      /\ work'[o].told = work[o].told
                      /\ Event(o)' = Event(o)
<1>1. \A o \in Members : work'[o] # NULL => Kept(o)
  BY DEF Event
<1> HIDE DEF Kept
<1>2. OffsetIsBacked'
  BY DEF OffsetIsBacked
<1>3. InTurn'
  <2> SUFFICES ASSUME NEW m \in Members, work'[m] # NULL,
                      NEW j \in 1..(work'[m].at - 1)
               PROVE  topic'[j] \in inbox
    BY DEF InTurn
  <2>1. work[m] # NULL /\ work'[m].at = work[m].at
    BY <1>1 DEF Kept
  <2>2. j \in 1..Len(topic) /\ j \in 1..(work[m].at - 1)
    BY <2>1
  <2> QED BY <2>1, <2>2 DEF IInv, InTurn
<1>4. StageIsTrue'
  BY <1>1 DEF IInv, StageIsTrue, Kept
<1>5. ClaimIsAlone'
  BY <1>1 DEF IInv, ClaimIsAlone, Claimed, Kept
<1>6. Counted'
  BY DEF IInv, Counted
<1>7. ToldWasSent'
  <2> SUFFICES ASSUME NEW m \in Members, Claimed(m)',
                      NEW n \in Events \X Parties \X Channels,
                      n[1] = Event(m)', n[2] \in work'[m].told,
                      n[1] \in Notifiable, OptedIn(n)
               PROVE  sent[n] >= 1
    BY DEF ToldWasSent, OptedIn
  <2>1. Claimed(m) /\ n[1] = Event(m) /\ n[2] \in work[m].told
    BY <1>1 DEF Claimed, Kept
  <2> QED BY <2>1 DEF IInv, ToldWasSent
<1>8. HandledWasSent' /\ SentIsWanted'
  BY DEF IInv, HandledWasSent, SentIsWanted, OptedIn
<1>9. SentIsAccounted'
  <2> SUFFICES ASSUME NEW n \in Events \X Parties \X Channels
               PROVE  /\ sent[n] <= 1 + cut'[n[1]]
                      /\ ~ HasLine(n)' => sent[n] <= cut'[n[1]]
    BY DEF SentIsAccounted
  <2>1. /\ n[1] \in Events /\ sent[n] \in Nat /\ cut[n[1]] \in Nat
        /\ cut'[n[1]] \in Nat
    BY DEF IInv, Counted
  <2>2. /\ sent[n] <= 1 + cut[n[1]]
        /\ ~ HasLine(n) => sent[n] <= cut[n[1]]
    BY DEF IInv, SentIsAccounted
  <2>3. cut'[n[1]] >= cut[n[1]]
    BY <2>1
  <2>4. ASSUME ~ HasLine(n)', HasLine(n)
        PROVE  cut'[n[1]] >= 1 + cut[n[1]]
    <3>1. n[1] \notin inbox
      BY <2>4 DEF HasLine
    <3>2. PICK m \in Members : Claimed(m) /\ Event(m) = n[1]
                               /\ n[2] \in work[m].told
      BY <2>4, <3>1 DEF HasLine
    <3>3. work'[m] = NULL
      BY <1>1, <2>4, <3>2 DEF HasLine, Claimed, Kept
    <3>4. Claimed(m) => cut'[Event(m)] >= 1 + cut[Event(m)]
      BY <3>3
    <3> QED BY <3>2, <3>4
  <2> QED BY <2>1, <2>2, <2>3, <2>4
<1> QED BY <1>2, <1>3, <1>4, <1>5, <1>6, <1>7, <1>8, <1>9 DEF IInv
-----------------------------------------------------------------------------
(* The loop.                                                               *)

\* A member takes a record, or its insert into the inbox returns: nothing is
\* notified or committed yet.
LEMMA OpenStep ==
    ASSUME IInv, NEW m \in Members, NEW w \in WorkItem,
           work' = [work EXCEPT ![m] = w],
           UNCHANGED <<topic, published, offset, owner, alive, inbox, sent, cut>>,
           work[m] # NULL => work[m].stage = "taken",
           w.at \in 1..Len(topic),
           \A j \in 1..(w.at - 1) : topic[j] \in inbox,
           w.told = {},
           w.stage = "claimed" =>
              /\ topic[w.at] \notin inbox
              /\ \A o \in Members \ {m} : Claimed(o) => Event(o) # topic[w.at],
           w.stage \in {"passed", "committed"} => topic[w.at] \in inbox
    PROVE  IInv'
<1> USE Facts
<1>1. /\ work'[m] = w
      /\ \A o \in Members \ {m} : work'[o] = work[o]
  BY DEF IInv, NotificationTypeOK
<1>2. w # NULL
  BY NullAssumption
<1>3. Event(m)' = topic[w.at] /\ \A o \in Members \ {m} : Event(o)' = Event(o)
  BY <1>1 DEF Event
<1>4. NotificationTypeOK'
  BY <1>1 DEF IInv, NotificationTypeOK
<1>5. OffsetIsBacked' /\ HandledWasSent' /\ SentIsWanted' /\ Counted'
  BY DEF IInv, OffsetIsBacked, HandledWasSent, SentIsWanted, Counted, OptedIn
<1>6. InTurn'
  BY <1>1 DEF IInv, InTurn
<1>7. StageIsTrue'
  BY <1>1, <1>3 DEF IInv, StageIsTrue
<1>8. ClaimIsAlone'
  BY <1>1, <1>3 DEF IInv, ClaimIsAlone, Claimed
<1>9. ToldWasSent'
  BY <1>1, <1>3 DEF IInv, ToldWasSent, Claimed, OptedIn
<1>10. SentIsAccounted'
  <2>1. \A n : HasLine(n) => HasLine(n)'
    BY <1>1, <1>3 DEF HasLine, Claimed
  <2> QED BY <2>1 DEF IInv, SentIsAccounted
<1> QED
  BY <1>4, <1>5, <1>6, <1>7, <1>8, <1>9, <1>10 DEF IInv

\* A member that fetches its next event keeps the invariant.
LEMMA TakeStep ==
    ASSUME IInv, NEW m \in Members, Take(m)
    PROVE  IInv'
<1> USE Facts
<1> DEFINE w == [at |-> offset + 1, stage |-> "taken", told |-> {},
                 fenced |-> FALSE]
<1>1. /\ work[m] = NULL /\ offset < Len(topic)
      /\ work' = [work EXCEPT ![m] = w]
      /\ UNCHANGED <<topic, published, offset, owner, alive, inbox, sent, cut>>
  BY DEF Take
<1>2. w \in WorkItem /\ w.at \in 1..Len(topic)
  BY <1>1 DEF WorkItem
<1>3. w.at = offset + 1 /\ w.told = {} /\ w.stage = "taken"
  OBVIOUS
<1> HIDE DEF w
<1>4. \A j \in 1..(w.at - 1) : topic[j] \in inbox
  BY <1>3 DEF IInv, OffsetIsBacked
<1> QED BY <1>1, <1>2, <1>3, <1>4, OpenStep

\* The insert returns: it waits for a transaction that holds the row, so the
\* claim is the only one (inbox.py:25-40).
LEMMA ClaimStep ==
    ASSUME IInv, NEW m \in Members, Claim(m)
    PROVE  IInv'
<1> USE Facts
<1> DEFINE w == [work[m] EXCEPT !.stage =
                    IF claim_event(m) THEN "claimed" ELSE "passed"]
<1>1. /\ work[m] # NULL /\ work[m].stage = "taken" /\ ~ Locked(m)
      /\ work' = [work EXCEPT ![m] = w]
      /\ UNCHANGED <<topic, published, offset, owner, alive, inbox, sent, cut>>
  BY DEF Claim
<1>2. /\ w \in WorkItem /\ w.at = work[m].at /\ w.told = work[m].told
      /\ w.stage = IF claim_event(m) THEN "claimed" ELSE "passed"
  BY <1>1 DEF WorkItem
<1> HIDE DEF w
<1>3. w.at \in 1..Len(topic) /\ w.told = {}
  BY <1>1, <1>2 DEF IInv, StageIsTrue
<1>4. \A j \in 1..(w.at - 1) : topic[j] \in inbox
  BY <1>1, <1>2 DEF IInv, InTurn
<1>5. w.stage = "claimed" =>
         /\ topic[w.at] \notin inbox
         /\ \A o \in Members \ {m} : Claimed(o) => Event(o) # topic[w.at]
  BY <1>1, <1>2 DEF claim_event, Event, Locked, Claimed
<1>6. w.stage \in {"passed", "committed"} => topic[w.at] \in inbox
  BY <1>2 DEF claim_event, Event
<1> QED BY <1>1, <1>2, <1>3, <1>4, <1>5, <1>6, OpenStep

\* A line is logged for one party of a claimed event: the first since the
\* claim, and nobody else has claimed the event (handlers.py, service.py).
LEMMA NotifyStep ==
    ASSUME IInv, NEW m \in Members, NEW u \in Parties, notify_user(m, u)
    PROVE  IInv'
<1> USE Facts
<1> DEFINE e == Event(m)
           w == [work[m] EXCEPT !.told = @ \cup {u}]
<1>1. /\ Claimed(m) /\ u \in ToTell(m)
      /\ work' = [work EXCEPT ![m] = w]
      /\ UNCHANGED <<topic, published, offset, owner, alive, inbox, cut>>
  BY DEF notify_user, Claimed
<1>2. /\ w \in WorkItem /\ w.at = work[m].at /\ w.stage = "claimed"
      /\ w.told = work[m].told \cup {u}
  BY <1>1 DEF WorkItem, Claimed
<1> HIDE DEF w
<1>3. /\ work'[m] = w /\ w # NULL
      /\ \A o \in Members \ {m} : work'[o] = work[o]
  BY <1>1, <1>2, NullAssumption DEF IInv, NotificationTypeOK
<1>4. \A o \in Members : Event(o)' = Event(o)
  BY <1>1, <1>2, <1>3 DEF Event
<1>5. \A o \in Members : Claimed(o)' <=> Claimed(o)
  BY <1>1, <1>2, <1>3 DEF Claimed
<1>6. /\ e \in Notifiable /\ e \in Events /\ e \notin inbox
      /\ u \notin work[m].told
      /\ "renter" \in w.told
  <2>1. "renter" \in work[m].told \/ work[m].told = {}
    BY <1>1 DEF Claimed, IInv, StageIsTrue
  <2>2. e \notin inbox /\ e \in Events
    BY <1>1 DEF Claimed, IInv, StageIsTrue
  <2>3. e \in Notifiable /\ u \notin work[m].told
        /\ (work[m].told = {} => u = "renter")
    BY <1>1 DEF ToTell
  <2> QED BY <1>2, <2>1, <2>2, <2>3
<1>7. \A n \in Events \X Parties \X Channels :
         /\ sent[n] \in Nat
         /\ sent'[n] = IF n[1] = e /\ n[2] = u /\ OptedIn(n)
                       THEN sent[n] + 1 ELSE sent[n]
  <2>1. \A n \in Events \X Parties \X Channels :
           n[2] = u => (n[3] \in resolve_preference(u) <=> OptedIn(n))
    BY DEF resolve_preference, OptedIn
  <2> QED BY <2>1 DEF notify_user, IInv, Counted
<1> HIDE DEF e
<1>8. NotificationTypeOK'
  BY <1>1, <1>2, <1>3 DEF IInv, NotificationTypeOK, Claimed
<1>9. OffsetIsBacked' /\ InTurn'
  BY <1>1, <1>2, <1>3 DEF IInv, OffsetIsBacked, InTurn, Claimed
<1>10. StageIsTrue'
  BY <1>1, <1>2, <1>3, <1>4, <1>6 DEF IInv, StageIsTrue, e
<1>11. ClaimIsAlone'
  BY <1>4, <1>5 DEF IInv, ClaimIsAlone
<1>12. Counted'
  <2>1. sent' \in [Events \X Parties \X Channels -> Nat]
    BY DEF notify_user, IInv, Counted
  <2> QED BY <1>1, <2>1 DEF IInv, Counted
<1>13. ToldWasSent'
  <2> SUFFICES ASSUME NEW o \in Members, Claimed(o),
                      NEW n \in Events \X Parties \X Channels,
                      n[1] = Event(o), n[2] \in work'[o].told,
                      n[1] \in Notifiable, OptedIn(n)
               PROVE  sent'[n] >= 1
    BY <1>4, <1>5 DEF ToldWasSent, OptedIn
  <2>1. CASE n[2] \in work[o].told
    <3>1. sent[n] >= 1
      BY <2>1 DEF IInv, ToldWasSent
    <3> QED BY <1>7, <3>1
  <2>2. CASE n[2] \notin work[o].told
    <3>1. o = m /\ n[2] = u
      BY <1>2, <1>3, <2>2
    <3> QED BY <1>7, <3>1 DEF e
  <2> QED BY <2>1, <2>2
<1>14. HandledWasSent' /\ SentIsWanted'
  <2>1. HandledWasSent'
    <3> SUFFICES ASSUME NEW n \in Events \X Parties \X Channels,
                        n[1] \in inbox \cap Notifiable, OptedIn(n)
                 PROVE  sent'[n] >= 1
      BY <1>1 DEF HandledWasSent, OptedIn
    <3>1. sent[n] >= 1
      BY DEF IInv, HandledWasSent
    <3> QED BY <1>7, <3>1
  <2>2. SentIsWanted'
    <3> SUFFICES ASSUME NEW n \in Events \X Parties \X Channels, sent'[n] > 0
                 PROVE  n[1] \in Notifiable /\ OptedIn(n)
      BY DEF SentIsWanted, OptedIn
    <3>1. CASE sent[n] > 0
      BY <3>1 DEF IInv, SentIsWanted
    <3>2. CASE ~ (sent[n] > 0)
      BY <1>6, <1>7, <3>2
    <3> QED BY <3>1, <3>2
  <2> QED BY <2>1, <2>2
<1>15. SentIsAccounted'
  <2> SUFFICES ASSUME NEW n \in Events \X Parties \X Channels
               PROVE  /\ sent'[n] <= 1 + cut[n[1]]
                      /\ ~ HasLine(n)' => sent'[n] <= cut[n[1]]
    BY <1>1 DEF SentIsAccounted
  <2>1. cut[n[1]] \in Nat
    BY DEF IInv, Counted
  <2>2. /\ sent[n] <= 1 + cut[n[1]]
        /\ ~ HasLine(n) => sent[n] <= cut[n[1]]
    BY DEF IInv, SentIsAccounted
  <2>3. HasLine(n) => HasLine(n)'
    <3>1. \A o \in Members : work[o] # NULL => work[o].told \subseteq work'[o].told
      BY <1>2, <1>3
    <3> QED BY <1>1, <1>4, <1>5, <3>1 DEF HasLine, Claimed
  <2>4. CASE n[1] = e /\ n[2] = u
    <3>1. ~ HasLine(n)
      <4>1. \A o \in Members : Claimed(o) /\ Event(o) = n[1] => o = m
        BY <1>1, <2>4 DEF IInv, ClaimIsAlone, e
      <4> QED BY <1>6, <2>4, <4>1 DEF HasLine
    <3>2. HasLine(n)'
      BY <1>1, <1>2, <1>3, <1>4, <1>5, <2>4 DEF HasLine, e
    <3> QED BY <1>7, <2>1, <2>2, <3>1, <3>2
  <2>5. CASE ~ (n[1] = e /\ n[2] = u)
    BY <1>7, <2>2, <2>3, <2>5
  <2> QED BY <2>4, <2>5
<1> QED
  BY <1>8, <1>9, <1>10, <1>11, <1>12, <1>13, <1>14, <1>15 DEF IInv

\* The transaction commits: everybody has been told who is to be told, or
\* the event was in the inbox before (kafka_consumer.py:97-106).
LEMMA CommitStep ==
    ASSUME IInv, NEW m \in Members, Commit(m)
    PROVE  IInv'
<1> USE Facts
<1> DEFINE e == Event(m)
           w == [work[m] EXCEPT !.stage = "committed"]
<1>1. /\ work[m] # NULL
      /\ (work[m].stage = "claimed" /\ ToTell(m) = {}) \/ work[m].stage = "passed"
      /\ inbox' = inbox \cup {e}
      /\ work' = [work EXCEPT ![m] = w]
      /\ UNCHANGED <<topic, published, offset, owner, alive, sent, cut>>
  BY DEF Commit
<1>2. /\ w \in WorkItem /\ w.at = work[m].at /\ w.stage = "committed"
      /\ w.told = work[m].told
  BY <1>1 DEF WorkItem
<1> HIDE DEF w
<1>3. /\ work'[m] = w /\ w # NULL
      /\ \A o \in Members \ {m} : work'[o] = work[o]
  BY <1>1, <1>2, NullAssumption DEF IInv, NotificationTypeOK
<1>4. e \in Events /\ \A o \in Members : Event(o)' = Event(o)
  BY <1>1, <1>2, <1>3 DEF Event
<1>5. \A o \in Members : Claimed(o)' <=> o # m /\ Claimed(o)
  BY <1>2, <1>3 DEF Claimed
<1>6. e \notin inbox => Claimed(m) /\ ToTell(m) = {}
  BY <1>1 DEF Claimed, IInv, StageIsTrue
<1>7. \A o \in Members : Claimed(o)' => Event(o) # e
  <2>1. CASE e \in inbox
    BY <1>5, <2>1 DEF Claimed, IInv, StageIsTrue
  <2>2. CASE e \notin inbox
    BY <1>5, <1>6, <2>2 DEF IInv, ClaimIsAlone
  <2> QED BY <2>1, <2>2
<1> HIDE DEF e
<1>8. NotificationTypeOK'
  BY <1>1, <1>2, <1>3, <1>4 DEF IInv, NotificationTypeOK
<1>9. OffsetIsBacked' /\ InTurn'
  BY <1>1, <1>2, <1>3 DEF IInv, OffsetIsBacked, InTurn
<1>10. StageIsTrue'
  <2> SUFFICES ASSUME NEW o \in Members, work'[o] # NULL
               PROVE  /\ work'[o].stage = "claimed" => Event(o) \notin inbox'
                      /\ work'[o].stage \in {"passed", "committed"} =>
                            Event(o) \in inbox'
                      /\ work'[o].stage = "taken" => work'[o].told = {}
                      /\ work'[o].told # {} => "renter" \in work'[o].told
    BY <1>4 DEF StageIsTrue
  <2>1. CASE o = m
    BY <1>1, <1>2, <1>3, <2>1 DEF IInv, StageIsTrue, e
  <2>2. CASE o # m
    <3>1. work'[o] = work[o]
      BY <1>3, <2>2
    <3>2. work[o].stage = "claimed" => Event(o) # e
      BY <1>5, <1>7, <2>2, <3>1 DEF Claimed
    <3> QED BY <1>1, <3>1, <3>2 DEF IInv, StageIsTrue
  <2> QED BY <2>1, <2>2
<1>11. ClaimIsAlone'
  BY <1>4, <1>5 DEF IInv, ClaimIsAlone
<1>12. Counted' /\ SentIsWanted'
  BY <1>1 DEF IInv, Counted, SentIsWanted, OptedIn
<1>13. ToldWasSent'
  <2> SUFFICES ASSUME NEW o \in Members, Claimed(o)',
                      NEW n \in Events \X Parties \X Channels,
                      n[1] = Event(o), n[2] \in work'[o].told,
                      n[1] \in Notifiable, OptedIn(n)
               PROVE  sent[n] >= 1
    BY <1>1, <1>4 DEF ToldWasSent, OptedIn
  <2>1. Claimed(o) /\ work'[o] = work[o]
    BY <1>3, <1>5
  <2> QED BY <2>1 DEF IInv, ToldWasSent
<1>14. HandledWasSent'
  <2> SUFFICES ASSUME NEW n \in Events \X Parties \X Channels,
                      n[1] \in inbox', n[1] \in Notifiable, OptedIn(n)
               PROVE  sent[n] >= 1
    BY <1>1 DEF HandledWasSent, OptedIn
  <2>1. CASE n[1] \in inbox
    BY <2>1 DEF IInv, HandledWasSent
  <2>2. CASE n[1] \notin inbox
    <3>1. n[1] = Event(m) /\ Claimed(m) /\ ToTell(m) = {}
      BY <1>1, <1>6, <2>2 DEF e
    <3>2. work[m].told # {} /\ "host" \in work[m].told
      BY <3>1 DEF ToTell
    <3>3. "renter" \in work[m].told
      BY <3>1, <3>2 DEF IInv, StageIsTrue, Claimed
    <3>4. n[2] \in work[m].told
      BY <3>2, <3>3 DEF Parties
    <3> QED BY <3>1, <3>4 DEF IInv, ToldWasSent
  <2> QED BY <2>1, <2>2
<1>15. SentIsAccounted'
  <2>1. \A n : HasLine(n) => HasLine(n)'
    BY <1>1, <1>3, <1>4, <1>5 DEF HasLine, e
  <2> QED BY <1>1, <2>1 DEF IInv, SentIsAccounted
<1> QED
  BY <1>8, <1>9, <1>10, <1>11, <1>12, <1>13, <1>14, <1>15 DEF IInv

\* The offset moves on behind a handled record, or, for a member that lost
\* the partition, stays.
LEMMA CommitOffsetStep ==
    ASSUME IInv, NEW m \in Members, CommitOffset(m)
    PROVE  IInv'
<1> USE Facts
<1>1. /\ work[m] # NULL /\ work[m].stage = "committed"
      /\ offset' = (IF work[m].fenced THEN offset ELSE work[m].at)
      /\ work' = [work EXCEPT ![m] = NULL]
      /\ UNCHANGED <<topic, published, owner, alive, inbox, sent, cut>>
  BY DEF CommitOffset
<1>2. /\ work'[m] = NULL
      /\ \A o \in Members \ {m} : work'[o] = work[o]
  BY <1>1 DEF IInv, NotificationTypeOK
<1>3. offset' \in 0..Len(topic)
  BY <1>1
<1>4. \A j \in 1..offset' : topic[j] \in inbox
  <2> SUFFICES ASSUME NEW j \in 1..work[m].at PROVE topic[j] \in inbox
    BY <1>1 DEF IInv, OffsetIsBacked
  <2>1. CASE j = work[m].at
    BY <1>1, <2>1 DEF IInv, StageIsTrue, Event
  <2>2. CASE j # work[m].at
    BY <1>1, <2>2 DEF IInv, InTurn
  <2> QED BY <2>1, <2>2
<1>5. NotificationTypeOK'
  BY <1>1, <1>2, <1>3 DEF IInv, NotificationTypeOK
<1>6. cut' \in [Events -> Nat] /\ \A e \in Events : cut'[e] >= cut[e]
  BY <1>1 DEF IInv, Counted
<1>7. \A o \in Members :
         \/ /\ work'[o] = NULL
            /\ Claimed(o) => cut'[Event(o)] >= 1 + cut[Event(o)]
         \/ /\ work[o] # NULL /\ work'[o] # NULL
            /\ work'[o].at = work[o].at
            /\ work'[o].stage = work[o].stage
            /\ work'[o].told = work[o].told
  BY <1>1, <1>2 DEF Claimed
<1> QED BY <1>1, <1>4, <1>5, <1>6, <1>7, KeepStep
-----------------------------------------------------------------------------
(* The connector, errors and the group.                                    *)

\* The count of cut-off transactions never falls, and rises when m holds a claim.
LEMMA CutOffCounts ==
    ASSUME IInv, NEW m \in Members
    PROVE  /\ CutOff(m) \in [Events -> Nat]
           /\ \A e \in Events : CutOff(m)[e] >= cut[e]
           /\ Claimed(m) => CutOff(m)[Event(m)] >= 1 + cut[Event(m)]
BY Facts DEF CutOff, Claimed, IInv, Counted

\* Publishing keeps the invariant and is a Publish of Delivery.
LEMMA PublishStep ==
    ASSUME IInv, Publish
    PROVE  IInv' /\ D!Publish(published + 1) /\ published + 1 \in Events
<1> USE Facts
<1>1. /\ published \in 0..MaxEvents /\ MaxEvents \in Nat
      /\ published < MaxEvents
  BY NotificationConstants DEF IInv, NotificationTypeOK, Publish
<1>2. published + 1 \in Events
  BY <1>1 DEF Events
<1>3. /\ topic' = Append(topic, published + 1)
      /\ topic' \in Seq(Events) /\ Len(topic') = Len(topic) + 1
      /\ \A j \in 1..Len(topic) : topic'[j] = topic[j]
      /\ UNCHANGED <<offset, owner, alive, work, inbox, sent, cut>>
      /\ published' = published + 1
  BY <1>2 DEF Publish
<1>4. NotificationTypeOK'
  BY <1>1, <1>3 DEF IInv, NotificationTypeOK
<1>5. \A j \in 1..offset' : topic'[j] \in inbox
  BY <1>3 DEF IInv, OffsetIsBacked
<1>6. cut' \in [Events -> Nat] /\ \A e \in Events : cut'[e] >= cut[e]
  BY <1>3 DEF IInv, Counted
<1>7. \A o \in Members :
         \/ /\ work'[o] = NULL
            /\ Claimed(o) => cut'[Event(o)] >= 1 + cut[Event(o)]
         \/ /\ work[o] # NULL /\ work'[o] # NULL
            /\ work'[o].at = work[o].at
            /\ work'[o].stage = work[o].stage
            /\ work'[o].told = work[o].told
  BY <1>3 DEF Claimed
<1>8. IInv'
  BY <1>3, <1>4, <1>5, <1>6, <1>7, KeepStep
<1> QED BY <1>2, <1>3, <1>8 DEF D!Publish

\* A connector that goes back to publish events again keeps the invariant.
LEMMA ReplayStep ==
    ASSUME IInv, NEW n \in 0..MaxEvents, Replay(n)
    PROVE  IInv'
<1> USE Facts
<1>1. UNCHANGED <<topic, offset, owner, alive, work, inbox, sent, cut>>
      /\ published' = n
  BY DEF Replay
<1>2. NotificationTypeOK'
  BY <1>1 DEF IInv, NotificationTypeOK
<1>3. \A j \in 1..offset' : topic'[j] \in inbox
  BY <1>1 DEF IInv, OffsetIsBacked
<1>4. cut' \in [Events -> Nat] /\ \A e \in Events : cut'[e] >= cut[e]
  BY <1>1 DEF IInv, Counted
<1>5. \A o \in Members :
         \/ /\ work'[o] = NULL
            /\ Claimed(o) => cut'[Event(o)] >= 1 + cut[Event(o)]
         \/ /\ work[o] # NULL /\ work'[o] # NULL
            /\ work'[o].at = work[o].at
            /\ work'[o].stage = work[o].stage
            /\ work'[o].told = work[o].told
  BY <1>1 DEF Claimed
<1> QED BY <1>1, <1>2, <1>3, <1>4, <1>5, KeepStep

\* A handler, a commit or an offset commit fails: the transaction is gone
\* and the task with it (kafka_consumer.py:86-112).
LEMMA RaiseStep ==
    ASSUME IInv, NEW m \in Members, Raise(m)
    PROVE  IInv'
<1> USE Facts
<1>1. /\ alive' = alive \ {m} /\ Assign(m)
      /\ work' = [work EXCEPT ![m] = NULL]
      /\ cut' = CutOff(m)
      /\ UNCHANGED <<topic, published, offset, inbox, sent>>
  BY DEF Raise
<1>2. /\ work'[m] = NULL
      /\ \A o \in Members \ {m} : work'[o] = work[o]
  BY <1>1 DEF IInv, NotificationTypeOK
<1>3. /\ owner' \in Members \cup {NULL} /\ alive' \subseteq Members
      /\ owner' # NULL => owner' \in alive'
  BY <1>1 DEF Assign, IInv, NotificationTypeOK
<1>4. NotificationTypeOK'
  BY <1>1, <1>2, <1>3 DEF IInv, NotificationTypeOK
<1>5. \A j \in 1..offset' : topic'[j] \in inbox
  BY <1>1 DEF IInv, OffsetIsBacked
<1>6. \A o \in Members :
         \/ /\ work'[o] = NULL
            /\ Claimed(o) => cut'[Event(o)] >= 1 + cut[Event(o)]
         \/ /\ work[o] # NULL /\ work'[o] # NULL
            /\ work'[o].at = work[o].at
            /\ work'[o].stage = work[o].stage
            /\ work'[o].told = work[o].told
  BY <1>1, <1>2, CutOffCounts DEF Claimed
<1> QED BY <1>1, <1>4, <1>5, <1>6, CutOffCounts, KeepStep

\* A process starts again and joins the group; the partition may move.
LEMMA RestartStep ==
    ASSUME IInv, NEW m \in Members, Restart(m)
    PROVE  IInv'
<1> USE Facts
<1>1. /\ alive' = alive \cup {m} /\ owner' \in alive \cup {m}
      /\ cut' = CutOff(m)
      /\ UNCHANGED <<topic, published, offset, inbox, sent>>
  BY DEF Restart
<1>2. /\ work' \in [Members -> WorkItem \cup {NULL}]
      /\ work'[m] = NULL
      /\ \A o \in Members \ {m} :
            \/ work'[o] = work[o]
            \/ work[o] # NULL /\ work'[o] = [work[o] EXCEPT !.fenced = TRUE]
  BY DEF Restart, WorkItem
<1>3. \A o \in Members \ {m} : work[o] # NULL =>
         /\ work'[o] # NULL
         /\ work'[o].at = work[o].at
         /\ work'[o].stage = work[o].stage
         /\ work'[o].told = work[o].told
  <2> SUFFICES ASSUME NEW o \in Members \ {m}, work[o] # NULL,
                      work'[o] = [work[o] EXCEPT !.fenced = TRUE]
               PROVE  /\ work'[o] # NULL
                      /\ work'[o].at = work[o].at
                      /\ work'[o].stage = work[o].stage
                      /\ work'[o].told = work[o].told
    BY <1>2
  <2>1. [work[o] EXCEPT !.fenced = TRUE] \in WorkItem
    BY DEF WorkItem
  <2> QED BY <2>1, NullAssumption DEF WorkItem
<1>4. \A o \in Members \ {m} : work[o] = NULL => work'[o] = NULL
  BY <1>2
<1>5. NotificationTypeOK'
  BY <1>1, <1>2, <1>3, <1>4 DEF IInv, NotificationTypeOK
<1>6. \A j \in 1..offset' : topic'[j] \in inbox
  BY <1>1 DEF IInv, OffsetIsBacked
<1>7. \A o \in Members :
         \/ /\ work'[o] = NULL
            /\ Claimed(o) => cut'[Event(o)] >= 1 + cut[Event(o)]
         \/ /\ work[o] # NULL /\ work'[o] # NULL
            /\ work'[o].at = work[o].at
            /\ work'[o].stage = work[o].stage
            /\ work'[o].told = work[o].told
  BY <1>1, <1>2, <1>3, <1>4, CutOffCounts DEF Claimed
<1> QED BY <1>1, <1>5, <1>6, <1>7, CutOffCounts, KeepStep

\* The partition moves while its owner is at work.
LEMMA RebalanceStep ==
    ASSUME IInv, NEW m \in Members, Rebalance(m)
    PROVE  IInv'
<1> USE Facts
<1>1. /\ m \in alive /\ owner' = m /\ owner \in Members
      /\ UNCHANGED <<topic, published, offset, alive, inbox, sent, cut>>
  BY DEF Rebalance, IInv, NotificationTypeOK
<1>2. \A o \in Members :
         \/ work'[o] = work[o]
         \/ work[o] # NULL /\ work'[o] = [work[o] EXCEPT !.fenced = TRUE]
  BY <1>1 DEF Rebalance, IInv, NotificationTypeOK
<1>3. work' \in [Members -> WorkItem \cup {NULL}]
  <2>1. work \in [Members -> WorkItem \cup {NULL}]
    BY DEF IInv, NotificationTypeOK
  <2>2. CASE work[owner] = NULL
    BY <2>1, <2>2 DEF Rebalance
  <2>3. CASE work[owner] # NULL
    <3>1. [work[owner] EXCEPT !.fenced = TRUE] \in WorkItem
      BY <1>1, <2>3 DEF WorkItem
    <3>2. work' = [work EXCEPT ![owner] = [work[owner] EXCEPT !.fenced = TRUE]]
      BY <2>3 DEF Rebalance
    <3> QED BY <2>1, <3>1, <3>2
  <2> QED BY <2>2, <2>3
<1>4. \A o \in Members : work[o] # NULL =>
         /\ work'[o] # NULL
         /\ work'[o].at = work[o].at
         /\ work'[o].stage = work[o].stage
         /\ work'[o].told = work[o].told
  <2> SUFFICES ASSUME NEW o \in Members, work[o] # NULL,
                      work'[o] = [work[o] EXCEPT !.fenced = TRUE]
               PROVE  /\ work'[o] # NULL
                      /\ work'[o].at = work[o].at
                      /\ work'[o].stage = work[o].stage
                      /\ work'[o].told = work[o].told
    BY <1>2
  <2>1. [work[o] EXCEPT !.fenced = TRUE] \in WorkItem
    BY DEF WorkItem
  <2> QED BY <2>1, NullAssumption DEF WorkItem
<1>5. \A o \in Members : work[o] = NULL => work'[o] = NULL
  BY <1>2
<1>6. NotificationTypeOK'
  BY <1>1, <1>3, <1>4, <1>5 DEF IInv, NotificationTypeOK
<1>7. \A j \in 1..offset' : topic'[j] \in inbox
  BY <1>1 DEF IInv, OffsetIsBacked
<1>8. cut' \in [Events -> Nat] /\ \A e \in Events : cut'[e] >= cut[e]
  BY <1>1 DEF IInv, Counted
<1>9. \A o \in Members :
         \/ /\ work'[o] = NULL
            /\ Claimed(o) => cut'[Event(o)] >= 1 + cut[Event(o)]
         \/ /\ work[o] # NULL /\ work'[o] # NULL
            /\ work'[o].at = work[o].at
            /\ work'[o].stage = work[o].stage
            /\ work'[o].told = work[o].told
  BY <1>4, <1>5 DEF Claimed
<1> QED BY <1>1, <1>6, <1>7, <1>8, <1>9, KeepStep
-----------------------------------------------------------------------------
\* The inductive invariant, through errors, restarts and rebalances.
THEOREM Invariance == Spec => []IInv
<1>1. Init => IInv
  <2> SUFFICES ASSUME Init PROVE IInv
    OBVIOUS
  <2>1. NotificationTypeOK
    BY NotificationConstants DEF Init, NotificationTypeOK
  <2>2. OffsetIsBacked /\ InTurn /\ StageIsTrue /\ ClaimIsAlone /\ ToldWasSent
    BY DEF Init, OffsetIsBacked, InTurn, StageIsTrue, ClaimIsAlone,
       ToldWasSent, Claimed
  <2>3. Counted /\ HandledWasSent /\ SentIsWanted
    BY DEF Init, Counted, HandledWasSent, SentIsWanted
  <2>4. SentIsAccounted
    BY DEF Init, SentIsAccounted
  <2> QED BY <2>1, <2>2, <2>3, <2>4 DEF IInv
<1>2. IInv /\ [Next]_vars => IInv'
  <2> SUFFICES ASSUME IInv, [Next]_vars PROVE IInv'
    OBVIOUS
  <2>1. CASE Publish
    BY <2>1, PublishStep
  <2>2. CASE \E n \in 0..MaxEvents : Replay(n)
    BY <2>2, ReplayStep
  <2>3. CASE \E m \in Members : Step(m)
    BY <2>3, TakeStep, ClaimStep, NotifyStep, CommitStep, CommitOffsetStep
       DEF Step
  <2>4. CASE \E m \in Members : Raise(m) \/ Restart(m) \/ Rebalance(m)
    BY <2>4, RaiseStep, RestartStep, RebalanceStep
  <2>5. CASE UNCHANGED vars
    <3>1. NotificationTypeOK' /\ OffsetIsBacked' /\ InTurn' /\ Counted'
      BY <2>5 DEF vars, IInv, NotificationTypeOK, OffsetIsBacked, InTurn,
         Counted
    <3>2. StageIsTrue' /\ ClaimIsAlone' /\ ToldWasSent'
      BY <2>5 DEF vars, IInv, StageIsTrue, ClaimIsAlone, ToldWasSent, Claimed,
         Event, OptedIn
    <3>3. HandledWasSent' /\ SentIsWanted' /\ SentIsAccounted'
      BY <2>5 DEF vars, IInv, HandledWasSent, SentIsWanted, SentIsAccounted,
         OptedIn, HasLine, Claimed, Event
    <3> QED BY <3>1, <3>2, <3>3 DEF IInv
  <2> QED BY <2>1, <2>2, <2>3, <2>4, <2>5 DEF Next
<1> QED BY <1>1, <1>2, PTL DEF Spec

\* Whoever wants to hear of a handled event has been notified, nobody else
\* has, and a line is repeated only for a transaction that was cut off.
THEOREM NotifiesAsHandled == Spec => []NotifiedAsHandled
<1>1. IInv => NotifiedAsHandled
  <2> SUFFICES ASSUME IInv PROVE NotifiedAsHandled
    OBVIOUS
  <2>1. DOMAIN sent = Events \X Parties \X Channels
    BY DEF IInv, Counted
  <2> QED BY <2>1 DEF IInv, NotifiedAsHandled, HandledWasSent, SentIsWanted,
             SentIsAccounted
<1> QED BY <1>1, Invariance, PTL

\* The loop with its inbox implements the abstract delivery: every event is
\* handled once, in the order of the topic.  Only the commit of a claim is
\* a step of the abstract specification.
THEOREM Refinement == Spec => ImplementsDelivery
<1>1. Init => D!Init
  BY DEF Init, D!Init
<1>2. IInv /\ [Next]_vars => [D!Next]_(D!vars)
  <2> SUFFICES ASSUME IInv, [Next]_vars
               PROVE  D!Next \/ UNCHANGED <<topic, inbox>>
    BY DEF D!vars
  <2>1. CASE Publish
    BY <2>1, PublishStep DEF D!Next
  <2>2. CASE \E m \in Members : Commit(m)
    <3>1. PICK m \in Members : Commit(m)
      BY <2>2
    <3>2. /\ work[m] # NULL /\ UNCHANGED topic
          /\ inbox' = inbox \cup {Event(m)}
      BY <3>1 DEF Commit
    <3>3. CASE Event(m) \in inbox
      BY <3>2, <3>3
    <3>4. CASE Event(m) \notin inbox
      <4>1. /\ work[m].at \in DOMAIN topic
            /\ \A j \in 1..(work[m].at - 1) : topic[j] \in inbox
        BY <3>2, Facts DEF IInv, InTurn
      <4>2. D!Handle(work[m].at)
        BY <3>2, <3>4, <4>1 DEF D!Handle, Event
      <4> QED BY <4>1, <4>2 DEF D!Next
    <3> QED BY <3>3, <3>4
  <2>3. CASE \E n \in 0..MaxEvents : Replay(n)
    BY <2>3 DEF Replay
  <2>4. ASSUME NEW m \in Members,
               \/ Take(m) \/ Claim(m) \/ CommitOffset(m)
               \/ \E u \in Parties : notify_user(m, u)
               \/ Raise(m) \/ Restart(m) \/ Rebalance(m)
        PROVE  UNCHANGED <<topic, inbox>>
    BY <2>4 DEF Take, Claim, CommitOffset, notify_user, Raise, Restart,
       Rebalance
  <2>5. CASE UNCHANGED vars
    BY <2>5 DEF vars
  <2> QED BY <2>1, <2>2, <2>3, <2>4, <2>5 DEF Next, Step
<1> QED BY <1>1, <1>2, Invariance, PTL DEF Spec, ImplementsDelivery, D!Spec
===============================================================================
