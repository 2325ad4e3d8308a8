------------------------------- MODULE Delivery --------------------------------
(***************************************************************************)
(* What the consumer loop and the inbox of a service promise its handlers: *)
(* of a topic that may repeat events, every event is handled once, and     *)
(* never before an event that the topic holds earlier.  Saga relies on     *)
(* this for both of its topics.                                            *)
(***************************************************************************)
EXTENDS Naturals, Sequences

CONSTANT Events

VARIABLES topic,     \* one partition: a sequence of events
          handled    \* events whose effect is there

vars == <<topic, handled>>

Init == topic = << >> /\ handled = {}

Publish(e) == /\ topic' = Append(topic, e)
              /\ UNCHANGED handled

Handle(k) == /\ topic[k] \notin handled
             /\ \A j \in 1 .. k - 1 : topic[j] \in handled
             /\ handled' = handled \cup {topic[k]}
             /\ UNCHANGED topic

Next == \/ \E e \in Events : Publish(e)
        \/ \E k \in DOMAIN topic : Handle(k)

Spec == Init /\ [][Next]_vars
===============================================================================
