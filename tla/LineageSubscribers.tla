--------------------------- MODULE LineageSubscribers ---------------------------
(***************************************************************************)
(* One producer and its subscribers, each with a TaskLineage of its own.   *)
(* The producer checks its full history with require_known_parents; the    *)
(* subscriptions are filtered, so a subscriber receives any subset of the  *)
(* published events, each any number of times, in any order.               *)
(***************************************************************************)
EXTENDS TaskLineage

CONSTANT Subscribers

VARIABLES
  log,    \* the events the producer has published; `tracker` is its history
  subs    \* the tracker of each receiving connection

subscriberVars == <<tracker, log, subs>>

SubscribersInit ==
  /\ Init
  /\ log = {}
  /\ subs = [s \in Subscribers |-> NewTracker]

(* Assumed of a producer that states an event again: what accept does not  *)
(* compare, the operation of a task and the kind of a workspace, is as it  *)
(* was.  Whatever else the message says is left to the checks of accept.   *)
SaysTheSame(m) ==
  Known(tracker, Key(m)) /\ tracker.events[Key(m)].type = m.view.type =>
    /\ tracker.events[Key(m)].operation = m.view.operation
    /\ m.view.type \notin TaskTypes =>
         tracker.events[Key(m)].subject = m.view.subject

(* The producer states an event, for the first time or again: its own      *)
(* history takes it, and it becomes deliverable.                           *)
Publish(m) ==
  /\ SaysTheSame(m)
  /\ Accept(m)
  /\ log' = log \cup {[m EXCEPT !.method = "hooks/observe"]}
  /\ UNCHANGED subs

(* The transport hands a published event to a connection, as an            *)
(* interception or as an observation; accept runs on arrival.              *)
Deliverable(m) ==
  {d \in {m, [m EXCEPT !.method = "hooks/intercept"]} : ~ InterceptsActual(d)}

Deliver(s, m) ==
  /\ ~ Refuses(subs[s], m, FALSE)
  /\ subs' = [subs EXCEPT ![s] = Record(@, m)]
  /\ UNCHANGED <<tracker, log>>

SubscribersNext ==
  \/ \E m \in EventMessages : Publish(m)
  \/ \E s \in Subscribers, p \in log : \E m \in Deliverable(p) : Deliver(s, m)

SubscribersSpec == SubscribersInit /\ [][SubscribersNext]_subscriberVars

-----------------------------------------------------------------------------
(* A connection that misses events, or receives them late, twice or out of *)
(* order, never refuses an event of a consistent producer: the late-parent *)
(* and cycle checks raise no false alarm.                                  *)
NoFalseAlarm ==
  \A s \in Subscribers, p \in log :
    \A m \in Deliverable(p) : ~ Refuses(subs[s], m, FALSE)

(* What a connection knows is a part of the producer's history, whatever   *)
(* the order of arrival: two connections never disagree.                   *)
SubscriberView ==
  \A s \in Subscribers, k \in Keys :
    Known(subs[s], k) =>
      /\ subs[s].events[k] = tracker.events[k]
      /\ subs[s].parents[k] = tracker.parents[k]
=============================================================================
