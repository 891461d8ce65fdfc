------------------------------ MODULE TaskLineage ------------------------------
(***************************************************************************)
(* One TaskLineage object: the source-local lineage checks of one          *)
(* receiving connection (interop/task_lineage.py), fed any sequence of     *)
(* messages: redelivered, out of order, with parents that come late or     *)
(* never.                                                                  *)
(***************************************************************************)
EXTENDS LineageRules, FiniteSets

CONSTANT RequireKnownParents   \* require_known_parents: a producer's history

ASSUME RequireAssumption == RequireKnownParents \in BOOLEAN

(* A connection states finitely many identities: it bounds the walk below. *)
ASSUME FiniteAssumption == IsFiniteSet(Keys)

VARIABLE tracker   \* self.events and self.parents

vars == <<tracker>>

TypeOK == tracker \in Trackers

Init == tracker = NewTracker

(***************************************************************************)
(* accept on an event message: every check precedes both assignments, so a *)
(* refused message leaves the tracker as it was.  The same holds of        *)
(* undecodable JSON, duplicate members, schema violations and messages of  *)
(* another method, which accept_wire refuses or ignores before the checks: *)
(* all of them are stuttering steps.                                       *)
(***************************************************************************)
Accept(m) ==
  /\ ~ Refuses(tracker, m, RequireKnownParents)
  /\ tracker' = Record(tracker, m)

Next == \E m \in EventMessages : Accept(m)

Spec == Init /\ [][Next]_vars

-----------------------------------------------------------------------------
(* Declarative statements about a whole history.                           *)

(* No set of identities is closed under "my parent is in the set": the     *)
(* parent edges contain no cycle.                                          *)
NoCycle(parents) ==
  \A S \in SUBSET Keys :
    S # {} => \E k \in S : parents[k] \notin S

PairsAgree(t) ==
  \A child, parent \in Keys :
    /\ t.events[child] # NoEvent
    /\ t.events[parent] # NoEvent
    /\ t.parents[child] = parent
    => CheckPair(t.events[parent], t.events[child])

ParentsKnown(t) ==
  \A k \in Keys : t.parents[k] # None => Known(t, t.parents[k])

EdgesOfEvents(t) ==
  \A k \in Keys : t.events[k] = NoEvent => t.parents[k] = None

(* The loop of accept as written: `seen` starts with the message's own key *)
(* and the cursor follows the edges until it is None or already seen.      *)
CursorMeetsSeen(parents, key, parent) ==
  LET last == Cardinality(Keys)
      cursor[n \in 0..last] ==
        IF n = 0 THEN parent
        ELSE IF cursor[n-1] = None THEN None ELSE parents[cursor[n-1]]
  IN \E n \in 0..last :
       cursor[n] # None /\ cursor[n] \in {key} \cup {cursor[i] : i \in 0..(n-1)}

(* On every history the tracker can reach, the loop finds exactly the      *)
(* parents from which the ancestry leads back to the message.              *)
WalkFindsAncestry ==
  \A key, parent \in Keys :
    CursorMeetsSeen(tracker.parents, key, parent)
      <=> key \in Ancestry(tracker.parents, parent)

(* The parent relation stays acyclic whatever the order in which events    *)
(* arrive and are redelivered, so the ancestor walk of accept terminates.  *)
Acyclic == NoCycle(tracker.parents)

(* Every after event agrees with its before event as soon as both are      *)
(* known, whichever of the two arrived, or was redelivered, last.          *)
PairConsistent == PairsAgree(tracker)

(* A producer's events have their chain of ancestors on record in full,    *)
(* and for good: no later message, a restatement of the event itself or of *)
(* one of its ancestors included, adds to the chain, cuts it or replaces a *)
(* link of it, so what a subscriber traces an event back to is final.      *)
ProducerComplete ==
  [][RequireKnownParents =>
       \A k \in Keys : Known(tracker, k) =>
         /\ Ancestry(tracker'.parents, k) = Ancestry(tracker.parents, k)
         /\ \A a \in Ancestry(tracker'.parents, k) : Known(tracker', a)]_vars

(* An identity once recorded never changes its type, its parent or its     *)
(* task and is never forgotten.                                            *)
IdentityStable ==
  [][\A k \in Keys :
       Known(tracker, k) =>
         /\ Known(tracker', k)
         /\ tracker'.events[k].type = tracker.events[k].type
         /\ tracker'.parents[k] = tracker.parents[k]
         /\ tracker.events[k].type \in TaskTypes
              => tracker'.events[k].subject = tracker.events[k].subject]_vars
=============================================================================
