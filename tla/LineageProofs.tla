------------------------------ MODULE LineageProofs ------------------------------
(***************************************************************************)
(* Proofs about the lineage checker for every set of sources, identities   *)
(* and payloads.  The inductive invariant of one object is HistoryInv: the *)
(* tracker is well typed, its history is consistent as a whole, and an     *)
(* identity that was never recorded has no edge.  That of a producer and   *)
(* its subscribers, however many, is SubscribersInv: filtered, repeated    *)
(* and reordered delivery leaves each of them a part of the producer's     *)
(* history.                                                                *)
(***************************************************************************)
EXTENDS EventHistory, LineageSubscribers, Induction, FiniteSetTheorems, TLAPS

HistoryInv ==
  /\ TypeOK
  /\ Consistent(tracker)
  /\ EdgesOfEvents(tracker)

-----------------------------------------------------------------------------
(* The key, the parent and the view of a canonical message are typed.      *)
LEMMA MessageFacts ==
  ASSUME NEW m \in EventMessages
  PROVE  /\ Key(m) \in Keys
         /\ Parent(m) \in Keys \cup {None}
         /\ m.view \in Views
<1>1. PICK type \in EventTypes :
        m \in [method : {"hooks/intercept", "hooks/observe"},
               source : Sources, id : Ids, parentEventId : Ids \cup {None},
               view   : {[type |-> type, subject |-> p[1], operation |-> p[2]] :
                            p \in PayloadOf(type)},
               effect : IF type \in ActualTypes THEN Effects ELSE {"applied"}]
  BY DEF EventMessages
<1>2. m.source \in Sources /\ m.id \in Ids /\ m.parentEventId \in Ids \cup {None}
  BY <1>1
<1>3. Key(m) \in Keys /\ Parent(m) \in Keys \cup {None}
  BY <1>2 DEF Key, Parent, Keys
<1>4. PICK p \in PayloadOf(type) :
        m.view = [type |-> type, subject |-> p[1], operation |-> p[2]]
  BY <1>1
<1>5. /\ p[1] \in TaskIds \cup WorkspaceKinds \cup {None}
      /\ p[2] \in TaskOperations \cup {None}
  BY <1>4 DEF PayloadOf
<1>6. m.view \in Views
  BY <1>4, <1>5 DEF Views
<1> QED BY <1>3, <1>6

(* No stored view is the marker of an unknown identity.                    *)
LEMMA ViewIsAnEvent == \A v \in Views : v # NoEvent
<1>1. SUFFICES ASSUME NEW v \in Views PROVE v # NoEvent
  OBVIOUS
<1>2. v = [type |-> v.type, subject |-> v.subject, operation |-> v.operation]
  BY DEF Views
<1>3. /\ v.type \in EventTypes
      /\ v.subject \in TaskIds \cup WorkspaceKinds \cup {None}
      /\ v.operation \in TaskOperations \cup {None}
  BY DEF Views
<1> QED BY <1>2, <1>3, NoEventAssumption

(* What the cursor visits contains its start, follows every edge and is    *)
(* contained in every set that does the same.                              *)
LEMMA AncestryFacts ==
  ASSUME NEW parents \in [Keys -> Keys \cup {None}], NEW key \in Keys
  PROVE  /\ Ancestry(parents, key) \subseteq Keys
         /\ key \in Ancestry(parents, key)
         /\ Closed(parents, Ancestry(parents, key))
         /\ \A S \in SUBSET Keys :
              key \in S /\ Closed(parents, S) => Ancestry(parents, key) \subseteq S
<1>1. Closed(parents, Ancestry(parents, key))
  <2>1. SUFFICES ASSUME NEW k \in Ancestry(parents, key), parents[k] # None
                 PROVE  parents[k] \in Ancestry(parents, key)
    BY DEF Closed
  <2>2. k \in Keys /\ parents[k] \in Keys
    BY <2>1 DEF Ancestry
  <2>3. ASSUME NEW S \in SUBSET Keys, key \in S, Closed(parents, S)
        PROVE  parents[k] \in S
    BY <2>1, <2>3 DEF Ancestry, Closed
  <2> QED BY <2>2, <2>3 DEF Ancestry
<1> QED BY <1>1 DEF Ancestry

(* An identity reached from k, other than k, is reached from k's parent.   *)
LEMMA AncestryUnfolds ==
  ASSUME NEW parents \in [Keys -> Keys \cup {None}], NEW k \in Keys,
         NEW a \in Ancestry(parents, k), a # k
  PROVE  parents[k] # None /\ a \in Ancestry(parents, parents[k])
<1>1. parents[k] # None
  <2>1. SUFFICES ASSUME parents[k] = None PROVE FALSE
    OBVIOUS
  <2>2. Closed(parents, {k})
    BY <2>1 DEF Closed
  <2> QED BY <2>2 DEF Ancestry
<1>2. parents[k] \in Keys
  BY <1>1
<1>3. DEFINE S == {k} \cup Ancestry(parents, parents[k])
<1>4. Closed(parents, S)
  BY <1>2, AncestryFacts DEF Closed
<1>5. S \in SUBSET Keys
  BY <1>2, AncestryFacts
<1>6. a \in S
  BY <1>4, <1>5 DEF Ancestry
<1> QED BY <1>1, <1>6

(* The walk is exact: from an acyclic history, the new edge closes a cycle *)
(* if and only if the walk from the declared parent returns to the key.    *)
LEMMA WalkIsExact ==
  ASSUME NEW parents \in [Keys -> Keys \cup {None}], NoCycle(parents),
         NEW key \in Keys, NEW p \in Keys \cup {None}
  PROVE  NoCycle([parents EXCEPT ![key] = p])
           <=> ~ (p # None /\ key \in Ancestry(parents, p))
<1>1. DEFINE new == [parents EXCEPT ![key] = p]
<1>2. new[key] = p /\ \A k \in Keys : k # key => new[k] = parents[k]
  OBVIOUS
<1> HIDE DEF new
<1>3. ASSUME p # None, key \in Ancestry(parents, p)
      PROVE  ~ NoCycle(new)
  <2>1. p \in Keys
    BY <1>3
  <2>2. DEFINE S == {k \in Ancestry(parents, p) : key \in Ancestry(parents, k)}
  <2>3. S \in SUBSET Keys /\ key \in S /\ p \in S
    BY <1>3, <2>1, AncestryFacts
  <2>4. ASSUME NEW k \in S, k # key
        PROVE  parents[k] \in S
    <3>1. k \in Keys /\ key \in Ancestry(parents, k)
      BY <2>3
    <3>2. parents[k] # None /\ key \in Ancestry(parents, parents[k])
      BY <3>1, <2>4, AncestryUnfolds
    <3>3. parents[k] \in Ancestry(parents, p)
      BY <2>1, <3>2, AncestryFacts DEF Closed
    <3> QED BY <3>2, <3>3
  <2>5. \A k \in S : new[k] \in S
    BY <1>2, <2>3, <2>4
  <2> QED BY <2>3, <2>5 DEF NoCycle
<1>4. ASSUME ~ (p # None /\ key \in Ancestry(parents, p)),
             NEW S \in SUBSET Keys, S # {}, \A k \in S : new[k] \in S
      PROVE  FALSE
  <2>1. key \in S
    BY <1>2, <1>4 DEF NoCycle
  <2>2. p \in S /\ p \in Keys /\ p # None
    BY <1>2, <1>4, <2>1, NoneAssumption
  <2>3. DEFINE T == S \cap Ancestry(parents, p)
  <2>4. T \in SUBSET Keys /\ T # {} /\ key \notin T
    BY <1>4, <2>2, AncestryFacts
  <2>5. ASSUME NEW k \in T PROVE parents[k] \in T
    <3>1. k \in Keys /\ k # key /\ parents[k] = new[k] /\ new[k] \in S
      BY <1>2, <1>4, <2>4, <2>5
    <3>2. parents[k] # None
      BY <3>1, NoneAssumption
    <3> QED BY <2>2, <3>1, <3>2, AncestryFacts DEF Closed
  <2> QED BY <2>4, <2>5 DEF NoCycle
<1> QED BY <1>3, <1>4 DEF NoCycle, new

-----------------------------------------------------------------------------
(* The tracker that Record returns, key by key.                            *)
LEMMA RecordFacts ==
  ASSUME NEW t \in Trackers, NEW m \in EventMessages
  PROVE  /\ Record(t, m) \in Trackers
         /\ Record(t, m).parents = [t.parents EXCEPT ![Key(m)] = Parent(m)]
         /\ Record(t, m).events[Key(m)] = m.view
         /\ Record(t, m).parents[Key(m)] = Parent(m)
         /\ \A k \in Keys \ {Key(m)} :
              /\ Record(t, m).events[k] = t.events[k]
              /\ Record(t, m).parents[k] = t.parents[k]
BY MessageFacts DEF Record, Trackers

(* The two pair checks are exact: on a history whose pairs agree, and for  *)
(* a message that is not its own ancestor, they pass if and only if the    *)
(* pairs of the extended history agree, the late-parent ones included.     *)
LEMMA PairChecksAreExact ==
  ASSUME NEW t \in Trackers, NEW m \in EventMessages, PairsAgree(t),
         NoCycle(t.parents), EdgesOfEvents(t), Parent(m) # Key(m)
  PROVE  PairsAgree(Record(t, m))
           <=> ~ DisagreesWithParent(t, m) /\ ~ DisagreesWithChild(t, m)
<1>1. DEFINE new == Record(t, m)
             key == Key(m)
             par == Parent(m)
<1>2. /\ key \in Keys
      /\ par \in Keys \cup {None}
      /\ m.view # NoEvent
      /\ new.events[key] = m.view
      /\ new.parents[key] = par
      /\ \A k \in Keys \ {key} :
           new.events[k] = t.events[k] /\ new.parents[k] = t.parents[k]
  BY MessageFacts, ViewIsAnEvent, RecordFacts
<1>3. t.parents[key] # key
  <2>1. {key} \in SUBSET Keys /\ {key} # {}
    BY <1>2
  <2> QED BY <2>1 DEF NoCycle
<1>4. par # key
  OBVIOUS
<1> HIDE DEF new, key, par
<1>5. ASSUME PairsAgree(new)
      PROVE  ~ DisagreesWithParent(t, m) /\ ~ DisagreesWithChild(t, m)
  <2>1. ~ DisagreesWithParent(t, m)
    <3>1. SUFFICES ASSUME Known(t, par)
                   PROVE  CheckPair(t.events[par], m.view)
      BY DEF DisagreesWithParent, par
    <3>2. par \in Keys /\ par # key /\ t.events[par] # NoEvent
      BY <3>1, <1>4 DEF Known
    <3>3. new.events[par] = t.events[par]
      BY <1>2, <3>2
    <3> QED BY <1>2, <1>5, <3>2, <3>3 DEF PairsAgree
  <2>2. ~ DisagreesWithChild(t, m)
    <3>1. SUFFICES ASSUME NEW child \in Keys, Known(t, child),
                          t.parents[child] = key
                   PROVE  CheckPair(m.view, t.events[child])
      BY DEF DisagreesWithChild, key
    <3>2. child # key /\ t.events[child] # NoEvent
      BY <1>3, <3>1 DEF Known
    <3>3. new.events[child] = t.events[child] /\ new.parents[child] = key
      BY <1>2, <3>1, <3>2
    <3> QED BY <1>2, <1>5, <3>2, <3>3 DEF PairsAgree
  <2> QED BY <2>1, <2>2
<1>6. ASSUME ~ DisagreesWithParent(t, m), ~ DisagreesWithChild(t, m)
      PROVE  PairsAgree(new)
  <2>1. SUFFICES ASSUME NEW child \in Keys, NEW parent \in Keys,
                        new.events[child] # NoEvent,
                        new.events[parent] # NoEvent,
                        new.parents[child] = parent
                 PROVE  CheckPair(new.events[parent], new.events[child])
    BY DEF PairsAgree
  <2>2. CASE child = key
    <3>1. parent = par /\ parent # key
      BY <1>2, <1>4, <2>1, <2>2
    <3>2. Known(t, par) /\ new.events[parent] = t.events[par]
      BY <1>2, <2>1, <3>1 DEF Known
    <3> QED BY <1>2, <1>6, <2>2, <3>2 DEF DisagreesWithParent, par
  <2>3. CASE child # key /\ parent = key
    <3>1. /\ new.events[child] = t.events[child]
          /\ t.parents[child] = key
          /\ Known(t, child)
      BY <1>2, <2>1, <2>3 DEF Known
    <3>2. CheckPair(m.view, t.events[child])
      BY <1>6, <3>1 DEF DisagreesWithChild, key
    <3> QED BY <1>2, <2>3, <3>1, <3>2
  <2>4. CASE child # key /\ parent # key
    BY <1>2, <2>1, <2>4 DEF PairsAgree
  <2> QED BY <2>2, <2>3, <2>4
<1> QED BY <1>5, <1>6 DEF new

(* A parent recorded before, or the message itself, is what keeps a        *)
(* producer's history complete.                                            *)
LEMMA ParentCheckIsExact ==
  ASSUME NEW t \in Trackers, NEW m \in EventMessages, ParentsKnown(t)
  PROVE  ParentsKnown(Record(t, m))
           <=> ~ UnknownProducerParent(t, m) \/ Parent(m) = Key(m)
<1>1. /\ Key(m) \in Keys
      /\ m.view # NoEvent
      /\ Record(t, m).events[Key(m)] = m.view
      /\ Record(t, m).parents[Key(m)] = Parent(m)
      /\ \A k \in Keys \ {Key(m)} :
           /\ Record(t, m).events[k] = t.events[k]
           /\ Record(t, m).parents[k] = t.parents[k]
  BY MessageFacts, ViewIsAnEvent, RecordFacts
<1>2. \A k \in Keys : Known(Record(t, m), k) <=> Known(t, k) \/ k = Key(m)
  BY <1>1 DEF Known
<1>3. Parent(m) \in Keys \cup {None}
  BY MessageFacts
<1> QED BY <1>1, <1>2, <1>3 DEF ParentsKnown, UnknownProducerParent, Known

-----------------------------------------------------------------------------
(* The verdict on one message, on any consistent history.                  *)
LEMMA VerdictOnConsistentHistory ==
  ASSUME NEW t \in Trackers, Consistent(t), EdgesOfEvents(t),
         NEW m \in EventMessages
  PROVE  Refuses(t, m, RequireKnownParents)
           <=> ~ (Admissible(t, m) /\ Consistent(Record(t, m)))
<1>1. /\ Key(m) \in Keys
      /\ Parent(m) \in Keys \cup {None}
      /\ t.parents \in [Keys -> Keys \cup {None}]
      /\ Record(t, m).parents = [t.parents EXCEPT ![Key(m)] = Parent(m)]
  BY MessageFacts, RecordFacts DEF Trackers
<1>2. NoCycle(Record(t, m).parents) <=> ~ ClosesCycle(t, m)
  BY <1>1, WalkIsExact DEF ClosesCycle, Consistent
<1>3. Admissible(t, m)
        <=> ~ InterceptsActual(m) /\ ~ ReportsNoChange(m) /\ ~ IdentityReused(t, m)
  BY DEF Admissible, IdentityReused
<1>4. CASE Parent(m) = Key(m)
  <2>1. Parent(m) # None
    BY <1>1, <1>4, NoneAssumption
  <2>2. ClosesCycle(t, m)
    BY <1>1, <1>4, <2>1, AncestryFacts DEF ClosesCycle
  <2> QED BY <1>2, <2>2 DEF Refuses, Consistent
<1>5. CASE Parent(m) # Key(m)
  <2>1. PairsAgree(Record(t, m))
          <=> ~ DisagreesWithParent(t, m) /\ ~ DisagreesWithChild(t, m)
    BY <1>5, PairChecksAreExact DEF Consistent
  <2>2. RequireKnownParents
          => (ParentsKnown(Record(t, m)) <=> ~ UnknownProducerParent(t, m))
    BY <1>5, ParentCheckIsExact DEF Consistent
  <2> QED BY <1>2, <1>3, <2>1, <2>2 DEF Refuses, Consistent
<1> QED BY <1>4, <1>5

(* The invariant holds initially.                                          *)
LEMMA HistoryInit == Init => HistoryInv
<1>1. SUFFICES ASSUME Init PROVE HistoryInv
  OBVIOUS
<1>2. /\ tracker \in Trackers
      /\ \A k \in Keys : tracker.events[k] = NoEvent /\ tracker.parents[k] = None
  BY <1>1 DEF Init, NewTracker, Trackers
<1>3. NoCycle(tracker.parents)
  BY <1>2, NoneAssumption DEF NoCycle
<1> QED BY <1>2, <1>3 DEF HistoryInv, TypeOK, Consistent, PairsAgree,
                          ParentsKnown, EdgesOfEvents

(* Recording a message that the checks let through keeps it.               *)
LEMMA HistoryStep == HistoryInv /\ [Next]_vars => HistoryInv'
<1>1. SUFFICES ASSUME HistoryInv, [Next]_vars PROVE HistoryInv'
  OBVIOUS
<1>2. CASE UNCHANGED vars
  BY <1>1, <1>2 DEF vars, HistoryInv, TypeOK, Consistent, NoCycle, PairsAgree,
                    ParentsKnown, EdgesOfEvents, Known
<1>3. ASSUME NEW m \in EventMessages, Accept(m) PROVE HistoryInv'
  <2>1. tracker \in Trackers /\ tracker' = Record(tracker, m)
    BY <1>1, <1>3 DEF HistoryInv, TypeOK, Accept
  <2>2. TypeOK'
    BY <2>1, RecordFacts DEF TypeOK
  <2>3. Consistent(tracker)'
    BY <1>1, <1>3, <2>1, VerdictOnConsistentHistory
       DEF HistoryInv, TypeOK, Accept, Consistent, NoCycle, PairsAgree,
           ParentsKnown, Known
  <2>4. EdgesOfEvents(tracker)'
    <3>1. /\ tracker'.events[Key(m)] # NoEvent
          /\ \A k \in Keys \ {Key(m)} :
               /\ tracker'.events[k] = tracker.events[k]
               /\ tracker'.parents[k] = tracker.parents[k]
      BY <2>1, RecordFacts, MessageFacts, ViewIsAnEvent
    <3>2. \A k \in Keys : tracker.events[k] = NoEvent => tracker.parents[k] = None
      BY <1>1 DEF HistoryInv, EdgesOfEvents
    <3> QED BY <3>1, <3>2 DEF EdgesOfEvents
  <2> QED BY <2>2, <2>3, <2>4 DEF HistoryInv
<1> QED BY <1>1, <1>2, <1>3 DEF Next

(* The inductive invariant of the tracker.                                 *)
THEOREM HistoryInvariant == Spec => []HistoryInv
BY HistoryInit, HistoryStep, PTL DEF Spec

(* The tracker is always well typed.                                       *)
THEOREM TypeCorrect == Spec => []TypeOK
<1>1. HistoryInv => TypeOK
  BY DEF HistoryInv
<1> QED BY <1>1, HistoryInvariant, PTL

(* The parent relation never contains a cycle, in any order of arrival.    *)
THEOREM AlwaysAcyclic == Spec => []Acyclic
<1>1. HistoryInv => Acyclic
  BY DEF HistoryInv, Consistent, Acyclic
<1> QED BY <1>1, HistoryInvariant, PTL

(* Known proposals and their outcomes always agree.                        *)
THEOREM AlwaysPairConsistent == Spec => []PairConsistent
<1>1. HistoryInv => PairConsistent
  BY DEF HistoryInv, Consistent, PairConsistent
<1> QED BY <1>1, HistoryInvariant, PTL

(* The incremental checks are exact on every reachable history.            *)
THEOREM VerdictAlwaysExact == Spec => []VerdictExact
<1>1. HistoryInv => VerdictExact
  BY VerdictOnConsistentHistory DEF HistoryInv, TypeOK, VerdictExact
<1> QED BY <1>1, HistoryInvariant, PTL

(* The tracker implements the abstract event history.                      *)
THEOREM ImplementsEventHistory == Spec => HSpec
<1>1. HistoryInv /\ [Next]_vars => [HNext]_vars
  <2>1. SUFFICES ASSUME HistoryInv, Next PROVE HNext
    BY DEF vars
  <2>2. PICK m \in EventMessages : Accept(m)
    BY <2>1 DEF Next
  <2>3. Admissible(tracker, m) /\ Consistent(Record(tracker, m))
    BY <2>1, <2>2, VerdictOnConsistentHistory DEF Accept, HistoryInv, TypeOK
  <2>4. Consistent(tracker')
    BY <2>2, <2>3 DEF Accept
  <2> QED BY <2>2, <2>3, <2>4 DEF HNext, Keep, Accept
<1> QED BY <1>1, HistoryInvariant, PTL DEF Spec, HSpec

(* One message changes no type, parent or task on record.                  *)
LEMMA IdentityStep ==
  ASSUME HistoryInv, [Next]_vars, NEW k \in Keys, Known(tracker, k)
  PROVE  /\ Known(tracker', k)
         /\ tracker'.events[k].type = tracker.events[k].type
         /\ tracker'.parents[k] = tracker.parents[k]
         /\ tracker.events[k].type \in TaskTypes
              => tracker'.events[k].subject = tracker.events[k].subject
<1>1. CASE UNCHANGED vars
  BY <1>1 DEF vars, Known
<1>2. ASSUME NEW m \in EventMessages, Accept(m), k = Key(m)
      PROVE  /\ Known(tracker', k)
             /\ tracker'.events[k].type = tracker.events[k].type
             /\ tracker'.parents[k] = tracker.parents[k]
             /\ tracker.events[k].type \in TaskTypes
                  => tracker'.events[k].subject = tracker.events[k].subject
  <2>1. ~ IdentityReused(tracker, m)
    BY <1>2 DEF Accept, Refuses
  <2>2. SameIdentity(tracker.events[k], tracker.parents[k], m)
    BY <1>2, <2>1 DEF IdentityReused
  <2>3. /\ tracker'.events[k] = m.view
        /\ tracker'.parents[k] = Parent(m)
        /\ m.view # NoEvent
    BY <1>2, RecordFacts, MessageFacts, ViewIsAnEvent DEF HistoryInv, TypeOK, Accept
  <2> QED BY <2>2, <2>3 DEF SameIdentity, Known
<1>3. ASSUME NEW m \in EventMessages, Accept(m), k # Key(m)
      PROVE  /\ tracker'.events[k] = tracker.events[k]
             /\ tracker'.parents[k] = tracker.parents[k]
  <2>1. tracker \in Trackers /\ tracker' = Record(tracker, m) /\ k \in Keys \ {Key(m)}
    BY <1>3 DEF HistoryInv, TypeOK, Accept
  <2> QED BY <1>3, <2>1, RecordFacts
<1> QED BY <1>1, <1>2, <1>3 DEF Next, Known

(* Type, parent and task of a recorded identity never change.              *)
THEOREM IdentityAlwaysStable == Spec => IdentityStable
<1>1. HistoryInv /\ [Next]_vars =>
        [\A k \in Keys :
           Known(tracker, k) =>
             /\ Known(tracker', k)
             /\ tracker'.events[k].type = tracker.events[k].type
             /\ tracker'.parents[k] = tracker.parents[k]
             /\ tracker.events[k].type \in TaskTypes
                  => tracker'.events[k].subject = tracker.events[k].subject]_vars
  BY IdentityStep
<1> QED BY <1>1, HistoryInvariant, PTL DEF Spec, IdentityStable

(* A chain of ancestors depends on the edges of its members only: edges    *)
(* may differ outside a set that the chain does not leave.                 *)
LEMMA ChainIsLocal ==
  ASSUME NEW old \in [Keys -> Keys \cup {None}], NEW new \in [Keys -> Keys \cup {None}],
         NEW S \in SUBSET Keys, Closed(old, S), \A a \in S : new[a] = old[a], NEW k \in S
  PROVE  Ancestry(new, k) = Ancestry(old, k) /\ Ancestry(new, k) \subseteq S
<1>1. k \in Keys /\ Ancestry(old, k) \subseteq S
  BY AncestryFacts
<1>2. Closed(new, Ancestry(old, k))
  BY <1>1, AncestryFacts DEF Closed
<1>3. Ancestry(new, k) \subseteq Ancestry(old, k)
  BY <1>1, <1>2, AncestryFacts
<1>4. Closed(old, Ancestry(new, k))
  BY <1>1, <1>3, AncestryFacts DEF Closed
<1>5. Ancestry(old, k) \subseteq Ancestry(new, k)
  BY <1>1, <1>4, AncestryFacts
<1> QED BY <1>1, <1>3, <1>5

(* A producer's events have their ancestors on record, in full and for     *)
(* good: the recorded identities are closed under "parent", and a message  *)
(* changes no edge of theirs.                                              *)
THEOREM AlwaysProducerComplete == Spec => ProducerComplete
<1>1. ASSUME HistoryInv, HistoryInv', [Next]_vars, RequireKnownParents,
             NEW k \in Keys, Known(tracker, k)
      PROVE  /\ Ancestry(tracker'.parents, k) = Ancestry(tracker.parents, k)
             /\ \A a \in Ancestry(tracker'.parents, k) : Known(tracker', a)
  <2>1. DEFINE S == {a \in Keys : Known(tracker, a)}
  <2>2. /\ tracker.parents \in [Keys -> Keys \cup {None}]
        /\ tracker'.parents \in [Keys -> Keys \cup {None}]
    BY <1>1 DEF HistoryInv, TypeOK, Trackers
  <2>3. ParentsKnown(tracker)
    BY <1>1 DEF HistoryInv, Consistent
  <2>4. Closed(tracker.parents, S)
    BY <2>3 DEF Closed, ParentsKnown, Known
  <2>5. \A a \in S : tracker'.parents[a] = tracker.parents[a] /\ Known(tracker', a)
    BY <1>1, IdentityStep
  <2>6. S \in SUBSET Keys /\ k \in S
    BY <1>1
  <2> HIDE DEF S
  <2>7. /\ Ancestry(tracker'.parents, k) = Ancestry(tracker.parents, k)
        /\ Ancestry(tracker'.parents, k) \subseteq S
    BY <2>2, <2>4, <2>5, <2>6, ChainIsLocal
  <2> QED BY <2>5, <2>7
<1>2. HistoryInv /\ HistoryInv' /\ [Next]_vars =>
        [RequireKnownParents =>
           \A k \in Keys : Known(tracker, k) =>
             /\ Ancestry(tracker'.parents, k) = Ancestry(tracker.parents, k)
             /\ \A a \in Ancestry(tracker'.parents, k) : Known(tracker', a)]_vars
  BY <1>1
<1> QED BY <1>2, HistoryInvariant, PTL DEF Spec, ProducerComplete

-----------------------------------------------------------------------------
(* The loop of accept is a walk from the new parent up: Cursor.            *)
Cursor(parents, parent, c) ==
  /\ c \in [Nat -> Keys \cup {None}]
  /\ c[0] = parent
  /\ \A n \in Nat : c[n + 1] = IF c[n] = None THEN None ELSE parents[c[n]]

(* The walk from a parent up, without a bound, is a function of the number *)
(* of its steps.                                                           *)
LEMMA CursorExists ==
  ASSUME NEW parents \in [Keys -> Keys \cup {None}], NEW parent \in Keys
  PROVE  \E c : Cursor(parents, parent, c)
<1>1. DEFINE step == [n \in Nat |-> [v \in Keys \cup {None} |-> IF v = None THEN None ELSE parents[v]]]
<1>2. step \in [Nat -> [Keys \cup {None} -> Keys \cup {None}]]
  OBVIOUS
<1>3. PICK c : Iterates(c, Keys \cup {None}, parent, step)
  <2> HIDE DEF step
  <2> QED BY <1>2, Recursion
<1>4. \A n \in Nat : c[n + 1] = IF c[n] = None THEN None ELSE parents[c[n]]
  BY <1>3 DEF Iterates
<1> QED BY <1>3, <1>4 DEF Cursor, Iterates

(* What ends the loop within its bound, said of the unbounded walk.        *)
LEMMA LoopFacts ==
  ASSUME NEW parents \in [Keys -> Keys \cup {None}], NEW parent \in Keys, NEW key \in Keys,
         NEW c, Cursor(parents, parent, c)
  PROVE  CursorMeetsSeen(parents, key, parent) <=>
           \E n \in 0..Cardinality(Keys) :
             c[n] # None /\ c[n] \in {key} \cup {c[i] : i \in 0..(n-1)}
<1>1. DEFINE last == Cardinality(Keys)
             Loop(f) == f = [n \in 0..last |-> IF n = 0 THEN parent
                              ELSE IF f[n-1] = None THEN None ELSE parents[f[n-1]]]
             cursor == CHOOSE f : Loop(f)
<1>2. last \in Nat
  BY FiniteAssumption, FS_CardinalityType
<1>3. Loop([n \in 0..last |-> c[n]])
  <2> DEFINE g == [n \in 0..last |-> c[n]]
  <2>1. ASSUME NEW n \in 0..last, n # 0 PROVE n - 1 \in 0..last /\ (n-1) \in Nat /\ (n - 1) + 1 = n
    BY <1>2, <2>1
  <2>2. ASSUME NEW n \in 0..last 
        PROVE g[n] = IF n = 0 THEN parent ELSE IF g[n-1] = None THEN None ELSE parents[g[n-1]]
    BY <1>2, <2>1 DEF Cursor
  <2> HIDE DEF last
  <2>3. DOMAIN g = 0..last
    OBVIOUS
  <2> QED BY <2>2
<1>4. Loop(cursor)
  <2> HIDE DEF Loop
  <2> QED BY <1>3
<1>5. \A n \in 0..last : cursor[n] = c[n]
  <2> HIDE DEF cursor, last
  <2> DEFINE S == {n \in Nat : n <= last => cursor[n] = c[n]}
  <2>1. 0 \in S
    BY <1>2, <1>4 DEF Cursor
  <2>2. ASSUME NEW n \in S PROVE n + 1 \in S
    <3>1. SUFFICES ASSUME n + 1 <= last PROVE cursor[n + 1] = c[n + 1]
      BY <2>2
    <3>2. n \in Nat /\ n <= last /\ n + 1 \in 0..last /\ n + 1 # 0 /\ (n + 1) - 1 = n
      BY <1>2, <2>2, <3>1
    <3>3. cursor[n + 1] = IF cursor[n] = None THEN None ELSE parents[cursor[n]]
      BY <1>4, <3>2
    <3>4. c[n + 1] = IF c[n] = None THEN None ELSE parents[c[n]]
      BY <3>2 DEF Cursor
    <3>5. cursor[n] = c[n]
      BY <2>2, <3>2
    <3> QED BY <3>3, <3>4, <3>5
  <2> HIDE DEF S
  <2>3. S = Nat
    <3>1. S \in SUBSET Nat
      BY DEF S
    <3> QED BY <2>1, <2>2, <3>1, SetInduction
  <2> QED BY <1>2, <2>3 DEF S
<1>6. CursorMeetsSeen(parents, key, parent) <=>
        \E n \in 0..last : cursor[n] # None /\ cursor[n] \in {key} \cup {cursor[i] : i \in 0..(n-1)}
  BY DEF CursorMeetsSeen
<1> HIDE DEF cursor, last
<1>7. ASSUME NEW n \in 0..last
      PROVE  cursor[n] = c[n] /\ {cursor[i] : i \in 0..(n-1)} = {c[i] : i \in 0..(n-1)}
  <2>1. \A i \in 0..(n-1) : cursor[i] = c[i]
    BY <1>2, <1>5
  <2> QED BY <1>5, <2>1
<1> QED BY <1>6, <1>7 DEF last

(* A walk that has come to an end stays there.                             *)
LEMMA CursorStaysNone ==
  ASSUME NEW parents \in [Keys -> Keys \cup {None}], NEW parent \in Keys,
         NEW c, Cursor(parents, parent, c), NEW m \in Nat, c[m] = None
  PROVE  \A n \in Nat : m <= n => c[n] = None
<1> DEFINE S == {n \in Nat : m <= n => c[n] = None}
<1>1. 0 \in S
  OBVIOUS
<1>2. ASSUME NEW n \in S PROVE n + 1 \in S
  <2>1. n \in Nat /\ (m <= n => c[n] = None)
    OBVIOUS
  <2>2. c[n + 1] = IF c[n] = None THEN None ELSE parents[c[n]]
    BY <2>1 DEF Cursor
  <2>3. m <= n + 1 => m <= n \/ m = n + 1
    BY <2>1
  <2> QED BY <2>1, <2>2, <2>3
<1>3. S \in SUBSET Nat
  OBVIOUS
<1> HIDE DEF S
<1>4. S = Nat
  BY <1>1, <1>2, <1>3, SetInduction
<1> QED BY <1>4 DEF S

(* The walk visits the ancestry of its start and nothing else.             *)
LEMMA CursorVisits ==
  ASSUME NEW parents \in [Keys -> Keys \cup {None}], NEW parent \in Keys,
         NEW c, Cursor(parents, parent, c), NEW a \in Keys
  PROVE  a \in Ancestry(parents, parent) <=> \E n \in Nat : c[n] = a
<1>1. DEFINE visited == {c[n] : n \in Nat} \ {None}
<1>2. parent \in visited /\ visited \in SUBSET Keys
  BY NoneAssumption DEF Cursor
<1>3. Closed(parents, visited)
  <2>1. SUFFICES ASSUME NEW k \in visited, parents[k] # None PROVE parents[k] \in visited
    BY DEF Closed
  <2>2. PICK n \in Nat : c[n] = k
    OBVIOUS
  <2>3. c[n + 1] = parents[k] /\ n + 1 \in Nat
    BY <2>2 DEF Cursor
  <2> QED BY <2>1, <2>3
<1>4. ASSUME a \in Ancestry(parents, parent) PROVE \E n \in Nat : c[n] = a
  <2>1. a \in visited
    <3> HIDE DEF visited
    <3> QED BY <1>2, <1>3, <1>4, AncestryFacts
  <2> QED BY <2>1
<1>5. ASSUME NEW n \in Nat, c[n] = a PROVE a \in Ancestry(parents, parent)
  <2> DEFINE S == {i \in Nat : c[i] # None => c[i] \in Ancestry(parents, parent)}
  <2>1. 0 \in S
    BY AncestryFacts DEF Cursor
  <2>2. ASSUME NEW i \in S PROVE i + 1 \in S
    <3>1. SUFFICES ASSUME c[i + 1] # None PROVE c[i + 1] \in Ancestry(parents, parent)
      OBVIOUS
    <3>2. c[i] # None /\ c[i + 1] = parents[c[i]]
      BY <3>1 DEF Cursor
    <3>3. c[i] \in Ancestry(parents, parent)
      BY <3>2
    <3>4. Closed(parents, Ancestry(parents, parent))
      BY AncestryFacts
    <3> QED BY <3>1, <3>2, <3>3, <3>4 DEF Closed
  <2>3. S \in SUBSET Nat
    OBVIOUS
  <2> HIDE DEF S
  <2>4. n \in S
    BY <2>1, <2>2, <2>3, SetInduction
  <2> QED BY <2>4, <1>5, NoneAssumption DEF S
<1> QED BY <1>4, <1>5

(* Without a cycle, no identity comes twice in a walk.                     *)
LEMMA CursorNeverReturns ==
  ASSUME NEW parents \in [Keys -> Keys \cup {None}], NoCycle(parents), NEW parent \in Keys,
         NEW c, Cursor(parents, parent, c),
         NEW i \in Nat, NEW j \in Nat, i < j, c[i] = c[j]
  PROVE  c[j] = None
<1>1. SUFFICES ASSUME c[j] # None PROVE FALSE
  OBVIOUS
<1>2. ASSUME NEW k \in i..j PROVE k \in Nat /\ c[k] \in Keys /\ c[k] # None
  <2>1. k \in Nat /\ k <= j
    OBVIOUS
  <2>2. c[k] # None
    BY <1>1, <2>1, CursorStaysNone
  <2> QED BY <2>1, <2>2 DEF Cursor
<1>3. DEFINE S == {c[k] : k \in i..(j - 1)}
<1>4. S \in SUBSET Keys /\ S # {}
  <2>1. i \in i..(j - 1) /\ \A k \in i..(j - 1) : k \in i..j
    OBVIOUS
  <2> QED BY <1>2, <2>1
<1>5. ASSUME NEW k \in S PROVE parents[k] \in S
  <2>1. PICK x \in i..(j - 1) : k = c[x]
    OBVIOUS
  <2>2. x \in Nat /\ x \in i..j /\ x + 1 \in i..j
    OBVIOUS
  <2>3. c[x + 1] = parents[k]
    BY <1>2, <2>1, <2>2 DEF Cursor
  <2>4. CASE x + 1 = j
    <3>1. i \in i..(j - 1)
      OBVIOUS
    <3> QED BY <2>3, <2>4, <3>1
  <2>5. CASE x + 1 # j
    <3>1. x + 1 \in i..(j - 1)
      BY <2>2, <2>5
    <3> QED BY <2>3, <3>1
  <2> QED BY <2>4, <2>5
<1> HIDE DEF S
<1> QED BY <1>4, <1>5 DEF NoCycle

(* So a walk goes through no more identities than there are.               *)
LEMMA CursorIsShort ==
  ASSUME NEW parents \in [Keys -> Keys \cup {None}], NoCycle(parents), NEW parent \in Keys,
         NEW c, Cursor(parents, parent, c), NEW n \in Nat, c[n] # None
  PROVE  n \in 0..Cardinality(Keys)
<1>1. Cardinality(Keys) \in Nat
  BY FiniteAssumption, FS_CardinalityType
<1>2. SUFFICES ASSUME Cardinality(Keys) < n PROVE FALSE
  BY <1>1
<1>3. DEFINE f == [i \in 0..n |-> c[i]]
<1>4. f \in [0..n -> Keys]
  <2>1. ASSUME NEW i \in 0..n PROVE c[i] \in Keys
    <3>1. i \in Nat /\ i <= n
      OBVIOUS
    <3>2. c[i] # None
      BY <3>1, CursorStaysNone
    <3> QED BY <3>1, <3>2 DEF Cursor
  <2> QED BY <2>1
<1>5. IsFiniteSet(0..n) /\ Cardinality(0..n) = n + 1
  BY FS_Interval
<1> HIDE DEF f
<1>6. PICK x \in 0..n, y \in 0..n : x # y /\ f[x] = f[y]
  BY <1>1, <1>2, <1>4, <1>5, FiniteAssumption, FS_PigeonHole
<1>7. x \in Nat /\ y \in Nat /\ c[x] = c[y] /\ (x < y \/ y < x)
  BY <1>6 DEF f
<1>8. c[x] = None
  BY <1>7, CursorNeverReturns
<1>9. c[n] = None
  BY <1>7, <1>8, CursorStaysNone
<1> QED BY <1>9

(* In a history without cycles the loop meets the key exactly when the key *)
(* is an ancestor of its parent.                                           *)
LEMMA LoopIsExact ==
  ASSUME NEW parents \in [Keys -> Keys \cup {None}], NoCycle(parents),
         NEW key \in Keys, NEW parent \in Keys
  PROVE  CursorMeetsSeen(parents, key, parent) <=> key \in Ancestry(parents, parent)
<1>1. PICK c : Cursor(parents, parent, c)
  BY CursorExists
<1>2. CursorMeetsSeen(parents, key, parent) <=>
        \E n \in 0..Cardinality(Keys) :
          c[n] # None /\ c[n] \in {key} \cup {c[i] : i \in 0..(n-1)}
  BY <1>1, LoopFacts
<1>3. Cardinality(Keys) \in Nat
  BY FiniteAssumption, FS_CardinalityType
<1>4. ASSUME NEW n \in 0..Cardinality(Keys), c[n] # None, c[n] \in {c[i] : i \in 0..(n-1)}
      PROVE  FALSE
  <2>1. PICK i \in 0..(n - 1) : c[i] = c[n]
    BY <1>4
  <2>2. i \in Nat /\ n \in Nat /\ i < n
    BY <1>3
  <2> QED BY <1>1, <1>4, <2>1, <2>2, CursorNeverReturns
<1>5. ASSUME NEW n \in Nat, c[n] = key
      PROVE  n \in 0..Cardinality(Keys) /\ c[n] # None
  BY <1>1, <1>5, NoneAssumption, CursorIsShort
<1>6. \A n \in 0..Cardinality(Keys) : n \in Nat
  BY <1>3
<1>7. CursorMeetsSeen(parents, key, parent) <=> \E n \in Nat : c[n] = key
  BY <1>2, <1>4, <1>5, <1>6, NoneAssumption
<1> QED BY <1>1, <1>7, CursorVisits

(* task_lineage.py:85-91: the loop that looks for a cycle raises exactly   *)
(* when the new edge would close one, and never for lack of steps: for     *)
(* every set of identities and every history.                              *)
THEOREM WalkAlwaysFindsAncestry == Spec => []WalkFindsAncestry
<1>1. HistoryInv => WalkFindsAncestry
  BY LoopIsExact DEF HistoryInv, TypeOK, Trackers, Consistent, WalkFindsAncestry
<1> QED BY <1>1, HistoryInvariant, PTL

-------------------------------------------------------------------------------
(* The producer's history says of a published event what the event says.   *)
Published(p) ==
  /\ p \in EventMessages
  /\ ~ ReportsNoChange(p)
  /\ tracker.events[Key(p)] = p.view
  /\ tracker.parents[Key(p)] = Parent(p)

(* What s knows, it knows from the producer.                               *)
PartOfProducer(t) ==
  /\ t \in Trackers
  /\ EdgesOfEvents(t)
  /\ \A k \in Keys : t.events[k] # NoEvent =>
       /\ t.events[k] = tracker.events[k]
       /\ t.parents[k] = tracker.parents[k]

SubscribersInv ==
  /\ HistoryInv
  /\ \A p \in log : Published(p)
  /\ subs = [s \in Subscribers |-> subs[s]]
  /\ \A s \in Subscribers : PartOfProducer(subs[s])

-----------------------------------------------------------------------------
(* The method a message travels under changes none of its other parts.     *)
LEMMA MethodIsTransport ==
  ASSUME NEW m \in EventMessages, NEW method \in {"hooks/intercept", "hooks/observe"}
  PROVE  LET d == [m EXCEPT !.method = method]
         IN  /\ d \in EventMessages
             /\ Key(d) = Key(m) /\ Parent(d) = Parent(m)
             /\ d.view = m.view /\ d.effect = m.effect
<1>1. DEFINE d == [m EXCEPT !.method = method]
<1>2. PICK type \in EventTypes :
        m \in [method : {"hooks/intercept", "hooks/observe"},
               source : Sources, id : Ids, parentEventId : Ids \cup {None},
               view   : {[type |-> type, subject |-> p[1], operation |-> p[2]] :
                            p \in PayloadOf(type)},
               effect : IF type \in ActualTypes THEN Effects ELSE {"applied"}]
  BY DEF EventMessages
<1>3. /\ d.source = m.source /\ d.id = m.id /\ d.parentEventId = m.parentEventId
      /\ d.view = m.view /\ d.effect = m.effect
  BY <1>2
<1>4. d \in [method : {"hooks/intercept", "hooks/observe"},
             source : Sources, id : Ids, parentEventId : Ids \cup {None},
             view   : {[type |-> type, subject |-> p[1], operation |-> p[2]] :
                          p \in PayloadOf(type)},
             effect : IF type \in ActualTypes THEN Effects ELSE {"applied"}]
  BY <1>2
<1> HIDE DEF d
<1>5. d \in EventMessages
  BY <1>4 DEF EventMessages
<1> QED BY <1>3, <1>5 DEF Key, Parent, d

(* A delivery of a published event is itself published.                    *)
LEMMA DeliverableFacts ==
  ASSUME NEW p, Published(p), NEW m \in Deliverable(p)
  PROVE  Published(m) /\ ~ InterceptsActual(m)
<1>1. p \in EventMessages
  BY DEF Published
<1>2. /\ m \in EventMessages
      /\ Key(m) = Key(p) /\ Parent(m) = Parent(p)
      /\ m.view = p.view /\ m.effect = p.effect
  BY <1>1, MethodIsTransport DEF Deliverable
<1> QED BY <1>2 DEF Published, ReportsNoChange, Deliverable

(* A part of an acyclic history has no longer walks than the whole.        *)
LEMMA AncestryOfPart ==
  ASSUME NEW whole \in [Keys -> Keys \cup {None}],
         NEW part  \in [Keys -> Keys \cup {None}],
         \A k \in Keys : part[k] # None => part[k] = whole[k],
         NEW key \in Keys
  PROVE  Ancestry(part, key) \subseteq Ancestry(whole, key)
<1>1. Closed(part, Ancestry(whole, key))
  BY AncestryFacts DEF Closed
<1> QED BY <1>1, AncestryFacts

(* A connection that knows part of the history accepts any published event.*)
LEMMA PartAcceptsPublished ==
  ASSUME HistoryInv, NEW t, PartOfProducer(t),
         NEW m, Published(m), ~ InterceptsActual(m)
  PROVE  ~ Refuses(t, m, FALSE)
<1>1. /\ Key(m) \in Keys
      /\ Parent(m) \in Keys \cup {None}
      /\ tracker.parents \in [Keys -> Keys \cup {None}]
      /\ t.parents \in [Keys -> Keys \cup {None}]
      /\ m.view # NoEvent
  BY MessageFacts, ViewIsAnEvent
     DEF Published, HistoryInv, TypeOK, PartOfProducer, Trackers
<1>2. ~ IdentityReused(t, m)
  BY DEF IdentityReused, SameIdentity, Known, PartOfProducer, Published
<1>3. ~ ClosesCycle(t, m)
  <2>1. SUFFICES ASSUME ClosesCycle(t, m) PROVE FALSE
    OBVIOUS
  <2>2. \A k \in Keys : t.parents[k] # None => t.parents[k] = tracker.parents[k]
    BY DEF PartOfProducer, EdgesOfEvents
  <2>3. Parent(m) # None /\ Parent(m) \in Keys
    BY <1>1, <2>1 DEF ClosesCycle
  <2>4. Key(m) \in Ancestry(tracker.parents, Parent(m))
    BY <1>1, <2>1, <2>2, <2>3, AncestryOfPart DEF ClosesCycle
  <2>5. [tracker.parents EXCEPT ![Key(m)] = Parent(m)] = tracker.parents
    BY <1>1 DEF Published
  <2>6. NoCycle(tracker.parents)
    BY DEF HistoryInv, Consistent
  <2> QED BY <1>1, <2>3, <2>4, <2>5, <2>6, WalkIsExact
<1>4. PairsAgree(tracker)
  BY DEF HistoryInv, Consistent
<1>5. ~ DisagreesWithParent(t, m)
  BY <1>1, <1>4 DEF DisagreesWithParent, Known, PairsAgree, PartOfProducer, Published
<1>6. ~ DisagreesWithChild(t, m)
  BY <1>1, <1>4 DEF DisagreesWithChild, Known, PairsAgree, PartOfProducer, Published
<1> QED BY <1>2, <1>3, <1>5, <1>6 DEF Refuses, Published

(* A delivery leaves the connection with a part of the producer's history. *)
LEMMA DeliveredPart ==
  ASSUME HistoryInv, NEW t, PartOfProducer(t), NEW m, Published(m)
  PROVE  PartOfProducer(Record(t, m))
<1>1. t \in Trackers /\ m \in EventMessages
  BY DEF PartOfProducer, Published
<1>2. /\ Record(t, m) \in Trackers
      /\ Record(t, m).events[Key(m)] = m.view
      /\ Record(t, m).parents[Key(m)] = Parent(m)
      /\ \A k \in Keys \ {Key(m)} :
           /\ Record(t, m).events[k] = t.events[k]
           /\ Record(t, m).parents[k] = t.parents[k]
      /\ m.view # NoEvent
  BY <1>1, RecordFacts, MessageFacts, ViewIsAnEvent
<1> QED BY <1>2 DEF PartOfProducer, Published, EdgesOfEvents

(* A known event is stated again as it is on record.                       *)
LEMMA RestatedAsBefore ==
  ASSUME tracker \in Trackers, NEW m \in EventMessages, Publish(m),
         tracker.events[Key(m)] # NoEvent
  PROVE  m.view = tracker.events[Key(m)] /\ Parent(m) = tracker.parents[Key(m)]
<1>1. Key(m) \in Keys /\ m.view \in Views /\ tracker.events[Key(m)] \in Views
  BY MessageFacts DEF Trackers
<1>2. Known(tracker, Key(m))
  BY <1>1 DEF Known
<1>3. SameIdentity(tracker.events[Key(m)], tracker.parents[Key(m)], m)
  BY <1>2 DEF Publish, Accept, Refuses, IdentityReused
<1>4. /\ tracker.events[Key(m)].type = m.view.type
      /\ tracker.parents[Key(m)] = Parent(m)
  BY <1>3 DEF SameIdentity
<1>5. tracker.events[Key(m)].operation = m.view.operation
  BY <1>2, <1>4 DEF Publish, SaysTheSame
<1>6. tracker.events[Key(m)].subject = m.view.subject
  <2>1. CASE m.view.type \in TaskTypes
    BY <1>3, <2>1 DEF SameIdentity
  <2>2. CASE m.view.type \notin TaskTypes
    BY <1>2, <1>4, <2>2 DEF Publish, SaysTheSame
  <2> QED BY <2>1, <2>2
<1> QED BY <1>1, <1>4, <1>5, <1>6 DEF Views

LEMMA SubscribersStart == SubscribersInit => SubscribersInv
<1>1. SUFFICES ASSUME SubscribersInit PROVE SubscribersInv
  OBVIOUS
<1>2. HistoryInv
  BY <1>1, HistoryInit DEF SubscribersInit
<1>3. NewTracker \in Trackers /\ EdgesOfEvents(NewTracker)
  BY DEF NewTracker, Trackers, EdgesOfEvents
<1>4. \A k \in Keys : NewTracker.events[k] = NoEvent
  BY DEF NewTracker
<1> QED BY <1>1, <1>2, <1>3, <1>4 DEF SubscribersInit, SubscribersInv, PartOfProducer

LEMMA SubscribersStep ==
  SubscribersInv /\ [SubscribersNext]_subscriberVars => SubscribersInv'
<1>1. SUFFICES ASSUME SubscribersInv, [SubscribersNext]_subscriberVars
               PROVE  SubscribersInv'
  OBVIOUS
<1>2. CASE UNCHANGED subscriberVars
  BY <1>1, <1>2 DEF subscriberVars, SubscribersInv, HistoryInv, TypeOK, Consistent,
     NoCycle, PairsAgree, ParentsKnown, EdgesOfEvents, Known, Published, PartOfProducer
<1>3. ASSUME NEW m \in EventMessages, Publish(m) PROVE SubscribersInv'
  <2>1. HistoryInv'
    BY <1>1, <1>3, HistoryStep DEF SubscribersInv, Publish, Next
  <2>2. /\ tracker' = Record(tracker, m)
        /\ tracker \in Trackers
        /\ Key(m) \in Keys
        /\ ~ ReportsNoChange(m)
    BY <1>1, <1>3, MessageFacts
       DEF Publish, Accept, Refuses, SubscribersInv, HistoryInv, TypeOK
  <2>3. /\ Key(m) \in Keys
        /\ tracker'.events[Key(m)] = m.view
        /\ tracker'.parents[Key(m)] = Parent(m)
        /\ \A k \in Keys : tracker.events[k] # NoEvent =>
             /\ tracker'.events[k] = tracker.events[k]
             /\ tracker'.parents[k] = tracker.parents[k]
    <3>1. /\ tracker'.events[Key(m)] = m.view
          /\ tracker'.parents[Key(m)] = Parent(m)
      BY <2>2, RecordFacts
    <3>2. ASSUME NEW k \in Keys, tracker.events[k] # NoEvent, k = Key(m)
          PROVE  /\ tracker'.events[k] = tracker.events[k]
                 /\ tracker'.parents[k] = tracker.parents[k]
      BY <1>3, <2>2, <3>1, <3>2, RestatedAsBefore
    <3>3. ASSUME NEW k \in Keys, k # Key(m)
          PROVE  /\ tracker'.events[k] = tracker.events[k]
                 /\ tracker'.parents[k] = tracker.parents[k]
      <4>1. k \in Keys \ {Key(m)}
        BY <3>3
      <4> QED BY <2>2, <4>1, RecordFacts
    <3> QED BY <2>2, <3>1, <3>2, <3>3
  <2>4. ASSUME NEW p \in log' PROVE Published(p)'
    <3>1. CASE p \in log
      <4>1. Published(p) /\ Key(p) \in Keys /\ p.view # NoEvent
        BY <1>1, <3>1, MessageFacts, ViewIsAnEvent DEF SubscribersInv, Published
      <4> QED BY <2>3, <4>1 DEF Published
    <3>2. CASE p = [m EXCEPT !.method = "hooks/observe"]
      BY <2>2, <2>3, <3>2, MethodIsTransport DEF Published, ReportsNoChange
    <3> QED BY <1>3, <3>1, <3>2 DEF Publish
  <2>5. ASSUME NEW s \in Subscribers PROVE PartOfProducer(subs[s])'
    BY <1>1, <1>3, <2>3
       DEF SubscribersInv, PartOfProducer, EdgesOfEvents, Publish
  <2>6. (subs = [s \in Subscribers |-> subs[s]])'
    BY <1>1, <1>3 DEF SubscribersInv, Publish
  <2> QED BY <2>1, <2>4, <2>5, <2>6 DEF SubscribersInv
<1>4. ASSUME NEW s \in Subscribers, NEW p \in log, NEW m \in Deliverable(p),
             Deliver(s, m)
      PROVE  SubscribersInv'
  <2>1. Published(m)
    BY <1>1, <1>4, DeliverableFacts DEF SubscribersInv
  <2>2. UNCHANGED tracker /\ UNCHANGED log
    BY <1>4 DEF Deliver
  <2>3. HistoryInv' /\ \A q \in log' : Published(q)'
    BY <1>1, <2>2 DEF SubscribersInv, HistoryInv, TypeOK, Consistent, NoCycle,
       PairsAgree, ParentsKnown, EdgesOfEvents, Known, Published
  <2>4. subs' = [r \in Subscribers |->
                   IF r = s THEN Record(subs[s], m) ELSE subs[r]]
    BY <1>1, <1>4 DEF Deliver, SubscribersInv
  <2>5. PartOfProducer(Record(subs[s], m))
    BY <1>1, <1>4, <2>1, DeliveredPart DEF SubscribersInv
  <2>6. \A r \in Subscribers : PartOfProducer(subs'[r])
    BY <1>1, <2>4, <2>5 DEF SubscribersInv
  <2>7. \A r \in Subscribers : PartOfProducer(subs[r])'
    BY <2>2, <2>6 DEF PartOfProducer, EdgesOfEvents
  <2>8. (subs = [r \in Subscribers |-> subs[r]])'
    BY <2>4
  <2> QED BY <2>3, <2>7, <2>8 DEF SubscribersInv
<1> QED BY <1>1, <1>2, <1>3, <1>4 DEF SubscribersNext

(* The invariant of the producer and all its subscribers.                  *)
THEOREM SubscribersInvariant == SubscribersSpec => []SubscribersInv
BY SubscribersStart, SubscribersStep, PTL DEF SubscribersSpec

(* No connection ever refuses a published event.                           *)
THEOREM NeverFalseAlarm == SubscribersSpec => []NoFalseAlarm
<1>1. SubscribersInv => NoFalseAlarm
  BY DeliverableFacts, PartAcceptsPublished DEF SubscribersInv, NoFalseAlarm
<1> QED BY <1>1, SubscribersInvariant, PTL

(* Every connection's history is a part of the producer's.                 *)
THEOREM AlwaysSubscriberView == SubscribersSpec => []SubscriberView
<1>1. SubscribersInv => SubscriberView
  BY DEF SubscribersInv, SubscriberView, PartOfProducer, Known
<1> QED BY <1>1, SubscribersInvariant, PTL
==================================================================================
