------------------------------ MODULE LineageRules ------------------------------
(***************************************************************************)
(* The checks interop/task_lineage.py makes on one canonical message       *)
(* against the history of one receiving connection.  A tracker is the pair *)
(* of dictionaries the class keeps, self.events and self.parents, as total *)
(* functions over event identities: NoEvent stands for "key not in         *)
(* self.events" and None for what parents.get(key) returns when there is   *)
(* no edge.                                                                *)
(***************************************************************************)
EXTENDS Naturals

CONSTANTS
  Sources,         \* event sources (harness URIs)
  Ids,             \* event ids, unique within a source
  EventTypes,      \* the event types messages may carry
  TaskIds,         \* durable task identities
  TaskOperations,  \* task operations; "update" is the one the checks name
  WorkspaceKinds,  \* workspace.kind values
  None,            \* absent parentEventId
  NoEvent          \* identity never recorded

TaskBefore      == "task.change.before"
TaskAfter       == "task.change.after"
WorkspaceBefore == "workspace.change.before"
WorkspaceAfter  == "workspace.change.after"
FileChanged     == "file.changed"

TaskTypes      == {TaskBefore, TaskAfter}
WorkspaceTypes == {WorkspaceBefore, WorkspaceAfter}
ActualTypes    == {TaskAfter, WorkspaceAfter, FileChanged}

Keys == Sources \X Ids

ASSUME NoneAssumption    == None \notin Keys /\ None \notin Ids
ASSUME NoEventAssumption ==
  \A type \in EventTypes, subject \in TaskIds \cup WorkspaceKinds \cup {None},
     operation \in TaskOperations \cup {None} :
       NoEvent # [type |-> type, subject |-> subject, operation |-> operation]

(***************************************************************************)
(* What later checks read of a stored event: its type, the identity of its *)
(* payload (task id or workspace kind) and, for a task, the operation.     *)
(***************************************************************************)
Views == [type : EventTypes,
          subject : TaskIds \cup WorkspaceKinds \cup {None},
          operation : TaskOperations \cup {None}]

(***************************************************************************)
(* What an actual change reports as changed; no check reads it of another  *)
(* event.  "applied": fields that differ from the prior state, or whose    *)
(* prior state is unknown.  "empty": no changed field and no prior state.  *)
(* "same": a prior state that already holds every changed field (for       *)
(* file.changed, an update whose before and after references are           *)
(* identical).                                                             *)
(***************************************************************************)
Effects == {"applied", "empty", "same"}

PayloadOf(type) ==
  IF type \in TaskTypes THEN TaskIds \X TaskOperations
  ELSE IF type \in WorkspaceTypes THEN WorkspaceKinds \X {None}
  ELSE {<<None, None>>}

(* Canonical event messages: what remains after schema validation.         *)
EventMessages ==
  UNION { [method : {"hooks/intercept", "hooks/observe"},
           source : Sources, id : Ids, parentEventId : Ids \cup {None},
           view   : {[type |-> type, subject |-> p[1], operation |-> p[2]] :
                        p \in PayloadOf(type)},
           effect : IF type \in ActualTypes THEN Effects ELSE {"applied"}] :
          type \in EventTypes }

Trackers == [events : [Keys -> Views \cup {NoEvent}],
             parents : [Keys -> Keys \cup {None}]]

NewTracker == [events  |-> [k \in Keys |-> NoEvent],
               parents |-> [k \in Keys |-> None]]

Key(m)    == <<m.source, m.id>>
Parent(m) == IF m.parentEventId = None THEN None
             ELSE <<m.source, m.parentEventId>>

Known(tracker, key) == key \in Keys /\ tracker.events[key] # NoEvent

-----------------------------------------------------------------------------
(* Actual changes are observe-only, and must report a change.              *)
InterceptsActual(m) ==
  m.method = "hooks/intercept" /\ m.view.type \in ActualTypes

ReportsNoChange(m) ==
  \/ m.view.type = TaskAfter /\ m.view.operation = "update"
       /\ m.effect \in {"empty", "same"}
  \/ m.view.type \in {WorkspaceAfter, FileChanged} /\ m.effect = "same"

(* A redelivered identity keeps its type, its parent and its task; other   *)
(* payload may differ between subscription views.                          *)
SameIdentity(view, parent, m) ==
  /\ view.type = m.view.type
  /\ parent = Parent(m)
  /\ m.view.type \in TaskTypes => view.subject = m.view.subject

\* mutant of IdentityReused: only the type is compared
TypeReused(tracker, m) ==
  /\ Known(tracker, Key(m))
  /\ tracker.events[Key(m)].type # m.view.type

IdentityReused(tracker, m) ==
  /\ Known(tracker, Key(m))
  /\ ~ SameIdentity(tracker.events[Key(m)], tracker.parents[Key(m)], m)

(***************************************************************************)
(* The ancestors the cursor visits from a key: the least set that holds    *)
(* the key and follows every recorded edge.  An unknown key has no         *)
(* recorded edge and ends the walk.                                        *)
(***************************************************************************)
Closed(parents, S) == \A k \in S : parents[k] # None => parents[k] \in S

Ancestry(parents, key) ==
  {a \in Keys : \A S \in SUBSET Keys : key \in S /\ Closed(parents, S) => a \in S}

\* mutant of ClosesCycle: the walk stops at the declared parent
IsOwnParent(tracker, m) == Parent(m) = Key(m)

(* The walk from the declared parent comes back to the message's own key.  *)
ClosesCycle(tracker, m) ==
  /\ Parent(m) # None
  /\ Key(m) \in Ancestry(tracker.parents, Parent(m))

(* An after event agrees with the proposal it names as parent.             *)
CheckPair(parent, child) ==
  /\ child.type = TaskAfter /\ parent.type = TaskBefore
       => parent.subject = child.subject /\ parent.operation = child.operation
  /\ child.type = WorkspaceAfter /\ parent.type = WorkspaceBefore
       => parent.subject = child.subject

\* mutant of DisagreesWithParent: proposal and outcome swapped
DisagreesReversed(tracker, m) ==
  /\ Known(tracker, Parent(m))
  /\ ~ CheckPair(m.view, tracker.events[Parent(m)])

\* mutant of DisagreesWithParent: a parent that never arrived is an error
DisagreesOrMissing(tracker, m) ==
  /\ Parent(m) # None
  /\ Known(tracker, Parent(m)) => ~ CheckPair(tracker.events[Parent(m)], m.view)

DisagreesWithParent(tracker, m) ==
  /\ Known(tracker, Parent(m))
  /\ ~ CheckPair(tracker.events[Parent(m)], m.view)

\* mutant of DisagreesWithChild: late parents are not checked
NoLateCheck(tracker, m) == FALSE

(* Children that arrived before this, their late parent.                   *)
DisagreesWithChild(tracker, m) ==
  \E child \in Keys :
    /\ Known(tracker, child)
    /\ tracker.parents[child] = Key(m)
    /\ ~ CheckPair(m.view, tracker.events[child])

\* mutant of UnknownProducerParent: require_known_parents has no effect
AnyProducerParent(tracker, m) == FALSE

UnknownProducerParent(tracker, m) ==
  Parent(m) # None /\ ~ Known(tracker, Parent(m))

(* TaskLineage.accept raises LineageError: nothing has been stored yet.    *)
Refuses(tracker, m, require_known_parents) ==
  \/ InterceptsActual(m)
  \/ ReportsNoChange(m)
  \/ IdentityReused(tracker, m)
  \/ require_known_parents /\ UnknownProducerParent(tracker, m)
  \/ ClosesCycle(tracker, m)
  \/ DisagreesWithParent(tracker, m)
  \/ DisagreesWithChild(tracker, m)

\* mutant of Record: an edge to an unknown parent is dropped
RecordKnownParent(tracker, m) ==
  [events  |-> [tracker.events EXCEPT ![Key(m)] = m.view],
   parents |-> [tracker.parents EXCEPT ![Key(m)] =
                  IF Known(tracker, Parent(m)) THEN Parent(m) ELSE None]]

(* The two assignments that end accept.                                    *)
Record(tracker, m) ==
  [events  |-> [tracker.events EXCEPT ![Key(m)] = m.view],
   parents |-> [tracker.parents EXCEPT ![Key(m)] = Parent(m)]]
=============================================================================
