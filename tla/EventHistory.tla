------------------------------ MODULE EventHistory ------------------------------
(***************************************************************************)
(* What a lineage checker promises, without the walk and without the       *)
(* incremental checks: it keeps a message exactly when the history with    *)
(* that message in it is consistent as a whole.                            *)
(***************************************************************************)
EXTENDS TaskLineage

Consistent(t) ==
  /\ NoCycle(t.parents)
  /\ PairsAgree(t)
  /\ RequireKnownParents => ParentsKnown(t)

(* The history remembers m's identity as m states it, or not at all.       *)
Admissible(t, m) ==
  /\ ~ InterceptsActual(m)
  /\ ~ ReportsNoChange(m)
  /\ Known(t, Key(m)) => SameIdentity(t.events[Key(m)], t.parents[Key(m)], m)

Keep(m) ==
  /\ tracker' = Record(tracker, m)
  /\ Admissible(tracker, m)
  /\ Consistent(tracker')

HNext == \E m \in EventMessages : Keep(m)

(* The history accept maintains: only messages that are admissible and     *)
(* leave the whole history consistent enter it.                            *)
HSpec == Init /\ [][HNext]_vars

(* accept's incremental checks are neither too weak nor too strong: on     *)
(* every reachable history a message is refused exactly when it is not     *)
(* admissible or the history with it would not be consistent.              *)
VerdictExact ==
  \A m \in EventMessages :
    Refuses(tracker, m, RequireKnownParents)
      <=> ~ (Admissible(tracker, m) /\ Consistent(Record(tracker, m)))
=============================================================================
