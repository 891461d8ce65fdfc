----------------------------- MODULE MCTaskLineage -----------------------------
(* Bounded instances of TaskLineage for TLC. *)
EXTENDS EventHistory, TLC

(* The task types with one stand-in for the types accept does not own, and *)
(* the workspace and file types: each run takes one half.                  *)
TaskHalf      == TaskTypes \cup {"tool.call.before"}
AllTypes      == TaskHalf \cup WorkspaceTypes \cup {FileChanged}

Symmetry == Permutations(Ids) \cup Permutations(TaskIds \cup WorkspaceKinds)
=============================================================================
