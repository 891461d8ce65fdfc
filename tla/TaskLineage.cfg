SPECIFICATION Spec
CONSTANTS
  Sources = {h1}
  Ids = {e1, e2, e3}
  EventTypes <- AllTypes
  TaskIds = {t1, t2}
  TaskOperations = {"create", "update"}
  WorkspaceKinds = {cwd, roots}
  None = None
  NoEvent = NoEvent
  RequireKnownParents = FALSE
SYMMETRY Symmetry
INVARIANTS Acyclic PairConsistent WalkFindsAncestry VerdictExact
PROPERTIES HSpec
