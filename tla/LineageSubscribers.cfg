SPECIFICATION SubscribersSpec
CONSTANTS
  Sources = {h1}
  Ids = {e1, e2, e3}
  EventTypes <- TaskHalf
  TaskIds = {t1}
  TaskOperations = {"create", "update"}
  WorkspaceKinds = {}
  None = None
  NoEvent = NoEvent
  RequireKnownParents = TRUE
  Subscribers = {s1, s2}
SYMMETRY Symmetry
INVARIANTS NoFalseAlarm SubscriberView
PROPERTY ProducerComplete
