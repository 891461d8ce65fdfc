SPECIFICATION Spec
CONSTANTS
  Defs <- MCDefs
  ContentName = "ContentItem"
  Star = "*"
  Plan <- MCPlan
  Bases <- MCBases
  Placements <- MCPlacements
  Hosts <- MCHosts
  Sources = {s1, s2}
  GivenIds = {a}
  Indices <- MCIndices
  Words <- MCWords
  Nil = Nil
  None = None
  Empty = Empty
  WireRef = WireRef
  Pending = Pending
  MaxPlaced = 2
  MaxRounds = 2
  p1 = p1
  p2 = p2
  m1 = m1
  s1 = s1
  s2 = s2
  a = a
INVARIANTS
  PlansExact
  ProjectionFaithful
  IdentitiesOnce
  LanguagesAgree
CHECK_DEADLOCK FALSE
