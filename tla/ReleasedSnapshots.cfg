SPECIFICATION ReleaseSpec
CONSTANTS
  SNAPSHOT_ROOTS <- MCRoots
  Versions = {1, 2, 3}
  Revisions = {r1, r2}
  Conforming <- MCConforming
  Absent = Absent
  Untagged = Untagged
  InOrder = TRUE
  MaxChanges = 2
SYMMETRY Symmetry
INVARIANTS ReleasedUnchanged TagsCoherent
