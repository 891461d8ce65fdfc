SPECIFICATION FreezeSpec
CONSTANTS
  SNAPSHOT_ROOTS <- MCRoots
  Versions = {v1, v2}
  Revisions = {"old", "new"}
  Conforming <- MCConforming
  Publishable <- MCPublishable
  Absent = Absent
INVARIANTS OneValidatedStaging CreatedIsComplete
PROPERTIES NeverOverwritten
