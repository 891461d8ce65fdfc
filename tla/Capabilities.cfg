SPECIFICATION MCSpec
CONSTANTS
  Defs <- MCDefs
  Pascal <- MCPascal
  Catalogue <- DerivedCatalogue
  Counts <- MCCounts
  None = None
  Bad = Bad
  Supports <- MCSupports
  Listed <- MCListed
  Family <- MCFamily
  Timeouts <- MCTimeouts
  Policies = {open, closed}
  Contents = {metadata, body}
  MaxSelectors = 2
  Unset = Unset
INVARIANTS
  CatalogueExact
  DeclarationsConform
  LanguagesAgree
  
  SubscriptionsExact
CHECK_DEADLOCK FALSE
