SPECIFICATION Spec
CONSTANTS
  Deliveries = {d1}
  Configs <- PairConfigs
  MaxAttachments = 2
  EventSize = 1
  Unpublished = Unpublished
  RequestIds <- MCRequestIds
  Posts <- StrangerPosts
  Tokens = {"one", "two", "both", "none"}
  Scopes = {s1, s2}
  Refs = {r1, r2, r3}
  Bodies = {b1, b2, big}
  Size <- MCSize
  Sha256 <- MCSha256
  UploadTokens <- MCUploadTokens
  EventTokens <- MCEventTokens
  MaxBytes = 4
  NoBody = NoBody
  NoReceipt = NoReceipt
  NoRequest = NoRequest
  NoOne = NoOne
  b1 = b1
  b2 = b2
  big = big
  s1 = s1
  s2 = s2
  q0 = q0
  r1 = r1
CHECK_DEADLOCK FALSE
INVARIANTS StoreIntegrity EventsFollowUploads RepliesAreTrue ReferencesNameOwnBytes
PROPERTIES PublishesWhatWasAttached DeliveryEnds EveryRequestEnds
