CONSTANTS
  user = user
  root = root
  userKey = userKey
  ownKey = ownKey
  rootKey = rootKey
  KeyId = {rootKey, userKey}
  Owner <- MCOwner
  Name <- MCName
  Caller = {c1}
  Admin = {a1}
  Principal <- MCPrincipal
  Unrestricted = {}
  AdminScope = {rootKey}
  LegacyAllowed = TRUE
  AnonymousAllowed = FALSE
  CallAsk <- EveryCall
  AdminAsk <- EveryWrite
  Start <- StartBoth
  Expiring = {userKey}
  Cap = 2
SPECIFICATION FairSpec
INVARIANTS OnlyPermittedRun RefusedWithReason AnsweredIsRecorded TrailIsTrue
PROPERTIES HandlersSettle
