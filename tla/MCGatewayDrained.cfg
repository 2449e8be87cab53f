CONSTANTS
  user = user
  root = root
  userKey = userKey
  ownKey = ownKey
  rootKey = rootKey
  KeyId = {rootKey, userKey}
  Owner <- MCOwner
  Name <- MCName
  Caller = {c1}
  Admin = {a1}
  Principal <- MCPrincipal
  Unrestricted = {}
  AdminScope = {rootKey}
  LegacyAllowed = FALSE
  AnonymousAllowed = FALSE
  CallAsk <- PlainCall
  AdminAsk <- Revocation
  Start <- StartInUse
  Expiring = {userKey}
  Cap = 2
SPECIFICATION Spec
INVARIANTS AuditKeepsGrowing
