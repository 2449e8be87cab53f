CONSTANTS
  user = user
  root = root
  userKey = userKey
  ownKey = ownKey
  rootKey = rootKey
  KeyId = {rootKey, ownKey}
  Owner <- MCOwner
  Name <- MCName
  Caller = {c1}
  Admin = {a1}
  Principal <- MCPrincipal
  Unrestricted = {}
  AdminScope = {rootKey}
  LegacyAllowed = FALSE
  AnonymousAllowed = FALSE
  CallAsk <- OwnKeyCall
  AdminAsk <- KeyCreation
  Start <- StartKeyless
  Expiring = {}
  Cap = 4
SPECIFICATION Spec
INVARIANTS KeyInOrderIsAccepted
