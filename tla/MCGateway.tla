------------------------------ MODULE MCGateway ------------------------------
(* Small sets of requests for TLC.                                         *)
EXTENDS Gateway, TLC

CONSTANTS
  user, root,              \* a restricted principal and an administrator
  userKey, ownKey, rootKey \* ownKey: one that the gateway names key_<uuid>

CallBy(cred, method, tool, listed) ==
  [cred |-> cred, method |-> method, tool |-> tool, listed |-> listed]
WriteBy(cred, change, target, key) ==
  [cred |-> cred, change |-> change, target |-> target, key |-> key]

MCOwner == [k \in KeyId |-> IF k = rootKey THEN root ELSE user]
MCName ==
  [k \in KeyId |-> CASE k = rootKey -> <<"k0">>
                     [] k = userKey -> <<"k1">>
                     [] k = ownKey  -> <<"key", "uuid">>]
MCPrincipal == {user, root}

Keys(present) == [k \in KeyId |-> IF k \in present THEN "active" ELSE "absent"]

(* A store in use, and one whose user has no key, policy or source yet. *)
InUse == [granted |-> {user}, keys |-> Keys({rootKey, userKey}), source |-> "enabled"]
Bare == [granted |-> {}, keys |-> Keys({rootKey}), source |-> "absent"]
StartBoth == {InUse, Bare}
StartInUse == {InUse}
StartKeyless == {[InUse EXCEPT !.keys = Bare.keys]}

(* Every kind of call and credential, one at a time. *)
EveryCall ==
  { CallBy(userKey, "call", "sql", TRUE), CallBy(userKey, "call", "redis", TRUE),
    CallBy(userKey, "call", "sql", FALSE), CallBy(userKey, "notify", "sql", TRUE),
    CallBy(userKey, "other", "sql", TRUE), CallBy(userKey, "call", "unknown", TRUE), CallBy("malformed", "call", "sql", TRUE),
    CallBy("none", "call", "sql", TRUE), CallBy("legacy", "call", "sql", TRUE),
    CallBy(rootKey, "call", "sql", TRUE) }

EveryWrite ==
  {WriteBy(rootKey, c, user, userKey) :
     c \in {"enable", "disable", "grant", "revoke", "create key",
            "enable source", "disable source", "invalid"}}
  \cup {WriteBy(rootKey, "disable", root, rootKey), WriteBy(userKey, "grant", user, userKey),
        WriteBy("none", "grant", user, userKey)}

(* For interleavings of several requests. *)
Revocation ==
  {WriteBy(rootKey, c, user, userKey) : c \in {"disable", "revoke", "disable source"}}
  \cup {WriteBy(rootKey, "enable", user, userKey)}

(* A key that the gateway names itself: key_<uuid>. *)
KeyCreation == {WriteBy(rootKey, "create key", user, ownKey)}
OwnKeyCall == {CallBy(ownKey, "call", "sql", TRUE)}
PlainCall == {CallBy(userKey, "call", "sql", TRUE)}

==============================================================================
