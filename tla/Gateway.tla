------------------------------- MODULE Gateway -------------------------------
(***************************************************************************)
(* The life of HTTP requests in the gateway: handle_mcp in main.rs with    *)
(* authenticate (control_plane.rs), call_tool_for_auth (actions.rs) and    *)
(* record_* (audit.rs), and the writing handlers of admin.rs.              *)
(*                                                                         *)
(* Every handler is a task that holds no lock from one await to the next,  *)
(* so an action here is what a handler does between two awaits.  What a    *)
(* handler has read stays with it while others change the store.  The file *)
(* is the business of FileStore: here persist() succeeds or fails.  Which  *)
(* policies allow a call is the business of AccessControl: here a caller   *)
(* is granted its calls or it is not.                                      *)
(***************************************************************************)
EXTENDS Integers, Sequences

CONSTANTS
  Caller,           \* requests to /mcp, each used once
  Admin,            \* writing requests to /admin, each used once
  Principal,        \* principals
  KeyId,            \* keys, those of the file and those yet to be created
  Owner,            \* the principal of each key
  Name,             \* the id of each key, as the parts that "_" separates
  Unrestricted,     \* keys with the scope unrestricted
  AdminScope,       \* keys with the scope admin
  LegacyAllowed,    \* AuthConfig.legacy_token_allowed, with a token set
  AnonymousAllowed, \* AuthConfig.anonymous_local_allowed
  CallAsk,          \* what callers may ask
  AdminAsk,         \* what admins may ask
  Start,            \* what the file may hold at the start
  Expiring,         \* keys with an expiresAt
  Cap               \* audit events that the store keeps: 10_000 in the code

Unkeyed == {"none", "legacy", "malformed"}   \* bearer tokens that name no key
Credential == KeyId \cup Unkeyed

KeyStates == {"absent", "active", "expired"}
SourceStates == {"absent", "enabled", "disabled"}

Calls ==
  [cred : Credential, method : {"call", "notify", "other"},
   tool : {"sql", "redis", "unknown"}, listed : BOOLEAN]
Writes ==
  [cred : Credential, target : Principal, key : KeyId,
   change : {"enable", "disable", "grant", "revoke", "create key",
             "enable source", "disable source", "invalid"}]

ASSUME GatewayAssumption ==
  /\ Caller \cap Admin = {}
  /\ Owner \in [KeyId -> Principal]
  /\ Name \in [KeyId -> Seq(STRING) \ {<<>>}]
  /\ Unrestricted \subseteq KeyId /\ AdminScope \subseteq KeyId
  /\ LegacyAllowed \in BOOLEAN /\ AnonymousAllowed \in BOOLEAN
  /\ KeyId \cap Unkeyed = {}
  /\ Cap \in Nat \ {0}
  /\ \A a \in CallAsk : a \in Calls
  /\ \A a \in AdminAsk : a \in Writes
  /\ \A s \in Start :
       /\ s.granted \subseteq Principal /\ s.source \in SourceStates
       /\ s.keys \in [KeyId -> KeyStates]

Request == Caller \cup Admin
NoAsk == [cred |-> "none"]

VARIABLES
  active,   \* principals with status active
  granted,  \* principals that some policy allows the calls, and none denies
  keys,     \* the status of each key
  source,   \* the source record that calls name: absent, enabled, disabled
  pc,       \* where each request is
  ask,      \* what it asks
  ready,    \* its key and principal were in order, as read under the lock
  via,      \* the upstream that it was given
  outcome,  \* what the handler is going to report
  ran,      \* history: the upstream it queried, or "changed" for a change
  seen,     \* history: what held at some moment since it arrived
  audit,    \* audit_events of the store
  log       \* history: every event ever appended

config == <<active, granted, keys, source>>
events == <<audit, log>>
vars == <<config, pc, ask, ready, via, outcome, ran, seen, events>>

-----------------------------------------------------------------------------
Cred(r) == ask[r].cred
Busy(r) == pc[r] \notin {"new", "done", "gone"}

HasKey(r) == Cred(r) \in KeyId
Who(r) == IF HasKey(r) THEN Owner[Cred(r)] ELSE Cred(r)

KeyInOrder(k) == keys[k] = "active" /\ Owner[k] \in active

(* What the present state of the store means for a request. *)
Facts(r) ==
  {IF HasKey(r) /\ KeyInOrder(Cred(r)) THEN "ready" ELSE "not ready",
   IF Who(r) \in granted THEN "granted" ELSE "not granted",
   source}

(* Requests under way notice every change of the store. *)
Observe ==
  seen' = [r \in Request |-> IF Busy(r) THEN seen[r] \cup Facts(r)' ELSE seen[r]]

Init ==
  /\ active = Principal
  /\ \E s \in Start : granted = s.granted /\ keys = s.keys /\ source = s.source
  /\ pc = [r \in Request |-> "new"]
  /\ ask = [r \in Request |-> NoAsk]
  /\ ready = [r \in Request |-> FALSE]
  /\ via = [r \in Request |-> "none"]
  /\ outcome = [r \in Request |-> "none"]
  /\ ran = [r \in Request |-> "none"]
  /\ seen = [r \in Request |-> {}]
  /\ audit = <<>> /\ log = <<>>

At(r, here) == pc[r] = here
Goto(r, there) == pc' = [pc EXCEPT ![r] = there]
Report(r, what) == outcome' = [outcome EXCEPT ![r] = what]

(* append_audit_event: push, then drain the oldest above the cap. *)
Drained(list) ==
  IF Len(list) > Cap THEN SubSeq(list, Len(list) - Cap + 1, Len(list)) ELSE list

Event(r, kind, status) == [by |-> r, kind |-> kind, status |-> status]

Record(event) ==
  /\ audit' = Drained(Append(audit, event))
  /\ log' = Append(log, event)

-----------------------------------------------------------------------------
(* Arrival and authentication *)

Arrive(r) ==
  /\ At(r, "new") /\ Goto(r, "arrived")
  /\ \E a \in IF r \in Caller THEN CallAsk ELSE AdminAsk :
       ask' = [ask EXCEPT ![r] = a]
  /\ UNCHANGED <<config, ready, via, outcome, ran, events>>
  /\ seen' = [seen EXCEPT ![r] = Facts(r)']

(* Nothing of the store is read for these credentials. *)
AdmittedUnkeyed(r) ==
  \/ Cred(r) = "none" /\ AnonymousAllowed
  \/ Cred(r) = "legacy" /\ LegacyAllowed

AdmitUnkeyed(r) ==
  /\ At(r, "arrived") /\ AdmittedUnkeyed(r)
  /\ Goto(r, "admitted")
  /\ UNCHANGED <<config, ask, ready, via, outcome, ran, seen, events>>

RefuseUnkeyed(r) ==
  /\ At(r, "arrived") /\ Cred(r) \in Unkeyed /\ ~AdmittedUnkeyed(r)
  /\ Goto(r, "refused") /\ Report(r, "unauthorized")
  /\ UNCHANGED <<config, ask, ready, via, ran, seen, events>>

(* A token is agk_<id>_<secret>; parse_api_key takes what is between the   *)
(* first two "_" for the id and the rest for the secret.                   *)
Token(k) == <<"agk">> \o Name[k] \o <<"secret">>
ParsedId(token) == <<token[2]>>

Found(k) == keys[k] # "absent" /\ ParsedId(Token(k)) = Name[k]

MissKey(r) ==
  /\ At(r, "arrived") /\ HasKey(r) /\ ~Found(Cred(r))
  /\ Goto(r, "refused") /\ Report(r, "unauthorized")
  /\ UNCHANGED <<config, ask, ready, via, ran, seen, events>>

(* Mutant: the status of the principal is not looked at. *)
LookUpKeyOnly(r) ==
  /\ At(r, "arrived") /\ HasKey(r) /\ Found(Cred(r))
  /\ ready' = [ready EXCEPT ![r] = keys[Cred(r)] = "active"]
  /\ Goto(r, "key used")
  /\ UNCHANGED <<config, ask, via, outcome, ran, seen, events>>

(* The key and its principal are read under one lock, and lastUsedAt is    *)
(* set whatever their status.                                              *)
LookUpKey(r) ==
  /\ At(r, "arrived") /\ HasKey(r) /\ Found(Cred(r))
  /\ ready' = [ready EXCEPT ![r] = KeyInOrder(Cred(r))]
  /\ Goto(r, "key used")
  /\ UNCHANGED <<config, ask, via, outcome, ran, seen, events>>

KeyPersisted(r) ==
  /\ At(r, "key used")
  /\ IF ready[r]
       THEN Goto(r, "admitted") /\ UNCHANGED outcome
       ELSE Goto(r, "refused") /\ Report(r, "unauthorized")
  /\ UNCHANGED <<config, ask, ready, via, ran, seen, events>>

(* Mutants: the caller is told that its key is wrong; the lookup is retried. *)
KeyPersistFailsBlames(r) ==
  /\ At(r, "key used") /\ Goto(r, "refused") /\ Report(r, "unauthorized")
  /\ UNCHANGED <<config, ask, ready, via, ran, seen, events>>

KeyPersistFailsRetries(r) ==
  /\ At(r, "key used") /\ Goto(r, "arrived")
  /\ UNCHANGED <<config, ask, ready, via, outcome, ran, seen, events>>

(* handle_mcp answers 503 to this error, authenticate_admin 401. *)
KeyPersistFails(r) ==
  /\ At(r, "key used")
  /\ Goto(r, "refused")
  /\ Report(r, IF r \in Caller THEN "unavailable" ELSE "unauthorized")
  /\ UNCHANGED <<config, ask, ready, via, ran, seen, events>>

RecordRefusal(r) ==
  /\ At(r, "refused") /\ Goto(r, "recorded")
  /\ Record(Event(r, "auth", "failed"))
  /\ UNCHANGED <<config, ask, ready, via, outcome, ran, seen>>

Free(r) == Cred(r) \in Unrestricted \/ AdmittedUnkeyed(r)
MayEnter(r) == r \in Caller \/ Free(r) \/ Cred(r) \in AdminScope

(* The 403 of authenticate_admin leaves no event. *)
Forbid(r) ==
  /\ At(r, "admitted") /\ ~MayEnter(r)
  /\ Goto(r, "recorded") /\ Report(r, "forbidden")
  /\ UNCHANGED <<config, ask, ready, via, ran, seen, events>>

(* Mutant: entering leaves no event. *)
RecordEntrySilent(r) ==
  /\ At(r, "admitted") /\ MayEnter(r) /\ Goto(r, "inside")
  /\ UNCHANGED <<config, ask, ready, via, outcome, ran, seen, events>>

RecordEntry(r) ==
  /\ At(r, "admitted") /\ MayEnter(r)
  /\ Goto(r, "inside")
  /\ Record(Event(r, "auth", "succeeded"))
  /\ UNCHANGED <<config, ask, ready, via, outcome, ran, seen>>

Authenticate(r) ==
  \/ AdmitUnkeyed(r) \/ RefuseUnkeyed(r) \/ MissKey(r) \/ LookUpKey(r)
  \/ KeyPersisted(r) \/ KeyPersistFails(r)
  \/ RecordRefusal(r) \/ Forbid(r) \/ RecordEntry(r)

-----------------------------------------------------------------------------
(* A JSON-RPC request, inside *)

Calling(r) == r \in Caller /\ At(r, "inside") /\ ask[r].method # "other"
Authorizing(r) == Calling(r) /\ ask[r].tool # "unknown"

Serve(r) ==
  /\ r \in Caller /\ At(r, "inside") /\ ask[r].method = "other"
  /\ Goto(r, "recorded") /\ Report(r, "succeeded")
  /\ UNCHANGED <<config, ask, ready, via, ran, seen, events>>

(* No scope is made for a tool that does not exist: nothing is authorized. *)
MissTool(r) ==
  /\ Calling(r) /\ ask[r].tool = "unknown"
  /\ Goto(r, "served") /\ Report(r, "protocol error")
  /\ UNCHANGED <<config, ask, ready, via, ran, seen, events>>

Authorize(r) ==
  /\ Authorizing(r) /\ (Free(r) \/ Who(r) \in granted)
  /\ Goto(r, "authorized")
  /\ UNCHANGED <<config, ask, ready, via, outcome, ran, seen, events>>

DenyCall(r) ==
  /\ Authorizing(r) /\ ~Free(r) /\ Who(r) \notin granted
  /\ Goto(r, "served") /\ Report(r, "rejected")
  /\ UNCHANGED <<config, ask, ready, via, ran, seen, events>>

CheckAllowlist(r) ==
  /\ At(r, "authorized")
  /\ IF ask[r].listed
       THEN Goto(r, "listed") /\ UNCHANGED outcome
       ELSE Goto(r, "served") /\ Report(r, "rejected")
  /\ UNCHANGED <<config, ask, ready, via, ran, seen, events>>

FindSource(r) ==
  /\ At(r, "listed") /\ source = "enabled"
  /\ via' = [via EXCEPT ![r] = "source"] /\ Goto(r, "connected")
  /\ UNCHANGED <<config, ask, ready, outcome, ran, seen, events>>

(* redis.query_key falls back to the client of REDIS_URL. *)
FallBack(r) ==
  /\ At(r, "listed") /\ source # "enabled" /\ ask[r].tool = "redis"
  /\ via' = [via EXCEPT ![r] = "default"] /\ Goto(r, "connected")
  /\ UNCHANGED <<config, ask, ready, outcome, ran, seen, events>>

MissSource(r) ==
  /\ At(r, "listed") /\ source # "enabled" /\ ask[r].tool # "redis"
  /\ Goto(r, "served") /\ Report(r, "failed")
  /\ UNCHANGED <<config, ask, ready, via, ran, seen, events>>

Query(r) ==
  /\ At(r, "connected") /\ Goto(r, "querying")
  /\ ran' = [ran EXCEPT ![r] = via[r]]
  /\ UNCHANGED <<config, ask, ready, via, outcome, seen, events>>

UpstreamAnswers(r) ==
  /\ At(r, "querying") /\ Goto(r, "served")
  /\ \E what \in {"succeeded", "failed"} : Report(r, what)
  /\ UNCHANGED <<config, ask, ready, via, ran, seen, events>>

(* A request without an id has no response to take a status from. *)
RecordCall(r) ==
  /\ r \in Caller /\ At(r, "served") /\ Goto(r, "recorded")
  /\ Record(Event(r, "call", IF ask[r].method = "call" THEN outcome[r] ELSE "none"))
  /\ UNCHANGED <<config, ask, ready, via, outcome, ran, seen>>

HandleCall(r) ==
  \/ Serve(r) \/ MissTool(r) \/ Authorize(r) \/ DenyCall(r) \/ CheckAllowlist(r)
  \/ FindSource(r) \/ FallBack(r) \/ MissSource(r) \/ Query(r) \/ RecordCall(r)

-----------------------------------------------------------------------------
(* An admin request, inside *)

Refusable(a) ==
  \/ a.change = "invalid"
  \/ a.change = "create key" /\ (Owner[a.key] \notin active \/ keys[a.key] # "absent")

RefuseChange(r) ==
  /\ r \in Admin /\ At(r, "inside") /\ Refusable(ask[r])
  /\ Goto(r, "served") /\ Report(r, "failed")
  /\ UNCHANGED <<config, ask, ready, via, ran, seen, events>>

Toggled(set, elem, change, on, off) ==
  CASE change = on  -> set \cup {elem}
    [] change = off -> set \ {elem}
    [] OTHER        -> set

Apply(a) ==
  /\ active' = Toggled(active, a.target, a.change, "enable", "disable")
  /\ granted' = Toggled(granted, a.target, a.change, "grant", "revoke")
  /\ keys' = IF a.change = "create key"
               THEN [keys EXCEPT ![a.key] = "active"] ELSE keys
  /\ source' = CASE a.change = "enable source"  -> "enabled"
                 [] a.change = "disable source" -> "disabled"
                 [] OTHER                       -> source

ChangeStore(r) ==
  /\ r \in Admin /\ At(r, "inside") /\ ~Refusable(ask[r])
  /\ Apply(ask[r])
  /\ Goto(r, "changed")
  /\ ran' = [ran EXCEPT ![r] = "changed"]
  /\ UNCHANGED <<ask, ready, via, outcome, events>>
  /\ Observe

(* A failed persist() is reported as a failed change. *)
ChangePersisted(r) ==
  /\ At(r, "changed") /\ Goto(r, "served")
  /\ \E what \in {"succeeded", "failed"} : Report(r, what)
  /\ UNCHANGED <<config, ask, ready, via, ran, seen, events>>

RecordChange(r) ==
  /\ r \in Admin /\ At(r, "served") /\ Goto(r, "recorded")
  /\ Record(Event(r, "config", outcome[r]))
  /\ UNCHANGED <<config, ask, ready, via, outcome, ran, seen>>

HandleAdmin(r) ==
  RefuseChange(r) \/ ChangeStore(r) \/ ChangePersisted(r) \/ RecordChange(r)

-----------------------------------------------------------------------------
(* Mutant: the answer does not wait for the event. *)
AnswerEarly(r) ==
  /\ At(r, "recorded") \/ At(r, "served")
  /\ Goto(r, "done")
  /\ UNCHANGED <<config, ask, ready, via, outcome, ran, seen, events>>

Answer(r) ==
  /\ At(r, "recorded") /\ Goto(r, "done")
  /\ UNCHANGED <<config, ask, ready, via, outcome, ran, seen, events>>

(* The client goes away and the handler is dropped where it waits. *)
Disconnect(r) ==
  /\ Busy(r) /\ Goto(r, "gone")
  /\ UNCHANGED <<config, ask, ready, via, outcome, ran, seen, events>>

(* Time passes the expiresAt of a key. *)
ExpireKey(k) ==
  /\ k \in Expiring /\ keys[k] = "active"
  /\ keys' = [keys EXCEPT ![k] = "expired"]
  /\ UNCHANGED <<active, granted, source, pc, ask, ready, via, outcome, ran, events>>
  /\ Observe

Handle(r) == Authenticate(r) \/ HandleCall(r) \/ HandleAdmin(r) \/ Answer(r)

Finished == (\A r \in Request : pc[r] \in {"done", "gone"}) /\ UNCHANGED vars

Next ==
  \/ \E r \in Request :
       Arrive(r) \/ Handle(r) \/ UpstreamAnswers(r) \/ Disconnect(r)
  \/ \E k \in KeyId : ExpireKey(k)
  \/ Finished

Spec == Init /\ [][Next]_vars

(* tokio polls every handler that can go on.  Nothing makes a client send  *)
(* or leave, and nothing in the gateway bounds the answer of an upstream.  *)
FairSpec == Spec /\ \A r \in Request : WF_vars(Handle(r))

-----------------------------------------------------------------------------
Places ==
  {"new", "arrived", "key used", "refused", "admitted", "inside", "authorized",
   "listed", "connected", "querying", "changed", "served", "recorded", "done",
   "gone"}
Outcomes ==
  {"none", "unauthorized", "unavailable", "forbidden", "protocol error",
   "rejected", "failed", "succeeded"}
FactNames ==
  {"ready", "not ready", "granted", "not granted", "absent", "enabled", "disabled"}

TypeOK ==
  /\ active \subseteq Principal /\ granted \subseteq Principal
  /\ keys \in [KeyId -> KeyStates] /\ source \in SourceStates
  /\ pc \in [Request -> Places]
  /\ \A r \in Caller : ask[r] \in CallAsk \/ pc[r] = "new"
  /\ \A r \in Admin : ask[r] \in AdminAsk \/ pc[r] = "new"
  /\ ready \in [Request -> BOOLEAN]
  /\ via \in [Request -> {"none", "source", "default"}]
  /\ outcome \in [Request -> Outcomes]
  /\ ran \in [Request -> {"none", "source", "default", "changed"}]
  /\ seen \in [Request -> SUBSET FactNames]
  /\ Len(audit) <= Cap

Entitled(r) ==
  \/ AdmittedUnkeyed(r)
  \/ HasKey(r) /\ "ready" \in seen[r]

(* At some moment there was no source to be found. *)
NoneEnabled(r) == {"absent", "disabled"} \cap seen[r] # {}

(* Only what is permitted has an effect.  Whatever administrators do       *)
(* meanwhile, a request that queried or changed something had a key and a  *)
(* principal in order, the permission and the upstream at some moment      *)
(* between its arrival and its effect: nothing older than the request      *)
(* itself is ever relied on.                                               *)
OnlyPermittedRun ==
  /\ \A r \in Caller : ran[r] # "none" =>
       /\ Entitled(r) /\ ask[r].listed
       /\ Free(r) \/ "granted" \in seen[r]
       /\ ran[r] = "source" => "enabled" \in seen[r]
       /\ ran[r] = "default" => ask[r].tool = "redis" /\ NoneEnabled(r)
  /\ \A r \in Admin : ran[r] # "none" =>
       Entitled(r) /\ (Free(r) \/ Cred(r) \in AdminScope)

(* A key that is in order while the request is under way is accepted. *)
KeyInOrderIsAccepted ==
  \A r \in Caller : outcome[r] = "unauthorized" /\ HasKey(r) =>
    "not ready" \in seen[r]

(* The other direction: a caller is refused for a reason that held while   *)
(* its request was under way, so a key that is in order is not turned away *)
(* and a call that is granted all along is not rejected.                   *)
RefusedWithReason ==
  /\ KeyInOrderIsAccepted
  /\ \A r \in Caller : outcome[r] = "rejected" =>
       ~ask[r].listed \/ (~Free(r) /\ "not granted" \in seen[r])

(* The events of a request are these, in the order of the log. *)
Of(r) == {i \in DOMAIN log : log[i].by = r}
TrailIs(r, due) ==
  \E at \in [DOMAIN due -> Of(r)] :
    /\ \A i, j \in DOMAIN due : i < j => at[i] < at[j]
    /\ \A p \in Of(r) : \E i \in DOMAIN due : at[i] = p
    /\ \A i \in DOMAIN due : log[at[i]] = due[i]

(* What the log must hold of a request that was answered. *)
DueTrail(r) ==
  LET entry == Event(r, "auth", "succeeded") IN
  IF outcome[r] \in {"unauthorized", "unavailable"} THEN <<Event(r, "auth", "failed")>>
  ELSE IF outcome[r] = "forbidden" THEN <<>>
  ELSE IF r \in Admin THEN <<entry, Event(r, "config", outcome[r])>>
  ELSE CASE ask[r].method = "other" -> <<entry>>
         [] ask[r].method = "notify" -> <<entry, Event(r, "call", "none")>>
         [] ask[r].method = "call" -> <<entry, Event(r, "call", outcome[r])>>

(* No answer overtakes its audit events: when the client has the answer,   *)
(* exactly the events due are in the log, in order, with the status that   *)
(* the client was told.                                                    *)
AnsweredIsRecorded == \A r \in Request : pc[r] = "done" => TrailIs(r, DueTrail(r))

(* The audit log does not say more than happened: no effect without the    *)
(* event of the entry before it, a success only of something that had its  *)
(* effect, a rejection only of something that had none.                    *)
TrailIsTrue ==
  /\ \A r \in Request : ran[r] # "none" =>
       \E first \in Of(r) : /\ log[first] = Event(r, "auth", "succeeded")
                            /\ \A i \in Of(r) : first <= i
  /\ \A i \in DOMAIN log :
       /\ log[i].kind \in {"call", "config"} /\ log[i].status = "succeeded" =>
            ran[log[i].by] # "none"
       /\ log[i].status = "rejected" => ran[log[i].by] = "none"

(* Every request that arrives is answered, or leaves, or waits for an      *)
(* upstream that does not answer: no handler waits for another.            *)
HandlersSettle ==
  \A r \in Request : []<>(pc[r] \in {"new", "querying", "done", "gone"})

(* Stated by the schema document: every authorized tools/call attempts to  *)
(* write an audit event, so one that ran and has ended has its event.      *)
CallsAreRecorded ==
  \A r \in Caller : ran[r] # "none" /\ pc[r] \in {"done", "gone"} =>
    \E i \in DOMAIN log : log[i].by = r /\ log[i].kind = "call"

(* Stated by the store document: the list of audit events keeps growing,   *)
(* and what was appended leaves it only when the operator archives it.     *)
AuditKeepsGrowing == audit = log

=============================================================================
