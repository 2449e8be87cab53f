-------------------------------- MODULE Agctl --------------------------------
(***************************************************************************)
(* agctl, src/action-gateway/src/bin/agctl.rs, and the part of the admin   *)
(* API that it calls.  A command is a queue of HTTP requests, sent one at  *)
(* a time, that ends at the first one that fails.  Two operators and an    *)
(* administrator without agctl may be at work together, and the store      *)
(* changes between any two requests of a command.                          *)
(*                                                                         *)
(* Records are identified by their id and the store keeps at most one of   *)
(* an id; the order in which it keeps them is left open, and decides       *)
(* nothing here: it is the order in which a list is gone through.          *)
(***************************************************************************)
EXTENDS Rbac

CONSTANTS
  Operator,     \* who runs agctl
  File,         \* the files they have: a function from names to documents
  Command,      \* the commands they may give
  Query,        \* the questions they may put to can-i
  Edit,         \* requests of the administrator without agctl
  InitialStore, \* what the store may hold at the start
  Covers,       \* pairs <<pattern, resource name>> that match
  MaxCommands, MaxFaults, MaxEdits   \* bounds

ASSUME CommandAssumption ==
  /\ \A c \in Command : c.verb \in
       {"apply", "diff", "delete", "get", "create-key", "create-principal", "can-i"}
  /\ \A c \in Command :
       c.verb \in {"apply", "diff", "delete", "can-i"} => c.file \in DOMAIN File
  /\ \A f \in DOMAIN File : IsFile(File[f])
  /\ \A q \in Query : Absent \notin {q.principal, q.verb, q.resource, q.name}
  /\ {MaxCommands, MaxFaults, MaxEdits} \subseteq Nat

IsPolicy(p) == {"id", "constraints", "enabled"} \subseteq DOMAIN p

(* The store keeps one record of an id. *)
IsStore(s) ==
  /\ DOMAIN s = {"principals", "keys", "policies"}
  /\ \A kind \in {"principals", "policies"} :
       \A a, b \in s[kind] : a.id = b.id => a = b
  /\ IsFiniteSet(s.policies) /\ \A p \in s.policies : IsPolicy(p)

ASSUME StoreAssumption ==
  /\ \A s \in InitialStore : IsStore(s)
  /\ \A e \in Edit : e.what \in {"principal", "key", "policy"}
  /\ \A e \in Edit : e.what = "policy" => IsPolicy(e.body)

VARIABLES
  store,    \* principals, keys and policies of the gateway
  run,      \* of each operator: the last command and how far it is
  budget    \* commands, faults and edits that are left

vars == <<store, run, budget>>

Accepted == {f \in DOMAIN File : FromYaml(File[f])}
Compiled == [f \in Accepted |-> CompilePolicies(File[f])]
CompiledSet == [f \in Accepted |-> ToSet(Compiled[f])]
CompiledIds == [f \in Accepted |-> {p.id : p \in CompiledSet[f]}]
Bindings == [f \in Accepted |-> RoleBindingNames(File[f])]
Principals == [f \in Accepted |-> PrincipalRequests(File[f])]
ApiKeys == [f \in Accepted |-> ApiKeyRequests(File[f])]

-----------------------------------------------------------------------------
(* The admin API *)

Upsert(records, record) ==
  {r \in records : r.id # record.id} \cup {record}

PrincipalIsAcceptable(body) ==
  body.type \in PrincipalTypes /\ body.status \in Statuses
KeyIsAcceptable(body) ==
  /\ \E p \in store.principals : p.id = body.principal /\ p.status = "active"
  /\ \A k \in store.keys : k.id # body.id
PolicyIsAcceptable(body) ==
  (body.principal # Absent \/ body.key # Absent) /\ body.effect \in Effects

Acceptable(request) ==
  CASE request.what = "principal" -> PrincipalIsAcceptable(request.body)
    [] request.what = "key" -> KeyIsAcceptable(request.body)
    [] request.what = "policy" -> PolicyIsAcceptable(request.body)

UpsertPrincipal(body) == [store EXCEPT !.principals = Upsert(@, body)]
CreateApiKey(body) == [store EXCEPT !.keys = @ \cup {body}]
UpsertAccessPolicy(body) == [store EXCEPT !.policies = Upsert(@, body)]

Stored(request) ==
  CASE request.what = "principal" -> UpsertPrincipal(request.body)
    [] request.what = "key" -> CreateApiKey(request.body)
    [] request.what = "policy" -> UpsertAccessPolicy(request.body)

-----------------------------------------------------------------------------
(* The commands as queues of requests *)

Posts(what, bodies) ==
  [i \in DOMAIN bodies |-> [what |-> what, body |-> bodies[i]]]
ListOf(what) == <<[what |-> what, body |-> Absent]>>

(* Mutant: the keys are created once the policies are in force. *)
ApplyPlanKeysLast(c) ==
     Posts("principal", Principals[c.file])
  \o Posts("policy", Compiled[c.file])
  \o (IF c.secrets THEN Posts("key", ApiKeys[c.file]) ELSE <<>>)
  \o (IF c.prune THEN ListOf("stale") ELSE <<>>)

ApplyPlan(c) ==
     Posts("principal", Principals[c.file])
  \o (IF c.secrets THEN Posts("key", ApiKeys[c.file]) ELSE <<>>)
  \o Posts("policy", Compiled[c.file])
  \o (IF c.prune THEN ListOf("stale") ELSE <<>>)

DeletePlan(c) ==
  LET Disable(p) == [p EXCEPT !.status = "disabled"]
      off == [i \in DOMAIN Principals[c.file] |-> Disable(Principals[c.file][i])]
  IN ListOf("managed") \o (IF c.principals THEN Posts("principal", off) ELSE <<>>)

DiffPlan == ListOf("principals") \o ListOf("policies")
GetPlan == ListOf("principals")
CreateKeyPlan(c) == Posts("key", <<c.body>>)
CreatePrincipalPlan(c) == Posts("principal", <<c.body>>)

Plan(c) ==
  CASE c.verb = "apply" -> ApplyPlan(c)
    [] c.verb = "delete" -> DeletePlan(c)
    [] c.verb = "diff" -> DiffPlan
    [] c.verb = "get" -> GetPlan
    [] c.verb = "create-key" -> CreateKeyPlan(c)
    [] c.verb = "create-principal" -> CreatePrincipalPlan(c)

(* What is refused before any request is sent. *)
IsGiven(c) ==
  /\ c.verb \in {"apply", "diff", "delete", "can-i"} => c.file \in Accepted
  /\ c.verb = "create-principal" => PrincipalIsAcceptable(c.body)

(* Mutants: prune does not ask for the binding, or for the desired ids; it *)
(* writes the policy back as it was read.                                  *)
IsStaleOfAnyBinding(policy, f) ==
  /\ IsAgctlPolicy(policy) /\ policy.enabled
  /\ policy.id \notin CompiledIds[f]
IsStaleUnlessNew(policy, f) ==
  /\ IsAgctlPolicy(policy) /\ policy.enabled
  /\ PolicyRoleBinding(policy) \in Bindings[f]
DisabledPolicyAsRead(policy) == policy

IsStale(policy, f) ==
  /\ IsAgctlPolicy(policy) /\ policy.enabled
  /\ policy.id \notin CompiledIds[f]
  /\ PolicyRoleBinding(policy) \in Bindings[f]

IsManagedHere(policy, f) ==
  /\ IsAgctlPolicy(policy) /\ policy.enabled
  /\ PolicyRoleBinding(policy) \in Bindings[f]

DisabledPolicy(policy) == [policy EXCEPT !.enabled = FALSE]

(* diff: what the two lists lack, or have otherwise. *)
(* Mutant: the effect of a policy is not compared. *)
PolicyNeedsUpdateButEffect(remote, desired) ==
  [remote EXCEPT !.effect = desired.effect] # desired
PolicyNeedsUpdate(remote, desired) == remote # desired
PrincipalNeedsUpdate(remote, desired) == remote # desired

Changes(f, principals, policies) ==
  [principals |-> {p.id : p \in {d \in ToSet(Principals[f]) :
     \A r \in principals : r.id = d.id => PrincipalNeedsUpdate(r, d)}},
   keys |-> Names("ApiKey", File[f]),
   policies |-> {p.id : p \in {d \in CompiledSet[f] :
     \A r \in policies : r.id = d.id => PolicyNeedsUpdate(r, d)}},
   stale |-> {r.id : r \in {p \in policies : IsStale(p, f)}}]

-----------------------------------------------------------------------------
(* can-i: the decision on a file, without the gateway *)

InferToolName(resource, verb) ==
  CASE resource = "table" /\ verb = "select" -> "data.query_table"
    [] resource = "redis_key" /\ verb = "get" -> "redis.query_key"
    [] resource = "kubernetes" /\ verb = "list" -> "kubernetes.list_resources"
    [] resource = "kubernetes" /\ verb = "get" -> "kubernetes.get_resource"
    [] resource = "kubernetes" /\ verb \in {"rollout_status", "rollout_history"} ->
         "kubernetes.rollout_status"
    [] resource = "kubernetes" /\ verb = "logs" -> "kubernetes.query_pod_logs"
    [] resource = "kubernetes" /\ verb = "raw_read" -> "kubernetes.kubectl_read"
    [] resource = "sls_logstore" /\ verb = "query" -> "logs.query_sls_logs"
    [] resource = "audit_events" /\ verb = "query" -> "audit.query_approval_events"
    [] OTHER -> Absent

RequestedMatch(field, requested) == requested = Absent \/ field \in {Absent, requested}

PatternMatches(pattern, name) ==
  pattern \in {Absent, "*"} \/ <<pattern, name>> \in Covers

PolicyMatchesQuery(p, q) ==
  LET tool == IF q.tool # Absent THEN q.tool ELSE InferToolName(q.resource, q.verb) IN
  /\ p.enabled /\ p.principal = q.principal
  /\ RequestedMatch(p.tool, tool) /\ RequestedMatch(p.action, q.verb)
  /\ RequestedMatch(p.type, q.resource) /\ PatternMatches(p.pattern, q.name)
  /\ RequestedMatch(p.source, q.source)

(* Mutant: the first policy that matches decides, whatever its effect. *)
LocalCanIFirst(f, q) ==
  LET hits == SelectSeq(Compiled[f], LAMBDA p : PolicyMatchesQuery(p, q)) IN
  hits # <<>> /\ hits[1].effect = "allow"

LocalCanI(f, q) ==
  LET Hit(effect) == \E p \in CompiledSet[f] :
                       p.effect = effect /\ PolicyMatchesQuery(p, q)
  IN ~Hit("deny") /\ Hit("allow")

-----------------------------------------------------------------------------
NoCommand == [verb |-> "none"]
NoReport == [principals |-> {}, keys |-> {}, policies |-> {}, stale |-> {}]

Idle ==
  [command |-> NoCommand, status |-> "idle", todo |-> <<>>, printed |-> {},
   seen |-> {}, report |-> NoReport, allowed |-> FALSE, query |-> Absent,
   before |-> [principals |-> {}, keys |-> {}, policies |-> {}], alone |-> FALSE]

Init ==
  /\ store \in InitialStore
  /\ run = [o \in Operator |-> Idle]
  /\ budget = [commands |-> MaxCommands, faults |-> MaxFaults, edits |-> MaxEdits]

Spend(what) == budget[what] > 0 /\ budget' = [budget EXCEPT ![what] = @ - 1]

(* The run of o goes on as r; when the store changes, the other runs are   *)
(* no longer alone with it.                                                *)
Proceed(o, r) ==
  run' = [p \in Operator |->
    IF p = o THEN r
    ELSE IF store' # store THEN [run[p] EXCEPT !.alone = FALSE] ELSE run[p]]

Begun(c) == [Idle EXCEPT !.command = c, !.before = store, !.alone = TRUE]
Ended(r) == [r EXCEPT !.status = IF r.todo = <<>> THEN "done" ELSE "running"]
Failed(r) == [r EXCEPT !.status = "failed"]

Start(o) ==
  /\ run[o].status # "running" /\ Spend("commands")
  /\ UNCHANGED store
  /\ \E c \in Command :
       /\ c.verb # "can-i"
       /\ Proceed(o, IF IsGiven(c) THEN Ended([Begun(c) EXCEPT !.todo = Plan(c)])
                     ELSE Failed(Begun(c)))

CanI(o) ==
  /\ run[o].status # "running" /\ Spend("commands")
  /\ UNCHANGED store
  /\ \E c \in Command, q \in Query :
       /\ c.verb = "can-i"
       /\ Proceed(o, IF IsGiven(c)
                     THEN [Begun(c) EXCEPT !.status = "done", !.query = q,
                                           !.allowed = LocalCanI(c.file, q)]
                     ELSE Failed(Begun(c)))

Running(o) == run[o].status = "running"
Request(o) == Head(run[o].todo)
IsPost(request) == request.what \in {"principal", "key", "policy"}
Advanced(o) == Ended([run[o] EXCEPT !.todo = Tail(@)])

(* The token of a new key is printed before the file for it is written,    *)
(* which may fail.                                                         *)
Answered(o) ==
  /\ Running(o) /\ IsPost(Request(o)) /\ Acceptable(Request(o))
  /\ store' = Stored(Request(o))
  /\ LET r == IF Request(o).what = "key"
              THEN [Advanced(o) EXCEPT !.printed = @ \cup {Request(o).body.id}]
              ELSE Advanced(o)
     IN \/ Proceed(o, r)
        \/ /\ run[o].command.verb = "create-key" /\ run[o].command.out
           /\ Proceed(o, Failed(r))
  /\ UNCHANGED budget

Refused(o) ==
  /\ Running(o) /\ IsPost(Request(o)) /\ ~Acceptable(Request(o))
  /\ UNCHANGED <<store, budget>>
  /\ Proceed(o, Failed(run[o]))

(* The request does not arrive, the gateway fails it, or is not there. *)
RequestLost(o) ==
  /\ Running(o) /\ Spend("faults")
  /\ UNCHANGED store
  /\ Proceed(o, Failed(run[o]))

(* The change is made, but its answer is lost or reports that the store    *)
(* could not be saved.                                                     *)
AnswerLost(o) ==
  /\ Running(o) /\ IsPost(Request(o)) /\ Acceptable(Request(o)) /\ Spend("faults")
  /\ store' = Stored(Request(o))
  /\ Proceed(o, Failed(run[o]))

(* Of get: the one principal that it was given a name of is not there. *)
NotFound(o) ==
  /\ run[o].command.verb = "get"
  /\ ~(run[o].command.name \subseteq {p.id : p \in store.principals})

ListedPrincipals(o) ==
  /\ Running(o) /\ Request(o).what = "principals" /\ ~NotFound(o)
  /\ UNCHANGED <<store, budget>>
  /\ Proceed(o, [Advanced(o) EXCEPT !.seen = store.principals])

PrincipalNotFound(o) ==
  /\ Running(o) /\ Request(o).what = "principals" /\ NotFound(o)
  /\ UNCHANGED <<store, budget>>
  /\ Proceed(o, Failed(run[o]))

ListedForDiff(o) ==
  /\ Running(o) /\ Request(o).what = "policies"
  /\ UNCHANGED <<store, budget>>
  /\ Proceed(o, [Advanced(o) EXCEPT
       !.report = Changes(run[o].command.file, run[o].seen, store.policies)])

(* The policies to disable are chosen from the list, and each of them is   *)
(* written back whole, in a request of its own.                            *)
ListedToDisable(o) ==
  /\ Running(o) /\ Request(o).what \in {"stale", "managed"}
  /\ UNCHANGED <<store, budget>>
  /\ LET f == run[o].command.file
         chosen == {p \in store.policies :
                      IF Request(o).what = "stale" THEN IsStale(p, f)
                      ELSE IsManagedHere(p, f)}
     IN \E list \in SetToSeqs({DisabledPolicy(p) : p \in chosen}) :
          Proceed(o, Ended([run[o] EXCEPT
                              !.todo = Posts("policy", list) \o Tail(@)]))

AdministratorEdits ==
  /\ Spend("edits")
  /\ \E e \in Edit : Acceptable(e) /\ store' = Stored(e)
  /\ run' = [o \in Operator |-> IF store' # store
                                THEN [run[o] EXCEPT !.alone = FALSE] ELSE run[o]]

Step(o) ==
  \/ Start(o) \/ CanI(o) \/ Answered(o) \/ Refused(o) \/ RequestLost(o)
  \/ AnswerLost(o) \/ ListedPrincipals(o) \/ PrincipalNotFound(o)
  \/ ListedForDiff(o) \/ ListedToDisable(o)

Resting ==
  /\ budget.commands = 0 /\ \A o \in Operator : ~Running(o)
  /\ UNCHANGED vars

Next == (\E o \in Operator : Step(o)) \/ AdministratorEdits \/ Resting

Spec == Init /\ [][Next]_vars

-----------------------------------------------------------------------------
IsAlone(o, verbs) ==
  run[o].alone /\ run[o].command.verb \in verbs /\ run[o].command.file \in Accepted

EnabledOf(f) == {p \in store.policies : IsManagedHere(p, f)}

(* When a lone apply --prune or delete ends with success, the policies in  *)
(* force for the bindings of the file are what the file says, or none:     *)
(* also when an earlier command stopped half way, or another version of    *)
(* the file was applied before.                                            *)
ManagedMatchFile ==
  \A o \in Operator :
    run[o].status = "done" /\ IsAlone(o, {"apply", "delete"}) =>
      LET c == run[o].command IN
      /\ c.verb = "apply" =>
           /\ CompiledSet[c.file] \subseteq EnabledOf(c.file)
           /\ ToSet(Principals[c.file]) \subseteq store.principals
      /\ c.verb = "apply" /\ c.prune => EnabledOf(c.file) = CompiledSet[c.file]
      /\ c.verb = "delete" => EnabledOf(c.file) = {}
      /\ c.verb = "delete" /\ c.principals =>
           \A p \in store.principals :
             p.id \in Names("Principal", File[c.file]) => p.status = "disabled"

(* Wherever a lone apply or delete stops, nothing outside its file has     *)
(* changed, and each policy of its bindings is the one from before, that   *)
(* one disabled, or the one of the file.                                   *)
OthersUntouched ==
  \A o \in Operator :
    IsAlone(o, {"apply", "delete"}) =>
      LET f == run[o].command.file
          before == run[o].before
          Ours(p) == \/ p.id \in CompiledIds[f]
                     \/ IsAgctlPolicy(p) /\ PolicyRoleBinding(p) \in Bindings[f]
      IN /\ {p \in before.policies : ~Ours(p)} = {p \in store.policies : ~Ours(p)}
         /\ store.policies \subseteq
              before.policies \cup {DisabledPolicy(p) : p \in before.policies}
                \cup CompiledSet[f]
         /\ {p \in before.principals : p.id \notin Names("Principal", File[f])}
              \subseteq store.principals
         /\ before.keys \subseteq store.keys

(* Whatever happens between the list and the writes of a prune, writing    *)
(* whole records back puts nothing in force that another had withdrawn:    *)
(* agctl only ever enables what a file that is being applied compiles to.  *)
EnablesOnlyCompiled ==
  [][budget'.edits = budget.edits =>
       \A p \in store'.policies \ store.policies :
         p.enabled => \E o \in Operator :
           /\ Running(o) /\ run[o].command.verb = "apply"
           /\ p \in CompiledSet[run[o].command.file]]_vars

(* With --create-secrets nothing is granted before every token of the file *)
(* was shown to the operator, whatever stops the command; a second run     *)
(* stops at the first key and leaves the policies as they are.             *)
TokensBeforeGrants ==
  \A o \in Operator :
    IsAlone(o, {"apply"}) /\ run[o].command.secrets =>
      \/ Names("ApiKey", File[run[o].command.file]) \subseteq run[o].printed
      \/ store.policies = run[o].before.policies

(* A diff that nothing interfered with lists exactly the records that      *)
(* apply --prune of the file would change, apart from the keys.            *)
DiffIsTrue ==
  \A o \in Operator :
    run[o].status = "done" /\ IsAlone(o, {"diff"}) =>
      LET f == run[o].command.file
          Differs(records, desired) ==
            {d.id : d \in {x \in desired : x \notin records}}
          prunes == {p \in store.policies \ CompiledSet[f] :
                       IsManagedHere(p, f) /\ p.id \notin CompiledIds[f]}
      IN /\ run[o].report.principals = Differs(store.principals, ToSet(Principals[f]))
         /\ run[o].report.policies = Differs(store.policies, CompiledSet[f])
         /\ run[o].report.stale = {p.id : p \in prunes}

(* can-i with a source answers as the gateway would decide the call, were  *)
(* the policies of the file the only ones: AccessControl is the decision.  *)
Gateway(ps, c, s) ==
  INSTANCE AccessControl WITH
    policies <- ps, caller <- c, scope <- s, policyRows <- <<>>,
    next <- 0, decision <- Absent, Policy <- {}, Caller <- {}, Scope <- {}, MaxPolicies <- 0

CanIAgrees ==
  \A o \in Operator :
    run[o].status = "done" /\ run[o].command.verb = "can-i" =>
      LET q == run[o].query
          caller == [principal |-> q.principal, key |-> Absent, unrestricted |-> FALSE]
          tool == InferToolName(q.resource, q.verb)
          scope == [source |-> q.source, tool |-> tool, action |-> q.verb,
                    type |-> q.resource, resource |-> q.name]
          Matching(effect) ==
            Gateway(Compiled[run[o].command.file], caller, scope)!Matching(effect)
      IN q.source # Absent /\ tool # Absent /\ q.tool \in {Absent, tool} =>
           run[o].allowed = (Matching("deny") = {} /\ Matching("allow") # {})

==============================================================================
