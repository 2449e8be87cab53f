--------------------------------- MODULE Rbac ---------------------------------
(***************************************************************************)
(* The manifests of agctl, src/action-gateway/src/rbac_manifest.rs: which  *)
(* files are accepted and which requests they compile to.                  *)
(*                                                                         *)
(* A file is the sequence of its documents, each with its kind, whether    *)
(* its apiVersion is the current one, its name and its spec.  Texts are    *)
(* trimmed already, except Blank, which has nothing but white space.       *)
(***************************************************************************)
EXTENDS Listings, Sequences, SequencesExt

CONSTANTS
  Absent,         \* an absent field
  Empty,       \* the empty text
  Blank,       \* a text of white space
  Rank         \* the names that validate_name accepts, with their place in
               \* the order of the maps (a function to numbers)

ASSUME RankAssumption ==
  /\ \A a \in DOMAIN Rank : Rank[a] \in Int
  /\ \A a, b \in DOMAIN Rank : Rank[a] = Rank[b] => a = b

Kinds == {"Principal", "Role", "RoleBinding", "ApiKey"}
PrincipalTypes == {"user", "service_account", "legacy_admin"}
Statuses == {"active", "disabled"}
ResourceTypes ==
  {"table", "redis_key", "kubernetes", "sls_logstore", "audit_events"}
Effects == {"allow", "deny"}

-----------------------------------------------------------------------------
(* Which files are accepted *)

IsSequence(s) == s \in Seq(ToSet(s))

(* What the parser of YAML gives: lists where lists are declared. *)
IsFile(file) ==
  /\ IsSequence(file)
  /\ \A doc \in ToSet(file) : doc.kind = "Role" =>
       /\ IsSequence(doc.spec.rules)
       /\ \A rule \in ToSet(doc.spec.rules) : IsSequence(rule.names)

(* Documents that are null are passed over. *)
Documents(file) == {doc \in ToSet(file) : doc.kind # "null"}

Of(kind, file) == {doc \in Documents(file) : doc.kind = kind}
Names(kind, file) == {doc.name : doc \in Of(kind, file)}
SpecOf(kind, name, file) ==
  (CHOOSE doc \in Of(kind, file) : doc.name = name).spec

NamesAreUnique(file) ==
  \A i, j \in {n \in DOMAIN file : file[n].kind # "null"} :
    file[i].kind = file[j].kind /\ file[i].name = file[j].name => i = j

IsSingleton(values) == Len(values) = 1 /\ values[1] # Empty

PrincipalIsValid(spec) ==
  /\ spec.type \in PrincipalTypes
  /\ spec.status \in Statuses
  /\ spec.metadata = "object"

RuleIsValid(rule) ==
  /\ IsSingleton(rule.tools) /\ IsSingleton(rule.verbs)
  /\ IsSingleton(rule.resources) /\ rule.resources[1] \in ResourceTypes
  /\ rule.effect \in Effects
  /\ rule.names # <<>> /\ Empty \notin ToSet(rule.names)
  /\ IsInjective(rule.names)

RoleIsValid(spec) == spec.rules # <<>> /\ \A rule \in ToSet(spec.rules) : RuleIsValid(rule)

BindingIsValid(spec, file) ==
  spec.principal \in Names("Principal", file) /\ spec.role \in Names("Role", file)

(* The principal of a key need not be in the file. *)
SpecIsValid(doc, file) ==
  CASE doc.kind = "Principal" -> PrincipalIsValid(doc.spec)
    [] doc.kind = "Role" -> RoleIsValid(doc.spec)
    [] doc.kind = "RoleBinding" -> BindingIsValid(doc.spec, file)
    [] doc.kind = "ApiKey" -> doc.spec.scopes = "object"

FromYaml(file) ==
  /\ \A doc \in Documents(file) : doc.kind \in Kinds /\ doc.current
  /\ NamesAreUnique(file)
  /\ \A doc \in Documents(file) :
       doc.name \in DOMAIN Rank /\ SpecIsValid(doc, file)

-----------------------------------------------------------------------------
(* What an accepted file compiles to *)

InOrder(kind, file) ==
  LET docs == Of(kind, file) IN
  Ascending(docs, [a \in docs |-> {b \in docs : Rank[b.name] < Rank[a.name]}])

NormalizeOptional(text) == IF text \in {Empty, Blank} THEN Absent ELSE text

PrincipalRequests(file) ==
  LET docs == InOrder("Principal", file) IN
  [i \in DOMAIN docs |->
     [id |-> docs[i].name, type |-> docs[i].spec.type,
      display |-> NormalizeOptional(docs[i].spec.display),
      status |-> docs[i].spec.status]]

ApiKeyRequests(file) ==
  LET docs == InOrder("ApiKey", file) IN
  [i \in DOMAIN docs |->
     [id |-> docs[i].name, principal |-> docs[i].spec.principal,
      display |-> NormalizeOptional(docs[i].spec.display)]]

(* policy_id: the hash in it keeps bindings, rules and names apart.  The   *)
(* bound of 128 bytes is out of reach, since a name has at most 96.        *)
PolicyId(binding, index, name) == <<binding, index, name>>

(* A policy as the admin API takes it; constraints say where it comes from. *)
CompiledPolicy(binding, role, index, name) ==
  LET rule == role.rules[index] IN
  [id |-> PolicyId(binding.name, index, name),
   principal |-> binding.spec.principal, key |-> Absent, effect |-> rule.effect,
   source |-> NormalizeOptional(role.source), tool |-> rule.tools[1],
   action |-> rule.verbs[1], type |-> rule.resources[1], pattern |-> name,
   constraints |-> [managedBy |-> "agctl", role |-> binding.spec.role,
                    binding |-> binding.name, rule |-> index],
   specificity |-> 0, enabled |-> TRUE]

(* A policy comes from a name of a rule of the role of a binding. *)
RoleOf(binding, file) == SpecOf("Role", binding.spec.role, file)

Places(file) ==
  LET OfRule(b, r) == {<<b, r, k>> : k \in DOMAIN RoleOf(b, file).rules[r].names}
      OfBinding(b) == UNION {OfRule(b, r) : r \in DOMAIN RoleOf(b, file).rules}
  IN UNION {OfBinding(b) : b \in Of("RoleBinding", file)}

IsBefore(p, q) ==
  \/ Rank[p[1].name] < Rank[q[1].name]
  \/ p[1] = q[1] /\ (p[2] < q[2] \/ (p[2] = q[2] /\ p[3] < q[3]))

PolicyAt(p, file) ==
  LET role == RoleOf(p[1], file) IN
  CompiledPolicy(p[1], role, p[2], role.rules[p[2]].names[p[3]])

CompilePolicies(file) ==
  LET places == Places(file)
      list == Ascending(places, [p \in places |-> {q \in places : IsBefore(q, p)}])
  IN [i \in DOMAIN list |-> PolicyAt(list[i], file)]

RoleBindingNames(file) == Names("RoleBinding", file)

IsAgctlPolicy(policy) == policy.constraints.managedBy = "agctl"
PolicyRoleBinding(policy) == policy.constraints.binding

==============================================================================
