------------------------------- MODULE MCAgctl -------------------------------
(* Two versions of one team's file, files that are refused, and a store    *)
(* that another team and an administrator use too.                         *)
EXTENDS Agctl

MCRank == [svc |-> 1, reader |-> 2, b |-> 3, k |-> 4]

Doc(kind, name, spec) == [kind |-> kind, current |-> TRUE, name |-> name, spec |-> spec]

Svc == Doc("Principal", "svc",
  [type |-> "service_account", display |-> Blank, status |-> "active", metadata |-> "object"])
Binding == Doc("RoleBinding", "b", [principal |-> "svc", role |-> "reader"])
Key == Doc("ApiKey", "k", [principal |-> "svc", display |-> "k", scopes |-> "object"])
Rule(effect, names) ==
  [tools |-> <<"data.query_table">>, verbs |-> <<"select">>,
   resources |-> <<"table">>, names |-> names, effect |-> effect]
Reader(rules) == Doc("Role", "reader", [source |-> "mysql", rules |-> rules])
Null == Doc("null", "", Absent)

(* The second version drops orders.*, and grants what the first denies.    *)
First == << Svc, Binding, Key, Null,
  Reader(<<Rule("allow", <<"orders.*">>), Rule("deny", <<"orders.pay">>)>>) >>
Second == << Reader(<<Rule("allow", <<"users">>), Rule("allow", <<"orders.pay">>)>>),
  Binding, [Svc EXCEPT !.spec.display = "Service"] >>
Dangling == << Svc, Binding >>
Twice == First \o << Svc >>

MCFile == [first |-> First, second |-> Second, dangling |-> Dangling, twice |-> Twice]

Apply(file, prune, secrets) ==
  [verb |-> "apply", file |-> file, prune |-> prune, secrets |-> secrets]
On(verb, file) == [verb |-> verb, file |-> file]

MCCommand ==
  { Apply("first", FALSE, TRUE), Apply("first", TRUE, FALSE),
    Apply("second", TRUE, FALSE), Apply("dangling", TRUE, FALSE),
    On("diff", "second"), On("diff", "twice"), [verb |-> "get", name |-> {}],
    [verb |-> "get", name |-> {"ops"}],
    [verb |-> "delete", file |-> "first", principals |-> TRUE],
    [verb |-> "create-key", out |-> TRUE,
     body |-> [id |-> "k", principal |-> "svc", display |-> Absent]],
    [verb |-> "create-principal",
     body |-> [id |-> "ops", type |-> "robot", display |-> Absent, status |-> "active"]],
    [verb |-> "create-principal",
     body |-> [id |-> "ops", type |-> "user", display |-> Absent, status |-> "disabled"]],
    On("can-i", "first"), On("can-i", "second"), On("can-i", "twice") }

MCQuery ==
  { [principal |-> p, verb |-> v, resource |-> "table", name |-> n,
     source |-> s, tool |-> t] :
      p \in {"svc", "ops"}, v \in {"select", "delete"}, n \in {"orders.a", "orders.pay"},
      s \in {Absent, "mysql", "pg"}, t \in {Absent, "data.query_table"} }

MCCovers ==
  {<<"orders.*", "orders.a">>, <<"orders.*", "orders.pay">>,
   <<"orders.pay", "orders.pay">>, <<"users", "users">>}

(* Policies that no file of this team compiles to. *)
Unmanaged == [managedBy |-> Absent, role |-> Absent, binding |-> Absent, rule |-> Absent]
Manual ==
  [id |-> <<"manual", 1, "t">>, principal |-> "ops", key |-> Absent, effect |-> "allow",
   source |-> Absent, tool |-> Absent, action |-> Absent, type |-> Absent, pattern |-> Absent,
   constraints |-> Unmanaged, specificity |-> 0, enabled |-> TRUE]
OtherTeam ==
  [Manual EXCEPT !.id = <<"c", 1, "t">>,
     !.constraints = [managedBy |-> "agctl", role |-> "r2", binding |-> "c", rule |-> 1]]

Ops == [id |-> "ops", type |-> "user", display |-> Absent, status |-> "active"]

EmptyStore == [principals |-> {}, keys |-> {}, policies |-> {}]
MCInitialStore ==
  { EmptyStore,
    [principals |-> {Ops} \cup ToSet(Principals["first"]), keys |-> {},
     policies |-> {Manual, OtherTeam} \cup CompiledSet["first"]] }

(* The administrator disables the principal, withdraws a policy of the     *)
(* team, or makes it one of its own.                                       *)
MCEdit ==
  LET p == Compiled["first"][1] IN
  { [what |-> "principal", body |-> [Principals["first"][1] EXCEPT !.status = "disabled"]],
    [what |-> "policy", body |-> [p EXCEPT !.enabled = FALSE]],
    [what |-> "policy", body |-> [p EXCEPT !.constraints = Unmanaged, !.enabled = FALSE]] }

==============================================================================
