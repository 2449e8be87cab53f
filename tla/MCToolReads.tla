------------------------------ MODULE MCToolReads ------------------------------
(***************************************************************************)
(* An instance of the decision and of the tools that read: small stores of *)
(* policies, and every combination of arguments, configurations and        *)
(* answers of the upstream on both sides of each bound.                    *)
(***************************************************************************)
EXTENDS ToolReads

-----------------------------------------------------------------------------
(* The decision: a caller with a key of its principal, one of another      *)
(* principal without a key (anonymous), and one that is unrestricted.      *)
MCCaller ==
  { [principal |-> "p", key |-> "k", unrestricted |-> FALSE],
    [principal |-> "q", key |-> Absent, unrestricted |-> FALSE],
    [principal |-> "q", key |-> "k2", unrestricted |-> TRUE] }

MCScope ==
  { [source |-> "s", tool |-> "query", action |-> "select", type |-> "table",
     resource |-> "db.a"],
    [source |-> "s", tool |-> "logs", action |-> "read", type |-> Absent,
     resource |-> Absent] }

MCCovers == {<<"db.*", "db.a">>, <<"db.*", "db.b">>, <<"db.b", "db.b">>}

Base ==
  [effect |-> "allow", enabled |-> TRUE, principal |-> "p", key |-> Absent,
   source |-> Absent, tool |-> Absent, action |-> Absent, type |-> Absent,
   pattern |-> Absent, specificity |-> 0, created |-> 0]

(* Each of them differs from the others in a field that decides. *)
MCPolicy ==
  { Base,
    [Base EXCEPT !.principal = Absent, !.key = "k", !.pattern = "db.*",
                 !.specificity = 2],
    [Base EXCEPT !.tool = "query", !.specificity = 1, !.created = 1],
    [Base EXCEPT !.principal = "q", !.tool = "logs", !.pattern = "*"],
    [Base EXCEPT !.type = "table", !.source = "s", !.specificity = 1],
    [Base EXCEPT !.effect = "deny", !.enabled = FALSE],
    [Base EXCEPT !.effect = "deny", !.pattern = "db.*"],
    [Base EXCEPT !.effect = "deny", !.pattern = "db.b", !.specificity = 2],
    [Base EXCEPT !.effect = "deny", !.tool = "logs", !.action = "read",
                 !.specificity = -1],
    [Base EXCEPT !.effect = "deny", !.principal = "q", !.source = "t"] }

-----------------------------------------------------------------------------
(* redis.query_key: keys of every type, with items at and above the limits *)
(* of a row, and hash fields that are shown alike.                         *)

Item(text, value, size) == [text |-> text, value |-> value, size |-> size]
Lengths == {<<Item("a", 1, 1)>>, <<Item("a", 1, 1), Item("b", 1, 1)>>,
            <<Item("a", 1, 1), Item("b", 1, 1), Item("c", 1, 2)>>}
MCRedisContent ==
  {[type |-> type, items |-> <<>>] : type \in {"none", "stream"}}
  \cup {[type |-> "string", items |-> <<Item("a", 1, size)>>] : size \in 1..2}
  \cup {[type |-> type, items |-> items] : type \in {"list", "set", "zset", "hash"},
                                           items \in Lengths}
  \cup {[type |-> "hash", items |-> <<Item("a", 1, 1), Item("a", 2, 1)>>]}

Key(matches, enabled, bytes, members) ==
  [matches |-> matches, enabled |-> enabled, bytes |-> bytes, members |-> members]
MCRedisRow ==
  {<<>>,
   <<Key("part", TRUE, 9, 9), Key("whole", TRUE, 0, 2), Key("invalid", TRUE, 1, 1)>>,
   <<Key("invalid", FALSE, 1, 1), Key("whole", TRUE, 2, 1001)>>,
   <<Key("invalid", TRUE, 1, 1), Key("whole", TRUE, 2, 3)>>,
   <<Key("whole", TRUE, 1, 0)>>}
MCRedisAsk ==
  [key : {"ok"}, limit : {"none", "text"}, number : {0}]
  \cup [key : {"missing", "long", "control"}, limit : {"none"}, number : {0}]
  \cup [key : {"ok"}, limit : {"number"}, number : {-1, 0, 1, 2, 1000, 1001}]

-----------------------------------------------------------------------------
(* The kubernetes tools: every alias, another namespace and name, numbers  *)
(* on both sides of each bound, and command lines for the raw tool.        *)

NoAsk ==
  [tool |-> "list", namespace |-> "ns", resource |-> "pods", name |-> {}, action |-> {},
   number |-> {}, bytes |-> {}, selector |-> {}, line |-> <<>>]
Optional(values) == {{}} \cup {{v} : v \in values}

MCKubectlValued == ValueFlags \cup {"-c", "--tail", "--chunk-size"}
MCKubeName ==
  UNION {Alias[full] : full \in DOMAIN Alias} \cup {"ns", "other", "web", "nodes"}

ListAsks ==
  {[NoAsk EXCEPT !.namespace = ns, !.resource = r, !.number = n, !.selector = l] :
     ns \in {"ns", "other", ""}, r \in {"pod", "nodes", "svc", "x y"},
     n \in Optional({0, 1, 2, 3, 1001}), l \in Optional({"app", "bad"})}
GetAsks ==
  {[NoAsk EXCEPT !.tool = "get", !.resource = r, !.name = m] :
     r \in MCKubeName, m \in Optional({"web", "x y"})}
RolloutAsks ==
  {[NoAsk EXCEPT !.tool = "rollout", !.resource = r, !.name = m, !.action = a, !.number = n] :
     r \in {"deploy", "deploys", "deployment", "deployments", "sts", "ds", "pods"},
     m \in Optional({"web"}), a \in Optional({"status", "history", "undo"}),
     n \in Optional({0, 1})}
LogsAsks ==
  {[NoAsk EXCEPT !.tool = "logs", !.namespace = ns, !.resource = r, !.name = m,
                 !.number = n, !.bytes = b, !.selector = c] :
     ns \in {"ns", "other"}, r \in {"", "deployments"}, m \in Optional({"web"}),
     n \in Optional({0, 1, 199, 200, 5001}),
     b \in Optional({1023, 1024, 2048, 65536, 1048577}),
     c \in Optional({"app", "bad"})}

RawWords == {Flag("-n"), Word("ns"), Valued("--namespace", "other"), Word("po"), Word("web"),
             Slashed("deploy", "web"), Valued("-n", "other"), Flag("--chunk-size"), Flag("-A"), Valued("--watch", "true"),
             Flag("-o"), Word("wide"), Word("json")}
RawLines ==
  {<<>>, <<Word("delete"), Word("po")>>, <<Word("version")>>, <<Word("config"), Word("view")>>,
   <<Word("config"), Word("current-context")>>, <<Word("rollout"), Word("undo")>>,
   <<Word("get"), Word("po"), Flag("-n"), Slashed("ns", "web")>>}
  \cup {<<Word(verb)>> \o words : verb \in {"get", "describe"},
          words \in UNION {[1..n -> RawWords] : n \in 1..3}}
  \cup {<<Word(verb), Flag("-n"), Word("ns")>> \o words : verb \in {"get", "describe"},
          words \in [1..2 -> RawWords]}
  \cup {<<Word("rollout"), Word(action), Flag("-n"), Word("ns")>> \o words :
          action \in {"status", "history"}, words \in [1..2 -> RawWords]}
RawAsks ==
  {[NoAsk EXCEPT !.tool = "raw", !.line = l] : l \in RawLines}
  \cup {[NoAsk EXCEPT !.tool = "raw", !.bytes = b,
                      !.line = <<Word("get"), Word("po"), Flag("-n"), Word("ns")>>] :
          b \in Optional({1023, 1024, 2049, 65537, 1048577})}

MCKubeAsk == ListAsks \cup GetAsks \cup RolloutAsks \cup LogsAsks \cup RawAsks

Row(resource, enabled, actions, items, bytes, tail) ==
  [namespace |-> "ns", resource |-> resource, enabled |-> enabled, actions |-> actions,
   items |-> items, bytes |-> bytes, tail |-> tail]
Reads == {"list", "get", "describe", "logs", "rollout_status", "rollout_history"}
MCKubeRows ==
  {<<>>,
   <<Row("pods", FALSE, {"bad"}, 1, 1, 1), Row("pods", TRUE, Reads, 2, 2048, 199),
     Row("pods", TRUE, Reads, 1000, 65536, 200)>>,
   <<Row("pods", TRUE, {"get", "bad"}, 1, 1, 1), Row("services", TRUE, {"get"}, 0, 0, 0),
     Row("services", TRUE, Reads, 9, 9, 9)>>}
  \cup {<<Row(full, TRUE, Reads, 2000, 2000000, 9000)>> : full \in DOMAIN Alias}

(* A row as the documents describe it for the raw tool, and one without. *)
RawRows == {<<Row("pods", TRUE, actions, 9, 65536, 9)>> : actions \in {{"raw_read"}, {"list"}}}

-----------------------------------------------------------------------------
(* logs.query_sls_logs: every check of the arguments on both of its sides, *)
(* the token in the credential, in the config, in both or in none.         *)

PlainAsk ==
  [project |-> "proj", logstore |-> "ls", from |-> 1, to |-> 2, query |-> "q",
   topic |-> {}, line |-> {}, offset |-> {}]
MCSlsAsk ==
  {[PlainAsk EXCEPT !.project = p, !.logstore = l] : p, l \in {"proj", "cn", "", "long", "a/b", "a%2Fb"}}
  \cup {[PlainAsk EXCEPT !.from = f, !.to = t] : f, t \in -1..2}
  \cup {[PlainAsk EXCEPT !.query = q] : q \in {"", "long", "control"}}
  \cup {[PlainAsk EXCEPT !.topic = t] : t \in {{"t"}, {""}, {"long"}, {"control"}}}
  \cup {[PlainAsk EXCEPT !.line = l, !.offset = o] :
          l \in Optional({-1, 0, 100, 101}), o \in Optional({-1, 0})}

Endpoint(host, local) == [host |-> host, local |-> local, path |-> FALSE, spaced |-> FALSE]
Endpoints ==
  {Endpoint(<<"cn", "log">>, FALSE), Endpoint(<<"localhost">>, TRUE), Endpoint(<<>>, FALSE),
   [Endpoint(<<"cn", "log">>, FALSE) EXCEPT !.path = TRUE],
   [Endpoint(<<"cn", "log">>, FALSE) EXCEPT !.spaced = TRUE]}
Fields(endpoint, id, secret, token) ==
  [endpoint |-> endpoint, accessKeyId |-> id, accessKeySecret |-> secret,
   securityToken |-> token]
MCSlsSource ==
  [credential : {Fields(e, i, s, t) : e \in {{}}, i, s \in Optional({"ak"}),
                                      t \in Optional({"token", "padded", "control"})},
   config : {Fields(e, {}, s, t) : e \in Optional(Endpoints), s \in Optional({"old"}),
                                   t \in Optional({"older"})}]

MCSlsResponse ==
  [ok : BOOLEAN, packed : {"plain", "gzip", "zlib", "broken"}, marked : BOOLEAN,
   content : {"data", "no data", "text"}, logs : 0..2, count : Optional({2})]

-----------------------------------------------------------------------------
(* audit.query_approval_events: two of the twelve filters, which are alike. *)

MCEventFields == [actionName : {"a", "b"}, decision : {"allowed", "none"}]
Filtered(name, verdict) ==
  [field \in name \cup verdict |-> IF field \in name THEN "a" ELSE "allowed"]
MCAuditAsk ==
  {[filters |-> Filtered(n, d), limit |-> l] :
     n \in Optional({"actionName"}), d \in Optional({"decision"}),
     l \in Optional({0, 1, 2, 1000, 1001})}
  \cup {[filters |-> [field \in {"decision"} |-> text], limit |-> {}] :
          text \in {"empty", "long"}}

==============================================================================
