---------------------------- MODULE KubernetesTools ----------------------------
(***************************************************************************)
(* The kubernetes tools of src/action-gateway/src/actions.rs around the    *)
(* run of kubectl, which is module KubectlRun: the arguments, the          *)
(* allowlist, the command line that is built or taken over, the answer.    *)
(*                                                                         *)
(* A text that is accepted as a name is a member of KubeName; "" and other *)
(* texts are refused where the code refuses them.  An argument or a value  *)
(* that may be left out is a set with at most one member.  A word of a     *)
(* command line that starts with '-' is a flag, split at its '=' into text *)
(* and value; another is split at its '/' into text and name.              *)
(***************************************************************************)
EXTENDS Integers, Sequences, FiniteSets, SequencesExt

CONSTANTS
  KubeName,     \* texts that are accepted as namespace, resource and name
  KubeRows,     \* what the allowlist of the source may hold: sequences of rows
  KubeAsk,      \* arguments of calls
  KubectlValued, \* flags whose value kubectl takes from the next word
  RawEnabled    \* whether KUBERNETES_ENABLE_RAW_KUBECTL permits the raw tool

VARIABLES
  kubeRows,    \* kubernetes_resource_allowlist of the store
  kubeCall     \* the call under way

kubeVars == <<kubeRows, kubeCall>>

NoSubject == [namespace |-> "", resource |-> "", name |-> {}, action |-> ""]
NoKubeCall ==
  [pc |-> "idle", ask |-> {}, subject |-> NoSubject, line |-> <<>>,
   policy |-> {}, bytes |-> 0, limit |-> 0, status |-> "none", isError |-> FALSE]

KubeIdle == kubeCall = NoKubeCall /\ kubeRows = <<>>

-----------------------------------------------------------------------------
(* Arguments *)

Given(optional, default) ==
  IF optional = {} THEN default ELSE CHOOSE value \in optional : TRUE
Within(optional, low, high) == optional \subseteq low..high
Between(low, n, high) == IF n < low THEN low ELSE IF n > high THEN high ELSE n

Alias ==
  [pods |-> {"po", "pod", "pods"},
   deployments |-> {"deploy", "deploys", "deployment", "deployments"},
   statefulsets |-> {"sts", "statefulset", "statefulsets"},
   daemonsets |-> {"ds", "daemonset", "daemonsets"},
   services |-> {"svc", "service", "services"},
   ingresses |-> {"ing", "ingress", "ingresses"},
   jobs |-> {"job", "jobs"},
   persistentvolumeclaims |->
     {"pvc", "pvcs", "persistentvolumeclaim", "persistentvolumeclaims"},
   events |-> {"ev", "event", "events"}]

NormalizeResource(resource) ==
  IF \E full \in DOMAIN Alias : resource \in Alias[full]
  THEN CHOOSE full \in DOMAIN Alias : resource \in Alias[full]
  ELSE resource

(* Mutant: the scope of the access policies knows one alias less. *)
NormalizeLossyOneLess(resource) ==
  IF resource = "deploys" THEN resource ELSE NormalizeResource(resource)
NormalizeLossy(resource) == NormalizeResource(resource)

(* A text that is accepted as a name starts with a letter or a digit. *)
ValueFlags ==
  {"-n", "--namespace", "-o", "--output", "-l", "--selector", "--field-selector"}

IsWord(word) ==
  /\ word.flag => word.slash = {} /\ word.text \notin KubeName
  /\ word.eq # {} \/ word.text \in KubectlValued => word.flag
  /\ \A half \in {word.eq, word.slash} : \A a, b \in half : a = b

IsKubeAsk(ask) ==
  /\ ask.tool \in {"list", "get", "rollout", "logs", "raw"}
  /\ ask.tool = "list" => ask.name = {}
  /\ ask.line \in Seq(ToSet(ask.line)) /\ \A word \in ToSet(ask.line) : IsWord(word)
  /\ \A field \in {"name", "action", "number", "bytes"} :
       \A a, b \in ask[field] : a = b

ASSUME KubeAssumption ==
  /\ RawEnabled \in BOOLEAN
  /\ ValueFlags \cup {"-c", "--tail"} \subseteq KubectlValued
  /\ DOMAIN Alias \subseteq KubeName /\ KubeName \cap (KubectlValued \cup {"/"}) = {}
  /\ \A ask \in KubeAsk : IsKubeAsk(ask)
  /\ \A rows \in KubeRows :
       /\ rows \in Seq(ToSet(rows))
       /\ \A row \in ToSet(rows) : {row.items, row.bytes, row.tail} \subseteq Int

Rollable == {"deployments", "statefulsets", "daemonsets"}

(* What the access policies are asked for: read from the arguments before  *)
(* they are checked.                                                       *)
ScopeOf(ask) ==
  [namespace |-> ask.namespace, name |-> ask.name,
   resource |-> IF ask.tool = "logs" THEN "pods" ELSE NormalizeLossy(ask.resource),
   action |-> CASE ask.tool = "list" -> "list"
                [] ask.tool = "get" -> "get"
                [] ask.tool = "logs" -> "logs"
                [] ask.tool = "rollout" ->
                     IF ask.action = {"history"} THEN "rollout_history" ELSE "rollout_status"]

ListIsRefused(ask) ==
  \/ {ask.namespace, ask.resource} \ KubeName # {}
  \/ "bad" \in ask.selector
  \/ ~Within(ask.number, 1, 1000)
GetIsRefused(ask) ==
  {ask.namespace, ask.resource} \cup ask.name \notin SUBSET KubeName \/ ask.name = {}
RolloutIsRefused(ask) ==
  \/ GetIsRefused(ask)
  \/ ~Within(ask.number, 1, 1000000)
  \/ NormalizeResource(ask.resource) \notin Rollable
  \/ Given(ask.action, "status") \notin {"status", "history"}
  \/ ask.number # {} /\ Given(ask.action, "status") # "history"
BytesAreRefused(ask) == ~Within(ask.bytes, 1024, 1048576)
LogsAreRefused(ask) ==
  \/ {ask.namespace} \cup ask.name \notin SUBSET KubeName \/ ask.name = {}
  \/ "bad" \in ask.selector
  \/ ~Within(ask.number, 1, 5000)
  \/ BytesAreRefused(ask)

-----------------------------------------------------------------------------
(* Command lines *)

Word(text) == [text |-> text, flag |-> FALSE, eq |-> {}, slash |-> {}]
Flag(text) == [Word(text) EXCEPT !.flag = TRUE]
Slashed(text, name) == [Word(text) EXCEPT !.slash = {name}]
Valued(text, value) == [Flag(text) EXCEPT !.eq = {value}]
Whole(word) == IF word.slash = {} THEN word.text ELSE "/"  \* with a '/' it is no name
InNamespace(ask) == <<Flag("-n"), Word(ask.namespace)>>

ListLine(ask) ==
  <<Word("get"), Word(NormalizeResource(ask.resource))>> \o InNamespace(ask)
  \o <<Flag("-o"), Word("json")>>
  \o (IF ask.selector = {} THEN <<>> ELSE <<Flag("-l"), Word(Given(ask.selector, ""))>>)

GetLine(ask) ==
  <<Word("get"), Word(NormalizeResource(ask.resource)), Word(Given(ask.name, ""))>>
  \o InNamespace(ask) \o <<Flag("-o"), Word("json")>>

RolloutLine(ask) ==
  LET action == Given(ask.action, "status") IN
  <<Word("rollout"), Word(action),
    Slashed(NormalizeResource(ask.resource), Given(ask.name, ""))>>
  \o InNamespace(ask)
  \o (IF action = "status" THEN <<Valued("--watch", "false")>> ELSE <<>>)
  \o (IF ask.number = {} THEN <<>> ELSE <<Valued("--revision", "n")>>)

LogsLine(ask) ==
  <<Word("logs"), Word(Given(ask.name, ""))>> \o InNamespace(ask)
  \o <<Flag("--tail"), Word("n")>>
  \o (IF ask.selector = {} THEN <<>> ELSE <<Flag("-c"), Word(Given(ask.selector, ""))>>)

-----------------------------------------------------------------------------
(* How the raw tool reads a command line *)

BareFlagsRefused ==
  {"-A", "--all-namespaces", "-w", "--watch", "--watch-only", "-f", "-R", "--recursive"}
ValuedFlagsRefused ==
  {"-A", "--all-namespaces", "--watch", "--watch-only", "--follow"}
FlagsRefused ==
  {"--as", "--as-group", "--as-uid", "--cache-dir", "--certificate-authority",
   "--client-certificate", "--client-key", "--cluster", "--context", "--field-manager",
   "--filename", "--force", "--grace-period", "--insecure-skip-tls-verify", "--kubeconfig",
   "--kuberc", "--password", "--proxy-url", "--raw", "--request-timeout", "--server",
   "--sort-by", "--template", "--token", "--user", "--username", "--watch", "--watch-only"}

IsSafe(word) ==
  /\ word.text # "--"
  /\ word.text \notin FlagsRefused
  /\ word.text \notin (IF word.eq = {} THEN BareFlagsRefused ELSE ValuedFlagsRefused)

(* -owide says what -o=wide says. *)
OutputIsWide(line, i) ==
  line[i].text \in {"-o", "--output"} =>
    IF line[i].eq # {} THEN line[i].eq = {"wide"}
    ELSE i < Len(line) /\ Whole(line[i + 1]) = "wide"

FlagsAreSafe(line) == \A i \in DOMAIN line : IsSafe(line[i]) /\ OutputIsWide(line, i)

ReadsOnly(line) ==
  LET Second(allowed) == Len(line) > 1 /\ ~line[2].flag /\ Whole(line[2]) \in allowed IN
  CASE Whole(line[1]) \in {"get", "describe", "api-resources", "api-versions", "version"} -> TRUE
    [] Whole(line[1]) = "config" -> Second({"current-context"})
    [] Whole(line[1]) = "rollout" -> Second({"history", "status"})
    [] OTHER -> FALSE

RawIsRefused(line) ==
  line = <<>> \/ Len(line) > 64 \/ ~ReadsOnly(line) \/ ~FlagsAreSafe(line)

(* The first namespace that the line names, if it is a valid one. *)
RawNamespace(line) ==
  LET at == {i \in DOMAIN line : \/ line[i].text \in {"-n", "--namespace"} /\ line[i].eq = {}
                                 \/ line[i].text = "--namespace" /\ line[i].eq # {}}
      first == Min(at)
  IN IF at = {} THEN {}
     ELSE (IF line[first].eq # {} THEN line[first].eq
           ELSE IF first < Len(line) THEN {Whole(line[first + 1])} ELSE {}) \cap KubeName

TakesValue(word) == word.text \in ValueFlags /\ word.eq = {}

(* Where the positionals are.  A word is the value of the flag before it,  *)
(* unless that one is a value itself: of flags in a row every other one.   *)
Positionals(line, start) ==
  LET FlagsBefore(i) == {j \in start + 1..i - 1 : \A k \in j..i - 1 : TakesValue(line[k])}
  IN {i \in start + 1..Len(line) :
        /\ ~TakesValue(line[i]) /\ ~line[i].flag
        /\ Cardinality(FlagsBefore(i)) % 2 = 0}

RawName(line, at) ==
  LET first == Min(at) IN
  IF line[first].slash # {} THEN line[first].slash
  ELSE IF at # {first} THEN {Whole(line[Min(at \ {first})])} ELSE {}

(* Nothing, if the line is refused for what it names. *)
RawResource(line, start) ==
  LET at == Positionals(line, start)
      namespaces == RawNamespace(line)
      resource == line[Min(at)].text
  IN IF at = {} \/ namespaces = {} THEN {}
     ELSE IF {resource} \cup RawName(line, at) \notin SUBSET KubeName THEN {}
     ELSE {[namespace |-> namespace, resource |-> NormalizeResource(resource),
            name |-> RawName(line, at), action |-> ""] : namespace \in namespaces}

RawSubject(line) ==
  LET Acted(start, action) == {[s EXCEPT !.action = action] : s \in RawResource(line, start)}
      Named(subjects) == {s \in subjects : s.name # {}}
  IN CASE line[1].text = "get" ->
            {s \in Acted(1, "list") : s.name = {}} \cup Named(Acted(1, "get"))
       [] line[1].text = "describe" -> Named(Acted(1, "describe"))
       [] line[1].text = "rollout" ->
            {s \in Named(Acted(2, IF line[2].text = "status" THEN "rollout_status"
                                  ELSE "rollout_history")) : s.resource \in Rollable}
       [] OTHER -> {}

IsClusterWide(line) ==
  line[1].text \in {"api-resources", "api-versions", "version", "config"}

-----------------------------------------------------------------------------
(* The allowlist *)

(* The first row for the resource decides, whatever the later ones permit. *)
RowsFor(rows, subject) ==
  {i \in DOMAIN rows : /\ rows[i].enabled /\ rows[i].namespace = subject.namespace
                       /\ rows[i].resource = subject.resource}

LoadPolicy(rows, subject) ==
  LET found == RowsFor(rows, subject)
      row == rows[Min(found)]
  IN IF found = {} THEN [outcome |-> "not_allowed"]
     ELSE IF "bad" \in row.actions THEN [outcome |-> "failed"]
     ELSE IF subject.action \notin row.actions THEN [outcome |-> "not_allowed"]
     ELSE [outcome |-> "allowed", items |-> Between(1, row.items, 1000),
           bytes |-> Between(1024, row.bytes, 1048576),
           tail |-> Between(1, row.tail, 5000)]

-----------------------------------------------------------------------------
(* The calls, up to the start of kubectl *)

EndKube(status) ==
  kubeCall' = [kubeCall EXCEPT !.pc = "done", !.status = status, !.isError = TRUE]

Ready(ask, subject, line, policy, bytes, limit) ==
  kubeCall' = [NoKubeCall EXCEPT !.pc = "ready", !.ask = {ask}, !.subject = subject,
                 !.line = line, !.policy = {policy}, !.bytes = bytes, !.limit = limit]

Subject(ask, resource, action) ==
  [namespace |-> ask.namespace, resource |-> resource, name |-> ask.name, action |-> action]

ListResources(ask, rows) ==
  LET subject == Subject(ask, NormalizeResource(ask.resource), "list")
      policy == LoadPolicy(rows, subject)
  IN IF ListIsRefused(ask) THEN EndKube("invalid")
     ELSE IF policy.outcome # "allowed" THEN EndKube(policy.outcome)
     ELSE IF Given(ask.number, 0) > policy.items THEN EndKube("not_allowed")
     ELSE Ready(ask, subject, ListLine(ask), policy, policy.bytes,
                Given(ask.number, Between(1, policy.items, 100)))

GetResource(ask, rows) ==
  LET subject == Subject(ask, NormalizeResource(ask.resource), "get")
      policy == LoadPolicy(rows, subject)
  IN IF GetIsRefused(ask) THEN EndKube("invalid")
     ELSE IF policy.outcome # "allowed" THEN EndKube(policy.outcome)
     ELSE Ready(ask, subject, GetLine(ask), policy, policy.bytes, 1)

RolloutStatus(ask, rows) ==
  LET action == IF Given(ask.action, "status") = "history" THEN "rollout_history"
                ELSE "rollout_status"
      subject == Subject(ask, NormalizeResource(ask.resource), action)
      policy == LoadPolicy(rows, subject)
  IN IF RolloutIsRefused(ask) THEN EndKube("invalid")
     ELSE IF policy.outcome # "allowed" THEN EndKube(policy.outcome)
     ELSE Ready(ask, subject, RolloutLine(ask), policy, policy.bytes, 1)

PodLogs(ask, rows) ==
  LET subject == Subject(ask, "pods", "logs")
      policy == LoadPolicy(rows, subject)
      bytes == Given(ask.bytes, 65536)
  IN IF LogsAreRefused(ask) THEN EndKube("invalid")
     ELSE IF policy.outcome # "allowed" THEN EndKube(policy.outcome)
     ELSE IF Given(ask.number, 200) > policy.tail \/ bytes > policy.bytes
     THEN EndKube("not_allowed")
     ELSE Ready(ask, subject, LogsLine(ask), policy, bytes, Given(ask.number, 200))

RawRead(ask, rows) ==
  LET bytes == Given(ask.bytes, 65536)
      line == ask.line
      subject == CHOOSE s \in RawSubject(line) : TRUE
      policy == LoadPolicy(rows, subject)
  IN IF ~RawEnabled THEN EndKube("not_allowed")
     ELSE IF RawIsRefused(line) \/ BytesAreRefused(ask) THEN EndKube("invalid")
     ELSE IF IsClusterWide(line)
     THEN Ready(ask, NoSubject, line, [outcome |-> "cluster"], Between(0, bytes, 65536), 0)
     ELSE IF RawSubject(line) = {} THEN EndKube("invalid")
     ELSE IF policy.outcome # "allowed" THEN EndKube(policy.outcome)
     ELSE IF bytes > policy.bytes THEN EndKube("not_allowed")
     ELSE Ready(ask, subject, line, policy, bytes, 0)

StartKube ==
  /\ KubeIdle
  /\ \E ask \in KubeAsk, rows \in KubeRows :
       /\ kubeRows' = rows
       /\ CASE ask.tool = "list" -> ListResources(ask, rows)
            [] ask.tool = "get" -> GetResource(ask, rows)
            [] ask.tool = "rollout" -> RolloutStatus(ask, rows)
            [] ask.tool = "logs" -> PodLogs(ask, rows)
            [] ask.tool = "raw" -> RawRead(ask, rows)

-----------------------------------------------------------------------------
(* The source record may be disabled by now, or have no kubeconfig. *)
NoKubeconfig ==
  /\ kubeCall.pc = "ready"
  /\ EndKube("failed")
  /\ UNCHANGED kubeRows

(* kubectl ends, as module KubectlRun has it.  list and get need a whole   *)
(* JSON document; an output that was cut is none, and the answer is an     *)
(* error with the status of the run.                                       *)
KubectlEnds ==
  /\ kubeCall.pc = "ready"
  /\ UNCHANGED kubeRows
  /\ \E ask \in kubeCall.ask, document \in BOOLEAN,
        status \in {"succeeded", "failed", "timeout"} :
       kubeCall' = [kubeCall EXCEPT !.pc = "done", !.status = status,
                      !.isError = \/ status # "succeeded"
                                  \/ ask.tool \in {"list", "get"} /\ ~document]

ForgetKube ==
  /\ kubeCall.pc = "done"
  /\ kubeCall' = NoKubeCall /\ kubeRows' = <<>>

KubeInit == KubeIdle
KubeNext == StartKube \/ NoKubeconfig \/ KubectlEnds \/ ForgetKube

-----------------------------------------------------------------------------
(* kubectl's own reading of a command line: the last namespace counts, and *)
(* every argument after a resource is a name of it, every TYPE/NAME one    *)
(* more target.                                                            *)
TakesNext(word) == word.flag /\ word.text \in KubectlValued /\ word.eq = {}
IsValue(line, i) == i > 1 /\ TakesNext(line[i - 1])

Namespaces(line) ==
  {i \in DOMAIN line :
     line[i].flag /\ line[i].text \in {"-n", "--namespace"} /\ ~IsValue(line, i)}
KubectlNamespace(line) ==
  LET last == Max(Namespaces(line)) IN
  IF Namespaces(line) = {} THEN {""}   \* that of the kubeconfig
  ELSE IF line[last].eq # {} THEN line[last].eq ELSE {Whole(line[last + 1])}

KubectlArguments(line) ==
  LET verbs == IF line[1].text = "rollout" THEN 2 ELSE 1 IN
  {i \in verbs + 1..Len(line) : ~line[i].flag /\ ~IsValue(line, i)}

Target(resource, name) == [resource |-> resource, name |-> name]
Targets(line) ==
  LET at == KubectlArguments(line)
      first == Min(at)
      resource == NormalizeResource(line[first].text)
  IN IF line[1].text = "logs" THEN {Target("pods", {Whole(line[i])}) : i \in at}
     ELSE IF line[first].slash # {}
     THEN {Target(NormalizeResource(line[i].text), line[i].slash) : i \in at}
     ELSE IF at = {first} THEN {Target(resource, {})}
     ELSE {Target(resource, {Whole(line[i])}) : i \in at \ {first}}

ActionOn(line, name) ==
  CASE line[1].text = "get" -> IF name = {} THEN "list" ELSE "get"
    [] line[1].text = "rollout" ->
         IF line[2].text = "status" THEN "rollout_status" ELSE "rollout_history"
    [] OTHER -> line[1].text

KubectlAsks(line) ==
  {[namespace |-> namespace, resource |-> target.resource, name |-> target.name,
    action |-> ActionOn(line, target.name)] :
      namespace \in KubectlNamespace(line), target \in Targets(line)}

(* A line that says nothing twice: one namespace, one target, and no flag  *)
(* but those the gateway knows takes its value from the next word.         *)
SaysOnce(line) ==
  LET at == KubectlArguments(line) IN
  /\ \A i, j \in Namespaces(line) : i = j
  /\ \A i, j \in at : i < j =>
       line[i].slash = {} /\ ~\E k \in at : j < k
  /\ \A i \in DOMAIN line : TakesNext(line[i]) =>
       line[i].text \in ValueFlags /\ i < Len(line) /\ ~line[i + 1].flag

-----------------------------------------------------------------------------
(* kubectl is asked for what was permitted.  Of the four typed tools: what *)
(* the access policies saw, what the allowlist was searched for and all    *)
(* that kubectl reads from the command line are one subject.  Of the raw   *)
(* tool, whose line is the caller's: what the allowlist was searched for   *)
(* is all that kubectl reads from it, if the line says nothing twice; of   *)
(* another line the gateway checks its own reading, and nothing is claimed *)
(* here.  A row of the allowlist permits the subject within its bounds.    *)
AskedIsPermitted ==
  kubeCall.pc = "ready" =>
    \A ask \in kubeCall.ask, policy \in kubeCall.policy :
      LET line == kubeCall.line  subject == kubeCall.subject
          Permits(row) ==
            /\ row.enabled /\ subject.action \in row.actions
            /\ row.namespace = subject.namespace /\ row.resource = subject.resource
      IN /\ ask.tool # "raw" => ScopeOf(ask) = subject /\ KubectlAsks(line) = {subject}
         /\ policy.outcome = "allowed" =>
              /\ ask.tool = "raw" /\ SaysOnce(line) => KubectlAsks(line) = {subject}
              /\ \E i \in DOMAIN kubeRows : Permits(kubeRows[i])
              /\ kubeCall.bytes <= policy.bytes
              /\ ask.tool = "list" => kubeCall.limit <= policy.items
              /\ ask.tool = "logs" => kubeCall.limit <= policy.tail
         /\ policy.outcome # "allowed" => kubeCall.bytes <= 65536 /\ IsClusterWide(line)

(* Stated by the documents of the store and of the allowlists: a raw read  *)
(* is permitted by the action raw_read of a row.                           *)
RawReadGoverns ==
  kubeCall.pc = "ready" =>
    \A ask \in kubeCall.ask, policy \in kubeCall.policy :
      ask.tool = "raw" /\ policy.outcome = "allowed" =>
        \E i \in RowsFor(kubeRows, kubeCall.subject) : "raw_read" \in kubeRows[i].actions

==============================================================================
