------------------------------- MODULE SlsQuery -------------------------------
(***************************************************************************)
(* One call of logs.query_sls_logs: its arguments and the source's         *)
(* credential (src/action-gateway/src/actions.rs), the signed request to   *)
(* the log service and its answer (src/action-gateway/src/sls.rs).         *)
(*                                                                         *)
(* A text of the source is a set with at most one member; a missing and a  *)
(* blank one are both the empty set, as the code treats them alike.  An    *)
(* endpoint is its host, a sequence of labels, with what else it has.      *)
(***************************************************************************)
EXTENDS Integers, Sequences, FiniteSets, SequencesExt

CONSTANTS
  SlsSource,    \* what the store has for the source: credential and config
  SlsAsk,       \* arguments of the call
  SlsResponse   \* answers of the service

VARIABLES
  slsSource,    \* the record of the source; {} if there is none or it is disabled
  slsCall       \* the call under way

(* What may be left out is a set with at most one member. *)
AtMostOne(values) == \A a, b \in values : a = b

ASSUME SlsAssumption ==
  /\ \A source \in SlsSource, field \in {"endpoint", "accessKeySecret", "securityToken"} :
       AtMostOne(source.credential[field]) /\ AtMostOne(source.config[field])
  /\ \A source \in SlsSource : \A endpoint \in
         source.credential["endpoint"] \cup source.config["endpoint"] :
       endpoint.host \in Seq(ToSet(endpoint.host))
  /\ \A response \in SlsResponse : {response.ok, response.marked} \subseteq BOOLEAN

slsVars == <<slsSource, slsCall>>

NoSlsCall ==
  [pc |-> "idle", ask |-> {}, request |-> {}, response |-> {}, status |-> "none",
   logs |-> 0, count |-> 0]
SlsIdle == slsSource = {} /\ slsCall = NoSlsCall

Only(values) == CHOOSE value \in values : TRUE
OrElse(values, default) == IF values = {} THEN default ELSE Only(values)

-----------------------------------------------------------------------------
(* Arguments.  "a/b" is a text with a character that a URL must encode,    *)
(* and "a%2Fb" is how it does.                                             *)

SlsNameIsRefused(name) == name \in {"", "long", "a/b", "a%2Fb"}
SlsTextIsRefused(text) == text \in {"", "long", "control"}
SlsAskIsRefused(ask) ==
  \/ SlsNameIsRefused(ask.project) \/ SlsNameIsRefused(ask.logstore)
  \/ ask.from < 0 \/ ask.from >= ask.to
  \/ SlsTextIsRefused(ask.query) \/ \E topic \in ask.topic : SlsTextIsRefused(topic)
  \/ \E line \in ask.line : line \notin 0..100
  \/ \E offset \in ask.offset : offset < 0

LogsBody(ask) ==
  [from |-> ask.from, to |-> ask.to, query |-> ask.query, topic |-> ask.topic,
   line |-> OrElse(ask.line, 100), offset |-> OrElse(ask.offset, 0)]

-----------------------------------------------------------------------------
(* The client of the source *)

(* The credential first, then the config, field by field. *)
SecretString(source, field) ==
  IF source.credential[field] # {} THEN source.credential[field]
  ELSE source.config[field]

(* The endpoint must have a host, no path and no white space. *)
EndpointIsRefused(endpoint) ==
  endpoint.host = <<>> \/ endpoint.spaced \/ endpoint.path

ClientIsRefused(source) ==
  \/ \E field \in {"endpoint", "accessKeyId", "accessKeySecret"} :
       SecretString(source, field) = {}
  \/ EndpointIsRefused(Only(SecretString(source, "endpoint")))

(* localhost and addresses, and a host that starts with the project, stay. *)
EndpointForProject(endpoint, project) ==
  IF endpoint.local \/ endpoint.host[1] = project THEN endpoint.host
  ELSE <<project>> \o endpoint.host

-----------------------------------------------------------------------------
(* Signing: digests and signatures are the terms that they are made of. *)

Encode(text) == IF text = "a/b" THEN "a%2Fb" ELSE text
Md5(body) == <<"md5", body>>
SizeOfBody(body) == <<"bytes", body>>

SignRequest(secret, md5, date, headers, path, params) ==
  <<"hmac", secret, "POST", md5, "application/json", date, headers, path, params>>

LogHeaders(body) ==
  [name \in {"x-log-apiversion", "x-log-bodyrawsize", "x-log-signaturemethod"} |->
     CASE name = "x-log-apiversion" -> <<"0.6.0">>
       [] name = "x-log-bodyrawsize" -> SizeOfBody(body)
       [] name = "x-log-signaturemethod" -> <<"hmac-sha1">>]
TokenHeader(token) == [name \in IF token = {} THEN {} ELSE {"x-acs-security-token"} |->
                         <<Only(token)>>]
Joined(f, g) == [name \in DOMAIN f \cup DOMAIN g |->
                   IF name \in DOMAIN f THEN f[name] ELSE g[name]]

(* Mutant: the token of a temporary credential is sent and not signed. *)
SigningHeadersNoToken(body, token) == LogHeaders(body)
SigningHeaders(body, token) == Joined(LogHeaders(body), TokenHeader(token))

SignedHeaders(path, params, body, date, source) ==
  LET token == SecretString(source, "securityToken")
      signature == SignRequest(Only(SecretString(source, "accessKeySecret")), Md5(body),
                               date, SigningHeaders(body, token), path, params)
  IN Joined(Joined(LogHeaders(body), TokenHeader(token)),
            [name \in {"date", "content-md5", "content-type", "authorization"} |->
               CASE name = "date" -> date
                 [] name = "content-md5" -> Md5(body)
                 [] name = "content-type" -> "application/json"
                 [] name = "authorization" ->
                      [id |-> Only(SecretString(source, "accessKeyId")),
                       signature |-> signature]])

(* A token with a control character is no value of a header. *)
SigningFails(source) == SecretString(source, "securityToken") = {"control"}

LogsRequest(ask, source) ==
  LET body == LogsBody(ask)
      path == <<"logstores", Encode(ask.logstore), "logs">>
  IN [host |-> EndpointForProject(Only(SecretString(source, "endpoint")), ask.project),
      path |-> path, params |-> <<"project", Encode(ask.project)>>, body |-> body,
      headers |-> SignedHeaders(path, <<"project", ask.project>>, body, "now", source)]

-----------------------------------------------------------------------------
FailSls(ask, status) ==
  slsCall' = [NoSlsCall EXCEPT !.pc = "done", !.ask = {ask}, !.status = status]

(* Arguments, source, client, signature, request. *)
StartSls ==
  /\ SlsIdle
  /\ \E ask \in SlsAsk, found \in {{}} \cup {{s} : s \in SlsSource} :
       /\ slsSource' = found
       /\ IF SlsAskIsRefused(ask) THEN FailSls(ask, "invalid")
          ELSE IF found = {} THEN FailSls(ask, "query_failed")
          ELSE IF ClientIsRefused(Only(found)) \/ SigningFails(Only(found))
          THEN FailSls(ask, "query_failed")
          ELSE slsCall' = [NoSlsCall EXCEPT !.pc = "sent", !.ask = {ask},
                             !.request = {LogsRequest(ask, Only(found))}]

(* No answer within the time limit of the client, or none at all. *)
NetworkFails ==
  /\ slsCall.pc = "sent"
  /\ slsCall' = [slsCall EXCEPT !.pc = "done", !.status = "query_failed"]
  /\ UNCHANGED slsSource

(* The decoded body; nothing, if it cannot be decoded.  Compressed bytes   *)
(* that nobody unpacks are text without meaning.                           *)
(* Mutant: what is marked as gzip is unpacked as gzip. *)
DecodeAsMarked(response) ==
  IF ~response.marked /\ response.packed # "gzip"
  THEN {IF response.packed = "plain" THEN response.content ELSE "text"}
  ELSE IF response.packed = "gzip" THEN {response.content} ELSE {}
DecodeBody(response) ==
  IF ~response.marked /\ response.packed # "gzip"
  THEN {IF response.packed = "plain" THEN response.content ELSE "text"}
  ELSE IF response.packed \in {"gzip", "zlib"} THEN {response.content} ELSE {}

ParseResponse(response) ==
  LET decoded == DecodeBody(response) IN
  IF decoded = {"data"} /\ response.ok
  THEN slsCall' = [slsCall EXCEPT !.pc = "done", !.status = "succeeded",
                     !.response = {response}, !.logs = response.logs,
                     !.count = OrElse(response.count, response.logs)]
  ELSE slsCall' = [slsCall EXCEPT !.pc = "done", !.status = "query_failed",
                     !.response = {response}]

ServiceAnswers ==
  /\ slsCall.pc = "sent"
  /\ \E response \in SlsResponse : ParseResponse(response)
  /\ UNCHANGED slsSource

ForgetSls ==
  /\ slsCall.pc = "done"
  /\ slsCall' = NoSlsCall /\ slsSource' = {}

SlsInit == SlsIdle
SlsNext == StartSls \/ NetworkFails \/ ServiceAnswers \/ ForgetSls

-----------------------------------------------------------------------------
(* The service takes the headers of its own as they arrive, without white  *)
(* space around their values, and computes the signature over them, the    *)
(* path and the parameters, encoded as they arrive or decoded.             *)
Arrived(value) == IF value = <<"padded">> THEN <<"token">> ELSE value
Decode(text) == IF text = "a%2Fb" THEN "a/b" ELSE text

ServiceSignature(request, secret, decodes) ==
  LET own == {"x-log-apiversion", "x-log-bodyrawsize", "x-log-signaturemethod",
              "x-acs-security-token"} \cap DOMAIN request.headers
      Read(texts) == [i \in DOMAIN texts |-> IF decodes THEN Decode(texts[i]) ELSE texts[i]]
  IN SignRequest(secret, request.headers["content-md5"], request.headers["date"],
                 [name \in own |-> Arrived(request.headers[name])],
                 Read(request.path), Read(request.params))

(* Every request that is sent carries the signature that the service will  *)
(* compute from what arrives, for its body, with the secret of the source, *)
(* and goes to a host of the project.  A token with white space around it  *)
(* is the exception: it is signed as it is stored and arrives without.     *)
SignedIsSent ==
  \A request \in slsCall.request, source \in slsSource, ask \in slsCall.ask :
    /\ request.headers["content-md5"] = Md5(request.body)
    /\ request.headers["x-log-bodyrawsize"] = SizeOfBody(request.body)
    /\ SecretString(source, "securityToken") # {"padded"} =>
         \A decodes \in BOOLEAN :
           request.headers["authorization"].signature =
             ServiceSignature(request, Only(SecretString(source, "accessKeySecret")), decodes)
    /\ Only(SecretString(source, "endpoint")).local \/ request.host[1] = ask.project

(* A call succeeds with the logs that the service sent and with nothing    *)
(* else, and it does so whenever the service succeeded and sent data that  *)
(* is plain, packed as gzip, or packed as zlib and marked as gzip.         *)
LogsAreTheServices ==
  \A response \in slsCall.response :
    LET readable == \/ response.packed = "plain" /\ ~response.marked
                    \/ response.packed = "gzip"
                    \/ response.packed = "zlib" /\ response.marked
        good == response.ok /\ response.content = "data" /\ readable
    IN /\ slsCall.status = "succeeded" <=> good
       /\ good => slsCall.logs = response.logs

==============================================================================
