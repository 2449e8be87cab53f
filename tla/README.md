# Action gateway: specifications and proofs

TLA+ modules for the MCP action gateway in `src/action-gateway`, the TLC
configurations that check them, and TLAPS proofs about them. The gateway is one
process: an HTTP server (axum on tokio) that authenticates callers, decides by
access policies and allowlists whether a tool call may run, runs it against
MySQL, Redis, Kubernetes (through `kubectl`) or Aliyun SLS, and records what
happened. All of its state is one JSON document, kept in memory and saved to a
file after every change.

## Inventory

| Component | Source | State | Operations | Modelled in |
| --- | --- | --- | --- | --- |
| File store | `store.rs` | the document in memory under an `RwLock`; the file; a temporary file | `load`, `persist`, every upsert/create/append | `FileStore`, `DurableStore` |
| Access control | `control_plane.rs`, `store.rs` | policies (in the document) | `authorize_tool`, `list_enabled_policies_for_auth`, `allowed_tool_names` | `AccessControl` |
| Request pipeline | `main.rs`, `mcp.rs`, `control_plane.rs`, `actions.rs` | one task per request, and what it has read so far | `handle_mcp`, `authenticate`, `call_tool_for_auth` | `Gateway` |
| Admin API | `admin.rs` | the same document | upserts of principals, policies, sources; creation of keys | `Gateway` |
| Audit log | `audit.rs`, `store.rs` | `auditEvents`, at most 10,000 | `record_*`, `append_audit_event`, `audit.query_approval_events` | `Gateway`; the query in `AuditQuery` |
| kubectl runner | `actions.rs` | a child process, two reading tasks, a temporary kubeconfig | `execute_kubectl_read_for_source`, `read_stream_limited` | `KubectlRun` |
| `data.query_table` | `actions.rs` | none (a MySQL pool per call) | table and column checks, EXPLAIN gate, query, masking | `TableQuery`; among other calls in `Gateway` |
| `redis.query_key` | `actions.rs` | none | allowlist regex, TYPE/TTL/length/value, limits | `RedisRead`; among other calls in `Gateway` |
| Kubernetes tools | `actions.rs` | none | argument and policy checks, then the runner | `KubernetesTools`; the run in `KubectlRun` |
| `logs.query_sls_logs` | `actions.rs`, `sls.rs` | none | arguments, credential and config of the source, signed HTTP request | `SlsQuery`; among other calls in `Gateway` |
| Start-up | `main.rs` | none | flags to `AuthConfig`, load, bind | constants of `Gateway`, `LoadStore` of `FileStore` |
| RBAC manifests, `agctl` | `rbac_manifest.rs`, `bin/agctl.rs` | none (a client of the Admin API) | compile, apply, diff, prune, delete, can-i | `Rbac`, `Agctl` |
| Wildcard match | `control_plane.rs`, `bin/agctl.rs` | none | `wildcard_match` | `Wildcard` |
| `sls-check`, scripts, documents | | | | not modelled |

How they interact. A request handler authenticates (a write of `lastUsedAt` to the
store, and `persist`), appends an authentication event, reads policies, the allowlist
and the source record from the store, queries the upstream, appends a tool-call
event and answers. An admin handler authenticates in the same way, changes the
document, persists, appends a configuration event and answers. Handlers share
nothing but the store; none of them holds a lock over an await. A client that
closes its connection drops the handler at the await where it is.

What is hard about it, and where the properties are aimed:

- *File store*: `persist` clones under a read lock, then writes and renames with no
  lock, through one temporary name for all callers. An answered change must be in
  the file from then on; a crash must leave a file that a start accepts; memory must
  never be behind what was answered; the file must never be ahead of memory.
- *Access control*: the first matching row of a sorted list decides. A deny must win
  in whatever order policies are stored, a refusal must have a reason, the policy
  named in the answer must be the one that mattered, and `tools/list` must show what
  `tools/call` allows.
- *Pipeline*: permissions change while a request is under way. An effect must rest on
  facts that held after the request arrived, a refusal too, and the audit trail must
  agree with what was answered and with what was done.
- *kubectl runner*: output, exit, time limit, leftover processes and disconnects race.
  What is reported must be what was written; a success must be a success; neither
  the process nor the kubeconfig may stay behind; the output limit must not block.
- *agctl*: a command is many requests and no transaction, and lists are read before
  records are written back whole. Where it stops half way, nothing may be granted that
  no file says, and nothing of others may have changed; a command that ends well must
  have brought about what the file says.
- *Tools that read*: what the access policies are asked about is read from the arguments
  by other code than what is then sent to the upstream; the two must be one thing. The
  upstream changes between two commands, sends more than was asked for or packs it in
  another way than it says; limits and the sign "truncated" must hold all the same.

`PROJECT.json` lists every hazard at its line with the properties that watch it.

## Modules

### DurableStore, FileStore, FileStoreProofs

`DurableStore` is what a handler may rely on: a state in memory, a copy on disk that
is replaced as a whole, an answer only for what the copy holds, a restart from the copy.

`FileStore` is the code. The document is the set of operations applied to it, since
operations take the write lock one at a time. `persist` is four actions, one per point
where other tasks can run (`Snapshot`, `OpenTmp`, `WriteTmp`, `RenameTmp`), and a file
name denotes an inode, so that a task can write to a file that another has already
renamed over the store. `LoadStore`/`RefuseToStart` are `FileStore::load`; `Crash` ends
the process at any step and may cut a write short; `CallFails` is every error path of
`persist`; `Disconnect` drops a handler, while the blocking write it started goes on.

- `store_one_request`: with one request in the store at a time, and crashes, failing
  calls and disconnects, no answered change is ever lost (`AckedDurable`), every start
  succeeds (`Restartable`), answered changes are served (`AckedServed`), and the store
  implements `DurableStore`
  (`ImplementsDurableStore`). Five operations are enough for a change, a crash, a
  start, a second change and another crash.
- `store_two_requests`: what remains true when two requests overlap: the file is never
  ahead of memory (`FileBehindMemory`), a `persist` that nobody overlapped installs
  exactly its clone (`LoneSaveRepairs`), every request leaves the store
  (`RequestsLeave`, with weak fairness of the steps of `persist`: the runtime polls a
  handler, the blocking pool runs what it was given).
- `store_two_requests_lose` (finding): with two overlapping requests an answered change
  can be missing from the file although nothing crashed or failed.

Proved for any number of writers and operations: `TypeCorrect`, `FileNeverAhead`,
`LoneSaveInstalls` from `RaceInv`; and, for one writer, `SerialDurability`,
`SerialRestart`, `SerialReadYourWrites`, `SerialRename` and `SerialRefinement` from
`SerialInv`. `FileBehindMemory` alone is not inductive: a rename makes the temporary
file the store file, so the temporary file must be behind memory too, but only when
somebody is about to rename it (`BehindInv`); a stale one left by a crash is truncated
first. Durability needs, besides, that inodes are fresh (`FreshInv`) and that the only
`persist` under way holds the present state.

### AccessControl, AccessControlProofs

One decision: the list (`ListPolicies`, any list sorted by the comparator of the code,
with positions for the stable sort), then one action per turn of the loop. A missing
field of a policy is `Absent`; which resource names a pattern matches is the constant
relation `Covers`. `Visible` is `allowed_tool_names`, other code over the same rows.

- Checked by `tool_reads` (below), while the tools are idle: all stores of up to three of
  ten policies that differ in every field that decides, three callers, two scopes. Three
  policies allow a deny, a stronger allow and a tie.

Proved for all policies, callers, scopes and patterns: `TypeCorrect`, `DenyWins`,
`RefusalJustified`, `StrongestNamed`, `CallableShown`, from `ScanInv`: the rows before
the one that the loop looks at decided nothing, and a decision comes from that row.

### Gateway, MCGateway, GatewayProofs

Every request is a task; `pc` is the await where it is, and what it has read stays in
`ready`, `via`, `outcome` while others change `active`, `granted`, `keys`, `source`.
`Authenticate`, `HandleCall` and `HandleAdmin` group the actions of `authenticate` /
`authenticate_admin`, `call_tool_for_auth` and the admin handlers. `persist` succeeds or
fails here (`KeyPersisted`/`KeyPersistFails`, `ChangePersisted`); a principal is
`granted` its calls or not (`AccessControl` says when). `seen` is history: what held at
some moment since the request arrived. `log` is every event appended, `audit` what the
store keeps of it.

- `gateway_one_of_each`: every kind of call, credential and change, one of each at a
  time: `OnlyPermittedRun`, `RefusedWithReason`, `AnsweredIsRecorded`, `TrailIsTrue`.
  Under weak fairness of each handler, a request is answered, leaves or waits for its
  upstream (`HandlersSettle`): no handler waits for another. Nothing is assumed of
  clients or upstreams; the code has no limit of its own on MySQL or Redis.
- Findings: `gateway_unrecorded_call`, `gateway_generated_key`, `gateway_log_drained` (see
  PROJECT.json for the lines quoted). The last one: the store document says that `auditEvents` keeps growing and must be
  archived, and the code drains its oldest events at 10,000, so that what was not archived
  before is lost (`AuditKeepsGrowing`). What the store does hold is stated by the theorem
  `AuditHoldsTail`.

What `FallBack` shows besides: only enabled records are looked for, so that a call to a
Redis source that is configured and disabled is answered from the client of `REDIS_URL`
(`actions.rs:2479`). `docs/operations/deployment.md:21` describes that client as the one for
the case that no Redis source is configured.

The bounds: requests are used once, so the sets `Caller` and `Admin` bound the run to one
of each; what more of them could do together (a change off and on again during a call,
two calls that append at once) is left to the theorems, which hold for any number. The
cap of the audit log is 2 instead of 10,000, so that it is reached.

Proved for any number of requests, principals and keys, any configuration and any cap:
`TypeCorrect`, `OnlyPermitted`, `AuditHoldsTail`, and `RefusalHasReason`, which assumes
that the id of each key is what `parse_api_key` finds in its token (`NamesParse`; the
finding `gateway_generated_key` shows that it is needed). `OnlyPermittedRun` is not
inductive: it speaks of the moment of the effect, and what the effect rests on was read
several awaits earlier. `PermissionInv` says for each place what a request there has
earned (`Earned`), and that whatever is true of it now is in `seen` already
(`Informed`). Changes by others only add to `seen`, so nothing earned is lost
(`GoodKept`), and a step of the request's own reads only what `seen` holds (`OwnStep`).
The store keeps the newest events because one append adds at most one event and the
drain removes at most one (`RecordTail`); the invariant needs besides that `audit` is
never longer than `log`.

`AnswersRecorded` and `TrailTells` are about the whole history of events
(`AnsweredIsRecorded`, `TrailIsTrue`), again for any number of requests, so that two
calls may append at once. The invariant `TrailInv` says of each request which events the
log holds of it at the place where it is (`Trailed`): none before it was admitted, that
of the entry while it is served, and all that are due once its last event was appended;
and what that place says of its outcome and its effect (`Reported`). `TrailIs` gives the
events of one request as an increasing map from the events due to their positions in
the log, so that an event that another request appends in between disturbs nothing
(`TrailKept`): the positions stay, and the log only grows at its end.

### KubectlRun, KubectlRunProofs

One run: the handler, the child, what it leaves behind (`heirs`), two pipes and two
reading tasks. Output is counted in bytes; a stream delivers in order, so counts say
which part was kept. A reader that fails (`ReadFails`) closes its pipe, and the join of its
result is an error (`JoinFails`). `careless` is history: a call on the temporary file
failed.

- `kubectl_one_run`: limit 2, reads of up to 2, pipes of 2, up to 4 bytes on each stream:
  output below, at and above the limit, and a full pipe.
  A full pipe is emptied (`PipesDrain`), and the request is answered if leftover
  processes let go of the output (`AnsweredOnceAlone`). Fairness: handler and readers are
  polled and the clock runs; `kubectl` is not obliged to do anything. That leftover
  processes let go is a premise, since the handler joins the readers after the kill and
  has no limit there.

Proved for every limit, buffer and pipe size: `TypeCorrect`, `OutputHonest`,
`SuccessTimely`, `NoOrphans`, `KubeconfigGone`, from `IInv`: what each reader has seen
is what left the pipe (`Accounting`), a reader ends only when nothing more can come
(`Exhausted`), where the handler is when kubectl runs (`Supervised`).

### TableQuery, MCTableQuery, TableQueryProofs

One call of `data.query_table`, from its arguments to its answer. The gateway sends
MySQL three statements (inspection of the columns, EXPLAIN, query), and `pc` is where
the call is between them; `AlterTable`, external, changes `table` at any of those
places. `Inspect` is everything from the columns to the statement, since the code does
not await in between: `ConfigError` is what makes the allowlist record unusable,
`ArgumentError` what makes the arguments invalid, `Statement` what is then explained
and run. `Count` is one turn of the loop over the plan, with the saturating sum, `Gate`
its comparison, `Query` the query and the masking of its rows. Names are sets and
sequences of columns; a text is a sequence of characters, and masking a function of the
position. A mask counts as one character, however long it is configured. `raw` and
`total` are history: what MySQL returned, and the sum that saturation hides.

- `table_one_query`: nine allowlist records (open and closed, limits below, at and above
  the ceiling, every mask rule, one that overflows, one for a name that is no
  identifier) and eighteen sets of arguments, one or more for each refusal, against a
  table with a dropped, an added and a malformed column. What a statement names is
  listed whatever happens to the table (`OnlyListedColumns`), what is shown is masked
  (`MaskedInAnswer`), the gate decides as the true sum would (`GateIsExact`), and a caller is blamed only for errors of its own
  (`BlamedForCause`). The greatest u64 is 7, the ceiling and the default are 2: two rows
  of a plan saturate the sum, and two rows of a result reach every limit. An order of at
  most two columns stands for the three of the code.

What the run shows about the code that a reader may not expect: arrays and objects in a
masked column are returned as they are; a default selection of an open table may name a
column that `is_valid_identifier` would refuse in an argument; and a call that names no
columns is called invalid when the allowlist lists a column that was dropped (the
exception in `BlamedForCause`).

Proved for every table, record, argument, text and bound: `TypeCorrect`, `ListedOnly`,
`MaskHolds`, `LimitKept` (no answer has more rows than the call, the record and the
ceiling permit), `GateExact`, `BlameIsFair`. The invariant `Inv` says what is
known once a statement exists (`StatementOK`: what `Inspect` checked, of the columns as
they were then), that the sum kept is the true one or the greatest u64 (`GateOK`), and
that rows exist only in a successful answer (`RowsOK`). `MaskHides` is the lemma behind
`MaskHolds`: a partial mask leaves at least one character hidden, for lengths up to the
greatest usize, because the boundary is checked with the same saturating sum; for an
email the first "@" exists because `<` is well-founded on the naturals (`LeastExists`).
`GateExact` needs that the threshold, an i64, is below the greatest u64.

### Rbac, Listings, Agctl, MCAgctl, ListingsProofs, AgctlProofs

`Rbac` is `rbac_manifest.rs`: which files are accepted (`FromYaml`) and the requests that
an accepted file compiles to. A file is the sequence of its documents; texts are trimmed
except `Blank`; the maps of the code are sorted by `Rank`; the hash in the id of a policy
is the triple that it is computed from. `Listings` has the elements of a finite set in
ascending order, without recursion: the element at `i` is the one with `i - 1` before it.
`Rbac` uses it for the maps, `AuditQuery` for its sort.

`Agctl` is the command line tool and the part of the admin API that it calls. A command
is a queue of requests (`Plan`), sent one at a time, that ends at the first one that
fails; what `prune` and `delete` disable is put in the queue when the list arrives
(`ListedToDisable`). Between two requests the other operator or an administrator without
agctl may write. `RequestLost` and `AnswerLost` are the faults: a request that is not
carried out, and a change that is made although the client learns of a failure. `alone`
is history: nobody else has changed the store since the command started. `before` is the
store at that moment. `can-i` asks the file and not the gateway.

- `agctl_operators`: two operators with two versions of a file (one drops a rule, grants
  what the other denies and changes a display name) and with two files that are refused;
  a store that is empty or also holds policies of an administrator and of another team;
  two commands, one lost request or answer, one edit. That is enough for a command that
  stops half way and one that is run after it, and for two that overlap.
  - `ManagedMatchFile`: after a lone `apply --prune` or `delete` that ends well, the
    policies in force for the bindings of the file are the file's, or none.
  - `OthersUntouched`: wherever a lone command stops, nothing outside the file changed.
  - `EnablesOnlyCompiled`: whatever others do between a list and the writes that follow
    it, agctl puts nothing in force but what a file that is being applied says.
  - `TokensBeforeGrants`: with `--create-secrets` no policy is written before all tokens
    were printed. A second run stops at the first key, as keys cannot be created twice.
  - `DiffIsTrue`: a lone `diff` lists exactly what `apply --prune` would change, apart
    from keys, which it always lists.
  - `CanIAgrees`: `can-i` with a source answers as `AccessControl` decides the call, were
    the policies of the file the only ones. Without `--source` a policy's source is not
    looked at, and a `yes` is about some source (the example in
    `docs/configuration/agctl.md` names one); so the property asks for a source, and for
    a tool that goes with the verb and the resource.

A prune that overlaps an edit does write the old record back, disabled: an edit of the
administrator to a policy that is being pruned may be lost. `EnablesOnlyCompiled` is what
remains true of it.

Proved for any files, stores, commands and number of operators, and however many commands,
faults and edits there are: `AppliedIsInForce` (`ManagedMatchFile`), `OthersAreLeft`
(`OthersUntouched`), `TokensAreShown` (`TokensBeforeGrants`), `DiffTells` (`DiffIsTrue`),
`CanIDecides` (`CanIAgrees`) and `OnlyCompiledIsEnabled` (the action property
`EnablesOnlyCompiled`). None of the invariants is inductive: they speak of a command that
has ended or of the store, and what a command under way has still to do is in its queue.
`IInv` says that the store keeps one record of an id (`TypeInv`) and of each run (`RunInv`):

- what waits in the queue belongs to the command, policies among it are compiled from its
  file or disabled (`Queue`; this alone carries `EnablesOnlyCompiled`, whoever interferes),
  and the requests stand in an order that no step disturbs (`Ordered`: once the policies
  have begun no key is created);
- while the operator is alone, what the store has and what waits make up the whole of the
  file (`ApplyOnItsWay`, `DeleteOnItsWay`: nothing is forgotten between the list of the
  stale policies and the writes), what has changed is the file's (`Untouched`), no policy
  is written while a key waits (`TokensFirst`), and a diff has seen the store as it is
  (`DiffOnItsWay`);
- a finished `can-i` was decided by `LocalCanI` (`Decided`).

A step of one operator ends that any other one is alone with the store, or leaves the store
as it is, so that only the invariant of the operator itself needs work, one lemma per
conjunct and kind of step. `AscendingLists` is the lemma about `Listings` that the compiled
sequences rest on. The assumptions are that ranks order the names, that files are sequences,
and that a start finds one record of an id in the store.

### Wildcard, RedisRead, KubernetesTools, SlsQuery, AuditQuery, ToolReads, MCToolReads, ToolReadsProofs

Five modules about what the reading tools do once a call is admitted. They share nothing
but the store, so `ToolReads` composes them, and `AccessControl`'s decision, with the one
that works while the others are idle, and each has in it everything that can happen to one
call. All six are checked by `tool_reads` (`MCToolReads` has the inputs), for safety only: what must end in
time is `KubectlRun`'s subject and `Gateway`'s. `ToolReadsProofs` proves what the run
checks of the five, for all patterns, arguments, records, contents and answers of the upstream.
Since they share no variable, each has an invariant of its own (`StepsAreLocal`).

`Wildcard` is `wildcard_match`, of which `agctl` has a copy: its loop takes the text between
two stars at a time, finds it in what remains of the name, or answers. What a pattern means
(`Glob`) is stated apart from the loop: a cut of the name gives every star some text and
every other character itself. `MatchesAreMeant`: the loop never claims a match that a
pattern does not mean, and misses one only if the pattern has text after its last star, as
`*ab` does with `abab`, where the text is found at its first occurrence and not looked for
again. The run has all patterns and names of up to four characters over two letters and the
star: enough for that with a text of two letters, and for two stars with text on every side
of one of them. Proved for every alphabet, pattern and name: `OnlyMeantMatches`, from
`WildcardInv`. What the loop passed of the name can be cut for what it passed of the pattern
(`Reached`), so what it claims is meant; and no cut passes less (`Least`), so that where the
first occurrence leaves no room for the next text, no other does.

`RedisRead` is one call of `redis.query_key`: arguments, the first enabled row whose
expression matches the whole key or does not parse, the limit; then TYPE, TTL, the
length, the value, each a command of its own. `KeyChanges` replaces the key between any
two of them, at most twice. A scan returns some of the items and a cursor. Two fields
of a hash may be shown alike, since bytes that are no text are shown in hex. `ReadIsBounded`: an answer
never exceeds the limits, because the bytes are counted again on what arrived;
`UntruncatedIsWhole`: what is not called truncated is the whole key, if nobody changed
it. Rows and limits are taken at, below and above 1 and 1000; keys have up to three items
against limits of one and two. Proved for every content, row and limit and any number of
changes: `ReadsAreBounded`, `UntruncatedReadsAreWhole`. `RedisInv` says that the limit is
one of 1 to 1000 from the first command on, and that type and length, once read, are those
of the key unless it changed. The second theorem counts: a batch of a scan that is as long
as the key, is not cut by the limit and shows no two fields alike, shows as many items as
there are, so all of them. `RedisAssumption` says what Redis keeps under a key (a string
is one value, no member of a set or field of a hash occurs twice) and which forms the limit
of an argument has.

`KubernetesTools` has the five tools from their arguments to the command line, and the status
of the answer. A command line is a sequence of words, each with its text, whether
it is a flag, what follows its "=" and its "/"; a word with a "/" is no name where the code
validates it as a whole (`Whole`). There are two readings of a line. `RawSubject` is how the
raw tool reads a line that a caller supplies: the first namespace, the first two
positionals. `KubectlAsks` is how `kubectl` reads a line, and external: the last namespace
counts, every argument after a resource is one more name, every `TYPE/NAME` one more target,
and the flags in `KubectlValued` take the next word for their value.

`AskedIsPermitted` compares what must agree. Of the four typed tools: what the access
policies are asked for (`ScopeOf`, read from unchecked arguments, with its own table of
aliases), the subject that the allowlist is searched for, and all that kubectl reads from the
command line that is built. Of the raw tool: the subject that the allowlist is searched for
and all that kubectl reads from the line, provided that the line says nothing twice
(`SaysOnce`: one namespace, one target, no flag with a value that the gateway does not
know). Of other raw lines the gateway checks its own reading, which need not be kubectl's,
and nothing is claimed. The access policies are asked about a raw call as a whole line (action
`raw_read`, not in `ScopeOf`). The run has every alias, numbers on both sides of each bound,
the rules of row order (disabled, invalid, first row decides) and several thousand raw lines,
with the raw tool enabled. Flags that only select (`--since`, `--previous`, time limits) and
what is shown of an output are left out.

Finding `raw_read_action`: the documents of the store and of the allowlists say that the
action `raw_read` of a row stands for `kubernetes.kubectl_read`. The code asks the allowlist
for the action that it derives from the line (`RawReadGoverns` is violated by a row that
permits `list`).

Proved for all names, rows and arguments, the raw lines among them: `AskedWasPermitted`. For
a typed tool the command line is known word by word, so that kubectl's reading can be
computed on it (`ListLineSays`, `GetLineSays`, `RolloutLineSays`, `LogsLineSays`), with each
of the optional words there or not. For a raw line the two readings are shown to be one if
nothing is said twice: a word is a value for one if it is for the other (`ValuesAgree`), so
that positionals, namespaces and targets agree (`PositionalsAgree`, `NamespacesAgree`,
`TargetsAgree`). `KubeAssumption` says that a text accepted as a name is none of the flags
that take a value and has no "/", that the names of the table of aliases are such texts, that
kubectl knows the flags with values that the gateway knows, and that an argument is given at
most once; the rows may hold any numbers, since the bounds come from `Between`.

`SlsQuery` has the arguments, the source, the signed request and the answer. Digests and
signatures are the terms they are made of, so that the service can compute its own from
what arrives. `SignedIsSent`: the two agree, for path and parameters encoded as they
arrive or decoded, and the request goes to a host of the project (the project is one
label of the host). The exception stated in it is what the code does: a security token
with white space around it is signed as it is stored and arrives without. Each field of
the source is taken from the credential and only then from the config (`SecretString`).
`LogsAreTheServices`: a call succeeds exactly if the service did, with its logs, whether
they are plain, gzip, or zlib that is marked as gzip. `reverse` and `power_sql` pass
through and are left out. Proved for every source, arguments and response: `SentIsSigned`,
`LogsAreSent`, from `SlsInv` (what was sent is the request that the arguments and the source
of the call make). That path and parameters are signed alike whether the service decodes
them or not is true because `validate_sls_name` refuses every name with a character that is
encoded, and also a name that reads like an encoding ("a%2Fb"); the theorem needs both.

`AuditQuery` is `audit.query_approval_events` over a log that events reach in another order than
that of their seconds: an event takes its second and its random id before it waits for
the lock. `AnswerIsNewest`: no event that matches is missing while an older one is shown,
and none is missing unless the limit is full; among events of one second the random id
decides. The run has up to three events, a log cut at two, three seconds, limits of 1, 2
and the bounds, and two of the twelve filters, which the code treats alike. Proved for any number of events, any
filters, limit and cap: `AnswersAreNewest`, from `AuditInv` (ids are used once, so the events
of the store differ and `NewestFirst` orders them strictly) and `AscendingLists`: the answer
is the beginning of the listing, so what is missing comes after what is shown.

## What is only model-checked, and why

Of the properties that the passing runs check, four have no theorem: `RequestsLeave`,
`HandlersSettle`, `PipesDrain` and `AnsweredOnceAlone`. They are liveness under fairness, and
the prover does not reason about fairness and ENABLED.

The other way round, some theorems state what no run checks any more, because they cover
it for every instance: the type invariants (`TypeCorrect` in five modules), the inductive
invariants, `SerialRename` (the rename finds its file), `AuditHoldsTail` and `LimitKept`.

## What is not modelled

Start-up: bind address, legacy token and flag decide in one expression who enters without
a key, and each of its cases has a test; in `Gateway` the result is two constants. Byte-level
work: how digests are computed, the JSON and YAML text, the redaction and truncation of
summaries in audit events, the summaries of Kubernetes resources (`summarize_*`, a choice of
fields of a JSON document), the wording of errors. `sls-check`, which signs and sends one
request in several ways and prints the answers; what `agctl` prints, apart from tokens and
the diff; scripts, images and documents. Power failure: the file is not synchronised to
the disk, and what a file system keeps then is outside the program. `GET /mcp`
authenticates like any request and then carries nothing.

## Plan

Every safety invariant and action property that a passing run checks is proved. What is
left, in this order:

1. `AccessControl` composed with `Gateway` through an abstract gate (a call runs only if
   some store since its arrival allows it), and the refinement proved.
2. `KubernetesTools`: what is shown of a list and when it is called truncated, with a property
   and its theorem.
