# ATI: specifications, checks and proofs

ATI gives an agent in a sandbox access to tools (HTTP APIs, MCP servers, command
line programs) without giving it the credentials: `ati` in the sandbox talks to
an ATI proxy, and the proxy holds a keyring, authenticates the sandbox, and calls
the upstream. This directory models the parts of the program whose correctness
depends on the order in which things happen, checks them with TLC on small
instances and proves the most important results with TLAPS for every instance.

`PROJECT.json` maps each definition to the lines it models and lists the runs,
mutants (a plausible bug for each property that TLC then finds), findings,
hazards and theorems. Run a check with `tlc -config X.cfg M` and a proof with
`tlapm M.tla`.

## The system

| Component | State | Operations | Talks to |
|---|---|---|---|
| Ephemeral key store (`core/keys.rs`) | tables `ati_keys`, `ati_deleted_keys`, `ati_audit_log`; a TTL cache and a LISTEN task in each proxy | issue, lookup, revoke, bulk revoke, listen | PostgreSQL; the authentication middleware; the other proxies, by NOTIFY |
| Rate limiter (`core/rate.rs`) | `rate-state.json` | check_and_record | every `ati run`, and the proxy's handlers |
| Auth generator (`core/auth_generator.rs`) | in-memory credential cache, temporary script files | generate | child processes; the HTTP, MCP and CLI executors |
| Keyring and session keys (`core/keyring.rs`, `security/sealed_file.rs`, `cli/edge.rs`) | `keyring.enc`, a one-shot and a persistent session key | bootstrap, rotate, load | 1Password; the proxy, by SIGHUP |
| Proxy start and reload (`proxy/server.rs`, `core/sig_verify.rs`) | the HMAC secret in force, passthrough headers | start, SIGHUP reload | the keyring; systemd |
| MCP client (`core/mcp_client.rs`) | a connection, its request ids and its subprocess | connect, list_tools, call_tool, disconnect, discovery | stdio subprocesses, HTTP servers |
| Control plane (`core/provider_store.rs`, `customer_store.rs`) | providers, customers in PostgreSQL | create, resolve, soft delete, bootstrap of manifests | several proxies and operators |
| Request pipeline (`proxy/server.rs`, `core/jwt.rs`, `scope.rs`, `audit.rs`) | per request: claims, marker of the key used; the audit log | signature check, authentication, `/call`, `/mcp`, `/help` | everything above |
| Lazy schemas, upstream allowlist (`proxy/server.rs`) | two caches that live as long as the process | lookup, dial, insert | MCP client |
| HTTP executor (`core/http.rs`) | OAuth2 token cache | get_oauth2_token, execute_tool | token endpoints, upstream APIs |
| Passthrough (`core/passthrough.rs`) | compiled routes; per stream a byte count | match, relay, WebSocket pump | upstreams |
| CLI executor (`core/cli_executor.rs`) | credential files, capture files, a subprocess | materialize, execute, collect | child processes |
| Envelope encryption (`core/secrets.rs`) | versions of a master key | seal, open | rows that carry secrets |
| Home directory (`cli/provider.rs`, `skills.rs`, `keys.rs`, `init.rs`, `core/manifest.rs`, `openapi.rs`) | manifests, specifications, provider caches, skill directories with where each came from, credentials, signing keys | add, import, load, unload, remove, install, update, verify, init, set and remove a key | several `ati` processes, git repositories, the user's editor |
| Local skills (`core/skill.rs`, `proxy/server.rs`, `cli/skills.rs`) | the registry a process loaded, the directories it was loaded from | load, resolve_skills, the handlers under `/skills`, the reading commands | the scopes of the caller |
| Remote skills (`core/skillati.rs`, `gcs.rs`, `cli/skillati.rs`) | per request: an index, a byte cache, an access token | catalogue, read, list, file | a bucket others write to, or another proxy |
| The rest: file manager, scopes and tokens of a client, proxy client, help, plan, audit file, telemetry, Python client | files or none | sequential commands and conversions | |

Where it is hard:

* **Revocation over several proxies.** A lookup awaits PostgreSQL between its miss
  and its insertion; NOTIFY reaches only who listens; a proxy restarts with an
  empty cache and no listener; the acknowledgement of a commit can be lost; two
  revokers race. Correct means: nobody is let in long after a key ended, the audit
  trail tells each key's story once, a stale cache entry always has a known cause.
* **A state file that several processes replace.** No lock: limits can be exceeded,
  the file damaged, or the calls of a long window pruned by a short one.
* **A credential cache shared by sandboxes.** Correct means: what is served was
  generated for that sandbox and is younger than its TTL, and failure is never cached.
* **Keys, ciphertexts and signals that change in separate steps.** Correct means: what
  is on disk can be opened, and a rotation that was signalled comes into force.
* **A directory that commands edit without a lock.** A command makes one system call after
  another and may be killed between two; another may run, and so may the user's editor. Correct
  means: what is left can be loaded, what verifies was published, nothing is lost unasked, but for
  the causes that the properties name.
* **Texts that change under a registry that does not.** Correct means: a caller gets the texts of
  the skills its scopes lead to, each from its own directory or key; "not found" means absent.
* **Streams between two parties, either of which may stop.** Correct means: a body cut by a cap,
  an error or a timeout never passes for a whole one, frames keep their order, one credential
  goes up, and what was begun ends.
* **Credentials with a lifetime, in a cache or in a file.** Correct means: a token is alive when it
  is used, a subprocess never reads half a credential, and what is left behind could not be written
  or removed.
* **Rows and keys that a rolling deployment sees in two versions.** Correct means: customers see
  what calls resolve, restarts undo nothing, and every process opens every row.
* **A conversation with a server that may say anything or nothing.** Correct means: each
  request is paired with its own answer, as far as the client looks at ids, a tool runs at most
  once for a call, a listing is registered whole or not at all, no process is left behind, and the
  proxy comes to serve.
* **Requests that wait between their checks.** A request is signed, authenticated, read,
  authorised and charged at different moments. Correct means: what starts was signed and
  authorised, no tool starts after its caller's expiry however slow the body, a budget is
  spent for cause, and what can be read in the audit log agrees with the answers.

## Modules

| Module | Models | Instances | Proofs |
|---|---|---|---|
| `KeyStore` | `core/keys.rs` and `authenticate_ati_key`, for several proxies | `MCKeyStore` | `KeyStoreProofs` |
| `KeyLease` | what a key promises its issuer, abstractly | (through `KeyStore!Lease`) | `KeyStoreProofs` |
| `Gateway` | `core/sig_verify.rs`, the middleware and tool handlers of `proxy/server.rs`, the writing of `core/audit.rs`; composed with `KeyLease` | `MCGateway` | `GatewayProofs` |
| `AtiHome`, with `ProviderFiles`, `SkillFiles`, `HomeFiles` | the commands of `ati provider`, `ati skill`, `ati key` and `ati init` on one directory | `MCAtiHome` | `AtiHomeProofs` |
| `McpClient` | `core/mcp_client.rs`, calls and discovery at the start | `MCUpstreams` | `McpProofs` |
| `RemoteSkills` | `core/skillati.rs`, `core/gcs.rs`, the handlers under `/skillati` | `MCUpstreams` | `McpProofs` |
| `Passthrough`, with `PassthroughRoutes` | `core/passthrough.rs` | `MCUpstreams` | `PassthroughProofs` |
| `HttpTools` | `core/http.rs` | `MCUpstreams` | `McpProofs` |
| `CliExecutor` | `core/cli_executor.rs`, `cli/cli_capture.rs` | `MCUpstreams` | `PassthroughProofs` |
| `RateLimiter` | `core/rate.rs` with its file system calls | `MCStores` | `StoresProofs` |
| `AuthGenCache` | `core/auth_generator.rs` | `MCStores` | `AuthGenProofs` |
| `KeyringRotation` | `ati edge`, the session keys, start and SIGHUP of the proxy | `MCStores` | `ControlPlaneProofs` |
| `LocalSkills` | `core/skill.rs`, the handlers under `/skills`, the reading commands | `MCStores` | `StoresProofs` |
| `ControlPlane` | `core/provider_store.rs`, `core/customer_store.rs`, the bootstrap of `proxy/server.rs` | `MCStores` | `ControlPlaneProofs` |
| `Envelope` | `core/secrets.rs`, through a rotation of master keys | `MCStores` | `ControlPlaneProofs` |

`MCStores` and `MCUpstreams` extend several components that share no state. A behaviour
picks one of them, its `part`, at the start and runs that alone, while the variables of the others
stay at one fixed initial state; so the parts' states add up and do not multiply, and one run asks
each part its own questions (`Parts` in a configuration names the parts it runs). That is why each component's
variables, actions and formulas have names of their own (`RateSpec`, `cliVars`, `McpTypeOK`): the definitions a run
checks are those of the component, and the very ones its theorems are about.

### KeyStore and KeyLease

One transaction is one step (the statements of `revoke` and `bulk_revoke` take row
locks in one transaction); every `await` outside one is a step boundary. An operation
in flight is a record in `op` with what it has read: `select` before the SELECT, `fill`
before `cache.insert` of a lookup, `warm` before that of an issue, `purge` before
`cache.invalidate` of what a revoke deleted. `Abandon` is a handler dropped or
failing there. `ListenConnect`, `ListenRecv`, `ListenDrop` are the LISTEN task,
`Evict`, `Aged` and `Tick` the moka cache and the clock, `Restart` a new process.
`Decide` leaves the answer to the request in `verdict`.

No absolute clock is kept: entries, lifetimes and reads in flight have counters that
`Tick` moves, so behaviours are unbounded and the states finite. The one assumption on
the environment is `MaxFill`: a row reaches the cache within that time of its read.

Two variables are history only: `gone`, the time since a key ended, and `missed`, the
revocations a proxy was not told of.

`KeyLease` is the abstraction for an issuer: a key is new, live or ended; a grant is
possible only less than `Grace = TTL + MaxFill` after its end and within its lifetime,
and an ended key never becomes live. `KeepsLease` is the refinement: the state of a
key is read off the tables, the caches and notifications are hidden.

### RateLimiter

Each system call is a step: read of the state, (on bad JSON) removal of the file,
open-and-truncate of `rate-state.json.tmp`, write, rename; a caller may be killed
between any two. Files are names of inodes and inodes have contents, so that two
callers that hold handles to one temporary file overlay each other's bytes. The charge
of `check_and_record` follows the `HashMap` in any order. The clock (`MaxNow`,
one unit per second) and the calls (`MaxCalls`) are bounded. The history variable `alone` remembers that no call began
while another was under way.

### AuthGenCache

A credential is identified with the request it was made for, so that a credential
served to another sandbox shows. `Call` is `generate` up to its first await, `Ends` the
end of the child process, its timeout or an error; `Dropped` is the handler's future
being dropped. `MCStores` has two families of requests: sandboxes that carry a JWT of
their own, and sandboxes authenticated by an Ati-Key, for which no bearer is stored.

### KeyringRotation

A secret is the version of the 1Password item it comes from, a ciphertext the pair of
session key and item. The commands of `ati edge` take a step per system call and may die
at each; nothing locks the files. The proxy is `down`, `stopped` (ended by a SIGHUP,
which systemd does not restart), `loading`, `starting` (before the handler of SIGHUP is
installed), `up` or `reloading`. `told` and `single` are history: the proxy was signalled after the
last write; no command began while another was under way.

### McpClient

A job is one client: a call of the proxy, or one provider's discovery. `at` is its
place in the conversation (`init`, `note`, `work`, `bye`). The discoveries are polled by one
task and calls run on `Workers` threads. The stdio transport uses the blocking
calls of `std::io` inside async functions, so a stdio job keeps its thread from its
spawn to its end (`CanPoll`): its timeout cannot fire and it cannot be cancelled. An
HTTP job waits at each exchange, where it may time out (300 s for a request, 30 s for a
discovery) or be cancelled. A server may answer, report an error, batch, interleave
notifications and requests of its own, repeat an answer, print noise, cut a stream
short, refuse, exit, or be silent. It may also give a `tools/list` result without `tools`, which the
client takes for an empty page (`"bare"`, mcp_client.rs:377), or respond to a POST with a JSON body that
answers something else (`Strays`): `extract_jsonrpc_result` never looks at the id. `strayed` and `bare` of a
server are the history of that. `Register` is the end of
`discover_all_mcp_tools`, before which the proxy does not serve. `Starts` says which jobs a behaviour has and which
servers chatter; the jobs it leaves out are `never` begun.

### Gateway

A slot is one request in flight: `sent` by a sandbox, at the `lookup` of its key, `admitted`
(its body is being read), `dialing` for the schemas of its URL, `running` (its tool was
started) and `answered`. `holder` and `ends` are the claims in the request's extensions.
What a handler does between two awaits is one step, so `Call` is `handle_call` from the last
byte of the body to the dispatch: name, scope, limiter, upstream URL, in this order.
`opened` and `began` are history. An Ati-Key is granted or refused by the actions of
`KeyLease`, so that whatever `KeyStore` may decide (`KeepsLease`) is considered; the limiter
answers a limited call either way. `Leave` is also a client that closes its connection: the
handler's future is dropped, and a call that had started leaves no audit row.

`row` is what a reader of the audit log finds of a slot's call. `audit::append` opens the log and writes
twice, the text of the row and its newline (`writeln!` to a `File`): `Appends` puts all of the text, a part or nothing,
and `EndsRow` ends the line or fails; `write_proxy_audit` discards the error. `unended` are the slots with text in
a last line that has no end yet; text that shares its line with other text is readable to nobody
(`audit::tail` and `search` skip it). History: `remnant`, a write failed and no line has ended
since; `spoilt`, per slot, that its row was lost to one of these causes. Rows that other processes append to
the same log (`ati run` without a proxy) are not modelled.

The module says what the code does with a name that has an underscore for its colon: POST
/call resolves it and then gives the limiter, the MCP client and the file manager the name as
it came. So no rate pattern with a colon applies (`Limited`), and an MCP or file manager tool
is not found under it (`Reaches`); HTTP and CLI tools run. An empty upstream result is an answer of
POST /call and an error of POST /mcp (`StatusOf`), which has neither limits nor audit rows.

### AtiHome

A command is a program: the sequence of the file system calls that the code makes, from
`ProviderProgram`, `SkillProgram` or `HomeProgram`. `FileStep`, `SkillStep` and `HomeStep` execute the
first call of a process; a call may fail, drop the rest (up to the end of what the failure is caught
in) or put further calls before it, as `load` does for the manifests it finds. `Kill` ends a process
between two calls, `Tick` ages the provider caches, `Edit` is the user's editor, `Publish` a commit to
a repository. A file is opened (and so emptied) and filled by two calls, as `fs::write` does. The second
writes over what is there from the start: if another process wrote since the open, a shorter text
keeps the tail of the longer one (`Filled`, `Mixed`). A text is a source and a version, so that
the record of an installation can be compared with what the source published; an edit is a text that no
repository has. A repository ships what it likes: a `skill.toml` of its own that claims any source and hash
(`provider install-skills` copies it as it is, cli/skills.rs:568-620), or no `SKILL.md`, so that an
installation over a directory signs the text it finds there (812-877).

History: `alone` (no command began beside another), `torn` (what a killed process was still to write),
`crossed` (files that were last opened while another process was about to write them) and `vouched` (texts with the record of
a source that is not of their installation: an installation that brought no text signed them, or an update
took the word of a shipped `skill.toml`). One thing is allowed that cannot happen: a file that is unlinked
and created again is written by whoever had the old one open.

### LocalSkills and RemoteSkills

`LocalSkills` has one request of one process: `BeginRequest` loads the registry (and all its indexes) from the
directories; `ScopePass`, `ToolsPass` and `DepsPass` are the passes of `resolve_skills`, one element a
step; `Respond` is the handler's or command's decision; `ReadFiles` reads one text per step, and
`Edit` changes directories at any time. `NameIndex` keeps the last directory of a name, as the
`HashMap` of the code does. `Reach` is the reference definition of `ResolveIsClosure`, a closure stated without passes.

`RemoteSkills` has one request of one client. `todo` are the awaits still to come; `asks` the GETs
in flight with their attempts (`Concurrency` of them while the fall-back loads the folders), `phase`
the candidate index being tried, the listing, or the loading. `Get`, `GetFails` and `Retry` are the end of
an attempt; `GetRefused` is a 404 that is not the bucket's: the token endpoint's status becomes
`GcsError::Api` as the bucket's does (gcs.rs:166-173), and another proxy's may have any reason.
`Change` is another client of the bucket. History: `held`, `always`, `ever`, `settled`, `refused`.

A caller of `LocalSkills` whose token is past its expiry but within the leeway of its validation
has the scope `Lapsed`, which allows no tool (scope.rs:115), although a wildcard still does.

### Passthrough

`PassthroughRoutes` is pure: which providers compile to routes under a keyring, the order in which
`matches` finds them, the path, the credential and the headers that go up. `Passthrough` is one
request: `Dispatch` up to the first await, then `PullUp` and `PullDown` move a chunk of either body
through its `MaxBytesStream` in any order, `Responds`, `Breaks`, `BreaksReply` and `CallerGoes` are the
upstream and the caller. `Dial`, `Takes`, `Delivers`, `Misses` and `Closes` are the WebSocket pump, whose
single loop holds a frame (`holds`) until its receiver has room. `Sent` is the headers that go up: those kept of
the caller's, the route's key unless the path forwards the caller's Authorization, and `extra_headers`. An HTTP
request appends the last two to what it has, a WebSocket replaces.

A path is a sequence of pieces of text, so that `rewrite_path` cuts and replaces prefixes wherever they end.
The deny list and the forwarding of credentials are decided on that text. What the upstream is asked is `Sought`: a slash
goes before a path that has none, and over HTTP reqwest resolves the segments `.` and `..` (also written with `%2e`)
when it parses the URL (passthrough.rs:1138); the URL of a WebSocket is not parsed so. The comment at passthrough.rs:1060
speaks of "the path the upstream would actually see", which is what the text is but for those two. A `base_url` has no path
of its own in the model. The body of a GET, HEAD, DELETE or OPTIONS is dropped (`accepts_body`), and the upstream may take
the request for complete (`Undone`). An upgrade that is no handshake for axum is refused with a 400.

### HttpTools and CliExecutor

`HttpTools`: `Execute` is `execute_tool_with_gen` to its first await, with the checks and the placement of
arguments (`Placed`); `Gives` is the token server, `TakesToken` the response that is cached and used,
`CallTimesOut` and `Answers` the ends. A token is a number, `dies` its real end, and `until` of a cache entry
what the code believes: the lifetime that the response states as an integer, or `Presumed` (1799 s, http.rs:747) if it
states none, whatever the token's real life is.

`CliExecutor`: `Opens` and `WritesCred` are the calls that write a credential; a write or sync that fails ends the call
before there is a `CredentialFile` to wipe what was written (cli_executor.rs:105-113). `Wipes` is its drop, which ignores a
failing removal. `Spawns`, `ProcessExits`,
`ProcessFails`, `Dropped` the subprocess and its future, `Collects` one output of `collect_capture_results`,
`Writes` the sandbox's `materialize_outputs`; `ReadsCred` and `WritesOutput` are the subprocess. `Captures`
rewrites the arguments as the code's two passes do, flags first, then positions.

### ControlPlane and Envelope

`ControlPlane`: a statement is a step. `CreateProvider`, `DeleteProvider` and the customer operations are
the stores' functions, `ResolveForCustomer` and `ListVisible` their two queries, `Start`, `Bootstrap`
and `Stop` a proxy that offers its manifests one statement at a time. `Accepts` is what the table's
unique indexes, CHECK and foreign key admit.

`Envelope`: `LoadedKeys`, `Refuses` and `FromEnv` are `LocalKek::from_env_with`, `Seal` and `OpenRow` the envelopes. The
operator of the module's documentation changes one variable at a time, rolls all processes over and
only then goes on; what the code promises holds under that order (`Change`, `Retire`).

## Runs

| Run | Configuration | Shows |
|---|---|---|
| `key_store_pods` | `KeyStorePods` | `GrantsAreTimely`: no grant later than TTL + MaxFill after the end of a key, nor after its lifetime; `StaleOnlyIfExcused`: a cached entry of a removed key is pending, missed or raced; `AuditTrail`: one snapshot and one audit row for a key, whichever revokers raced; `KeepsLease`: the key store implements `KeyLease` |
| `gateway_requests` | `GatewayRequests` | `RunsForCause`: signature, caller and scopes of what starts; `StartsInTime`: never after the expiry, without the leeway; `ChargedForCause`; `AuditAgrees`: a readable row is of a call that started and says what the answer says, and a call that started lacks one only if a write failed or rows met; `SchemaSettles`: once the dials that raced for a URL have ended, its entry is final |
| `ati_home` | `AtiHome` | `VerifiedIsPublished`: what `ati skill verify` calls verified is what its source published, or an installation or a shipped `skill.toml` vouched for it; `BrokenForCause`: what commands leave behind can be loaded, but for stated causes; `KeptUnlessAsked`: caches, edits and keys are lost only when asked |
| `upstreams` | `Upstreams` | MCP: `OwnAnswer`, `RegisteredAreWhole`, `RunsOnce`, `NoOrphans`. Remote skills: `ServedIsOwn`, `CatalogueTrue`, `NotFoundForCause`. Passthrough: `BodiesAreWhole`, `AskedAsConfigured`, `FramesInOrder`. HTTP: `TokensAreAlive`. Subprocesses: `CredentialsAreWhole`, `OnlyWhatWasAsked`. `EverythingEnds`: discoveries, calls and exchanges end, unless an end that is silent or does not read holds them |
| `stores` | `Stores` | Rate: `WithinLimit` while calls follow each other, `RefusedForCause`. Auth generator: `SandboxesApart`, `YoungerThanTtl`. Keyring: `UpToDate`, `NoSecretIsLost`, `NeverOlder`. Skills: `SkillsAgree` (`ResolveIsClosure`, `RemoteAgrees`), `TextsAreTheirs`. Tables: `TableIsWhole` (`OneViewPerCustomer`, `StartedIsBootstrapped`), `EditsAreKept`. Envelopes: `EveryRowOpens`. `WorkSettles`: a generator that never ends does not hold its call, and a rotation that was signalled takes effect |

`TypeOK` is checked where a run has the room for it. The following runs show that the code does not do
what its documentation says:

| Run | Statement | What happens |
|---|---|---|
| `revocation_is_immediate` | "Revocation is immediate" (`keys.rs:5`) | a row read before the revocation is cached after it, with every listener up and nothing pending |
| `rate_corruption` | "prevents corruption from concurrent `ati run` invocations" (`rate.rs:140`) | one temporary name for all: an empty file is renamed into place |
| `authgen_ati_key` | "cross-sandbox reuse misses" (`auth_generator.rs:112`) | Ati-Key requests have no bearer and so an empty fingerprint |
| `rotation_start` | "a HUP that races startup isn't lost" (`server.rs:3738`) | before the handler exists the signal ends the proxy |
| `mcp_silent` | "Each provider has a 30-second timeout" (`mcp_client.rs:969`) | a blocking read never yields to the timer, and the proxy never serves |
| `http_delete` | "body params go to the JSON body" (`http.rs:385`) | the branch of GET and DELETE never looks at them |
| `control_restart` | "created by the one-time bootstrap on first DB connect" (`20260512000001_control_plane.sql:63`) | every start inserts a shared provider again that an operator deleted |

Some properties have a hypothesis because the code does not give more, which dropping the hypothesis shows: two
rate-limited calls that overlap lose a record (`alone` in `WithinLimit`); a token with a shorter window prunes what a
longer one counts (the instances give a pattern one window); of two overlapping rotations the one that fetched first
may write last (`single` in `NeverOlder`); a script of a credential generator stays behind after an error, a timeout
or a dropped request (`files` grows); a request of an MCP server under our id is taken for our response (`IsOurs`) and
ends ours; a JSON body is taken for the answer of the POST it responds to, whatever its id (`strayed` in `OwnAnswer`,
`RunsOnce` and `RegisteredAreWhole`), and a listing without `tools` for an empty page (`bare`); a 404 of the token
endpoint or of another proxy passes for the bucket's (`refused` in `NotFoundForCause`, `settled` in `CatalogueTrue`);
a tool without a scope may start after its caller's expiry (`Needs` in `StartsInTime`), and a key's revocation, unlike
its expiry, is not looked at again after the body; of two discoveries that race, a failure may replace the schemas
(`Dialing` in `SchemaSettles`); a row of the audit log is lost when its write fails or meets another row's (`spoilt`
in `AuditAgrees`), and nobody is told; an update of a skill removes it before the clone that may fail, and two
commands that overlap may lose each other's credentials or sign each other's text (`alone` in `KeptUnlessAsked` and
`VerifiedIsPublished`), or leave a mixture of their texts in a file that both had open (`crossed` in
`BrokenForCause`); a kill between the truncation and the write of the credentials loses every key (`KilledInWrite`);
an installation without a text signs the one it finds, and a shipped `skill.toml` is believed (`vouched`,
`TomlIsShipped`); the deny list of a route is held against the text of a path and not against what a URL makes of it
(`Dotted` in `AskedAsConfigured`); a token whose server states no lifetime may be dead when it is used (`stated` in
`TokensAreAlive`); a credential file that could not be written or removed stays (`LeftForCause`); a dropped CLI call
leaves its outputs, and so does the first output that cannot be collected (`OnlyWhatWasAsked`); a bucket with more
folders than a page of the listing has loses them in the fall-back's catalogue (`CatalogueTrue`); one loop pumps both
directions of a WebSocket, so that an end that stops reading holds the other (`Stuck` in `EverythingEnds`); without an
ephemeral keyring calls share one credential file (`wipes` in `CredentialsAreWhole`).

### Bounds

* Key store: one key, two proxies and two operations in flight are what every race of the
  code needs (a reader and a revoker in different proxies, or two revokers). TTL 2 and
  MaxFill 1 let an entry be fresh, half-aged and expired, and a fill be late. Keys do not
  interact but in the selection of a bulk revocation; the theorems of `KeyStoreProofs`, on
  all five properties, remove these bounds.
* Rate limiter: two callers and three calls, each matching two patterns with limits of two and one in a
  window of two seconds, for four seconds: a window fills, slides and admits again.
* Auth generator: two callers, a provider that caches (TTL 2) and one that does not, one
  subject with two sandboxes and tokens. `MaxLeaked` bounds the temporary files counted.
* Rotation: two versions of the item, two session keys, two starts of the
  proxy, two rotations and one bootstrap at a time. The bootstrap is documented for a fresh
  machine, and two at once are not considered.
* MCP: one stdio and one HTTP call, one stdio and one HTTP discovery, of which a behaviour has both calls, the
  discovery over stdio, or both discoveries (`McpStarts`); caps of two pages and three tools, with pages of one tool over
  stdio and of two over HTTP, so that a listing of one to three pages meets either cap (beside the other discovery the
  quiet one has one page or three); one
  unsolicited message per server, which may be of any kind and come at any point, an answer to another request or a
  listing without `tools` among them.
* Home: twenty commands on two providers, one of which ships a skill, and one skill; three in a row, or two that
  overlap in every interleaving, one edit by hand, a TTL of 1. Two repositories: one of two versions, of which the
  second has a `skill.toml` that claims the other as its source, and one that ships such a `skill.toml` and no
  `SKILL.md`. The processes are interchangeable (`MCSymmetry`).
* Remote skills: two skills of two files, four buckets (a good, a broken and an absent index, with and without a second), eleven
  changes of which two may happen, a page of three folders, two GETs at once, two attempts.
* Local skills: three directories that between them repeat a name, have a dependency cycle, bindings to a tool that is
  absent or internal; eight scope lists; one edit.
* Passthrough: four providers (root, prefix with rewrite and caps, longer prefix, host) and twenty requests, with dot
  segments, prefixes cut within a segment, bodies of methods that have none, and an upgrade that is no handshake among
  them; bodies of up to two chunks around caps of 2 and 3; a connection holds one frame.
* HTTP: two calls of one OAuth2 provider and of three others; lifetimes below and above the margin, stated or not, and
  timers in the ratio of the code's (an exchange is shorter than the margin). CLI: two calls, with three command
  lines that meet the position rule, a flag with its value inside, and flags that take the next word.
* Control plane: two proxies with different manifests, three rows, one customer. Envelope: two processes, keys, versions and
  rows, so that every step of a rotation and back occurs with a half-done roll-out.
* Gateway: one slot takes ten requests that between them meet every route, caller, handler and refusal, the other what
  races with them for a URL's schemas and for the audit log; slots share nothing else but the environment. The two
  races do not multiply (`MCSpec`): either the log takes its rows (`LogTakesRows`), or two calls meet at a log that
  may fail, while clock, keys, secrets and schemas rest (`RestIsQuiet`). One token whose leeway (1) ends within the
  clock (`MaxNow` 2), one key with a lifetime of 1, two signing secrets, a drift of 1 and a sandbox whose clock is 2
  ahead.

Where a run has `CHECK_DEADLOCK FALSE`, the system stops by itself: calls are finite in
number, or the proxy is down and every bound reached.

### Fairness

`FairStoresSpec` and `FairUpstreamsSpec` give each part the fairness of its component:

* `AuthGenCache`: time passes and the runtime's timer fires. Nothing is assumed of the child process.
* `KeyringRotation`: the reload task of a running proxy is scheduled. Nothing is
  assumed of operators, commands or systemd.
* `McpClient`: what can be polled is polled (which includes the client's own
  request timeout). Nothing is assumed of the servers, so `EverythingEnds`
  names what a server can do to hold a thread (`Held`), and `mcp_silent` shows that it does.
* `HttpTools`: time passes and the timers of reqwest fire. Nothing is assumed of the servers.
* `Passthrough`: the handler is polled, its timer and the time limit of a dial fire. Nothing is assumed of either end.

## Proofs

`KeyStoreProofs` proves, for any sets of pods, keys and operations, any lifetimes, TTL and
MaxFill (only `KeyStoreAssumption`, which says what kind of values they are):

* `TypeCorrect`: `Spec => []TypeOK`. The bounds of the counters are part of it.
* `AuditIsComplete`: `Spec => []AuditTrail`. With the types it is inductive as it stands: the
  row lock is the guard that a deletion returns exactly the rows it removes.
* `StaleEntriesAreExcused`: `Spec => []StaleOnlyIfExcused`.
* `GrantsTimely`: `Spec => []GrantsAreTimely`. A statement on one decision is not
  inductive. `Timely` adds what is known of each value a decision can be taken on: only
  issued keys are stored or loaded (`Known`); a lifetime never exceeds the one asked for
  (`Mortal`); and the time since a key's end is paid for by the age of each value that still
  says "active": `gone + left <= Grace` for a cached entry, `gone <= age` for a value on its
  way to the cache (`Fresh`).
* `KeyStoreKeepsLease`: `Spec => KeepsLease`; initial states map to initial states, each step
  to a step of the lease or a stutter, with `TypeOK`, `AuditTrail` and `Timely`.

`AuthGenProofs` proves `SandboxesStayApart`: if requests that share a cache key are of one
sandbox (`KeysTellApart`), no call is served a credential of another. The hypothesis is
exactly what an Ati-Key request breaks (run `authgen_ati_key`); the invariant is `Carried`
(types) and `Ours` (an entry was made for a request with its key, and so was what is served).
`ServedIsYoung`: `Spec => []YoungerThanTtl`, from `AgeInv`: what an entry still has left and how old it is
make up its provider's TTL.

The other proof modules take the same form: an inductive invariant, a lemma per action, a
lemma that the invariant implies the property, and the theorem.

* `GatewayProofs`, under `GatewayAssumption` (no JWT is an Ati-Key; lifetimes are numbers or there is none):
  `TypeCorrect`, `StartsForCause`, `NothingStartsLate`, `BudgetsAreSpentForCause`, `AuditRowsAgree` and the action
  property `SchemasSettle`. The five properties are about what has started or been answered; `GatewayInv` says place
  by place what is known before: of a signature from the first check on, of a caller from its lookup on, of a budget
  from the charge on. It is a conjunction over the slots, so that a step which moves one slot leaves what is known of
  the others, and the surroundings (the clock, reloads, the life of keys) leave all of it. `LogInv` says the same of
  the log: a row that can be read is of its slot's call, a row that cannot is `spoilt`, and one at the end of a line
  without an end is still being written or will be lost for cause.
* `PassthroughProofs`, under `RoutesAssumption` and `PassthroughAssumption` (lengths and caps are numbers):
  `BodiesStayWhole`, `AskedIsConfigured`, `FramesStayInOrder` and `TypeCorrect`. `BodyInv` adds to the types that what
  came out and what is left of a body are all of it (`Flows`) and that the sum of what came out is within the cap
  (`Caps`); `AskInv` that what was asked is what the route sends (`SoughtIs`: on another path than the one judged only
  for dot segments or a missing slash); `FrameInv` that what one end said is what the other heard, what the pump holds
  and what is on its way, less the pings (`InStep`). What `Sum` and `NoPings` compute is proved by induction, taken
  from the library as the fact that a nonempty set of numbers has a least element, and so is that a registry in the
  order of `PassthroughRouter::build` exists, without which nothing could be said of the route `RouterBuilt` finds. It
  also proves of `CliExecutor`, under `CliAssumption` (command lines and prefixes are sequences):
  `SubprocessesReadWhole`, `CallsCleanUp`, `OutputsAsGiven` (the last two together are `CallsDoWhatWasAsked`) and
  `CallsTypeCorrect`. `CallInv` is one predicate of a call and its files: a file that will be wiped is there while a
  subprocess may need it and no longer, unless its write or its removal failed (`CredFits`), and an output is of a
  capture that the loop has not come to (`OutputFits`). `CapturesAreGood` shows, for every command line, that the
  captures are of arguments of their own, as the caller gave them: the pass over the flags has taken none ahead of it
  but the value of the last flag (`Passed`), and the pass over the words takes one that is `Free`.

* `AtiHomeProofs`, under `ProviderFilesAssumption` and `AtiHomeAssumption` (commands name providers, skills and
  repositories that there are; what a repository ships parses, though a `skill.toml` may claim anything; a manifest
  bundled with a skill needs no spec; an edit is a text that no repository has): `BrokenOnlyForCause` and
  `TypeCorrect`, for any number of processes in any interleaving, killed anywhere. Nothing on the disk says that it
  stays whole: that depends on what every process is still going to do. So `HomeInv` is mainly about programs
  (`Stands`): each operation names paths there are and writes texts that fit them (`GoodOp`), a write follows its open
  (`Shaped`), the manifest of an OpenAPI provider has its spec on the disk or two operations before it (`SpecFirst`),
  and the halves of a signing key are written one after the other from one pair (`PairFirst`). `CrossInv` says that a
  file is a mixture, or between the open and the write of two processes, only if it is `crossed`. A program is
  consumed from the front, cut by a failure and extended by what an operation finds; `QuietNext`, `FailureNext`,
  `OpenNext` and `FillNext` show that it stands after each of these, because an operation only ever adds a `Piece`,
  which stands before any other program. `ProgramStands` goes through the commands, and `FileQuiet`, `SkillQuiet` and
  `HomeQuiet` through the operations. No command removes a spec, which is why a killed import leaves at worst a spec
  without a manifest. About commands that follow each other it proves `VerifiedWasPublished` and `NothingIsLost`. Both
  say of the disk after a call what the whole command was asked to do, so the invariant relates the program of a
  command to the command. `AloneInv` says that the disk is `Sound` between two calls (no file of a skill without its
  directory; every record with a source is of a text which that source published or something vouches for, or a
  repository shipped the record itself: `Published`, `Backed`) and that what the command has still to do `Runs`: it
  opens, unlinks and removes only what the command names (`Removes`), writes records only of what was published
  (`Fills`), clears no cache entry that is alive, has looked before it touches a text that may be an edit (`Guarded`,
  `Looks`, `Held`), and a signature comes after the text that it signs, which is the source's at the pinned version or
  one that is `vouched` for from the installation's first call on (`Signs`). `RunsAfter`, `RunsMove` and `RunsCut`
  show that this survives a call that adds to the program, one that moves on and a failure; `FileRight`, `SkillRight`
  and `HomeRight` that every result of every operation is one of these. `KeysInv` adds the shape of a program on the
  credentials: what it is about to write `Keeps` every key but the one to be removed; between the truncation and the
  write only a kill is left to lose them.
* `McpProofs`, under `McpAssumption` (a call is no discovery; windows, caps and pages are positive numbers):
  `AnswersAreOwn`, `ToolsRunOnce`, `ListingsAreWhole`, `SubprocessesAreReaped` and `TypeCorrect`. Jobs share nothing
  but threads, so `Inv` is one predicate of a job, its subprocess, its server and what is on its way (`InvOf`), and a
  step has to show it only of what it moves the job to (`OneMoves`, with `Ends`, `GoesTo` and `AsksNext` for the three
  ways a future goes on). `OwnAnswer` is kept by `ResultsOf`: no result on its way is ahead of the last request, and
  one with its id means, for a call, that the tool ran; `JsonOf` that a JSON body with another id comes only of a
  stray answer to that very request. The listing needs that a page which is not the last leaves all the pages before
  it in hand (`PagesOf`), so that the last one makes them whole within both caps (`LastPageEnds`). Of `RemoteSkills`,
  under `RemoteSkillsAssumption` (what requests, buckets and index keys look like): `BytesAreTheFiles`,
  `CataloguesAreTrue`, `NotFoundsHaveCause` and `RemoteTypeCorrect`. Each of the properties relates an answer to what
  the bucket held at some moment, so `RemoteInv` says it of everything between: of the caches (`BytesInv`,
  `CatalogInv`), of the candidates tried so far, that each was no index at some moment (`IndexInv`), and of the
  fall-back that reads up to `Concurrency` files at once while the bucket changes: a listed folder is still to be
  asked for, asked for, loaded, or the cause of the failure (`LoadInv`), and a GET in flight is one that the stage of
  the request calls for (`AsksInv`), which is how an answer is known to be for what was asked. `TodoInv` says which
  awaits may still come. Of `HttpTools`, under `HttpAssumption` (the margin is at least the limit of an exchange; in
  the code 60 s and 15 s): `CachedTokensLive`. `TokenInv` bounds how late an exchange counts (`Known`): the expiry
  noted for a cache entry is at most one exchange after the token's end (`Trusted`), and the margin pays for that.
  What it bounds is `counted`: the token's end where its server stated a lifetime, the presumed one where not.
* `ControlPlaneProofs`, under `ControlPlaneAssumption` (the shared owner is no customer): `CustomersSeeWhatResolves`
  and `OperatorsKeepTheirEdits`, from `Unique`, the table's unique indexes, which each insertion preserves by its
  conflict clause; and `StartsBootstrapAll`, from `OfferedInv`: what a proxy no longer has to offer was offered.
  `TheTableIsWhole` joins the first and the last. It also proves `RotationKeepsRows` of `Envelope`, under
  `EnvelopeAssumption` (keys, versions and garbage differ). `EnvelopeInv` says that the environment never gives a
  version two meanings (`EnvInv`), that a running process has no other meaning for it (`KekInv`), and that every
  process has the version that any process writes with and that any row carries: the order of the operator's steps
  keeps the last. Of `KeyringRotation`, under `RotationAssumption` and `OneBootstrap` (two bootstraps at once draw two
  session keys and may write a blob for the lost one; rotations may overlap without limit), it proves
  `RotationsArrive` and `WritesAreReadable`. `UpToDate` compares the secret of a proxy at rest, so the invariant
  `RotationInv` says what a proxy holds while it loads (`InForce`: the session key on disk is among its keys, unless a
  signal is pending) and what each command holds between its steps (`CommandOK`: the key it read is still the one on
  disk, or the one that it drew and nothing was made with). Two action properties: `RotationsGoForward`
  (`NeverOlder`), from `ItemInv`, by which what a command holds is no older than the blob on disk while no command
  began beside another; and `FailedReloadsKeepTheSecret`, which with `WritesAreReadable` is `NoSecretIsLost`
  (`SecretsAreKept`).
* `StoresProofs`, of `RateLimiter` under `RateLimiterAssumption` (finitely many callers, windows of a second or more):
  `RateTypeCorrect`; `RefusalsAreForCause`, whoever overlaps; and `LimitsHold`, for calls that follow each other, if
  the tokens that share a pattern give it one window (`OneWindow`; `check_and_record` prunes one record per pattern
  with the window of whoever calls). The first two need of any state in any file only that its timestamps are `Within`
  the history, each with a place of its own; that survives pruning, overwriting and loss. The third goes the other
  way: what is stored `Covers` the calls let through that still count, each with a timestamp of its own. `InTurn` says
  so of the file and of the one call under way, whose record already has its own timestamp; that this call's temporary
  file is empty until it is written, whatever a killed caller left there, so that the file is whole; and that fewer
  calls than the limit counted when it began, which bounds every window that the call falls into (`WindowMore`). What
  `Pruned` keeps is proved by induction (`PrunedIs`). Of `LocalSkills`, under `LocalSkillsAssumption` (directories,
  contents and requests are of their kinds): `SkillsTypeCorrect`; `ResolvesTheClosure`;
  `TextsAreFromTheirDirectories`; and, if a name is one tool's and a provider has one category (`OnePerName`),
  `RemoteShowsNoMore` and with it `ResolutionsAgree`. The passes are loops over positions, so `ResolveInv` says what
  each has found when it stands at `next`: before the last pass the skills of the scopes so far; in it, that the seeds
  and the dependencies of all positions passed are found, and that every closed set with the seeds holds what is
  found. When the position passes the end, that is the least closed set. `Reach` of the property computes the same set
  by as many rounds as there are skills; that these are enough (`ReachIs`) is a pigeonhole: a round that adds nothing
  ends it, and one that adds cannot happen more often than there are skills. `AnswerInv` ties the texts read to the
  history of the directories.

Proof attempts changed the model where they failed for a reason. The headers of a WebSocket were appended like those
of an HTTP request; they replace. `AskedAsConfigured` claimed one Authorization header where `extra_headers` may add
another over HTTP; it now says which routes may send two. In several definitions the cases of a `CASE` overlapped,
which TLC decides by their order and the language does not; they are `IF`s in the order of the code. That an Ati-Key
is never a JWT had been taken for granted and is an assumption. Two properties of `RemoteSkills` were not true, where
no run had shown it. `CatalogueTrue` compared a fall-back's catalogue with what a whole catalogue would have held at
some moment; a folder may be listed while its SKILL.md is not there, be pushed off the first page by another, and only
then get its SKILL.md, which the fall-back reads. It now says what the code gives: each skill was listed at some
moment and readable at some moment. `NotFoundForCause` excused every 404 by the listing's own folder `_skillati`,
which never has a SKILL.md (so that this case excluded nothing), and left out that both indexes may be replaced while
they are tried one after the other.

The proof of `VerifiedIsPublished` found a clone that could not be: the model let one succeed with a pinned commit
that the repository does not have yet and signed the text of no version. `git checkout` fails there
(cli/skills.rs:720-727); it is a failure of `clone` now, a command of the run asks for such a pin, and with the old
clone TLC finds the property violated. `KeyKept`, the third part of `KeptUnlessAsked`, had been too weak to be worth a
proof: it let the credentials be truncated and said nothing of what was written next, so that a save of one key alone
would have satisfied it. It now asks that what is about to be written holds the key.

The hazards of the disk are stated and not excused wholesale. A repository is not assumed to ship well-formed skills:
what its `skill.toml` claims and what an installation without a text signs is in the model, and `VerifiedIsPublished`
names the signatures that come of it (`TomlIsShipped`, `vouched`). A write of two processes that had a file open
leaves a mixture, which `BrokenForCause` allows of such a file only until one of them opens it alone again. And
`KeyKept` follows the keys through the truncated file, so that the kill between truncation and write is the one loss
of keys that it allows.

Only model-checked: the liveness properties `WorkSettles` and `EverythingEnds`. Liveness and fairness are out of the
prover's reach.

## Not modelled

The text of a message, a credential, a header or a log line; cryptography (a ciphertext opens
under its key); memory locking and zeroization; parsing of manifests, OpenAPI documents,
rate specifications and command lines. PostgreSQL's own concurrency is one step per
transaction. Of whole components:

* Tokens of a client, scope parsing, the proxy client, the commands `help`, `plan`, `assist` and `audit`: one pass over
  their input without state of their own; their decisions appear where they have consequences (the scopes
  in `Gateway` and `LocalSkills`).
* File manager: three sequential tools, one transfer each; the gateway has it as a handler with an outcome.
* Manifests and OpenAPI: parsing; which file is read, written or left broken is in `AtiHome`.
* Persistence pool, telemetry and logging: they connect or report and are read by nothing modelled.
* Python client: a conversion to another library's types.

## Plan

1. The rest of `Gateway`: the two listings with a discovery per provider, and `/help`.
2. The file manager with its size limits; the update of a customer and the provider's typed columns.
