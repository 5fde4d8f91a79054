# A TLA+ model of hostely

hostely runs language models and compose-defined apps on a Mac and exposes them
to the internet.  This directory models the parts of it whose correctness
depends on the order of events, checks them with TLC on small instances, and
proves with TLAPS, for every instance, each of the 32 safety properties that the
passing runs check.  Paths are relative to the repository's `src/`.

## 1. The system

| component | files | state | operations | interacts with |
|---|---|---|---|---|
| inference sessions | `inference/session.*`, `inference/server.cpp` | sequence allocator, session table, the KV cache of llama.cpp | resolve a request to a session, reuse the common prefix, prefill, generate, persist, evict | HTTP threads, through `infer_mu` |
| inference HTTP handlers | `inference/server.cpp` | none of their own; a response per request | `/v1/completions`, `/v1/chat/completions`, `/v1/messages`, SSE streams | call `complete`/`complete_stream` |
| serve lock | `inference/lockfile.*` | `serve.lock.json` with pid and port | write, read with a liveness probe, remove | every command that looks for the server |
| tunnel data path | `tunnel/yamux.*`, `tunnel/client.*`, `tunnel/relay.cpp` | per end: `dead_`, `streams_`, `pending_accept_`; per stream: `closed_`, `buffer_` | open, accept, write, read, close a stream; pump a socket | reader, pump and main threads of two processes over one TCP connection |
| tunnel control plane | `tunnel/relay.cpp`, `tunnel/client.cpp` | `g_hosts`, `g_origin_muxes`, retry delay | hello, register, look up, reconnect | accept threads of the relay |
| apps | `apps/app.*` | `state_dir/apps/<app>.json` | up, stop, rm, ps, logs | services manager, host ports |
| compose parser | `apps/compose.*` | none | YAML subset to services | apps |
| services manager | `services/manager.*`, `services/cli.*` | none (the container runtime has it) | run, list, stop, logs, stats | `container` CLI |
| models | `models/pull.*`, `models/registry.*` | model directory, `.tmp` files, sidecars | pull with resume, list, resolve, rm | Hugging Face through curl |
| fit advisor | `models/fit.*`, `resources/limits.*` | none | does a model fit this machine | models, resources |
| route store and proxy | `exposure/expose.*`, `proxy/proxy.*` | `routes.json`; the proxy's copy, its container addresses, its TLS contexts | expose, unexpose; reload, look up, forward | certificates, services manager |
| certificates, ACME, DNS | `exposure/acme.*`, `certs.*`, `dns.*` | account key, order, certificate store, TXT and A records | issue, renew, upsert | proxy, DNS provider |
| router | `exposure/router.*` | port mapping, last public address | map with PCP, NAT-PMP, UPnP; watch the address | DNS |
| top | `top/*` | last two samples, snapshot, stop confirmation | sample, render, stop a service | services manager, serve lock |
| logger | `log/*` | open log file and its size | write, rotate | everything |
| command line, configuration, paths, resources | `main.cpp`, `cli/*`, `config/*`, `paths.*`, `resources/*` | `config` file | parse, probe, dispatch | all of the above |

What is hard in each, and what makes it correct:

- **Inference sessions.**  Hundreds of turns share a few KV sequences.  Every
  turn skips the tokens it believes cached; if that belief is wrong in one
  position, the model silently answers another conversation.  The belief is
  spread over four structures (allocator, table, token list, llama memory) and
  must survive evictions, diverging histories and decodes that fail half way.
  Correct: exclusive sequences, recycled sequences empty, cached tokens really
  decoded, a request's context exactly its prompt and answer.
- **Tunnel data path.**  Reader, pumps and main threads of two processes close,
  lose and destroy the same streams.  Correct: bytes arrive in order, none are
  lost inside the mux, closing one end closes the other, and the client comes back
  after a lost connection, which it does not (section 3).
- **Apps.**  `up` compares a file with a runtime it does not control, while
  listeners come up late, ports are taken and calls fail.  Correct: the file
  describes the containers, success means the compose file is deployed, ports
  chosen in a run do not collide, dependencies first.
- **Tunnel control plane.**  A mux is published under one mutex and looked up
  under another, keyed by a file descriptor the kernel reuses; clients die,
  retry and find their name still held.  Correct: the two maps agree, a public
  connection reaches only the origin that registered its name, a client that
  can get in does.
- **Routes and proxy.**  Commands read, change and rename over one file; a thread
  reloads it while others route.  Correct: readers see an atomic table, a kept
  route is never missed, the proxy follows the file.
- **Certificates, ACME, DNS.**  An order is a dozen requests, each of which may
  fail, and leaves records and files behind that handshakes read meanwhile.
  Correct: a successful order leaves no challenge record, the authority finds
  the right one, the first issue does not spoil the handshakes.
- **Models and serve lock.**  Downloads are resumed, renamed and removed by
  independent processes that may be killed; a server is found by a file that
  survives it.  Correct: a model under its final name is whole, `status` names a
  server only if there is one.
- **Router, logger, top.**  Long-running loops whose memory of the last result
  must follow what really happened; a log that several processes rotate.
  Correct: the record follows the address, the log keeps the newest lines,
  the table and its rates are those of the last pass, `k` stops what it asked
  about.

`PROJECT.json` lists these hazards at their lines, with the properties that
would catch each of them.  Where a hazard is what the code does (section 3), it has
no property, or a note that says which part of it the property leaves out.

## 2. Modules

| module | models |
|---|---|
| `SeqAllocator` | class `SeqAllocator` as functions of its two fields |
| `Conversations` | what the session cache promises: a memory for each conversation, and answers from it alone (abstract) |
| `SessionServer` | `SessionTable` and `complete_stream` |
| `TunnelMux` | `Mux`, `MuxStream`, `serve_public`, `bridge_stream`, `tunnel_run`'s accept loop |
| `TunnelControl` | hello, registry, publication, look-up, reconnection, life of the relay |
| `TopoSort` | `topo_sort` as a function, and what a sort has to be |
| `AppReconcile` | `app_up`, `app_stop`, `app_rm` with `Manager::run/list/stop` |
| `RouteTable` | what `routes.json` promises: one table, changed atomically (abstract) |
| `RouteStore` | `routes_load`, `routes_save`, `route_add`, `route_remove` and the commands around them |
| `RouteProxy` | `hostely proxy serve` over `RouteStore` |
| `DnsProvider` | what one provider call leaves at a name |
| `CertStore` | the certificate files of a domain and the handshakes that read them |
| `Acme` | `certs issue` and `certs rm` over `CertStore` and `DnsProvider`, with the authority |
| `Logger` | opening, limit and rotation of the log, by several processes |
| `RouterWatch` | `router watch` over `DnsProvider` and `Logger` |
| `ModelStore` | `models pull`, `rm`, the listing and the names |
| `ServeLock` | `hostely serve` and `serve.lock.json` over `ModelStore` |
| `TopSampler` | the sampler thread of `hostely top`, its store and the containers |
| `Top` | the render loop and the terminal over `TopSampler` |

Beside each of the machines there is a `...Props` module with its properties
(`LoggerProps` for the log, whichever program writes to it), and an `MC...` module
with the instance TLC checks.
The theorems are in modules of their own over the `...Props`:
`SessionServerProofs` (with `Conversations`), `TunnelMuxProofs`, `TunnelControlProofs`,
`AppReconcileProofs` (with `TopoSort`), `RouteProxyProofs` (with `RouteStore` and
`RouteTable`), `ExposureProofs` (`Acme` with `CertStore` and `DnsProvider`; `Logger`
and `RouterWatch`),
`ServeLockProofs` (with `ModelStore`) and `TopProofs`.

A definition named "Mutant of X" is a plausible slip in the code X models; with
X replaced by it TLC finds the property `PROJECT.json` pairs it with violated.
The specifications do not use them.

### Conversations, SessionServer

`complete_stream` holds `infer_mu` from its first line to its return, so one
request is in flight; `pc` is the stage it is in and the steps are its stages:
`Begin` (tokenized prompt, header, whether a prefix match is allowed,
`max_tokens`), one of `FindSession`, `AllocSession`, `EvictThenAlloc`,
`EvictThenStateless`, `MatchPrefix`, `NoSession`; `TrimSession` or
`ClearStateless`; `AcceptBudget` or `ContextExhausted`; `PrefillChunk` per
batch, `PrefillFails`, `PrefillDone`; `GenerateToken` with its exits; `Persist`;
`Reply`.  HTTP threads waiting for the mutex are the free choice of the next
request.

- A token is an element of `Token`; templates, text, JSON and sampling are left
  out.  Which token is sampled is free.
- `kv[q]` is what llama's memory holds on sequence `q`, by position.
  `llama_decode` is external: it succeeds exactly when the batch continues the
  sequence and the unified pool of `NCtx` cells has room.
- `logits` remembers the context the logits buffer was last computed for.
- `last_used` is a clock; only its order matters, so `age` ranks the sessions
  (0 the most recent).
- `Conversations` has no ids, cells, batches or recency.  A request is asked,
  attached to a conversation or to none, computed from what that conversation
  remembers of the prompt (`Recall`), the rest of it (`Read`) and its own answer
  (`Say`), and finished: the conversation remembers the whole context, or what it
  did, or nothing.  Its `memory` is mapped to what the *sequence* of a session
  holds of its tokens, not to the token list, and its `context` to what the
  sequence holds up to the position reached: the mapping is through the KV.
- The `uint32_t` sum in the budget check wraps modulo `Word`.

### TunnelMux

Two sides, each with a reader thread, a pump per stream and the thread that owns
the `Mux`.  A critical section of `mu_` is one step; `closed()` and the send
after it are two.  A stream's pump goes through `open`, `dst`, `head` (relay) or
`dst`, `connect` (origin) and then the loop `poll`, `send`, `drain`, `check`,
`end`.  The two pumps test `closed()` at different places of the loop, as the
code does.

- Bytes are units numbered by the sender, so a loss, a repetition or a swap is
  visible.  `poll` reporting POLLHUP together with data is nondeterministic once
  the peer has closed.
- `stuck` says that a thread waits for ever for a mutex it holds: `send_frame`
  locks `mu_` when `send` fails, and four callers hold it.
- `DestroyMux` is `~Mux`; with `dead_` set, `Mux::close` returns before joining
  the reader, the destructor of a joinable `std::thread` terminates the process
  and `main` becomes `aborted`.
- ACK frames have no effect on the receiver and Ping and GoAway are sent by
  nobody; they are left out.  An interrupt of the relay is, for the origin, a
  lost connection.
- `load` says how many connections come, how many units flow each way, whether
  the link may be lost and whether the client may be interrupted; it is chosen once
  from `Loads`.

### AppReconcile

One app, one command at a time; `stage` is where its loop is.  `up` goes per
service through `KeepRunning`, `KeepStopped`, `Recreate` or `QueryFails`, then
`KeepPorts` or `ChoosePort`, `Run` or `RunFails`; at the end `SaveOpen` (which
truncates the file) and `SaveWrite`, which may fail without anybody noticing:
`save_state` does not look at the stream after it has written, and `up` succeeds.  `stop` and `rm` are `StopStart`,
`StopOne`, `RmOne`, `Forget`.  Between any two steps containers exit, listeners
come up (`Listen`) and other programs take ports.  The compose file and the
host's address change between commands only: `app_up` reads each once at its
start, so a later change is one after the command.

- A configuration is what `config_fingerprint` hashes, cut down to a version,
  one wanted port and one address-valued variable; collisions of FNV-1a are
  ignored.  `Hash` is a definition of its own, so that a fingerprint that leaves
  something out can be told from one that does not.
- `file = <<>>` stands for every case in which `load_state` gives no service.
- `list()` is taken to report the running containers, as the comment above
  `cli_container` says.  (`parse_ls` takes the last column of a row as the name
  and `container_exists_any_state` the first; which one is right depends on the
  runtime's table.)
- `fresh` and `lost` are history variables: what the running `up` created, and
  the containers the file is not expected to describe.  Nothing reads them but
  the properties.

### TunnelControl

One record per control connection (its origin thread), per client and per public
connection; `wire[k]` is what the two ends know of connection `k`.

- The client: `Connect`, `SendHello`, `ReadReply`, then the session until
  `SessionLost` or `SessionStops`.  Its pauses between attempts are not modelled;
  an attempt may come at any time.  A lost session terminates the process
  (`aborted`, see `DestroyMux` above), and `Restart` is its user starting it
  again.
- The origin thread: `ReadHello`, `Register` (refused when the name is in use),
  `SendOk`, `PublishBegin`/`PublishEnd`, the wait loop, `CloseFd`, `Destroy`.
  The entry of `g_origin_muxes` stays when the descriptor goes, as in the code.
- `PublishBegin` and `PublishEnd` bracket the insertion into `g_origin_muxes`,
  which the look-ups do not exclude: they take another mutex.  A look-up in
  between may see or miss any entry (`Lookup`).
- A client that loses power leaves its connection half open, and its name taken,
  until the relay notices.
- `Destroy` ends the relay process as `~Mux` does; `Respawn` is an external
  supervisor, the only thing here that is not in the repository.
- `serve_public` compares the lower-case `Host` with names as the clients spelt
  them; the instance spells them in lower case.

### RouteTable, RouteStore, RouteProxy

A command reads `routes.json` (`routes_load`), computes the new rows
(`route_add`, `route_remove`), opens and truncates `routes.json.tmp`
(`OpenTmp`), writes it (`WriteTmp`, `WriteFails`) and renames it (`Rename`,
`RenameGone`).  Two commands share that one temporary name: a process keeps
writing to the inode it opened, so `fd` follows it through renames.  Rows are of
one length, so a second, shorter write over a longer file leaves a table that
does not parse (`Parses`).  A save that fails (`SaveFails`, `RenameGone`) ends the
command with an error (`AfterFailure`), unless it was `expose <host> <container>
--off`: that one goes on, `warned`, and reports success.  A write that is cut short
is not noticed by any of them.

The proxy's reloader reads (`ReloadRead`), swaps (`ReloadSwap`) and refreshes its
container addresses (`ReloadRefresh`); a request looks its name up (`Lookup`) and
answers (`Answer`).  `Refreshed` has what the code does: with any container
running, `refresh_container_nets` throws on that container's `status`, which it
reads both as a string and as an object, and keeps the addresses it had, which
are none.  Whether a certificate is found is `CertStore`.

### DnsProvider, CertStore, Acme

`DnsProvider` gives the outcomes of `upsert` and `remove` on the set of records a
name has: each is a list, some deletions and a creation, and any request may
fail.  `Acme` follows `acme_issue_cert`: per domain `Authz`, `SetTxt`,
`Propagate`, `Trigger`, `Validated`/`PollAgain`/`GiveUp`, then `Finalize`,
`Download`, and `Save` of the two files, each truncated first.  `Abandon` is the
command failing or being killed.  The authority (`Validate`, `Decide`) and the
spread of a record to resolvers (`Publish`) are external.  A certificate, a key
and a TXT value carry the number of their order.  For a name in `Apex`, which is a
zone by itself, the code asks for `_acme-challenge` without the zone: resolvers have
nothing under that name (`Visible`), and the provider, whose listing filters by
the name as given, may find nothing to replace or to delete (`Listings`).  The authority is taken to
accept the trigger, whose payload the code leaves empty.  A handshake reads the
cached context or the two files, in the order of `sni_callback`.  One `certs`
command runs at a time.

### Logger, RouterWatch

`files[i]` are the lines of `hostely.log.i`.  Lines have one size and are
numbered.  A rotation and an emission are one step each; a file that cannot be
reopened after a rotation is not modelled.  Another process that logs keeps
writing to the file it opened, which may since have been rotated.  The watcher
queries (`Query`, `QueryFails`), logs, and updates the record (`Update`), and
`last_ip` is set whether that worked or not.

### ModelStore, ServeLock

A file is a sequence of blocks that know their repository.  `Pull` goes through
`Check` (skip what is there), `CurlOpen`, `Download` per block, `CurlDone` or
`CurlFails`, `Rename`, and the sidecar (`OpenSidecar`, `WriteSidecar`).  curl's
look at the partial file and its opening are one step, after which it appends to
that inode wherever its name goes (`Follows`).  curl is spawned as a process of its
own: `Kill` of the command leaves it among the `strays`, where it goes on writing
(`StrayOpens`, `StrayWrites`) and ends at any time (`StrayEnds`), while later pulls
resume the same `.tmp`.  The sidecar is written in one step after it
is truncated.  `Remove` resolves a name and deletes.  Licence and size in the
manifest are left out.

`hostely serve` is `Serve`, `Load`, `LockOpen`, `LockWrite`, `Bind`, then
`Sigint`, `StopRemoves`, `StartReturns`; `EarlySigint` is an interrupt before
the server listens, which stops nothing (httplib is external).  Both removals
look at nothing but the file.  `read_serve_lock` is what `status` says, liveness
probe included; `reused` remembers pids given to later commands.  What `fit`
decides is one of the reasons a load is refused.  A port that is in use may refuse
the second server or not (`BindFails`, `Bind`): that depends on `SO_REUSEPORT`, which
httplib, an external library, sets where it exists.

### TopSampler, Top

The sampler's pass is `Begin`, then `StatsMisses`, `MissedLoad`, `MissedStore` or
`StatsAnswers`, `AskList`, `StorePass`, then `Wake`.  The render loop is `Draw`,
up to twelve polls that may each bring a key, and `FrameEnds`.

- A container that runs uses one unit of its counter per unit of time; one
  counter stands for the five the code treats alike.  The latency of the
  container CLI is part of the interval.
- `prev` and `next` are swapped after each pass and never cleared, as in the
  code; `hist`, `misses`, `good` and `clobbered` are history.
- A failed stop loads the snapshot and stores it with its message, in two steps
  (`LoadSnapshot`, `StoreSnapshot`), between which the sampler may store.
- `container ls` names running containers.  Containers are followed until the
  loop is left.

## 3. What TLC checks

| run | bounds | shows |
|---|---|---|
| `session_server` | 3 conversations, 2 sequence ids, 2 tokens, prompts up to 3, batches of 1, 4 cells; 1.6 M states | `SeqOwnership`, `FreeSeqsAreEmpty`, `CachedTokensInKV`, `InFlightContext`, `DecodedContextIsRequest`, `EvictionKeepsCacheFull`; `CacheIsPrivate` (refinement) |
| `session_single_chunk` | 2 conversations, 1 sequence id, prompts up to 2 in one batch, 3 cells (so that the context can be exhausted by the prompt), budgets 1 and -1; fairness | `TokensMatchKV` holds without chunking; `RequestCompletes` |
| `tunnel_mux` | 1 connection, with either 2 units each way on a wire that holds, or 1 unit each way, loss and interrupt; fairness; 151 000 states | `DeliveredInOrder`, `NothingLostWhileOpen`, `FinsSettle`, `PumpsEndTogether` |
| `tunnel_control` | 2 clients with two names, one name, or a wrong token; 3 connections and descriptors; 1 public connection; 2 interrupts, power cuts or restarts; fairness; 347 000 states | `RegistryConsistent`, `ServedByOwnOrigin`, `NoSpurious502`, `ClientGetsIn` |
| `app_reconcile` | 2 services, 3 compose files, 2 addresses, 6 ports, 1 fault; 1.9 M states | `StateFileTrue`, `UpConverges`, `CreatedPortsDistinct`, `DependenciesFirst`; at start-up, `TopoSort` against its definition on all 9261 dependency lists of three services |
| `route_proxy` | 2 spellings of a name, 2 targets, 2 commands, 1 request thread, 1 fault or kill; fairness; 489 000 states | `StoreIsTable` (refinement), `AckedIsStored`, `KeptRouteNeverMissed`, `ProxyFollowsFile` |
| `certificates` | 2 domains, the first an apex, 2 orders, 1 polling round, 1 fault or kill, 2 handshakes; 200 000 states | `SuccessLeavesNoTxt`, `ChallengeIsAlone`, `FirstIssuePoisonsOnlyByEmptyRead` |
| `router_watch` | 2 addresses, 1 move, 1 fault, 2 processes, limit of 2 lines, 2 rotated files; fairness; 457 000 states | `RecordFollowsAddress`, `LogKeepsRecentLines` |
| `model_serve` | 3 repositories that share a file name, with 2, 1 and 2 blocks, 2 processes, 3 commands, 2 faults or kills, 2 ports; 2.5 M states | `InstalledIsWhole`, `OkMeansInstalled`, `StatusTruthful`, `ServerIsVisible` |
| `top` | 2 containers, 3 passes, intervals 1 and 2, 2 keys, 1 fault, 1 start or stop by others; fairness; 378 000 states | `StoreIsLastPass`, `RateIsTrue`, `StopsWhatWasAsked`, `AsksAboutMarkedRow`, `QuitEnds` |
| `session_stale_logits` | 2 conversations | a disagreement, below |
| `tunnel_reconnect` | 1 connection, loss and interrupt | a disagreement, below |

Deadlock is checked in the session, app, route, router-watch and
tunnel-control runs.  The others come to rest: the tunnel has a fixed number of
public connections, the certificate, model and dashboard runs a fixed number of
commands or passes.

Why these bounds reach the interesting cases.  Three conversations on two ids
force evictions, the second `take()` and the stateless fallback; two tokens are
the least with which histories diverge; prompts longer than a batch are chunked, and
four cells are exhausted by a prompt, in the middle of a prefill and of a generation.  One
connection suffices for everything about a single stream, and two units each way
for them to change places; what several streams share, the wire and the accept slot,
is covered by the two theorems about `TunnelMux`, which hold for any number of
them.  Three control connections
let a descriptor be closed and reused while another origin lives.  Two services with one
dependency, both wanting the same port, give drift, late listeners and a failure
after a success; one fault is enough for each single failure, and faults do not
otherwise interact except through the records they leave.  Two commands are what
it takes to lose an update or to share a temporary file, and two spellings of a
name to need the proxy's folding.  A second order meets what the first left; a
second name meets a first that is already authorized.  With a limit of two lines
the log rotates often enough to drop its oldest file.  Two faults in
`model_serve` let a resumed download be killed again, beside the curl of the first;
of the repositories that share a file name two have files of one size, so that a
file found in place may be another's.  Three passes are the
least in which the two counter maps come round to where they started, and two
keys the least that stop a container.  Symmetry is used for
session ids and tokens, in runs without liveness only.

The type invariants are parts of the inductive invariants of section 4 (`TypeOK`,
`Types`, `StoreType`, `Threads`, ...), where they are proved; the runs spend their
time on the rest.

There are two refinements.  `CacheIsPrivate`: `SessionServer`, with the KV mapped
to memories and a context, implements `Conversations`.  It says what the
invariants of the cache are for, and more than they do: a request without an id
goes on with the conversation that remembers most of its prompt; all of the
common prefix is reused; and a request changes no other conversation, but for
one that is evicted whole, and that only to make room for a named one that is
not remembered.

`StoreIsTable`: `RouteStore`, with the file's rows mapped to
`table`, implements `RouteTable`, in which a command changes one host in one step
or nothing.  The promise is given up, in both, once two commands overlap or a
write is cut short, and `spoilt` says so.

Fairness.  All of it is weak.  `session_single_chunk`: the thread that holds
`infer_mu` keeps running; clients owe nothing, and a mutex holder is scheduled by
the OS.  `tunnel_mux`: each reader, pump and main thread; blocking calls in
them are disabled steps, peers and the network owe nothing.  `route_proxy`: the
reloader and the exit of a signalled proxy.  `router_watch`: the query and the update of the running watcher.  `tunnel_control`: each client,
each origin thread, and the supervisor that starts the relay again; users,
power and public connections owe nothing.  `top`: the sampler and the render
loop, whose container calls return (the code sets no time limit).

### Where the code and the repository's words differ

Two runs refute a statement of the repository:

| run | statement | what happens |
|---|---|---|
| `session_stale_logits` | `CONTRIBUTING.md`: a conversation's output must be what a cold request gives | a wholly cached prompt decodes nothing and samples from the logits of another request |
| `tunnel_reconnect` | `client.hpp:24`: `tunnel_run` "runs reconnect loop until SIGINT/SIGTERM"; `client.cpp:191`: "connection lost; reconnecting in 3s" | after a lost connection the reader has set `dead_`, `Mux::close` returns before it joins it, and the destructor of the thread terminates the client (the same ends the relay) |

The rest is visible in the modules, without a run of its own:

- `session.hpp` calls a session's tokens "everything in KV on this seq".  When a
  chunk after the first fails, the earlier chunks stay in the KV unlisted, and
  the session's next turn collides with them (`PrefillFails`).
- `client.hpp` "bridges every incoming multiplexed stream".  A second SYN before
  the accept loop wakes finds the slot full and is never accepted.
- `client.cpp` speaks of a pump that will "drain buffered stream data on
  wakeup".  A FIN that arrives with data ends the pump with data in the buffer.
- `send_frame` takes `mu_` when `send` fails, and four callers hold it: the thread
  locks itself out and its mux stands still (`SendFailsHoldingMu`, `stuck`).
- `app.cpp:432`: "the previous state file still describes the containers that are
  actually running".  The second service of an `up` may fail after the first was
  recreated.  And `save_state` (`app.cpp:86-87`) returns true whether its write worked
  or not: `up` succeeds over a state file that is empty or cut short.  A kill after
  the truncation does the same.  `lost` has the containers concerned.
- `README.md` has the proxy route to containers by host name.
  `refresh_container_nets` (`proxy.cpp:96`) throws for every running container,
  so a routed request is answered 502, container not running (`Refreshed`).
- `main.cpp:579` takes a missing lock for a server that is not running.  A second
  server that ends removes the lock of the first.
- `sample.cpp:234` has an unknown container make `ls` run again;
  `cached_list_json` is always empty, so it never does.  `sample.cpp:310` keeps
  containers that left `stats` for three passes, "then drop"; they stay as long
  as `ls` named them.
- `expose <host> <container> --off` (`exposure_cli.cpp:172-178`) warns "no route
  for" the host when the save failed, then logs "removed route" and exits with 0,
  though the route is still there.  `AckedIsStored` is about success without that
  warning.
- `README.md` (lines 51 and 78) calls downloads resumable.  What is resumed is
  whatever `<name>.tmp` holds: the file of another repository with that name, or one
  that the curl of a killed pull is still writing; the outcome is installed as
  whole (`tainted`).  A download is skipped for a file whose size is right, of
  whichever repository.
- For a name that is a zone by itself `acme.cpp:371-372` asks for `_acme-challenge`
  alone.  The wait for the record never sees it, and old records under the full
  name need not be found (`Listings`, `Visible`).
- `sni_callback` caches its context for ever: one made from an empty `cert.pem`, and
  the one of a certificate that has been renewed since.  In a renewal it may pair
  the new certificate with the old key.
- `router_watch` remembers an address whose `set_a` failed: the record is not
  tried again until the address changes (`Update`, `wrong`).
- `relay.cpp` inserts into `g_origin_muxes` under one mutex and looks up under
  another; a look-up in between may miss any entry.  The entry of a dead origin
  stays, and its descriptor may be another's by then.
- `expose` and `unexpose` take no lock: of two that overlap, one may lose its
  route, or both write one temporary file.  `spoilt` marks that point.
- `top` divides by the current interval: after a missed pass, or a change of
  interval, a rate belongs to an older window, which `RateIsTrue` leaves out.
  Two `k` between two frames stop a container nobody was asked about, which
  `StopsWhatWasAsked` says.  `--once` divides without having slept.
- `take()` looks at `max_ - 1` slots, one of which may be the reserved 0, where
  `session.cpp:15-17` speaks of "a full sweep" that "finds any freed slot".  It
  overlooks the slot before the cursor: after an eviction `take()` may fail again, a
  conversation is lost in vain, and the request runs stateless
  (`EvictThenStateless`).  `EvictionKeepsCacheFull` says that it goes no further:
  nobody is evicted from a cache that is not full.
- `MatchPrefix` attaches a chat request without a session id to a session whose
  tokens prefix it, where `README.md` calls such requests stateless.
- `Reply` answers 503 to every empty text, also when the model's first token is
  eos.
- `AcceptStream` does not look at `g_stop`, so an interrupted tunnel waits for
  its next stream.

## 4. What is proved

Every theorem below holds for all values of the constants: any number of
conversations, streams, clients, commands, requests, files, faults, and so on.
Except for `InsertionHasRoom`, `InductiveInvariant`, `TypeCorrect`,
`WatcherUsesLog` and `TopoSortSorts` each states a property that a run of
section 3 checks. What is assumed of the constants is named at their
declaration, and is either their type or as follows: `MaxSeqsAssumption`, at
least two sequences; `ServerAssumption`, a context, a batch and a prompt bound
of at least one token; `LoggerAssumption`, a limit of at least two lines and at
least one rotated file (the callers keep the defaults, 1 MiB and 3);
`WatchAssumption`, the watcher is one of the processes; `RouteAssumption`, what
other editors leave in `routes.json` is a table; `ControlAssumption`, the names
clients ask for are host names; `ComposesAssumption`, compose files are compose
files; `ModelAssumption`, sizes are numbers; `SamplerAssumption`, finitely many
containers and a smallest interval of at least one; `TunnelAssumption`, finitely
many streams and a public connection that has something to send (the head of the
request the relay has read before it opens the stream).

All follow one pattern: an invariant that is inductive, a lemma for each action
that disturbs it, and a theorem that puts them together.

### Inference sessions (`SessionServerProofs`)

`TypeCorrect` (`TypeOK`), `ExclusiveSequences` (`SeqOwnership`),
`RecycledSequencesAreEmpty` (`FreeSeqsAreEmpty`), `ReuseIsSound`
(`CachedTokensInKV`), `InFlightSound` (`InFlightContext`), `InsertionHasRoom`
(`InsertNeverEvicts`), `EvictsFromFullCache` (`EvictionKeepsCacheFull`),
`SamplesOwnContext` (`DecodedContextIsRequest`), `TokensAreTheSequence`
(`TokensMatchKV`), `CacheKeepsPromise` (`CacheIsPrivate`, the refinement).

`IInv` is `TypeOK`, `SeqOwnership`, `FreeSeqsAreEmpty`, `CachedTokensInKV` and
`InFlightContext` together.  None of the first four is inductive alone.
`CachedTokensInKV` is broken by `Persist` unless the sequence holds prompt and
answer at that point, which is `InFlightContext`; that in turn needs
`TrimSession` to find the cached prefix in the KV, and both need exclusive
sequences, since a decode on a shared sequence would change another session's
cache.  `InsertIInv` treats the three ways a session enters the table at once;
`OwnSeqIInv` says that a step that changes only its own sequence leaves the
others' caches alone.

Two more invariants are proved beside it.  `Decoded` follows the prompt into
the sequence: what was fed is its end, and the last chunk leaves its logits.
`Matching` is for `TokensAreTheSequence`, whose hypothesis `MaxPrompt <= NBatch`
says that no prompt is cut into chunks; it is the configuration of
`session_single_chunk`, and without it the statement is false (section 3).

`CacheKeepsPromise` is proved step by step.  The mapping reads the KV, which every
decode and every removal changes; `Believed` and `Claimed` are the same two things
read off the table and the request instead (the tokens of a session; the part of
the prompt passed so far, then prompt and answer).  That they agree is what
`IInv` says (`MemoryIsBelieved` from `CachedTokensInKV`, `ContextIsClaimed` from
`InFlightContext`), and with it each stage is a step of `Conversations` over the
table.  `PrefillChunk` is `Read`, `GenerateToken` is `Say`; `Persist`,
`PrefillFails` and `ContextExhausted` are the three ways to `Finish`;
`TrimRecalls` needs that `common_prefix` stops at a difference (`CommonPrefixSpec`),
and `MatchAttaches` that the best match of `find_by_prefix` is a longest one.
`AgesDistinct` (no two sessions are equally old) is the one further invariant:
without it the session to evict would not be determined.

`EvictsFromFullCache` counts.  `take()` fails only if at most the one id the sweep
overlooks is free (`SweepMisses`, `FailureMeansFull`); the ids in use are those of the
sessions, one each (`SeqOwnership`, `OneIdEach`), so that many sessions are live when
one is evicted.

### Tunnel data path (`TunnelMuxProofs`)

`UnitsArriveInOrder` (`DeliveredInOrder`) and `OpenStreamsLoseNothing`
(`NothingLostWhileOpen`).  `MuxInv` says of every stream that

- `Known`: one SYN introduces it at the origin before its data, and no pump of
  the origin comes before that;
- `Fins`: the destination line is on its way or read before any FIN of the
  relay, so that the origin does not take the close of a stream, or a unit, for
  its destination;
- `Flow`, in each direction: the units written, those buffered and those on the
  wire are consecutive, up to what the sender has taken, until the receiving
  pump has ended.

Order alone is not inductive.  The unit that `ReadData` puts in the buffer
continues it only because the wire is without gaps; that it is rests on a FIN
closing the sender's stream for good; and that the origin writes no destination
line to its socket rests on `Known` and `Fins`.  What a wire holds of one
stream is described by a few predicates (`HasSyn`, `Chain`, `Ends`, ...), and
lemmas say how a send and a receive change them; nothing else of the proof opens
the wire.  A step about one stream spares the others (`Spares`).  For the second
theorem `NoneYet` is added (nothing is written before the destination line is
read), and every unit between the next and the last is found on the wire by
taking the least that is not.

### Tunnel control plane (`TunnelControlProofs`)

`RegistryIsConsistent` (`RegistryConsistent`), `OwnOriginServes`
(`ServedByOwnOrigin`), `BadGatewayIsTrue` (`NoSpurious502`).  `ControlInv` is
`Threads` (who has which descriptor), `Registry` (`RegistryConsistent`, and that
an entry of `g_origin_muxes` may outlive its descriptor but not its thread) and
`Requests` (what a request found in its first look-up and what is still true of
it at the second).  `Requests` is where descriptor reuse bites: a request holds a
bare number between its two look-ups, and `Unmoved` and `Sure` say how long that
number means what it meant.

### Apps (`AppReconcileProofs`)

`TopoSortSorts`: for every list of services and every `depends_on`, `topo_sort`
succeeds exactly when the dependencies are known and acyclic, and then gives each
service once, after those it depends on.  The recursion is on the services not
yet on the path and the loop on the names still to visit; each induction is the
choice of a least counterexample (`LeastNatural`), which the provers can follow
where an induction principle over an arbitrary formula is out of their reach.

`StateFileIsTrue` (`StateFileTrue`), `UpReachesFile` (`UpConverges`),
`PortsAreDistinct` (`CreatedPortsDistinct`), `DependenciesAreThere`
(`DependenciesFirst`).  `AppInv` has `Filed` (the state file, but for what is
excused), `Progress` (the services the loop has been through are as the compose
file says and recorded; those to come are in an order that respects the
dependencies, which it has from `TopoSortSorts`) and `Ports` (what was given is
claimed).  `Filed` needs `Progress`: the file saved at the end is the state built
in the loop, and only `Progress` says that this state describes the containers.
`MaxPort` bounds the search for a free port: a step that would look beyond it is
not taken (`PortLeft`).

### Routes and proxy (`RouteProxyProofs`)

`AckedRoutesAreStored` (`AckedIsStored`), `StoreImplementsTable` (`StoreIsTable`,
the refinement), `ReloadsHideNoRoute` (`KeptRouteNeverMissed`).  `StoreInv` has
types that hold whatever happens, and `Undisturbed`: until commands overlap or a
write is cut short one command is under way, and the temporary file and its own
rows are what they must be at its stage.  Then `Rename` of a command is the
abstract `Add` or `Remove`, its acknowledgement changes nothing, and everything
else stutters or gives up the promise.  For the proxy, `StandingInv` says of a
request whose name has stood in the file since it came that the name is in the
table the proxy holds, in the one a reload has read, and in the file.

### Certificates (`ExposureProofs`)

`IssuedCleansUp` (`SuccessLeavesNoTxt`), `RecordIsThere` (`ChallengeIsAlone`),
`FirstIssueIsSafe` (`FirstIssuePoisonsOnlyByEmptyRead`).  `AcmeInv` names the
steps between which the record of the running order is allowed (`Records`), and
says that all there is to read after one save comes from one order (`Saved`):
the files, the cached context and what every handshake has read so far.

### Log and router watch (`ExposureProofs`)

`LogKeeps` (`LogKeepsRecentLines` of `LogSpec`, the log under any programs that
open, write and close it), `WatcherUsesLog` (every behaviour of `RouterWatch` is one
of `LogSpec`) and, from the two, `WatchedLogKeeps`.  `LogOk` says of the files what
the property does (`FilesOk`) and of the processes (`LogsOk`) that, while the log
is not shared, at most one has it open, and stands at the end of `hostely.log`
(`AtEnd`): with its size as count if it appends, with one line less if it opened
the file by a rotation, since the line that caused it is not counted.  `AtEnd` is
what makes a write an append after a rotation, when the file is no longer open
for appending, and what bounds the file: the limit is tested on the count.  A
rotated file therefore holds between `MaxBytes - 1` and `MaxBytes` lines.

### Models and serve lock (`ServeLockProofs`)

`InstalledFilesAreWhole` (`InstalledIsWhole`), `PulledIsInstalled`
(`OkMeansInstalled`), `StatusNamesAServer` (`StatusTruthful`), `AloneIsReported`
(`ServerIsVisible`). `StoreInv` says of every file that no two pulls, and no pull
and stray curl, have shared (`FileOk`) that a `.tmp` without a pull is one a
killed pull left, and of every pull (`Reached`) what its part of the file holds; a
stray curl of that name has no pull beside it and does not write to what is
installed; `LockInv` that the pid in the lock is dead, reused, or that of a server
which is what the lock says.
`PulledIsInstalled` is as strong as the code: after a download the file is that of
the repository asked for, whichever others share its name; after a skipped one it
has the right length, which is all `models pull` compares.

### Dashboard (`TopProofs`)

- `StopsOnlyWhatWasAsked` (`StopsWhatWasAsked`).  The property is about the
  answer; `Asked` adds what holds while the question waits (it was drawn, or came
  since the last frame) and that no question is left while a stop is carried
  out.  The sampler cannot disturb it, whatever it stores: the name was taken
  when `k` was pressed.
- `StoreHoldsLastPass` (`StoreIsLastPass`).  `StoreInv` has three parts.
  `NumbersInv`: snapshots are numbered by passes, and one that runs has not
  stored its own.  `CopyInv`: a copy with the number of the snapshot has its
  rows and its count of misses, so putting it back loses nothing.  `StageInv`:
  where the sampler is in its pass, and what that says of the store and of what
  it has loaded from it.  Without `CopyInv`, `StoreSnapshot` could put back other
  rows under the same number; without `NumbersInv`, a pass could store under the
  number of a copy.
- `RatesAreTrue` (`RateIsTrue`).  `MapsInv` says which of the two maps holds the
  counters of which pass at each stage: it is the swap that the property is
  about, and entries of older passes stay in both maps for ever.
- `MarkedRowIsAskedAbout` (`AsksAboutMarkedRow`, an action property).  `FrameInv`:
  a frame with the number of the snapshot, or of the copy to be put back, marks
  the row that table has under the selection it was drawn with.

### Only model-checked

- Liveness under fairness, which TLAPS does not treat: `RequestCompletes`,
  `FinsSettle`, `PumpsEndTogether`, `ClientGetsIn`, `ProxyFollowsFile`,
  `RecordFollowsAddress`, `QuitEnds`.

## 5. Not modelled, and the plan

Not modelled, because there is no state of their own to reason about: the compose
parser, argument parsing, configuration text, chat templates, JSON and HTTP
framing, copying of bodies by the proxy, JWS and keys of ACME, the subprocess
plumbing of `services/cli.cpp`, layout and graphs of `top` and its static
columns, OS probes.  The port mapping by PCP, NAT-PMP and UPnP keeps its state
in the router.  `fit` is arithmetic on figures of the OS.  `app ps`, `app logs`
and `top --once` only read.

Left out, though something may go wrong there: `services::cli::run` reads the
child's standard output to its end before its standard error, so a child that fills
the second pipe (curl's progress meter, in a long pull) hangs with its command; and a
tunnel client waits without a timeout for a relay that lost power.

What could be added, in this order:

1. An abstract specification of the tunnel (two sequences of bytes per
   connection) implemented by `TunnelMux`; `MuxInv` is what its step proof needs.
2. The SSE block protocol of `/v1/messages`; `fit` and `pick_sibling` as pure
   functions.

## 6. Running

    tlc -config session_server.cfg MCSessionServer
    tlc -config session_single_chunk.cfg MCSessionServer
    tlc -config session_stale_logits.cfg MCSessionServer
    tlc -config tunnel_mux.cfg MCTunnelMux
    tlc -config tunnel_reconnect.cfg MCTunnelMux
    tlc -config tunnel_control.cfg MCTunnelControl
    tlc -config app_reconcile.cfg MCAppReconcile
    tlc -config route_proxy.cfg MCRouteProxy
    tlc -config certificates.cfg MCAcme
    tlc -config router_watch.cfg MCRouterWatch
    tlc -config model_serve.cfg MCServeLock
    tlc -config top.cfg MCTop
    tlapm SessionServerProofs.tla
    tlapm TunnelMuxProofs.tla
    tlapm TunnelControlProofs.tla
    tlapm AppReconcileProofs.tla
    tlapm RouteProxyProofs.tla
    tlapm ExposureProofs.tla
    tlapm ServeLockProofs.tla
    tlapm TopProofs.tla
