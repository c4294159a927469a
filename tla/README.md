# A TLA+ verification of codemcp

codemcp is a gateway (Rust, `src/src/`) that connects to upstream MCP servers,
generates a typed Python module from their tools, and offers a client one tool,
`execute_python`. The client's programs run in a Python worker
(`src/pyworker/bootstrap.py`), a child process or a container, which calls the
tools back through the gateway. This directory holds TLA+ models of that system,
TLC configurations that check them on small instances, and proofs for TLAPS.

`PROJECT.json` is the index: the components, the runs, the source lines each
definition stands for, one mutation of the code for every checked property, the
hazards the properties are for, and the theorems.

Contents: [the system](#1-the-system), [the modules](#2-the-modules),
[the runs](#3-the-runs), [bounds](#4-bounds), [fairness](#5-fairness),
[the proofs](#6-the-proofs), [where code and documents
differ](#7-where-code-and-documents-differ), [what is not
modelled](#8-what-is-not-modelled), [the plan](#9-the-plan).

## 1. The system

    MCP client --stdio/HTTP--> CodeServer --> Runtime --> Executor (host | docker)
                                 ^              |             |
    codemcp CLI / TUI --socket--> admin --------+             | WebSocket: run, reload,
                                                |             | set_shapes, call_tool
                                  UpstreamManager <--- control channel ---> Python worker
                                    |        |                              (dispatcher,
                                 upstreams  mcp-auth.json                    sdk.py, programs)

| Component | State | Operations | What is hard |
|---|---|---|---|
| Control channel, `control.rs` | id counter, map of pending one-shot channels, outbound queue, link | `run`, `reload`, `set_shapes`, the reader and writer tasks, `handle_call_tool`, run timeout | many callers share one map and one queue; answers in any order and after the timeout; the link goes while requests are being registered |
| Python worker, `bootstrap.py` | read loop, pool of threads, dispatcher (counter, futures, run context), the SDK module, `sys.stdout` | run a program, call a tool, read a handle, `reload`, `set_shapes` | runs on threads share everything above; a reload rewrites the module under them and needs a thread of the pool they fill |
| Checks before a run, `bootstrap.py` | learned key sets | check of field accesses, check of call arguments | may not reject a program that works; learning goes on beside it |
| Runtime, `runtime.rs` | boot list, session and default switches, key sets, SDK, description, peers | `enable`, `disable`, `enable_tool`, `disable_tool`, the shape learner, `regenerate_and_reload`, `list_tools` | one mutex per field and none over an operation, so any two interleave at every await |
| `mcp.json`, `config.rs` | the file | `set_enabled`, `set_tool_enabled`, `load` | read, change, truncate, write; no lock |
| Upstream manager, `upstream/mod.rs` | map of services under a fair read-write lock | call, list, connect, disconnect, shut down | a call holds the read guard until the upstream answers; connects replace one another |
| Token file, `auth/store.rs` | `mcp-auth.json`, its lock file, its temporary file | save, load, remove | several processes; writes that fail halfway; processes that die |
| Upstream connections, `upstream/client.rs`, `auth/oauth_client.rs` | the verdict of each attempt | with stored tokens, without, or a report of what is missing | the token file is read twice, and changes in between; servers with and without OAuth, guarded or not |
| OAuth logins, `auth/login.rs`, `auth/callback.rs`, `runtime.rs` | pending flows, callback servers and ports, tokens, connections | `auth_start`, `auth_finish`, `auth_remove`, the browser's redirect, renewal | a login is two requests with a browser between; a logout or a second login comes in between |
| SDK generation, `sdk/mod.rs`, `sdk/codegen.rs` | the registry: functions, routes, the set of writers | naming, classification, signatures | the worker rebuilds some of what the gateway decided |
| Key sets, `sdk/keyset.rs` | what is known of each tool's result | extract, merge, from a schema | results of varying shape, in any order |
| Gateway processes, `main.rs`, `exec/*.rs`, `admin.rs` | stage of the start, worker, workdir, port, socket file | start step by step, shutdown, failure, signal | what is left behind meets a later process with the same pid |
| Command line, `cli.rs`, `admin.rs` | scan of the socket directory, choice | discover, select, ask, and for some commands all of that again | gateways start and end during the scan and between the two halves of a command |
| Terminal UI, `tui/mod.rs` | rows of servers and tools, pane, two selections, error | refresh (two requests), toggle, move, help, every three seconds a tick | rows are as old as the last refresh, a toggle asks for the opposite of a row; requests fail halfway; others change the gateway |
| Setup, `setup.rs` | the harness's config, `mcp.json`, their backups | back up both, move the servers, rewire the harness | four writes, each truncating first; stopped between any two; run again over what it left |
| Update, `update.rs` | the binary, `codemcp.new` | check, download, copy, rename | killed while it copies; two updates share one `codemcp.new` |

How they interact: an admin request or the shape learner changes the runtime,
which reloads the worker over the control channel and notifies the clients; a
program's tool call comes back over the same channel, waits for the upstream
manager's lock, and its answer feeds the shape learner; a login saves tokens
(shared with other gateways through the file) and connects an upstream; the
shutdown runs executor first, upstreams last.

What makes each of them correct, in the order in which the properties of section
3 say it: every caller gets its own answer or a true reason; a program sees its
own values and no SDK older than the last that was loaded before it was sent; the model is never shown a function the
worker does not have, and what an operation asked for is what it leaves; no call
loses its connection and no connection is forgotten; the token file behaves as
one map; a cancelled flow is cancelled; no correct program is rejected; every
tool has one function of its own; a gateway leaves nothing behind, and a command
reaches the gateway it names; a screen that shows no error is true and a key does
what it says; no server configured is lost, and the binary is always whole.

## 2. The modules

| Module | Models | State ↔ code | Actions ↔ code |
|---|---|---|---|
| `ControlChannel` | `control.rs` | `nextId`, `pending`, `outbound`, `oneshot` are the fields and channels of `ControlHandle`; `task`, `reqId` each caller's position in `run`/`reload`/`set_shapes`; `writer`, `reader` the two spawned tasks; `toWorker`, `fromWorker`, `inHand`, `taken` the wire and the worker | `Allocate`, `Register`, `Post`, `Receive`, `Timeout` are a caller's steps; `Write` the writer task; `ReadResponse`, `ReadCall`, `LeaveLoop`, `Drain` the reader task; `UpstreamReturns`, `ReplyToCall` are `handle_call_tool`; `LoseLink` is external |
| `RemoteCall` | what the channel promises (abstract) | `phase`, `taken`, `outcome`, `link` | `Issue`, `Take`, `Answered`, `GivenUp`, `Disconnected`, `Break` |
| `Worker` | `bootstrap.py`: read loop, runs, dispatcher, reload | `inbox`, `readLoop`, `jobs` (pool); `counter`, `futures`, `ctx` are `Dispatcher`'s `_counter`, `_pending` and run context; `module` is `sdk.py` as loaded; `keysets`, `stdout`; per run its names, handles, trace and report | `Send…` the gateway; `ReadRun`, `ReadReload`, `ReadShapes`, `ReadResult` the read loop; `Submit` … `Wire`, `Leaves`, `Finish` the stages of `_handle_run`/`_exec_user_code`; `Call…` is `call_tool`; `Read`, `Resume`, `CallTimesOut` are `Pending.result`; `CallFires` schedules the request that `Send` or `SendFails` deals with on the event loop; `LoadHeader`, `LoadFunctions` the reload, in the order in which the source executes, of the text that `Texts` finds in the file; `ReloadFails`; on Docker `WriteSdk` is the gateway's write of that file |
| `Runtime` | `runtime.rs`, `config.rs`, `list_tools` of `server.rs` | `connected`, `boot`, `session`, `defaults`, `keysets`, `sdk`, `peers` are the mutexed fields; `file` is `mcp.json`; `worker` what the worker has; `mounted` which backend, `source` the `sdk.py` mounted into the container; `pc` the position of each admin request or learner task; `client`, `shown`, `notified` the clients | `StartAdmin`, `Connect`, `Turn`, `Learn`; `Snapshot`, `Collect`, `Render`, on Docker `OpenSdk` and `FillSdk` (which truncate and write the mounted file), `Reload`, `Ship`, `Swap`, `Notify` are `regenerate_and_reload` between its awaits; `ReadConfig`, `TruncateConfig`, `WriteConfig`, `Remember`; `Register`, `ReadDescription`; `Stop`, `Start`, `WorkerDies` |
| `Upstreams` | `upstream/mod.rs`, `Runtime::list` | `upstreams` the map, `service` each connection, `queue`/`holders` the fair `RwLock`, `bootLock`, `pc` | `Enqueue`/`Acquire` the lock; `Route`, `Answer` a call; `Open`, `Insert`, `Remove`, `Cancel`, `End` connect, disconnect, shutdown; `List`, `Probe`, `ReadTools` a listing |
| `AuthStore` | `auth/store.rs` | `disk`, `tmp`, the lock, `pc`, what each operation read | `Lock`, `Read`, `OpenTmp`, `FillTmp`, `Rename`, `Unlock`, the failures, `Die` |
| `AuthEntries` | the entries of the file, shared by the two above and below | — | `Lookup`, `Changed` |
| `TokenMap` | what the store promises (abstract) | one map, one result per operation | one atomic step per operation |
| `OAuthFlow` | `auth/login.rs`, `auth/callback.rs`, `auth_*` and `enable` of `runtime.rs`, `connect_one`, `upstream/client.rs`, `auth/oauth_client.rs` | `pending` is `pending_oauth`; `listener` each callback server; `holding` the flow a request has taken out; `tokens`, `connected`; `creds` and `outcome` what a connecting request has loaded and its `ConnectResult` | `Bind`, `Authorize`, `Publish`; `Redirect`, `Close`; `Take`, `Hear`, `Timeout`, `Exchange`; `Enable`, `Probe`, `Load`, `Connect`, `Plain`, `Ask`, `Record` are `connect_http` from the two reads of the token file to the map; `Cancel`, `Remove`, `Disconnect`; `Refresh` is external |
| `RunPromise` | what the worker promises a program (abstract) | `stage`, `dry`, `writers`, `made`, `log`, `report`; `mixed` the programs that were not alone | `Start`, `Refuse`, `Call`, `Stub`, `Answer`, `Settle`, `End`, `Vanish`, `Mix` |
| `KeySets` | `keyset.rs` and the walk of an access chain, in closed form: a tree is a function from the paths to its nodes | — (pure) | `Observed` what a result says, `Joined` the structure that holds it all; `Extract`, `Merge`, `FromSchema`, `Accepts`, and `Succeeds`, which is Python |
| `KeyTrees` | the same as recursions on nested records, the form the source has them in, for TLC to compare | — (pure) | `ExtractTree`, `MergeTrees`, `SchemaTree`, `AcceptedBy` |
| `FieldCheck` | `_validate_field_access`, the learner and its pushes | `events` the learner's channel, `learned`, `shipped`; `seen`, `verdict` | `LearnKeys`, `ShipKeys`, `Submit` |
| `SdkNames` | names, routes, writers, `dry_run` by name | the registry, the loaded module | `Bind`, `Load`, `BeginRun`, `Call` |
| `SdkCalls` | signatures and `_validate_call` | one schema, one call | `Describe`, `Validate`, `BindArguments`, `SendArguments` |
| `Gateway` | `main.rs`, `exec/*.rs`, the socket of `admin.rs` | `stage`, `worker`, `dir`, `up`, `port`, `adm`, `sock`; `orphan` what an earlier process left of its worker, running or created and never started | the steps of `run_gateway` in order, `EndOfInput` … `Exit`, `Fail`, `Kill` |
| `AdminClients` | one command of `cli.rs`, over `Gateway` | `command` what is left of it, `todo`, `found`, `choice`, `reply` | `Ask`, `Probe`, `Select`, `Request`, and `AskAgain` for `list`, `tool`, `tools`, `sdk` (select for the heading, then again) and `auth` (start, then finish) |
| `TerminalUi` | `tui/mod.rs` | `rows`, `toolRows`, `pane`, `serverSel`, `toolSel`, `error`, `help` are `App`'s; `pc` what the loop waits for; `conn`, `offered`, `off`, `kept` the gateway | `RefreshServers`, `RefreshTools` are `refresh`; `Tick`; `HelpKey`, `QuitKey`, `TabKey`, `MoveKey`, `ToggleKey` are `handle_event` and `toggle`; `DoAction` is `do_action`; `Disturb` is everybody else |
| `Setup` | `setup.rs` | `files` what each file holds, `todo`, `into` the command's position, `root` the config it read | `Read`, `Skip`, `OpenFile`, `Fill`, `Stop`; `Restore` and `ClockTicks` are external |
| `SelfUpdate` | `update.rs` | `data` what each inode holds, `exe` and `new` the two names, `fd`, `stage`, `release` of each run | `Begin`, `Fetch`, `OpenNew`, `WriteChunk`, `Rename`, `Abort` |
| `*_proofs` | the theorems of section 6, and the lemmas on sequences and sets that they need: `Commands_proofs` for `Setup`, `SelfUpdate` and `TerminalUi`, `Runtime_proofs` for `Runtime`, `SdkNames`, `SdkCalls` and `FieldCheck` with `KeySets`, the others for the module they are named after | | |
| `MC*` | the instances of section 3 | | |

How they compose. `AdminClients` extends `Gateway`: the gateways' steps are also
steps of the command's world, so that starts, failures and crashes interleave
with its scan. `ControlChannel` instantiates `RemoteCall`, and `AuthStore`
instantiates `TokenMap`, each with a refinement mapping, and so does `Worker` with
`RunPromise`, which says what `execute_python` promises. The other modules use
the first two promises in place of the detail. `Runtime` and `Worker` see one
request and one reply, or none, which is what `RemoteCall` allows; `OAuthFlow`
reads and changes tokens in one step, which is `TokenMap`. `OAuthFlow`
puts a connection into the map and takes it out in one step: `Upstreams` shows
that whatever connects overlap, what is not in the map is closed. `TerminalUi` has
each request to the gateway as one step, which is what a client on a socket sees
of `Runtime`; the gateway it talks to is the one that `AdminClients` selects.

History variables (`before`, `seen`, `failed`, `unsent`, `overlapped` and `reloaded` of `Worker`;
`wanted`, `lost`, `overlap`, `alone` and `settled` of `Runtime`; `asked`, `revoked`, `overlap` and
`faulty` of `OAuthFlow`; `seen` and `verdict` of `FieldCheck`; `refused` and `ended` of `Gateway`; `steady` of `AdminClients`;
`vouched` of `TerminalUi`; `ever`, `moving`, `again` and `collided` of `Setup`;
`shared` of `SelfUpdate`) are written and never read by a guard. They are what lets a property relate a
state to an earlier one.

In some modules a few operators that no action uses stand before the definitions
they resemble (`StopAtDead` before `Probe`, say). They are the mutated forms
that `PROJECT.json` lists: each is that definition as a plausible mistake would
have made it, and with it the property named beside it fails.

## 3. The runs

Each cfg states SPECIFICATION, constants and properties; `tlc -config X.cfg M`.

| Run | Module, cfg | What it shows |
|---|---|---|
| `control` | `MCControlChannel`, `MCControlChannel.cfg` | A run, two pushes and a tool call. `AnswersMatch`: an answer is returned to the caller of that request only, however late.  `CallsReturn`: every run returns, whatever the worker does; a push, which has no timeout, once the worker has sent its response, or when the connection is lost after it was registered and before the drain. `RpcSpec`: the refinement |
| `worker` | `MCWorker`, `MCWorker.cfg` | Two programs of one call each, a reload that drops the mutating function, a push of shapes; a request may never be sent, a reload may fail or find the old text. `ValuesAreOwn`: nobody reads another call's answer, although counter and futures are shared. `CallsStayServed`: a call is orphaned by nothing but the failure of its own sending. `RunsSeeEarlierPushes`: a run sent after a reload or `set_shapes` never uses older ones, unless that reload did not take effect |
| `worker_live` | `MCWorker`, `MCWorkerLive.cfg` | Two programs of one call each, one of them plain or dry, and a reload of the mounted file of Docker, on a pool of two threads, which the programs can fill. `PromiseKept`: every step of the worker is one of `RunPromise` or changes nothing there. A call is made or stubbed, answered at most once, settled at most once and recorded when it is settled, in whatever order answers, timeouts and reads come; a program that neither overlapped another nor saw a reload is stubbed by its own option and reports its own record, which is how far the promises of the documentation do hold. `RunsAreServed`: as long as a thread of the pool comes free from time to time, every run that is sent gets one although reloads hold up the read loop, and a program that waits for a call is given the answer that came |
| `worker_dry_run` | `MCWorker`, `MCWorkerDryRun.cfg` | Violated: a plain run that begins during a dry run makes the dry run write (section 7) |
| `runtime` | `MCRuntime`, `MCRuntime.cfg` | Any two of five operations, a client, the worker's death, a restart; a worker on the host or one that imports the mounted `sdk.py`. `DescribedIsLoaded`: the description never names a function the worker has not loaded, but for those of a push that met another in the mounted file, or that the worker said it had loaded when it had not. `NoChangeIsMissed`, `ClientsCatchUp`: listing and swap may race, but no client keeps an old list. `LoneOperationsSettle`: one operation alone repairs whatever overlapping or failed ones left. `SerialDefaultsAgree`: defaults made one at a time are kept across restarts |
| `upstreams` | `MCUpstreams`, `MCUpstreams.cfg` | A call, two connects, a disconnect, a listing and the shutdown of one server at once. `CallsKeepTheirService`, `ServicesAreOwned` (no connection leaked), `TasksEnd`: a request whose own upstream answers ends if no other keeps the lock for ever (lock and boot mutex are not taken in a circle), though connects and shutdowns hang |
| `auth_store` | `MCAuthStore`, `MCAuthStore.cfg` | Four operations of two gateways; writes fail, gateways die. `Atomic`: the refinement. `OperationsEnd`: even if a gateway dies with the lock |
| `oauth` | `MCOAuthFlow`, `MCOAuth.cfg` | A login, a logout and one more login, finish or enable of one server, of every nature, with a fixed callback port and without, with tokens stored before and without. `FlowsHaveOneOwner`: a callback server that listens is in the hands of someone who will stop it. `VerdictsFitServers`: the verdict on a server that answers fits it, whoever changes the token file meanwhile. `RevokedFlowsSaveNothing`: a flow that a logout found pending saves no tokens. `WaitsEnd`: `auth_finish` waits for the browser for a time only, and a flow that is over gives its callback port back |
| `sdk` | `MCSdk`, `MCSdk.cfg` | Three parts that share no state, so each initial state lets one of them move. *Names*: three of five tools in every order, three of which share a name. `RoutesMatchTheModule`: gateway and worker mean the same tool by a name. `DryRunErrsOnNamesOnly`: a dry run sends a writing call only if its tool has an unusual name or shares it, stubs a reading one only for a reason of that kind, and a plain run stubs nothing. *Calls*: every schema of three parameters and every call. `RejectedCallsRaise` and `VisibleFaultsAreRejected` compare the check with Python's binding in both directions. *Fields*: programs of one call and one use, or with a reassignment. `SeenAccessesAreAccepted`, `RejectionsAreEarned`: what is rejected fails on every result learned. `LearnedFromTheSet`: what is known of a tool depends on which results came, not on their order. `LearningIgnoresOrder`: the closed form of `KeySets` is what the recursions of `KeyTrees` compute, for every order of these results |
| `gateway` | `MCAdminClients`, `MCGateway.cfg` | Three starts of two pids (one with a container) and a command of any kind. `ContainerHasItsNeeds`: while its process lives, a container has its workdir to itself and its upstreams, by the order of the start's steps and of the shutdown's. `EndOfInputLeavesNothing`, also of what a crashed predecessor left. `SocketReachesOwner`, `NoneIsPassedOver`: whom a command finds, in either half |
| `tui` | `MCTerminalUi`, `MCTerminalUi.cfg` | Two servers, two tools, every key, a change by others, a request that fails. `CleanScreensAreTrue`: a screen without an error shows the gateway as it is, unless others changed it since the refresh began. `TogglesTurnOver`: on such a screen a toggle that succeeds turns over what it names. `ScreenCatchesUp`: unless a request hangs in a gateway that runs, the screen is afterwards true again and again, help or no help, or says that the gateway is gone |
| `install` | `MCInstall`, `MCInstall.cfg` | Setup and update, which share no state either. Setup three times within two seconds and more, from every pair of configs, stopped anywhere. `ServersAreKept`: no server is lost. `WiredHarnessHasServers`: a rewired harness finds its servers. Three updates in every overlap, stopped anywhere. `ExecutableIsWhole`: the binary is one release, unless two updates copied at once |

Each module has one type invariant, `TypeOK`. Where there is an inductive invariant, `IInv` (both
with a prefix where a module is extended beside another), it is one of its
conjuncts, and is proved with it. Add `INVARIANT TypeOK`, or `IInv`, to a cfg
to see that it holds in the run.
`CHECK_DEADLOCK FALSE` is in every cfg because each instance may rightly stop: its
operations are finitely many, a lost link or an ended gateway does not come back.

## 4. Bounds

| Bound | Value | Why it is enough |
|---|---|---|
| `Requests`, `ToolCalls` of `ControlChannel` | 1 run, 2 pushes, 1 tool call | a mix-up needs two requests of which one has timed out; the third meets the writer and reader on both sides of the loss. The safety part is proved for any number |
| `Runs`, `MaxCalls`, `Sdks` of `Worker` | 2 programs of 1 call; 1 reload | every conflict is between two users of one shared thing: two runs, or a run and a reload |
| `Mounted`, `DryRuns` of `Worker` | host and plain runs in `worker`; Docker and at most one dry run in `worker_live` | the file that is imported is the only difference between the backends; the flag that runs overwrite is told apart by one dry run beside a plain one. The proofs are for both backends and any dry runs |
| `Threads` | 2; 3 in `worker_dry_run`; 1 in the claim `NewRunsStart` | the real pool has `min(32, cpus + 4)`; what matters is whether the programs can fill it, and two programs fill two threads |
| `MaxShapes` | 1 in `worker` | a run on either side of a push |
| `MaxRequests` of `Runtime` | 2 of 5 operations, one of each kind | the races are of pairs; a third adds states but no new conflict on a field; the five kinds make ten pairs, in every overlap; two of the four that change something do so for good |
| `MaxRestarts` | 1 | defaults are read back once |
| `Tasks` of `Upstreams` | 6 | each kind of operation, and connect twice. Proved for any number |
| `Tasks`, `Procs` of `AuthStore` | 4 of 2 | two operations of one process and of two. Proved for any number |
| `Tasks` of `OAuthFlow` | a start, a finish, a logout, and one more start, finish or enable | a flow is replaced once and cancelled once, and two requests connect at once |
| `MaxEvents` of `FieldCheck` | 1 (2 in one claim) | results that wait for the learner at one time; how many are learned in the end, and in which order, is not bounded |
| `MaxTools` | 3 | two tools that share a name and a third called what one is renamed to |
| `Params`, `Timeout`, `Unknown` of `SdkCalls` | 3 parameters, 5 keywords | required and optional ones on both sides of a boundary; one argument too many |
| `Pids`, `MaxStarts`, `MaxAsks` | 2, 3, 1 | one pid is used twice, beside another gateway, during the two scans of one command |
| `Servers`, `Tools`, `MaxOthers`, `MaxFaults` of `TerminalUi` | 2, 2 of one server, 1, 1 | a selection that moves between a server with tools and one without; one change and one failure at every place; the user is not bounded |
| `MaxRuns`, `MaxClock` of `Setup` | 3, 2 | a stopped run, a second one over what it left, and one on a rewired harness; two runs within a second |
| `Updaters`, `Versions`, `Chunks` of `SelfUpdate` | 3, 5, 2 | a killed update, one after it, and one beside; versions that differ in a number, in length, in a part that is no number |

Symmetry is used in `worker` and `worker_dry_run`, over the two interchangeable
programs, with invariants only.

## 5. Fairness

Only weak fairness is used: a step that stays possible is taken in the end. It
is asked of what the code's own schedulers and timers run, never of the environment's
choices (but that a client which is notified lists again), and never of a wait that has no time limit in the code. Most waits have
none: the answer to a push (`control.rs:159`), a tool call (`upstream/mod.rs:197`), the
listing of an upstream's tools (`upstream/mod.rs:233`), the lock behind both, the discovery
of endpoints (`oauth_client.rs:62`), a request on the admin socket (`admin.rs:306`), a read
of a handle (`bootstrap.py:223`), a program. Where a property would need one of them to
end it has that as a premise, in its own words, which TLC evaluates with it.

| Module | Fair | Justified by | Not fair |
|---|---|---|---|
| `ControlChannel` | the steps of callers and of the reader; the run's timeout | tokio runs every ready task; `tokio::time::timeout` around a run | the write to the socket, all that the worker does (a reload that finds no thread of its pool free holds its read loop), the end of a program, the upstream, the loss of the link |
| `Worker` | the read loop, the reload once a thread is free, the stages of a run up to the program, the sending of a scheduled request, the read of a handle whose value is there | asyncio's loop; a pool that starts jobs in order | the end of a program (`README.md:910`), an answer from the gateway, the timeout of a handle (none by default), whatever a program does next. `RunsAreServed` has the premise that a thread comes free again and again: without it `NewRunsStart` is refuted (section 7) |
| `Runtime` | going through the peers once the description is swapped; a notified client lists and reads | the notification of a peer is queued, and clients honour it | whatever comes before the swap: connecting, the write of the file, the worker's answer |
| `Upstreams` | acquiring the lock at the head of the queue; the steps of a holder that wait for nobody | tokio's `RwLock` is first-in first-out | connecting and listing (the timeout of `client.rs:92` is on the handshake only), the answer of a call, the close of a connection. `TasksEnd` has as premises that the request's own such waits end and that no other keeps its guard for ever; `HealthyCallsReturn`, without the second, is refuted |
| `AuthStore` | steps of an operation past its start, taking a free file lock | the kernel frees a dead process's `flock`; finitely many operations, so nobody needs to be favoured | that an operation starts, that a process dies |
| `OAuthFlow` | the browser's answer being heard or the timeout, the close of a callback server | `finish_with_timeout`; the server's own task | the browser, discovery, the exchange, connecting, the lock of the connections, the next request |
| `TerminalUi` | the tick; a request fails once the gateway is gone | `tokio::select!` picks among ready branches at random, so a ticker that is due is not passed over for ever; the socket of a dead process is closed | a request to a gateway that runs, keys, other clients, the end of the gateway. `ScreenCatchesUp` has the premise that the loop is not kept by one request for ever |

`Gateway`, the SDK modules, `Setup` and `SelfUpdate` have safety properties only.
Every temporal counterexample of section 7 is one under these assumptions.

## 6. The proofs

`tlapm` checks every leaf; nothing is assumed but the named assumptions on the
constants, each of which TLC evaluates in the runs.

| Theorem | Says |
|---|---|
| `ControlChannel_proofs!TypeCorrect`, `Inductive` | `Spec => []TypeOK`, `Spec => []IInv`, for any sets of runs, pushes and tool calls |
| `ControlChannel_proofs!NoMixup` | `Spec => []AnswersMatch` |
| `ControlChannel_proofs!ImplementsRemoteCall` | `Spec => RpcSpec` |
| `Upstreams_proofs!Inductive`, `TypeCorrect` | `Spec => []IInv`, `[]TypeOK`, for any tasks, requests, servers |
| `Upstreams_proofs!CallsKeep` | `Spec => []CallsKeepTheirService` |
| `Upstreams_proofs!NothingLeaks` | `Spec => []ServicesAreOwned` |
| `AuthStore_proofs!Inductive`, `NeverTorn` | `Spec => []IInv`, `[]FileIsWhole`, for any gateways, tasks, servers, credentials |
| `AuthStore_proofs!ImplementsTokenMap` | `Spec => Atomic` |
| `OAuthFlow_proofs!Inductive` | `Spec => []IInv`, for any requests to any servers |
| `OAuthFlow_proofs!OwnerTheorem`, `VerdictTheorem` | `Spec => []FlowsHaveOneOwner`, `[]VerdictsFitServers` |
| `OAuthFlow_proofs!RevokedTheorem` | `Spec => RevokedFlowsSaveNothing` |
| `Gateway_proofs!Inductive` | `Spec => []IInv`, for any pids, executors, number of starts |
| `Gateway_proofs!NeedsTheorem`, `EndTheorem` | `Spec => []ContainerHasItsNeeds` (of containers whose process lives), `[]EndOfInputLeavesNothing` |
| `Gateway_proofs!OwnerTheorem` | `Spec => []SocketReachesOwner`, if `CODEMCP_ADMIN_SOCKET` is not set |
| `Gateway_proofs!SelectionTheorem` | `CSpec => []NoneIsPassedOver`, for any selectors and number of commands, with the same condition |
| `Commands_proofs!KeptTheorem`, `WiredTheorem` | `SetupSpec => []ServersAreKept`, `[]WiredHarnessHasServers`, for any servers, runs, time |
| `Commands_proofs!WholeTheorem` | `UpdateSpec => []ExecutableIsWhole`, for any updates, releases, chunks |
| `Commands_proofs!ScreenTheorem`, `ToggleTheorem` | `Spec => []CleanScreensAreTrue`, `TogglesTurnOver`, for any servers and tools, changes by others and failures |
| `Worker_proofs!Inductive`, `WorkerTyped` | `Spec => []IInv`, `[]TypeOK`, for any runs, SDKs, threads, calls of a program, pushes, on either backend, with sendings and reloads that fail |
| `Worker_proofs!OwnValues`, `ServedCalls`, `SingleRecords` | `Spec => []ValuesAreOwn`, `[]CallsStayServed`, `[]SettledCallsAreRecordedOnce` |
| `Worker_proofs!EarlierPushes` | `Spec => []RunsSeeEarlierPushes` |
| `Worker_proofs!ExactReports`, `LoneDryRuns` | `Spec => []LoneReportsAreExact`, `[]LoneDryRunsWriteNothing` |
| `Worker_proofs!KeepsPromise` | `Spec => PromiseKept`: the worker implements `RunPromise` |
| `Runtime_proofs!RuntimeInductive`, `RuntimeTyped` | `Spec => []IInv`, `[]TypeOK`, for any operations, servers, tools, keys, clients, restarts, on either backend |
| `Runtime_proofs!LoadedTheorem`, `NotifiedTheorem` | `Spec => []DescribedIsLoaded`, `[]NoChangeIsMissed` |
| `Runtime_proofs!SettledTheorem`, `DefaultsTheorem` | `Spec => []LoneOperationsSettle`, `[]SerialDefaultsAgree` |
| `Runtime_proofs!RoutesTheorem` | `NamesSpec => []RoutesMatchTheModule`, for any catalog, however its names collide |
| `Runtime_proofs!DryRunTheorem` | `NamesSpec => []DryRunErrsOnNamesOnly`, for any catalog |
| `Runtime_proofs!RejectionTheorem`, `AcceptanceTheorem` | `CallSpec => []RejectedCallsRaise`, `[]VisibleFaultsAreRejected`, for any parameters, schemas and calls |
| `Runtime_proofs!CheckInductive` | `CheckSpec => []CheckIInv`, for any tools, results, declared schemas and programs |
| `Runtime_proofs!SetTheorem` | `CheckSpec => []LearnedFromTheSet` |
| `Runtime_proofs!AcceptedTheorem`, `EarnedTheorem` | `CheckSpec => []SeenAccessesAreAccepted`, `[]RejectionsAreEarned` |

Assumptions: `KindsDisjoint` (a run is not a push), `Upstreams!ParametersTyped`,
`AuthEntries!RequestsTyped`, `AuthStore!FilesDiffer` (the three states of the
file that are not maps are no maps), `OAuthFlow!AskedTyped` (what a request may be),
`Gateway!GatewayAssumption` (nobody is no pid), `AdminClients!ClientAssumption` (a
selector matches pids, and a reason not to choose is none), `Setup!SetupParameters`
(codemcp is not a server of the harness under another name),
`SelfUpdate!UpdateParameters` (a release has a number, a binary at least one chunk),
`TerminalUi!ToolsHaveServers` (each tool is of one of the servers),
`Worker!ParametersTyped`, `Runtime!ParametersTyped` (which says, too, that the
`mcp.json` a gateway first finds parses), `SdkCalls!NamesAreNumbers` (a schema has
finitely many parameters), and `FieldCheck!ConstantsFit` (results are JSON values: whatever is
above a node is an object or an array; programs are sequences of statements). Declared
schemas may be anything.
`OwnerTheorem` and `SelectionTheorem` assume besides that the socket's path is not
pinned: if it is, a second gateway takes the first one's path away (section 7).
`SdkNames!UnderscoreIsPlain` says that the underscore is no digit and no keyword.

*The control channel.* `AnswersMatch` is not inductive: nothing in it says that
the frame being read belongs to the caller whose channel it resolves. `IInv`
follows the id around the circle. `IdsAreUnique`: no two requests have one id
and all are below the counter. `IdsAreOwned`: an entry of the map, and a frame
in any of the four places a frame can be, bears the id of the request it names.
`WrittenOnce`: a request is in one of queue, wire, hand and `taken`, once.
`RepliesAreEarned`: a reply names a request the worker has taken. `LossIsNoticed`:
a task that stopped did so because the link is down. Type correctness comes
first, then each conjunct on its own, using the ones before it. The refinement
maps a request to "open" from `Allocate` until it returns; `Take` is the
worker's read of the frame, every other internal step stutters. `WrittenOnce`
is what shows that a request is taken at most once.

*The upstream manager.* Both safety properties rest on the lock. `LockFollowsPc`
ties queue and holders to the tasks' positions; `WritersAreAlone` is the
read-write lock. `MapHoldsLiveServices` and `CallsUseTheMap` then give that a
call under a read guard uses a service of the map, which only a writer takes out.
`OpenersHaveTheirs` and `ClosingWerePlaced` are for `ServicesAreOwned`: a service
that is open is its opener's, the map's, or on its way to be cancelled, and never
on its way back.

*The worker.* What makes `ValuesAreOwn` true is the id again: `IdsAreOwned` says that
two calls never share one although two threads take it from one counter, and that a
request upstream and an answer in the inbox bear the id of the call they name.
`CallsStayServed` needs `SendsComeFirst` beside it: a request that is scheduled has
neither been sent nor answered, and only of calls that were fired is the sending lost, so
that each request is in one place at a time. `CallsFollowPhase` tells from how far a run is
what its handles are (the last may be half made), which the rest needs at every step of
a call. For the records, `RecordsFollowCalls` says, over all
traces, that each settled call has a record and no two records are of one call: sinks are
mixed up when runs overlap, so a record may be in another run's trace, and
`SinksAreShared` says between whom. A run that overlapped nobody shares with
nobody; that is `LoneReportsAreExact`. For pushes, `PushesAreInOrder` says that those of
one type between what is handled and what was sent are in the inbox, once each and
ascending, and `RunsAreBehind` that a run stands behind all that were sent before it;
`JobsAreSingle` keeps a job from being run twice by the pool. `VersionsAscend` says what became
of each push that was taken: the module has its version or a later one, or its reload failed, or
it is the one being loaded; and that the texts which are loaded ascend, as the mounted
file and the frames do. What `RunsSeeEarlierPushes` then allows a run to miss is exactly
what failed before it was sent. `LoneContexts` is the
context of a run that is alone: nobody has overwritten its `dry_run`, and what it has
sent is in the SDK it was given and no mutation there. A reload runs in the middle of
the program: the invariant speaks of the set of mutations from the header of the new
`sdk.py` on and of its functions only once they are defined, the order in which the
file executes.

*What a program is promised.* `KeepsPromise` maps the worker's state to that of `RunPromise`: a
program's stage is its phase, a call's answer is what its future holds or what the program
has of it, and a program is mixed up when it overlapped another or the SDK was reloaded under
it. `Inject` is `Start`, `Reject` is `Refuse`, `CallRegisters` is `Call`, `CallStubbed` is `Stub`, an
answer that `ReadResult` finds a waiting future for is `Answer`, `Resume` and `CallTimesOut` are
`Settle`, `Finish` and `CallPlaceholder` are `End`, `FinishUnsent` is `Vanish`, and what overlaps
or reloads (`Begin`, `LoadHeader`, `LoadFunctions`) is `Mix`; every other step stutters, an answer
that comes after the timeout among them. That an answer comes once needs what no other
property did: `FuturesAreOpen` says that a future in the dispatcher's map is that of a call
without an answer, and that a stubbed call has none. `LoneContexts` is why a program that is
not mixed up is stubbed exactly if it should be, `SinksAreShared` why its records are in its own
trace. What `SettledCallsAreRecordedOnce`, `LoneReportsAreExact` and `LoneDryRunsWriteNothing` say is
in the promise, but for reports of programs that saw a reload, which the second is exact about
too; they are theorems of their own (add them as `INVARIANT` to a cfg to see them hold), and
each of a trace sink that is kept, a dry option that is not reset, an outcome that is not
cached and an error taken for a value breaks `PromiseKept`.

*The runtime.* `DescribedIsLoaded` needs that a plan whose reload succeeded stays
loaded until it is described, or is among what was lost (`PlansAreLoaded`), as the module
keeps the names it had. That is true on Docker by `FileIsWritten`: of two operations
between the truncation of the mounted file and its import both plans are lost, and an
operation whose plan is not lost finds there what it wrote. `NoChangeIsMissed` needs that a client is a peer from before it reads
(`ListersArePeers`), and then holds over any order of the listing and the swap.
`LoneCopiesAreTrue` follows one operation through `regenerate_and_reload`: while nobody
overlaps it, what it copied at each of its seven steps is the state itself, whatever
the others left before; afterwards nothing active can change that but the writing of
`mcp.json`. `SerialFilesAreKnown` is the same for the file: the content is in the file, or
truncated and in the hands of the one operation that writes it; and memory lags behind
by what that operation has yet to remember. `StagesFit` is what both rest on: who is
alone is the only one active.

*The SDK's functions.* `RoutesMatchTheModule` compares a map filled step by step with what
a module is once all its statements have run. `BoundInOrder` says that after each
binding the one is already the other (`Defined`, where the last definition of a name
counts), and that each name has a last one. For dry runs, `LoneNamesAreKept` says that
a tool which shares its name with no other is never numbered, because the only tool that
has used its name is itself. The worker looks a call up by the name it rebuilds, which
is the generator's for an ordinary word (`WorkerFnName` keeps letters with accents, and
does not mend a leading digit or a keyword); so a writer of an ordinary and lone name is
found in the set of mutations, and whatever else is found there bears a writer's name.

*The check of a call.* `CallIInv` keeps what `_validate_call` found. `FaultsRaise` is the
lemma behind both directions: what the check calls too many or missing makes Python
raise, also when there are both; and of Python's three reasons only the third, a
parameter given twice, is not seen by the check.

*The check of fields.* The source computes key structures by recursion, of which nothing
could be proved here. `KeySets` says what the recursion computes: a tree is a function on paths, a place
is kept if all above it are of the kind it needs, and its kind is the strongest that was
observed there. `JoinedAgain` is the lemma that matters most: to join what has been joined
before loses nothing, so the pairwise merges of the learner give the join of all results, in
any order (`LearnedFromTheSet`). `Covers` is what a structure keeps of one result: each node's place
is there with its kind or a stronger one, unless an object further up has won over the
array it was in; `CoveredIsAccepted` then follows a chain of accesses from the first step on which
the check and the result part. `LeastNumber` stands for the induction on the length of a
chain. `ShippedIsCovered` takes this to the worker's map, which lags behind and has schemas
merged into it, and `RejectionsAreEarned` is inductive beside it because `verdict` keeps what was
known when the program came.

*The terminal UI.* `RefreshIsTrue` says that between the two requests of a refresh the rows
of servers are true, and `AsksTurnOver` that a toggle under way asks for the opposite of
what its item is; with `CleanScreensAreTrue` they are inductive. What a screen shows in
which order is behind `InOrder` and `Nth`, of which only the members matter.

*The token file.* `IInv` is `TypeOK`, `FileIsWhole`, `LockIsHeld` (past `Lock`,
and until its `Unlock`, an operation holds the lock), and `NothingStale` (what it
read is still what the file holds). The refinement takes effect at `Read` for an
operation that writes nothing, and at `Rename` for one that does; a writer that
fails or dies before has no effect, and one that dies after `Rename` has all of
it.

*OAuth logins.* A flow's handle moves from `auth_start` to the pending handles to
one `auth_finish`. `HandlesAreSingle` says it is in one of these places,
`StagesFitKinds` that a request holds one exactly while it waits or exchanges, and
`ListenersAreHeld` that an open callback server has its handle in one of them; that
is `FlowsHaveOneOwner`, which alone is not inductive, as it does not say where a
handle may go next. `RevokedAreGone` keeps a flow that a removal found pending out
of all of them. For the verdicts, `AttemptsFitServers` says what is known of the
server on the way: tokens are tried only with one that offers OAuth, and it is
asked about OAuth only after it let nobody in, or failed.

*Gateway processes.* `ContainersByStage` and `ProcessesByStage` say, for each step of
`run_gateway` and of the shutdown, what the process has: its directory from
`WriteWorkdir` to `RemoveWorkdir`, its upstreams from `Connect` to
`DisconnectUpstreams`, no container after `RemoveContainer`, no orphan of its name
once its own container is there. Each way to end a process leaves from one of these
steps, which is what the properties compare. `BoundIsThere` is the part that needs a
path for each process. For the commands beside them, `ScanIsComplete` says of every
gateway reachable since the scan began that its file is still to be probed or that it
has been found; when nothing is left to probe, the selection has seen them all.

*Setup.* `ServersAreKept` is not inductive either: a truncated file has lost what it
named. `NothingIsOnlyHere` says that whatever is truncated next is also elsewhere,
by the order of `Writes`: the harness's config still is what was read, `mcp.json`
has been backed up before it is opened, and has the harness's servers before that
is. `OpenFileFits` ties the open file to the write under way, `WiredOnce` keeps
codemcp out of the backups that a user may put back.

*Update.* `CopyIsMine` says that as long as nobody shared it, `codemcp.new` is its
writer's and has what that wrote so far; `InodesAreFresh` that it is never the inode
of the binary. So a rename puts a whole release in place, and a copy never touches
the binary.

What is only model-checked: all liveness (`CallsReturn`, `RunsAreServed`,
`ClientsCatchUp`, `TasksEnd`, `OperationsEnd`, `WaitsEnd`, `ScreenCatchesUp`: `tlapm` does not do
fairness or ENABLED), and `LearningIgnoresOrder`, which compares `KeySets` with the RECURSIVE
operators of `KeyTrees`: the prover knows neither these nor induction over trees. Every
other property of a passing run is a theorem.

## 7. Where code and documents differ

While the code was translated, these statements of the documents and comments
turned out not to be what it does. One is a run of its own (`worker_dry_run`).
The others are definitions at the end of their modules. To see a counterexample, put the definition into the cfg named here, in
place of the properties that are there, and make the change in the third column.

| Definition | cfg | Change | The code | What is said |
|---|---|---|---|---|
| `ConnectionGoneFailsAll` | `MCControlChannel.cfg` | – | `control.rs:334` drains the map once; a push registered after that waits for ever | `control.rs:333` "Connection gone: fail all pending run requests." |
| `DryRunsWriteNothing` (`Worker`) | `MCWorkerDryRun.cfg` | – | `bootstrap.py:356` every run overwrites the one dry-run context | `README.md:830` "Under `dry_run`, mutating calls are **not** sent upstream" |
| `StdoutIsIsolated` | `MCWorker.cfg` | – | `bootstrap.py:1085` `redirect_stdout` is process-wide | `README.md:547` "no crosstalk, isolated stdout/result" |
| `ReloadKeepsRunsWorking` | `MCWorker.cfg` | – | `bootstrap.py:1222` a reload puts the placeholder dispatch back under running programs, until the next run wires it | `README.md:306` "no worker restart, no lost state" |
| `RemovedFunctionsAreGone` | `MCWorker.cfg` | – | `bootstrap.py:1222`, `1066` a reload keeps old names, and every name is injected | `README.md:318` "the LLM can no longer call it" |
| `EveryCallIsRecorded` | `MCWorker.cfg` | – | `bootstrap.py:227` a call is recorded when its handle is read | `bootstrap.py:384` "records every call into the run's trace sink" |
| `UncaughtErrorsAreReturned` | `MCWorker.cfg` | – | `bootstrap.py:1329` converting an unresolved result raises again on the event loop; no response is sent | `README.md:759` "returned as a structured JSON `error` field" |
| `FiredIsOnTheWire` | `MCWorker.cfg` | – | `bootstrap.py:419` the request is sent later, by a coroutine whose error nobody sees: arguments that are no JSON leave a future that is registered for ever | `bootstrap.py:422` "Fire now: the request is on the wire before we return." |
| `NewRunsStart` | `MCWorkerLive.cfg` | `Threads = 1` | `bootstrap.py:1254` the read loop awaits a reload that needs a thread; the threads wait for answers the loop would read | `README.md:910` "the worker itself stays responsive to new runs" |
| `OnIsWhatTheModelSees` | `MCRuntime.cfg` | – | `runtime.rs:442` no lock from snapshot to swap: the older snapshot may be installed last | `README.md:336` "what the model currently sees" |
| `MountedPlansAreLoaded` | `MCRuntime.cfg` | – | `docker.rs:405` the write of the mounted file and the reload are two steps: of two operations that cross, one describes functions of which only the other's text was imported | `bootstrap.py:1206` "the gateway has already updated the mounted file, so we skip the write and just re-import it" |
| `SentPlansAreLoaded` | `MCRuntime.cfg` | – | `bootstrap.py:1216` any error of the write is taken for a read-only mount, and bytecode of a text with the same second and size is still used: the reload succeeds with the old text | `bootstrap.py:1220` "Drop any cached bytecode so the new source is used." |
| `BootHidesDisabledTools` | `MCRuntime.cfg` | `InitialFile <- OneHidden` | `main.rs:170` the first SDK is built without the tool defaults | `README.md:242` "hides individual tools by default" |
| `OverridesAreKept` | `MCRuntime.cfg` | – | `config.rs:282` replaces the tool's entry and its `mutation` with it | `config.rs:258` "preserving all other content verbatim" |
| `OverlappingDefaultsAreKept` | `MCRuntime.cfg` | – | `config.rs:237` read, change and write without a lock | `README.md:312` "preserving all values" |
| `ConfigSurvivesAStop` | `MCRuntime.cfg` | – | `config.rs:253` `fs::write` truncates before it writes | `config.rs:234` "preserving all other content verbatim" |
| `PeersAreASet` | `MCRuntime.cfg` | – | `runtime.rs:329` every listing captures the peer again | `PLAN.md:404` "the set of captured server `Peer`s" |
| `HealthyCallsReturn` | `MCUpstreams.cfg` | `Tasks = {c1, c2, a1}`, `Request <- OneDisconnect`, `Booted = {s1, s2}` | `upstream/mod.rs:192` behind one slow call, a writer that waits stops the calls of every server | `control.rs:428` "Runs on its own task so concurrent calls overlap." |
| `CancelledFlowsSaveNothing` | `MCOAuth.cfg` | – | `runtime.rs:774` a flow that `auth_finish` has taken out is not found, and completes after the logout | `runtime.rs:774` "Cancel any pending flow." |
| `LogoutRemovesCredentials` | `MCOAuth.cfg` | – | `runtime.rs:780` the connection may renew and save tokens between removal and disconnect | `README.md:377` "remove stored credentials and disconnect" |
| `CallbackServersStop` | `MCOAuth.cfg` | – | `login.rs:115` only `auth_finish` has a timeout | `callback.rs:8` "timeout, and clean shutdown when idle" |
| `KeysAreNeverDropped` | `MCSdk.cfg` | – | `keyset.rs:139` an array merged with an object is forgotten (no program is rejected for it) | `keyset.rs:115` "previously-learned keys are never dropped" |
| `RejectedProgramsFail` | `MCSdk.cfg` | – | `bootstrap.py:1016` a key of a variant not seen yet is rejected before it can be seen | `keyset.rs:14` "A real key is never missing" |
| `ReassignedIsLeftAlone` | `MCSdk.cfg` | `Programs <- SimpleOrRebound`, `MaxEvents = 2` | `bootstrap.py:970` only an assignment of something else makes the check give a name up | `README.md:651` "reassigned, or not-yet-learned is left alone" |
| `FunctionsAreDistinct` | `MCSdk.cfg` | `Catalog <- Suffixed` | `sdk/mod.rs:73` a made name may be another tool's own | `sdk/mod.rs:71` "Disambiguate any accidental fn-name collisions" |
| `DryRunWritesNothing` (`SdkNames`) | `MCSdk.cfg` | `Catalog <- Renamed` | `bootstrap.py:373` the worker rebuilds the name otherwise than the gateway made it | `bootstrap.py:374` "Mirror the Rust codegen fn name" |
| `DescribedIsCallable` | `MCSdk.cfg` | `Catalog <- Digit` | `bootstrap.py:1067` names that begin with `_` are not injected | `prompt.rs:36` "ALREADY IMPORTED into your execution namespace" |
| `AnnotationsComeFirst` | `MCSdk.cfg` | `Catalog <- Overridden` | `codegen.rs:245` the override comes first | `README.md:802` "in priority order: the MCP … annotation, then an operator override" |
| `UnknownKeywordsAreReported` | `MCSdk.cfg` | – | `bootstrap.py:619` every function takes `**_extra`, so no keyword is unknown | `README.md:590` "**Unknown keyword arguments**" |
| `DeclaredOrderIsKept` | `MCSdk.cfg` | – | `codegen.rs:359` the map of properties is sorted | `codegen.rs:353` "Preserve declared property order" |
| `ArgumentsArrive` | `MCSdk.cfg` | `Timeout = 2` | `bootstrap.py:403` `timeout_ms` is taken out even if the tool declares it | `sdk/mod.rs:164` "keep the tool's own schema authoritative" |
| `SignalShutsDown` | `MCGateway.cfg` | – | `main.rs:337` no signal handler | `PLAN.md:208` "Graceful `shutdown()` on signal." |
| `FailedStartCleansUp` | `MCGateway.cfg` | – | `docker.rs:98` only one of the ways a start fails removes the workdir | `docker.rs:111` "Best-effort cleanup of the workdir on a failed start." |
| `FailedStartFreesName` | `MCGateway.cfg` | – | `docker.rs:376` a container that was created and would not start stays, and so does one whose gateway fails later: it has the name of the next start with that pid | `docker.rs:111` "Best-effort cleanup of the workdir on a failed start." |
| `OrphansKeepTheirWorkdir` | `MCGateway.cfg` | – | `docker.rs:112` a start that fails because the name is taken removes the workdir, which the container of that name mounts | `docker.rs:309` "Read-only bind-mount of the workdir." |
| `SocketReachesOwner` | `MCGateway.cfg` | `Pinned = TRUE` | `admin.rs:119` with a fixed path the file may be a live gateway's | `admin.rs:117` "any file here is a stale leftover" |
| `CodemcpIsNoUpstream` | `MCInstall.cfg` | – | `setup.rs:54` a second run takes the entry `codemcp` for a server of the harness and moves it into `mcp.json` in place of the servers moved before | `setup.rs:3` "moves its MCP servers verbatim into codemcp's own mcp.json" |
| `ReplaceIsAtomic` | `MCInstall.cfg` | – | `update.rs:204` two updates copy to one `codemcp.new`; one renames what the other is still writing | `update.rs:200` "Atomic replace: copy to a temp file in the same directory, then rename." |

(Paths are under `src/src/`, `bootstrap.py` under `src/pyworker/`, `README.md`
and `PLAN.md` under `src/`.) Also met, and not stated as formulas:

- Command line: `codemcp list` and `codemcp auth` select a gateway twice
  (`cli.rs:236`), so that the heading may name another gateway than the one listed
  if that one ends in between.
- Worker: a local `def` that shadows an SDK function is still checked as that
  function; a declared `outputSchema` that leaves fields out makes correct reads
  rejected; the envelope that replaces an oversized result may exceed the cap,
  since its preview is escaped again and its hint has a length of its own
  (`bootstrap.py:1174` "well under the cap so the envelope itself is never
  oversized").
- SDK generation: two parameters of one tool that are sanitized to one Python name give a
  function with a duplicate argument, and the whole of `sdk.py` fails to import
  (`codegen.rs:359`).
- Logins: one whose connect fails leaves the old connection open; on a fixed port a
  second `auth_start` fails while an abandoned flow listens; after `auth_remove`
  the list still shows the old `auth_status`; of the statuses `Expired`,
  `NeedsClientRegistration` and `Disabled` none is ever set by connecting; an open
  server that offers OAuth is reported as in need of a login if its tokens vanish
  between the two reads of the file.
- Terminal UI: Space on an empty pane wipes an error off that is still true; an
  error is never cleared by a refresh that succeeds.
- Setup: a config whose root is no object is found out after `mcp.json` has been
  overwritten. Update: "checksum ok" is printed also when there was no checksum.

## 8. What is not modelled

- *Values and text*: results, the cap on output, the conversion to JSON, the
  wording of the description, of shapes and of errors, docstrings and escapes. A
  handle nested in a value the worker cannot rebuild is therefore not followed.
- *Checks that are loops over names*: syntax, unknown functions, the refusal of
  mutations.
- *Environment*: a machine that loses power (processes do die), the Windows branch
  of the token file, wrap of the 64-bit id, the network topology of the container,
  host workdirs in the temporary directory, and a worker that sends methods it
  does not have.
- *Terminal UI, setup, update*: drawing, the choice of a gateway at the start of the
  UI (that of `AdminClients`), what a release archive holds, `check-update`, which
  changes nothing.
- *Simplifications, each with its reason*: `begin_run`'s assignments are one step
  (nothing yields between them); a program's effects are its calls, reads, catches
  and end; `auth_status` is a map beside the one of the connections, in `OAuthFlow` the
  status of an outcome; unknown names
  in admin requests change nothing; the notifications of one regeneration are one
  step; `OAuthFlow` ends where a regeneration, which is `Runtime`'s, begins;
  a parameter's sanitized names are distinct; an index into an array is any of its
  elements; several orphans of one pid are one; a workdir that the shutdown cannot remove
  (`docker.rs:424`, ignored there) is taken as removed; the mounted `sdk.py` is a text in
  `Runtime`, where it may be half written or a mixture of two, and in `Worker` a version;
  a reload fails as a whole, before any statement of the text has run, as one that does
  not compile does.
- *Components*: settings, launcher and errors are read once and have no state that
  changes; the install script is a download; benchmarks are not part of the
  program. The stdio branch of an upstream connection is its outcome in
  `Upstreams`. `PROJECT.json` has each with its reason.

## 9. The plan

Done, in this order: control channel and its promise; worker; runtime and
`mcp.json`; upstream manager; token file; OAuth logins; key sets and the two
checks; SDK names and calls; processes and the command line; proofs of the
channel, the manager and the token file; opening a connection, inside the logins;
the terminal UI; setup and update; commands that select twice; proofs of the logins,
the gateway processes, the commands beside them, setup and update; proofs of the
worker, the runtime, the SDK's names and calls, and the terminal UI; key structures without recursion, and the
proofs of the check of fields; the promise to a program, and the proof that the worker
keeps it; requests that are never sent, reloads that fail or load another text, the mounted
`sdk.py` as a file of its own, containers that a failed start leaves, and no fairness
for waits without a time limit.

Next, in order of what matters most:

1. Proofs: that a signature lists each parameter of the schema once, and what a
   binding of arguments sends (`SdkCalls`); action properties of `Runtime`, such as that
   only an operation of its own kind changes a server's or a tool's entry.
2. `Worker`: values of results (nested handles, conversion on the event loop, the
   output cap), over the same runs.
3. `Runtime` over `ControlChannel`, with the request and the answer of a reload as two
   steps, for the case that the link is lost inside a regeneration.
4. The refusal of mutations and the check of unknown functions.
