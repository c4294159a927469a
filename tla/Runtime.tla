-------------------------------- MODULE Runtime --------------------------------
(***************************************************************************)
(* The gateway's shared runtime (src/src/runtime.rs), its config file      *)
(* (src/src/config.rs) and the clients it notifies (src/src/server.rs).    *)
(*                                                                         *)
(* Each admin request is served by a task of its own; the shape learner is *)
(* one more task.  Every piece of state has its own mutex and nothing      *)
(* serialises the operations, so two of them interleave at every await:    *)
(* each collects the tools, reloads the worker, swaps the description and  *)
(* notifies the clients on its own.  On the Docker backend they also share *)
(* one file: the sdk.py mounted into the container (src/src/exec/docker.rs,*)
(* src/pyworker/bootstrap.py).                                             *)
(***************************************************************************)
EXTENDS Naturals, FiniteSets

CONSTANTS Ops,          \* operations that will be requested
          Request,      \* Ops -> [kind, server, tool, persist, keys]
          Servers, Tools,
          ServerOf,     \* Tools -> Servers
          Keys,         \* keys of tool results
          Clients,      \* MCP clients
          InitialFile,  \* mcp.json when the gateway first starts
          MaxRequests,  \* bound: operations requested
          MaxRestarts   \* bound: restarts of the process

Kinds == {"enable", "disable", "enable_tool", "disable_tool", "learn"}

Files == [servers : [Servers -> BOOLEAN], tools : [Tools -> {"unset", "on", "off"}],
          overrides : SUBSET Tools, intact : BOOLEAN]

ASSUME ParametersTyped ==
  /\ Request \in [Ops -> [kind : Kinds, server : Servers, tool : Tools,
                          persist : BOOLEAN, keys : SUBSET Keys]]
  /\ \A o \in Ops : ServerOf[Request[o].tool] = Request[o].server
  /\ ServerOf \in [Tools -> Servers]
  /\ InitialFile \in Files /\ InitialFile.intact
  /\ MaxRestarts \in Nat

VARIABLES
  up,        \* the gateway process
  restarts,
  pc,        \* the step each operation is at
  connected, \* UpstreamManager: names with a live connection
  boot,      \* enabled flags of the boot config in memory
  session,   \* tool_session
  defaults,  \* tool_defaults
  keysets,   \* learned keys of each tool observed
  snap,      \* what each regeneration has copied: [session, defaults, plan, keys]
  sdk,       \* SdkState: the tools in the description clients read
  worker,    \* [up, tools, loaded, keys]: last SDK, every SDK since start, keysets
  mounted,   \* the Docker backend: the worker imports a file it cannot write
  source,    \* that sdk.py: [tools, whole]
  lost,      \* history: tools of pushes that crossed another one in that file, or
             \*   that the worker answered without having loaded them
  file,      \* mcp.json
  staged,    \* the content each set_enabled / set_tool_enabled has read
  wanted,    \* history: the file if writes were applied one at a time
  peers,     \* Runtime.peers: how often it has each client
  client,    \* "none", "reading" (registered), "listed" or "gone"
  shown,     \* the tools each client read last
  notified,  \* clients with a tools/list_changed they have not acted on
  overlap,   \* history: two operations were active at once
  alone,     \* history: the active operation that no other has overlapped yet, unless
             \*   the worker has lost what it pushed
  settled    \* history: the last regeneration that ended had run alone

state   == <<connected, boot, session, defaults, keysets>>
mount   == <<mounted, source, lost>>
config  == <<file, staged, wanted>>
clients == <<peers, client, shown, notified>>
history == <<overlap, alone, settled>>
process == <<up, restarts>>
vars == <<process, pc, state, snap, sdk, worker, mount, config, clients, history>>

Stages == {"idle", "connect", "turn", "read", "truncate", "write", "remember", "snapshot",
           "collect", "render", "open", "fill", "reload", "ship", "swap", "notify", "done",
           "failed"}

Settings  == [Tools -> {"unset", "on", "off"}]
Snapshots == [session : Settings, defaults : Settings, plan : SUBSET Tools,
              keys : SUBSET (Tools \X Keys)]

Sources == [tools : SUBSET Tools, whole : BOOLEAN]

Active(o) == pc[o] \notin {"idle", "done", "failed"}
Quiet     == \A o \in Ops : ~ Active(o)

TypeOK ==
  /\ up \in BOOLEAN
  /\ restarts \in 0 .. MaxRestarts
  /\ pc \in [Ops -> Stages]
  /\ connected \in SUBSET Servers
  /\ boot \in [Servers -> BOOLEAN]
  /\ session \in Settings
  /\ defaults \in Settings
  /\ DOMAIN keysets \in SUBSET Tools
  /\ keysets \in [DOMAIN keysets -> SUBSET Keys]
  /\ snap \in [Ops -> Snapshots]
  /\ sdk \in SUBSET Tools
  /\ worker \in [up : BOOLEAN, tools : SUBSET Tools, loaded : SUBSET Tools,
                 keys : SUBSET (Tools \X Keys)]
  /\ mounted \in BOOLEAN
  /\ source \in Sources
  /\ lost \in SUBSET Tools
  /\ file \in Files
  /\ staged \in [Ops -> Files]
  /\ wanted \in Files
  /\ peers \in [Clients -> Nat]
  /\ client \in [Clients -> {"none", "reading", "listed", "gone"}]
  /\ shown \in [Clients -> SUBSET Tools]
  /\ notified \in SUBSET Clients
  /\ overlap \in BOOLEAN
  /\ alone \in SUBSET Ops
  /\ settled \in BOOLEAN

Unset == [t \in Tools |-> "unset"]
Nothing == [session |-> Unset, defaults |-> Unset, plan |-> {}, keys |-> {}]

\* session override, else configured default, else on
Effective(s, d, t) == IF s[t] # "unset" THEN s[t] = "on" ELSE d[t] # "off"

ToolsOf(servers) == {t \in Tools : ServerOf[t] \in servers}

Advertised == ToolsOf(connected)

Visible == {t \in Advertised : Effective(session, defaults, t)}

\* The keyset map for a set of tools: empty keysets are left out.
KeysFor(tools) == {p \in tools \X Keys : p[1] \in DOMAIN keysets /\ p[2] \in keysets[p[1]]}

Bootable(f) == SUBSET {s \in Servers : f.servers[s]}

TextOf(tools) == [tools |-> tools, whole |-> TRUE]

FreshWorker(tools) == [up |-> TRUE, tools |-> tools, loaded |-> tools, keys |-> {}]

\* run_gateway up to the first request: connect the enabled servers, of which
\* some may fail, start the worker with the SDK of every tool they list, and
\* only then read the tool defaults.
Init ==
  /\ up = TRUE
  /\ restarts = 0
  /\ pc = [o \in Ops |-> "idle"]
  /\ snap = [o \in Ops |-> Nothing]
  /\ file = InitialFile
  /\ staged = [o \in Ops |-> InitialFile]
  /\ wanted = InitialFile
  /\ connected \in Bootable(InitialFile)
  /\ boot = InitialFile.servers
  /\ session = Unset
  /\ defaults = InitialFile.tools
  /\ keysets = [t \in {} |-> {}]
  /\ sdk = ToolsOf(connected)
  /\ worker = FreshWorker(ToolsOf(connected))
  /\ mounted \in BOOLEAN
  /\ source = TextOf(ToolsOf(connected))
  /\ lost = {}
  /\ peers = [c \in Clients |-> 0]
  /\ client = [c \in Clients |-> "none"]
  /\ shown = [c \in Clients |-> {}]
  /\ notified = {}
  /\ overlap = FALSE
  /\ alone = {}
  /\ settled = FALSE

\* An operation begins, alone or not.
Begins(o) ==
  /\ overlap' = (overlap \/ ~ Quiet)
  /\ alone' = IF Quiet THEN {o} ELSE {}
  /\ settled' = FALSE

Goto(o, stage) == pc' = [pc EXCEPT ![o] = stage]

-----------------------------------------------------------------------------
(* The first part of each operation.                                       *)

Kind(o)   == Request[o].kind
Server(o) == Request[o].server
Tool(o)   == Request[o].tool

ToolOp(o) == Kind(o) \in {"enable_tool", "disable_tool"}

\* A request arrives.
Arrives(o) ==
  /\ up
  /\ pc[o] = "idle"
  /\ Cardinality({q \in Ops : pc[q] # "idle"}) < MaxRequests

Starts(o, kinds) ==
  /\ Arrives(o)
  /\ Kind(o) \in kinds
  /\ Begins(o)

\* enable connects first, enable_tool unless the server is connected; disable
\* disconnects; disable_tool goes straight to the session map.
StartAdmin(o) ==
  /\ Starts(o, Kinds \ {"learn"})
  /\ \/ /\ Kind(o) = "enable" \/ (Kind(o) = "enable_tool" /\ Server(o) \notin connected)
        /\ Goto(o, "connect")
        /\ UNCHANGED connected
     \/ /\ Kind(o) = "disable_tool" \/ (Kind(o) = "enable_tool" /\ Server(o) \in connected)
        /\ Goto(o, "turn")
        /\ UNCHANGED connected
     \/ /\ Kind(o) = "disable"
        /\ connected' = connected \ {Server(o)}
        /\ Goto(o, "snapshot")
  /\ UNCHANGED <<process, boot, session, defaults, keysets, snap, sdk, worker, mount, config, clients>>

\* connect_one: a failure ends the operation, and leaves an old connection.
Connect(o) ==
  /\ up
  /\ pc[o] = "connect"
  /\ \/ /\ connected' = connected \cup {Server(o)}
        /\ Goto(o, IF ToolOp(o) THEN "turn" ELSE "snapshot")
     \/ /\ Goto(o, "failed")
        /\ UNCHANGED connected
  /\ UNCHANGED <<process, boot, session, defaults, keysets, snap, sdk, worker, mount, config, clients,
                 history>>

\* tool_session.insert(..)
Turn(o) ==
  /\ up
  /\ pc[o] = "turn"
  /\ session' = [session EXCEPT ![Tool(o)] = IF Kind(o) = "enable_tool" THEN "on" ELSE "off"]
  /\ Goto(o, IF Request[o].persist THEN "read" ELSE "snapshot")
  /\ UNCHANGED <<process, connected, boot, defaults, keysets, snap, sdk, worker, mount, config, clients,
                 history>>

Merged(old, new) == old \cup new

\* One observation of the shape learner, which handles one at a time: the keys
\* are merged, and only a change is worth a regeneration.
Learn(o) ==
  /\ \A q \in Ops : Kind(q) = "learn" => ~ Active(q)
  /\ Arrives(o)
  /\ Kind(o) = "learn"
  /\ LET old == IF Tool(o) \in DOMAIN keysets THEN keysets[Tool(o)] ELSE {} IN
       \/ /\ Tool(o) \notin DOMAIN keysets \/ ~ (Request[o].keys \subseteq old)
          /\ keysets' = [t \in DOMAIN keysets \cup {Tool(o)} |->
                           IF t = Tool(o) THEN Merged(old, Request[o].keys) ELSE keysets[t]]
          /\ Goto(o, "snapshot")
          /\ Begins(o)
       \/ /\ Tool(o) \in DOMAIN keysets /\ Request[o].keys \subseteq old
          /\ Goto(o, "done")
          /\ UNCHANGED <<keysets, history>>
  /\ UNCHANGED <<process, connected, boot, session, defaults, snap, sdk, worker, mount, config, clients>>

-----------------------------------------------------------------------------
(* regenerate_and_reload.                                                  *)

\* The two tool-state maps are copied under both locks...
Snapshot(o) ==
  /\ up
  /\ pc[o] = "snapshot"
  /\ snap' = [snap EXCEPT ![o] = [Nothing EXCEPT !.session = session, !.defaults = defaults]]
  /\ Goto(o, "collect")
  /\ UNCHANGED <<process, state, sdk, worker, mount, config, clients, history>>

\* ... then the connected servers' tools are read and filtered...
Collect(o) ==
  /\ up
  /\ pc[o] = "collect"
  /\ snap' = [snap EXCEPT ![o].plan =
                {t \in Advertised : Effective(snap[o].session, snap[o].defaults, t)}]
  /\ Goto(o, "render")
  /\ UNCHANGED <<process, state, sdk, worker, mount, config, clients, history>>

\* ... and the learned keysets of the tools that remain.
Render(o) ==
  /\ up
  /\ pc[o] = "render"
  /\ snap' = [snap EXCEPT ![o].keys = KeysFor(snap[o].plan)]
  /\ Goto(o, IF mounted THEN "open" ELSE "reload")
  /\ UNCHANGED <<process, state, sdk, worker, mount, config, clients, history>>

Swapped(o) == sdk' = snap[o].plan

(* executor.reload_sdk(..)?                                                *)

\* The operations that are between opening the mounted sdk.py and its import.
Pushing == {o \in Ops : pc[o] \in {"fill", "reload"}}

\* On Docker fs::write truncates the mounted file, whoever else is using it...
OpenSdk(o) ==
  /\ up
  /\ pc[o] = "open"
  /\ \/ /\ source' = TextOf({})
        /\ lost' = IF Pushing = {} THEN lost
                   ELSE lost \cup UNION {snap[q].plan : q \in Pushing \cup {o}}
        /\ Goto(o, "fill")
     \/ /\ Goto(o, "failed")
        /\ UNCHANGED <<source, lost>>
  /\ UNCHANGED <<process, state, snap, sdk, worker, mounted, config, clients, history>>

\* ... and fills it, over the text of another operation if there is one; a write that
\* fails leaves a part of a text and ends the operation.
FillSdk(o) ==
  LET mixture == [tools |-> source.tools \cup snap[o].plan, whole |-> FALSE] IN
  /\ up
  /\ pc[o] = "fill"
  /\ \/ source' = TextOf(snap[o].plan) /\ Goto(o, "reload")
     \/ source # TextOf({}) /\ source' = mixture /\ Goto(o, "reload")
     \/ source' = mixture /\ Goto(o, "failed")
  /\ UNCHANGED <<process, state, snap, sdk, worker, mounted, lost, config, clients, history>>

\* The worker is down, or answers with the traceback of an import that failed.
ReloadFails(o) ==
  /\ Goto(o, "failed")
  /\ UNCHANGED <<worker, mount, history>>

\* The worker's module is executed again and keeps the names it had.
Loads(o, got) ==
  /\ worker.up
  /\ worker' = [worker EXCEPT !.tools = got, !.loaded = @ \cup got]
  /\ Goto(o, "ship")

\* On Docker it imports the mounted file, whatever that holds by now.
LoadsMounted(o) ==
  /\ mounted
  /\ \E got \in IF source.whole THEN {source.tools} ELSE SUBSET source.tools : Loads(o, got)
  /\ UNCHANGED <<mount, history>>

\* On the host it writes the text it was sent and imports that...
LoadsSent(o) ==
  /\ ~ mounted
  /\ Loads(o, snap[o].plan)
  /\ UNCHANGED <<mount, history>>

\* ... but an OSError of the write is swallowed, and bytecode of a text with the same
\* second and size is taken for this one: the old text, or a part of the new, is loaded.
LoadsOther(o) ==
  /\ ~ mounted
  /\ \E got \in {worker.tools} \cup SUBSET snap[o].plan : Loads(o, got)
  /\ lost' = lost \cup snap[o].plan
  /\ alone' = alone \ {o}
  /\ UNCHANGED <<mounted, source, overlap, settled>>

\* Mutant: a failed reload is logged and the description swapped all the same.
ReloadOrWarn(o) ==
  /\ up
  /\ pc[o] = "reload"
  /\ \/ LoadsMounted(o) \/ LoadsSent(o) \/ LoadsOther(o)
     \/ Goto(o, "swap") /\ UNCHANGED <<worker, mount, history>>
  /\ UNCHANGED <<process, state, snap, sdk, config, clients>>

Reload(o) ==
  /\ up
  /\ pc[o] = "reload"
  /\ LoadsMounted(o) \/ LoadsSent(o) \/ LoadsOther(o) \/ ReloadFails(o)
  /\ UNCHANGED <<process, state, snap, sdk, config, clients>>

\* Mutant: an empty map is not shipped.
ShipUnlessEmpty(o) ==
  /\ up
  /\ pc[o] = "ship"
  /\ worker' = IF worker.up /\ snap[o].keys # {} THEN [worker EXCEPT !.keys = snap[o].keys]
                                                 ELSE worker
  /\ Goto(o, "swap")
  /\ UNCHANGED <<process, state, snap, sdk, mount, config, clients, history>>

\* executor.set_shapes(..): a failure is only logged.
Ship(o) ==
  /\ up
  /\ pc[o] = "ship"
  /\ worker' = IF worker.up THEN [worker EXCEPT !.keys = snap[o].keys] ELSE worker
  /\ Goto(o, "swap")
  /\ UNCHANGED <<process, state, snap, sdk, mount, config, clients, history>>

\* Mutant: clients are notified of server changes only.
SwapSilently(o) ==
  /\ up
  /\ pc[o] = "swap"
  /\ Swapped(o)
  /\ Goto(o, IF ToolOp(o) THEN "done" ELSE "notify")
  /\ UNCHANGED <<process, state, snap, worker, mount, config, clients, history>>

\* Mutant: a learned shape adds and removes no tool, so nobody is notified.
SwapUnlessLearned(o) ==
  /\ up
  /\ pc[o] = "swap"
  /\ Swapped(o)
  /\ Goto(o, IF Kind(o) = "learn" THEN "done" ELSE "notify")
  /\ UNCHANGED <<process, state, snap, worker, mount, config, clients, history>>

Swap(o) ==
  /\ up
  /\ pc[o] = "swap"
  /\ Swapped(o)
  /\ Goto(o, "notify")
  /\ UNCHANGED <<process, state, snap, worker, mount, config, clients, history>>

Gone(c) == client[c] = "gone"

StillThere == [c \in Clients |-> IF Gone(c) THEN 0 ELSE peers[c]]

\* Under the peers lock every peer is sent tools/list_changed; those whose
\* connection has gone are dropped.  disable and enable then persist.
Notify(o) ==
  /\ up
  /\ pc[o] = "notify"
  /\ peers' = StillThere
  /\ notified' = notified \cup {c \in Clients : StillThere[c] > 0}
  /\ Goto(o, IF Request[o].persist /\ Kind(o) \in {"enable", "disable"} THEN "read" ELSE "done")
  /\ settled' = (o \in alone)
  /\ UNCHANGED <<process, state, snap, sdk, worker, mount, config, client, shown, overlap, alone>>

-----------------------------------------------------------------------------
(* config::set_enabled and config::set_tool_enabled: read, change, write,   *)
(* with no lock; then the copy in memory.                                  *)

\* A file another operation is writing does not parse.
ReadConfig(o) ==
  /\ up
  /\ pc[o] = "read"
  /\ \/ /\ file.intact
        /\ staged' = [staged EXCEPT ![o] = file]
        /\ Goto(o, "truncate")
     \/ /\ ~ file.intact
        /\ Goto(o, "failed")
        /\ UNCHANGED staged
  /\ UNCHANGED <<process, state, snap, sdk, worker, mount, file, wanted, clients, history>>

\* The entry of a tool becomes {"enabled": ..} and loses its other fields.
Changed(o, f) ==
  CASE Kind(o) = "enable"  -> [f EXCEPT !.servers[Server(o)] = TRUE]
    [] Kind(o) = "disable" -> [f EXCEPT !.servers[Server(o)] = FALSE]
    [] OTHER -> [f EXCEPT !.tools[Tool(o)] = IF Kind(o) = "enable_tool" THEN "on" ELSE "off",
                          !.overrides = @ \ {Tool(o)}]

\* fs::write truncates the file...
TruncateConfig(o) ==
  /\ up
  /\ pc[o] = "truncate"
  /\ file' = [file EXCEPT !.intact = FALSE]
  /\ Goto(o, "write")
  /\ UNCHANGED <<process, state, snap, sdk, worker, mount, staged, wanted, clients, history>>

\* Mutant: the server's flag is written from the copy in memory.
WriteStale(o) ==
  /\ up
  /\ pc[o] = "write"
  /\ file' = [Changed(o, staged[o]) EXCEPT !.servers = boot]
  /\ wanted' = Changed(o, wanted)
  /\ Goto(o, "remember")
  /\ UNCHANGED <<process, state, snap, sdk, worker, mount, staged, clients, history>>

\* ... and fills it with the changed content.
WriteConfig(o) ==
  /\ up
  /\ pc[o] = "write"
  /\ file' = Changed(o, staged[o])
  /\ wanted' = Changed(o, wanted)
  /\ Goto(o, "remember")
  /\ UNCHANGED <<process, state, snap, sdk, worker, mount, staged, clients, history>>

Remember(o) ==
  /\ up
  /\ pc[o] = "remember"
  /\ \/ /\ ToolOp(o)
        /\ defaults' = [defaults EXCEPT ![Tool(o)] = IF Kind(o) = "enable_tool" THEN "on" ELSE "off"]
        /\ Goto(o, "snapshot")
        /\ UNCHANGED boot
     \/ /\ ~ ToolOp(o)
        /\ boot' = [boot EXCEPT ![Server(o)] = (Kind(o) = "enable")]
        /\ Goto(o, "done")
        /\ UNCHANGED defaults
  /\ UNCHANGED <<process, connected, session, keysets, snap, sdk, worker, mount, config, clients,
                 history>>

-----------------------------------------------------------------------------
(* MCP clients: ServerHandler::list_tools.                                 *)

Lists(c) == client[c] = "none" \/ (client[c] = "listed" /\ c \in notified)

\* A client lists the tools, first of its own accord and then when notified:
\* the peer is captured, whether or not the list has it already...
Register(c) ==
  /\ up
  /\ Lists(c)
  /\ client' = [client EXCEPT ![c] = "reading"]
  /\ peers' = [peers EXCEPT ![c] = @ + 1]
  /\ notified' = notified \ {c}
  /\ UNCHANGED <<process, pc, state, snap, sdk, worker, mount, config, shown, history>>

\* ... and then the description is read.
ReadDescription(c) ==
  /\ up
  /\ client[c] = "reading"
  /\ client' = [client EXCEPT ![c] = "listed"]
  /\ shown' = [shown EXCEPT ![c] = sdk]
  /\ UNCHANGED <<process, pc, state, snap, sdk, worker, mount, config, peers, notified, history>>

Leave(c) ==
  /\ up
  /\ client[c] \in {"reading", "listed"}
  /\ client' = [client EXCEPT ![c] = "gone"]
  /\ notified' = notified \ {c}
  /\ UNCHANGED <<process, pc, state, snap, sdk, worker, mount, config, peers, shown, history>>

-----------------------------------------------------------------------------
(* Failures.                                                               *)

WorkerDies ==
  /\ up
  /\ worker.up
  /\ worker' = [worker EXCEPT !.up = FALSE]
  /\ UNCHANGED <<process, pc, state, snap, sdk, mount, config, clients, history>>

\* The process ends, whatever it was doing, ...
Stop ==
  /\ up
  /\ restarts < MaxRestarts
  /\ up' = FALSE
  /\ restarts' = restarts + 1
  /\ pc' = [o \in Ops |-> IF Active(o) THEN "failed" ELSE pc[o]]
  /\ UNCHANGED <<state, snap, sdk, worker, mount, config, clients, history>>

\* ... and starts again from mcp.json, if that parses.
Start ==
  /\ ~ up
  /\ file.intact
  /\ up' = TRUE
  /\ \E ok \in Bootable(file) :
       /\ connected' = ok
       /\ sdk' = ToolsOf(ok)
       /\ worker' = FreshWorker(ToolsOf(ok))
       /\ source' = TextOf(ToolsOf(ok))
  /\ boot' = file.servers
  /\ session' = Unset
  /\ defaults' = file.tools
  /\ keysets' = [t \in {} |-> {}]
  /\ peers' = [c \in Clients |-> 0]
  /\ client' = [c \in Clients |-> "none"]
  /\ shown' = [c \in Clients |-> {}]
  /\ notified' = {}
  /\ overlap' = FALSE
  /\ alone' = {}
  /\ settled' = FALSE
  /\ wanted' = file
  /\ lost' = {}
  /\ UNCHANGED <<restarts, pc, snap, file, staged, mounted>>

-----------------------------------------------------------------------------
Admin(o) ==
  \/ StartAdmin(o) \/ Connect(o) \/ Turn(o) \/ Learn(o)
  \/ ReadConfig(o) \/ TruncateConfig(o) \/ WriteConfig(o) \/ Remember(o)

Regenerate(o) ==
  \/ Snapshot(o) \/ Collect(o) \/ Render(o) \/ OpenSdk(o) \/ FillSdk(o) \/ Reload(o)
  \/ Ship(o) \/ Swap(o) \/ Notify(o)

Next ==
  \/ \E o \in Ops : Admin(o) \/ Regenerate(o)
  \/ \E c \in Clients : Register(c) \/ ReadDescription(c) \/ Leave(c)
  \/ WorkerDies \/ Stop \/ Start

Spec == Init /\ [][Next]_vars

\* An operation that has swapped the description goes through its peers, and a client
\* that was notified lists again.  What comes before the swap may wait for ever: on an
\* upstream, on the worker's answer, on a lock.
Fairness ==
  /\ \A o \in Ops : WF_vars(Notify(o))
  /\ \A c \in Clients : WF_vars(c \in notified /\ Register(c)) /\ WF_vars(ReadDescription(c))

FairSpec == Spec /\ Fairness

-----------------------------------------------------------------------------
(* What holds however operations interleave.                               *)

\* A function the description shows is one the worker has been loaded with: the
\* reload comes before the swap, and one that failed is never advertised.  The only
\* exceptions are functions of a push that met another on its way to the import: two
\* operations were in the mounted file at once, or the worker said that it had loaded
\* a text which it had not.
DescribedIsLoaded == up => sdk \subseteq worker.loaded \cup lost

\* No client is left with an old list: if what it read last is not the current
\* description it has a notification to act on, or one is about to be sent to
\* it, whichever of the listing and the swap came first.
NoChangeIsMissed ==
  \A c \in Clients :
    (up /\ client[c] = "listed" /\ shown[c] # sdk) =>
      \/ c \in notified
      \/ peers[c] > 0 /\ \E o \in Ops : pc[o] = "notify"

\* Whatever operations overlapped or failed before, one that then regenerates
\* alone leaves description, worker and keysets all at the effective state.
LoneOperationsSettle ==
  (up /\ Quiet /\ settled /\ worker.up) =>
    /\ sdk = Visible
    /\ worker.tools = Visible
    /\ worker.keys = KeysFor(Visible)

\* As long as operations do not overlap, and across restarts, mcp.json holds
\* every default that was made one, and memory agrees with it.
SerialDefaultsAgree ==
  (up /\ Quiet /\ ~ overlap) =>
    /\ file.intact
    /\ file.servers = wanted.servers /\ file.tools = wanted.tools
    /\ boot = file.servers /\ defaults = file.tools

\* Once no more operations arrive, every client that honours notifications shows
\* the current description, for ever.
ClientsCatchUp == <>[](\A c \in Clients : (up /\ client[c] = "listed") => shown[c] = sdk)

-----------------------------------------------------------------------------
(* The invariant behind them.                                              *)

\* Nothing is under way while the process is down, only admin operations touch
\* mcp.json, and only lone ones are alone.
StagesFit ==
  /\ ~ up => Quiet
  /\ \A o \in Ops : /\ pc[o] \in {"connect", "turn", "read", "truncate", "write", "remember"} =>
                         Kind(o) # "learn"
                    /\ pc[o] = "turn" => ToolOp(o)
  /\ \A o \in alone, q \in Ops : Active(o) /\ Active(q) => o = q
  /\ ~ overlap => \A o, q \in Ops : Active(o) /\ Active(q) => o = q

\* What is about to be described is loaded.
PlansAreLoaded ==
  up => \A o \in Ops : pc[o] \in {"ship", "swap"} => snap[o].plan \subseteq worker.loaded \cup lost

\* Of two operations in the mounted file both are lost; one that is not finds there
\* what it put there.
FileIsWritten ==
  /\ \A o, q \in Pushing : (mounted /\ o # q) => snap[o].plan \subseteq lost
  /\ \A o \in Ops :
       /\ pc[o] \in {"open", "fill"} => mounted
       /\ (pc[o] = "fill" /\ ~ (snap[o].plan \subseteq lost)) => source = TextOf({})
       /\ (mounted /\ pc[o] = "reload" /\ ~ (snap[o].plan \subseteq lost)) =>
            source = TextOf(snap[o].plan)

\* A client that listed is a peer from then on.
ListersArePeers ==
  \A c \in Clients : client[c] \in {"reading", "listed"} => peers[c] > 0

\* What an operation that is alone has copied is the state itself.
LoneCopiesAreTrue ==
  /\ \A o \in alone :
       /\ pc[o] = "collect" => snap[o].session = session /\ snap[o].defaults = defaults
       /\ pc[o] \in {"render", "open", "fill", "reload", "ship", "swap", "notify"} =>
            snap[o].plan = Visible
       /\ pc[o] \in {"open", "fill", "reload", "ship", "swap", "notify"} =>
            snap[o].keys = KeysFor(Visible)
       /\ pc[o] = "fill" => source = TextOf({})
       /\ (mounted /\ pc[o] = "reload") => source = TextOf(Visible)
       /\ pc[o] \in {"ship", "swap", "notify"} => (worker.up => worker.tools = Visible)
       /\ pc[o] \in {"swap", "notify"} => (worker.up => worker.keys = KeysFor(Visible))
       /\ pc[o] = "notify" => sdk = Visible
  /\ settled =>
       /\ \A o \in Ops : Active(o) => /\ pc[o] \in {"read", "truncate", "write", "remember"}
                                       /\ ~ ToolOp(o)
       /\ worker.up => /\ sdk = Visible /\ worker.tools = Visible
                       /\ worker.keys = KeysFor(Visible)

AsWanted(f) == f.intact /\ f.servers = wanted.servers /\ f.tools = wanted.tools

\* Without overlaps the file is as wanted, or its content is in the operation that
\* writes it; and memory is as the file, up to what the operation will remember.
SerialFilesAreKnown ==
  (up /\ ~ overlap) =>
    /\ (\A o \in Ops : pc[o] \notin {"write", "remember"}) =>
         AsWanted(file) /\ boot = file.servers /\ defaults = file.tools
    /\ \A o \in Ops :
         /\ pc[o] = "truncate" => staged[o] = file
         /\ pc[o] = "write" =>
              AsWanted(staged[o]) /\ boot = staged[o].servers /\ defaults = staged[o].tools
         /\ pc[o] = "remember" =>
              /\ AsWanted(file)
              /\ IF ToolOp(o)
                 THEN /\ boot = file.servers
                      /\ file.tools = [defaults EXCEPT ![Tool(o)] =
                                          IF Kind(o) = "enable_tool" THEN "on" ELSE "off"]
                 ELSE /\ defaults = file.tools
                      /\ file.servers = [boot EXCEPT ![Server(o)] = (Kind(o) = "enable")]

IInv ==
  /\ TypeOK /\ StagesFit
  /\ DescribedIsLoaded /\ PlansAreLoaded /\ FileIsWritten
  /\ NoChangeIsMissed /\ ListersArePeers
  /\ LoneCopiesAreTrue
  /\ SerialFilesAreKnown

-----------------------------------------------------------------------------
(* What the documentation says, and the code does not do.                  *)

\* "ON = the effective state (what the model currently sees)" (README.md).
OnIsWhatTheModelSees ==
  (up /\ Quiet /\ worker.up) => sdk = Visible

\* "the gateway has already updated the mounted file, so we skip the write and just
\* re-import it" (bootstrap.py): of any two operations that overlap on Docker.
MountedPlansAreLoaded == (up /\ mounted) => sdk \subseteq worker.loaded

\* "Drop any cached bytecode so the new source is used" (bootstrap.py): the source that
\* was sent is the one a successful reload has loaded.
SentPlansAreLoaded == (up /\ ~ mounted) => sdk \subseteq worker.loaded

\* `"tools": {"<tool>": {"enabled": false}}` in mcp.json hides a tool by default
\* (README.md): also before the first operation.
BootHidesDisabledTools ==
  (up /\ \A o \in Ops : pc[o] = "idle") => sdk = Visible

\* "preserving all other content verbatim" (config.rs), of one operation...
OverridesAreKept == file.overrides = InitialFile.overrides

\* ... of two that overlap ...
OverlappingDefaultsAreKept ==
  (up /\ Quiet) => file.servers = wanted.servers /\ file.tools = wanted.tools

\* ... and of one cut short by the end of the process.
ConfigSurvivesAStop == ~ up => file.intact

\* "the set of captured server Peers" (PLAN.md).
PeersAreASet == \A c \in Clients : peers[c] <= 1
=============================================================================
