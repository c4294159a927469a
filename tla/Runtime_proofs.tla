---------------------------- MODULE Runtime_proofs ----------------------------
(***************************************************************************)
(* Theorems about Runtime, for any operations, servers, tools, clients and *)
(* restarts: what is described is loaded, no client misses a change, an    *)
(* operation that is alone leaves everything at the effective state, and   *)
(* defaults made one at a time are kept.  About SdkNames: routes and the   *)
(* module agree, and dry runs stub what writes.  About SdkCalls: the check *)
(* of a call and Python's binding agree on what the text shows.  About     *)
(* FieldCheck: what works on a result learned from is accepted, and what   *)
(* is rejected would have failed.                                          *)
(***************************************************************************)
EXTENDS Runtime, SdkNames, SdkCalls, FieldCheck, TLAPS, SequenceTheorems, FiniteSetTheorems,
        WellFoundedInduction

OnOff == {"unset", "on", "off"}

\* What an operation asks for.
LEMMA RequestFacts ==
  ASSUME NEW o \in Ops
  PROVE  /\ Kind(o) \in Kinds /\ Server(o) \in Servers /\ Tool(o) \in Tools
         /\ Request[o].keys \in SUBSET Keys /\ Request[o].persist \in BOOLEAN
  BY ParametersTyped DEF Kind, Server, Tool

\* The servers' tools, the visible ones and their keys are sets of such.
LEMMA SetFacts ==
  /\ \A servers : ToolsOf(servers) \in SUBSET Tools
  /\ Advertised \in SUBSET Tools /\ Visible \in SUBSET Tools
  /\ \A some \in SUBSET Tools : KeysFor(some) \in SUBSET (Tools \X Keys)
  BY DEF ToolsOf, Advertised, Visible, KeysFor

\* A gateway that has just started is of its types.
LEMMA InitTypeOK == Init => TypeOK
  <1> SUFFICES ASSUME Init PROVE TypeOK
    OBVIOUS
  <1>1. InitialFile \in Files /\ MaxRestarts \in Nat
    BY ParametersTyped
  <1>2. boot \in [Servers -> BOOLEAN] /\ defaults \in Settings
    BY <1>1 DEF Init, Files, Settings
  <1>3. Unset \in Settings /\ Nothing \in Snapshots
    BY DEF Unset, Nothing, Settings, Snapshots
  <1>4. connected \in SUBSET Servers /\ sdk \in SUBSET Tools
    BY SetFacts DEF Init, Bootable
  <1>5. worker \in [up : BOOLEAN, tools : SUBSET Tools, loaded : SUBSET Tools,
                    keys : SUBSET (Tools \X Keys)]
    BY SetFacts DEF Init, FreshWorker
  <1>6. DOMAIN keysets \in SUBSET Tools /\ keysets \in [DOMAIN keysets -> SUBSET Keys]
    BY DEF Init
  <1>7. /\ up \in BOOLEAN /\ restarts \in 0 .. MaxRestarts /\ overlap \in BOOLEAN
        /\ settled \in BOOLEAN /\ alone \in SUBSET Ops /\ notified \in SUBSET Clients
    <2>1. restarts \in 0 .. MaxRestarts
      BY <1>1 DEF Init
    <2>2. up \in BOOLEAN /\ overlap \in BOOLEAN /\ settled \in BOOLEAN
      BY DEF Init
    <2>3. alone \in SUBSET Ops /\ notified \in SUBSET Clients
      BY DEF Init
    <2>4. QED
      BY <2>1, <2>2, <2>3
  <1>8. pc \in [Ops -> Stages]
    BY DEF Init, Stages
  <1>9. session \in Settings /\ snap \in [Ops -> Snapshots]
    BY <1>3 DEF Init
  <1>10. file \in Files /\ staged \in [Ops -> Files] /\ wanted \in Files
    BY <1>1 DEF Init
  <1>11. /\ peers \in [Clients -> Nat] /\ shown \in [Clients -> SUBSET Tools]
         /\ client \in [Clients -> {"none", "reading", "listed", "gone"}]
    BY DEF Init
  <1>12. mounted \in BOOLEAN /\ source \in Sources /\ lost \in SUBSET Tools
    BY SetFacts DEF Init, TextOf, Sources
  <1>13. QED
    BY <1>2, <1>4, <1>5, <1>6, <1>7, <1>8, <1>9, <1>10, <1>11, <1>12 DEF TypeOK

\* A change of mcp.json leaves a file.
LEMMA ChangedFacts ==
  ASSUME NEW o \in Ops, NEW f \in Files
  PROVE  /\ Changed(o, f) \in Files
         /\ Changed(o, f).intact = f.intact
         /\ Kind(o) \in {"enable", "disable"} =>
              /\ Changed(o, f).servers = [f.servers EXCEPT ![Server(o)] = (Kind(o) = "enable")]
              /\ Changed(o, f).tools = f.tools
         /\ Kind(o) \notin {"enable", "disable"} =>
              /\ Changed(o, f).servers = f.servers
              /\ Changed(o, f).tools = [f.tools EXCEPT ![Tool(o)] =
                                          IF Kind(o) = "enable_tool" THEN "on" ELSE "off"]
  <1>1. Server(o) \in Servers /\ Tool(o) \in Tools
    BY RequestFacts
  <1>2. CASE Kind(o) = "enable"
    BY <1>1, <1>2 DEF Changed, Files
  <1>3. CASE Kind(o) = "disable"
    BY <1>1, <1>3 DEF Changed, Files
  <1>4. CASE Kind(o) \notin {"enable", "disable"}
    <2> DEFINE g == [f EXCEPT !.tools[Tool(o)] =
                                  IF Kind(o) = "enable_tool" THEN "on" ELSE "off"]
    <2>1. Changed(o, f) = [g EXCEPT !.overrides = @ \ {Tool(o)}]
      BY <1>4 DEF Changed, Files
    <2>2. /\ f.servers \in [Servers -> BOOLEAN] /\ f.tools \in [Tools -> OnOff]
          /\ f.overrides \in SUBSET Tools /\ f.intact \in BOOLEAN
      BY DEF Files, OnOff
    <2>3. g = [f EXCEPT !.tools = [f.tools EXCEPT ![Tool(o)] =
                                     IF Kind(o) = "enable_tool" THEN "on" ELSE "off"]]
      OBVIOUS
    <2>4. /\ g \in Files
          /\ g.servers = f.servers /\ g.intact = f.intact
          /\ g.tools = [f.tools EXCEPT ![Tool(o)] =
                          IF Kind(o) = "enable_tool" THEN "on" ELSE "off"]
      <3> HIDE DEF g
      <3>1. [f.tools EXCEPT ![Tool(o)] = IF Kind(o) = "enable_tool" THEN "on" ELSE "off"]
              \in [Tools -> OnOff]
        BY <2>2 DEF OnOff
      <3>2. QED
        BY <2>3, <3>1 DEF Files, OnOff
    <2>5. QED
      <3> HIDE DEF g
      <3>1. /\ Changed(o, f) \in Files
            /\ Changed(o, f).servers = g.servers /\ Changed(o, f).intact = g.intact
            /\ Changed(o, f).tools = g.tools
        BY <2>1, <2>4 DEF Files
      <3>2. QED
        BY <1>4, <2>4, <3>1
  <1>5. QED
    BY <1>2, <1>3, <1>4

-----------------------------------------------------------------------------
(* Types.                                                                  *)

\* Each operation's step keeps the types: an admin operation's, ...
LEMMA AdminTypes ==
  ASSUME TypeOK, NEW o \in Ops, Admin(o)
  PROVE  TypeOK'
  <1>1. o \in Ops /\ Kind(o) \in Kinds /\ Server(o) \in Servers /\ Tool(o) \in Tools
    BY RequestFacts
  <1>2. pc' \in [Ops -> Stages]
    BY DEF Admin, StartAdmin, Connect, Turn, Learn, ReadConfig, TruncateConfig, WriteConfig,
           Remember, Goto, TypeOK, Stages
  <1>3. CASE StartAdmin(o)
    <2>1. connected' \in SUBSET Servers
      BY <1>3 DEF StartAdmin, TypeOK
    <2>2. overlap' \in BOOLEAN /\ alone' \in SUBSET Ops /\ settled' \in BOOLEAN
      BY <1>3 DEF StartAdmin, Starts, Begins, TypeOK
    <2>3. QED
      BY <1>2, <1>3, <2>1, <2>2
      DEF StartAdmin, TypeOK, mount, process, config, clients
  <1>4. CASE Connect(o)
    <2>1. connected' \in SUBSET Servers
      BY <1>1, <1>4 DEF Connect, TypeOK
    <2>2. QED
      BY <1>2, <1>4, <2>1 DEF Connect, TypeOK, mount, process, config, clients, history
  <1>5. CASE Turn(o)
    <2>1. session' \in Settings
      BY <1>1, <1>5 DEF Turn, TypeOK, Settings
    <2>2. QED
      BY <1>2, <1>5, <2>1 DEF Turn, TypeOK, mount, process, config, clients, history
  <1>6. CASE Learn(o)
    <2>1. DOMAIN keysets' \in SUBSET Tools /\ keysets' \in [DOMAIN keysets' -> SUBSET Keys]
      <3>1. CASE UNCHANGED keysets
        BY <3>1 DEF TypeOK
      <3>2. CASE keysets' # keysets
        <4> DEFINE old == IF Tool(o) \in DOMAIN keysets THEN keysets[Tool(o)] ELSE {}
        <4>1. keysets' = [t \in DOMAIN keysets \cup {Tool(o)} |->
                            IF t = Tool(o) THEN Merged(old, Request[o].keys) ELSE keysets[t]]
          BY <1>6, <3>2 DEF Learn
        <4>2. Merged(old, Request[o].keys) \in SUBSET Keys
          BY RequestFacts DEF Merged, TypeOK
        <4>3. QED
          BY <1>1, <4>1, <4>2 DEF TypeOK
      <3>3. QED
        BY <3>1, <3>2
    <2>2. overlap' \in BOOLEAN /\ alone' \in SUBSET Ops /\ settled' \in BOOLEAN
      BY <1>6 DEF Learn, Begins, TypeOK, history
    <2>3. QED
      BY <1>2, <1>6, <2>1, <2>2 DEF Learn, TypeOK, mount, process, config, clients
  <1>7. CASE ReadConfig(o)
    <2>1. staged' \in [Ops -> Files]
      BY <1>7 DEF ReadConfig, TypeOK
    <2>2. QED
      BY <1>2, <1>7, <2>1 DEF ReadConfig, TypeOK, mount, process, state, clients, history
  <1>8. CASE TruncateConfig(o)
    <2>1. file' \in Files
      BY <1>8 DEF TruncateConfig, TypeOK, Files
    <2>2. QED
      BY <1>2, <1>8, <2>1 DEF TruncateConfig, TypeOK, mount, process, state, clients, history
  <1>9. CASE WriteConfig(o)
    <2>1. staged[o] \in Files /\ wanted \in Files
      BY DEF TypeOK
    <2>2. file' \in Files /\ wanted' \in Files
      BY <1>9, <2>1, ChangedFacts DEF WriteConfig
    <2>3. QED
      BY <1>2, <1>9, <2>2 DEF WriteConfig, TypeOK, mount, process, state, clients, history
  <1>10. CASE Remember(o)
    <2>1. defaults' \in Settings
      BY <1>1, <1>10 DEF Remember, TypeOK, Settings
    <2>2. boot' \in [Servers -> BOOLEAN]
      BY <1>1, <1>10 DEF Remember, TypeOK
    <2>3. QED
      BY <1>2, <1>10, <2>1, <2>2 DEF Remember, TypeOK, mount, process, config, clients, history
  <1>11. QED
    BY <1>3, <1>4, <1>5, <1>6, <1>7, <1>8, <1>9, <1>10 DEF Admin

\* What a push to the worker can do, whether it is served from the file or the frame.
LEMMA ReloadFacts ==
  ASSUME TypeOK, NEW o \in Ops, Reload(o)
  PROVE  /\ up /\ pc[o] = "reload" /\ UNCHANGED <<process, state, snap, sdk, config, clients>>
         /\ UNCHANGED <<mounted, source, overlap, settled>>
         /\ pc' \in {[pc EXCEPT ![o] = "ship"], [pc EXCEPT ![o] = "failed"]}
         /\ \/ pc'[o] = "failed" /\ UNCHANGED <<worker, lost, alone>>
            \/ /\ pc'[o] = "ship"
               /\ \E got \in SUBSET Tools :
                    /\ worker' = [worker EXCEPT !.tools = got, !.loaded = @ \cup got]
                    /\ (mounted /\ source.whole) => got = source.tools
                    /\ ~ mounted => got = snap[o].plan \/ snap[o].plan \subseteq lost'
                    /\ (~ mounted /\ o \in alone') => got = snap[o].plan
               /\ lost' \in {lost, lost \cup snap[o].plan}
               /\ alone' \in {alone, alone \ {o}}
  <1>1. /\ up /\ pc[o] = "reload" /\ UNCHANGED <<process, state, snap, sdk, config, clients>>
        /\ LoadsMounted(o) \/ LoadsSent(o) \/ LoadsOther(o) \/ ReloadFails(o)
    BY DEF Reload
  <1>2. /\ snap[o].plan \in SUBSET Tools /\ worker.tools \in SUBSET Tools
        /\ source.tools \in SUBSET Tools /\ pc \in [Ops -> Stages]
    BY DEF TypeOK, Snapshots, Sources
  <1>3. CASE ReloadFails(o)
    BY <1>1, <1>2, <1>3 DEF ReloadFails, mount, history, Goto
  <1>4. CASE LoadsMounted(o)
    BY <1>1, <1>2, <1>4 DEF LoadsMounted, Loads, mount, history, Goto
  <1>5. CASE LoadsSent(o)
    BY <1>1, <1>2, <1>5 DEF LoadsSent, Loads, mount, history, Goto
  <1>6. CASE LoadsOther(o)
    BY <1>1, <1>2, <1>6 DEF LoadsOther, Loads, mount, history, Goto
  <1>7. QED
    BY <1>1, <1>3, <1>4, <1>5, <1>6

\* ... a regeneration's, ...
LEMMA RegenerateTypes ==
  ASSUME TypeOK, NEW o \in Ops, Regenerate(o)
  PROVE  TypeOK'
  <1>1. pc' \in [Ops -> Stages]
    <2>1. CASE Reload(o)
      <3>1. /\ pc' \in {[pc EXCEPT ![o] = "ship"], [pc EXCEPT ![o] = "failed"]}
            /\ pc \in [Ops -> Stages]
        BY <2>1, ReloadFacts DEF TypeOK
      <3>2. {"ship", "failed"} \subseteq Stages
        BY DEF Stages
      <3>3. QED
        BY <3>1, <3>2
    <2>2. CASE ~ Reload(o)
      BY <2>2 DEF Regenerate, Snapshot, Collect, Render, OpenSdk, FillSdk, Ship, Swap, Notify,
         Goto, TypeOK, Stages
    <2>3. QED
      BY <2>1, <2>2
  <1>2. snap[o] \in Snapshots /\ snap[o].plan \in SUBSET Tools
        /\ snap[o].keys \in SUBSET (Tools \X Keys)
    BY DEF TypeOK, Snapshots
  <1>3. CASE Snapshot(o)
    <2>1. [Nothing EXCEPT !.session = session, !.defaults = defaults] \in Snapshots
      BY DEF Nothing, Snapshots, TypeOK
    <2>2. snap' \in [Ops -> Snapshots]
      <3> DEFINE new == [Nothing EXCEPT !.session = session, !.defaults = defaults]
      <3> HIDE DEF new
      <3>1. snap' = [snap EXCEPT ![o] = new]
        BY <1>3 DEF Snapshot, new
      <3>2. new \in Snapshots
        BY <2>1 DEF new
      <3>3. QED
        BY <3>1, <3>2 DEF TypeOK
    <2>3. QED
      BY <1>1, <1>3, <2>2 DEF Snapshot, TypeOK, mount, process, state, config, clients, history
  <1>4. CASE Collect(o)
    <2> DEFINE plan == {t \in Advertised : Effective(snap[o].session, snap[o].defaults, t)}
    <2>1. plan \in SUBSET Tools
      BY SetFacts
    <2>2. snap' \in [Ops -> Snapshots]
      <3> HIDE DEF plan
      <3>1. snap' = [snap EXCEPT ![o].plan = plan]
        BY <1>4 DEF Collect, plan
      <3>2. QED
        BY <1>2, <2>1, <3>1 DEF TypeOK, Snapshots
    <2>3. QED
      BY <1>1, <1>4, <2>2 DEF Collect, TypeOK, mount, process, state, config, clients, history
  <1>5. CASE Render(o)
    <2>1. KeysFor(snap[o].plan) \in SUBSET (Tools \X Keys)
      BY <1>2, SetFacts
    <2>2. snap' = [snap EXCEPT ![o].keys = KeysFor(snap[o].plan)]
      BY <1>5 DEF Render
    <2>3. snap' \in [Ops -> Snapshots]
      BY <1>2, <2>1, <2>2 DEF TypeOK, Snapshots
    <2>4. QED
      BY <1>1, <1>5, <2>3 DEF Render, TypeOK, mount, process, state, config, clients, history
  <1>6. CASE Reload(o)
    <2>1. worker' \in [up : BOOLEAN, tools : SUBSET Tools, loaded : SUBSET Tools,
                       keys : SUBSET (Tools \X Keys)]
      <3>1. UNCHANGED worker \/ \E got \in SUBSET Tools :
              worker' = [worker EXCEPT !.tools = got, !.loaded = @ \cup got]
        BY <1>6, ReloadFacts
      <3>2. worker \in [up : BOOLEAN, tools : SUBSET Tools, loaded : SUBSET Tools,
                         keys : SUBSET (Tools \X Keys)]
        BY DEF TypeOK
      <3>3. QED
        BY <3>1, <3>2
    <2>2. UNCHANGED <<process, state, snap, sdk, config, clients, mounted, source, overlap, settled>>
      BY <1>6, ReloadFacts
    <2>3. lost' \in SUBSET Tools /\ alone' \in SUBSET Ops
      BY <1>2, <1>6, ReloadFacts DEF TypeOK
    <2>4. QED
      BY <1>1, <2>1, <2>2, <2>3 DEF TypeOK, process, state, config, clients
  <1>7. CASE Ship(o)
    <2>1. worker' \in [up : BOOLEAN, tools : SUBSET Tools, loaded : SUBSET Tools,
                       keys : SUBSET (Tools \X Keys)]
      BY <1>2, <1>7 DEF Ship, TypeOK
    <2>2. QED
      BY <1>1, <1>7, <2>1 DEF Ship, TypeOK, mount, process, state, config, clients, history
  <1>8. CASE Swap(o)
    BY <1>1, <1>2, <1>8 DEF Swap, Swapped, TypeOK, mount, process, state, config, clients, history
  <1>9. CASE Notify(o)
    <2>1. peers' \in [Clients -> Nat]
      BY <1>9 DEF Notify, StillThere, TypeOK
    <2>2. notified' \in SUBSET Clients /\ settled' \in BOOLEAN
      BY <1>9 DEF Notify, TypeOK
    <2>3. QED
      BY <1>1, <1>9, <2>1, <2>2 DEF Notify, TypeOK, mount, process, state, config
  <1>10. CASE OpenSdk(o)
    <2>1. source' \in Sources /\ lost' \in SUBSET Tools
      <3>1. \A q \in Ops : snap[q].plan \in SUBSET Tools
        BY DEF TypeOK, Snapshots
      <3>2. UNION {snap[q].plan : q \in Pushing \cup {o}} \in SUBSET Tools
        BY <3>1 DEF Pushing
      <3>3. source \in Sources /\ lost \in SUBSET Tools /\ TextOf({}) \in Sources
        BY DEF TypeOK, TextOf, Sources
      <3>4. /\ source' = TextOf({}) \/ source' = source
            /\ lost' = lost \/ lost' = lost \cup UNION {snap[q].plan : q \in Pushing \cup {o}}
        BY <1>10 DEF OpenSdk
      <3>5. QED
        BY <3>2, <3>3, <3>4
    <2>2. QED
      BY <1>1, <1>10, <2>1 DEF OpenSdk, TypeOK, process, state, config, clients, history
  <1>11. CASE FillSdk(o)
    <2>1. source' \in Sources
      <3>1. /\ source.tools \in SUBSET Tools
            /\ \/ source' = TextOf(snap[o].plan)
               \/ source' = [tools |-> source.tools \cup snap[o].plan, whole |-> FALSE]
        BY <1>11 DEF FillSdk, TypeOK, Sources
      <3>2. \A got \in SUBSET Tools, all \in BOOLEAN : [tools |-> got, whole |-> all] \in Sources
        BY DEF Sources
      <3>3. TextOf(snap[o].plan) \in Sources
        BY <1>2, <3>2 DEF TextOf
      <3>4. [tools |-> source.tools \cup snap[o].plan, whole |-> FALSE] \in Sources
        BY <1>2, <3>1, <3>2
      <3>5. QED
        BY <3>1, <3>3, <3>4
    <2>2. QED
      BY <1>1, <1>11, <2>1 DEF FillSdk, TypeOK, process, state, config, clients, history
  <1>12. QED
    BY <1>3, <1>4, <1>5, <1>6, <1>7, <1>8, <1>9, <1>10, <1>11 DEF Regenerate

\* ... and those of clients and of failures.
LEMMA OtherTypes ==
  ASSUME TypeOK,
         \/ \E c \in Clients : Register(c) \/ ReadDescription(c) \/ Leave(c)
         \/ WorkerDies \/ Stop \/ Start
  PROVE  TypeOK'
  <1>1. ASSUME NEW c \in Clients, Register(c) PROVE TypeOK'
    <2>1. peers' \in [Clients -> Nat] /\ notified' \in SUBSET Clients
      BY <1>1 DEF Register, TypeOK
    <2>2. client' \in [Clients -> {"none", "reading", "listed", "gone"}]
      BY <1>1 DEF Register, TypeOK
    <2>3. QED
      BY <1>1, <2>1, <2>2 DEF Register, TypeOK, mount, process, state, config, history
  <1>2. ASSUME NEW c \in Clients, ReadDescription(c) PROVE TypeOK'
    <2>1. shown' \in [Clients -> SUBSET Tools]
      BY <1>2 DEF ReadDescription, TypeOK
    <2>2. client' \in [Clients -> {"none", "reading", "listed", "gone"}]
      BY <1>2 DEF ReadDescription, TypeOK
    <2>3. QED
      BY <1>2, <2>1, <2>2 DEF ReadDescription, TypeOK, mount, process, state, config, history
  <1>3. ASSUME NEW c \in Clients, Leave(c) PROVE TypeOK'
    <2>1. notified' \in SUBSET Clients
      BY <1>3 DEF Leave, TypeOK
    <2>2. client' \in [Clients -> {"none", "reading", "listed", "gone"}]
      BY <1>3 DEF Leave, TypeOK
    <2>3. QED
      BY <1>3, <2>1, <2>2 DEF Leave, TypeOK, mount, process, state, config, history
  <1>4. CASE WorkerDies
    <2>1. worker' \in [up : BOOLEAN, tools : SUBSET Tools, loaded : SUBSET Tools,
                       keys : SUBSET (Tools \X Keys)]
      BY <1>4 DEF WorkerDies, TypeOK
    <2>2. QED
      BY <1>4, <2>1 DEF WorkerDies, TypeOK, mount, process, state, config, clients, history
  <1>5. CASE Stop
    <2>1. pc' \in [Ops -> Stages]
      BY <1>5 DEF Stop, TypeOK, Stages
    <2>2. restarts' \in 0 .. MaxRestarts
      BY <1>5, ParametersTyped DEF Stop, TypeOK
    <2>3. QED
      BY <1>5, <2>1, <2>2 DEF Stop, TypeOK, mount, state, config, clients, history
  <1>6. CASE Start
    <2>1. /\ file.servers \in [Servers -> BOOLEAN]
          /\ file.tools \in Settings
      BY DEF TypeOK, Files, Settings
    <2>2. boot' \in [Servers -> BOOLEAN] /\ defaults' \in Settings
      BY <1>6, <2>1 DEF Start
    <2>3. session' \in Settings
      BY <1>6 DEF Start, Unset, Settings
    <2>4. connected' \in SUBSET Servers /\ sdk' \in SUBSET Tools
      BY <1>6, SetFacts DEF Start, Bootable
    <2>5. worker' \in [up : BOOLEAN, tools : SUBSET Tools, loaded : SUBSET Tools,
                       keys : SUBSET (Tools \X Keys)]
      BY <1>6, SetFacts DEF Start, FreshWorker
    <2>6. DOMAIN keysets' \in SUBSET Tools /\ keysets' \in [DOMAIN keysets' -> SUBSET Keys]
      BY <1>6 DEF Start
    <2>7. /\ peers' \in [Clients -> Nat] /\ shown' \in [Clients -> SUBSET Tools]
          /\ client' \in [Clients -> {"none", "reading", "listed", "gone"}]
      BY <1>6 DEF Start
    <2>8. up' \in BOOLEAN /\ overlap' \in BOOLEAN /\ settled' \in BOOLEAN
      BY <1>6 DEF Start
    <2>9. alone' \in SUBSET Ops /\ notified' \in SUBSET Clients
      BY <1>6 DEF Start
    <2>10. /\ restarts' \in 0 .. MaxRestarts /\ pc' \in [Ops -> Stages]
           /\ snap' \in [Ops -> Snapshots] /\ staged' \in [Ops -> Files]
      BY <1>6 DEF Start, TypeOK
    <2>11. file' \in Files /\ wanted' \in Files
      BY <1>6 DEF Start, TypeOK
    <2>12. mounted' \in BOOLEAN /\ source' \in Sources /\ lost' \in SUBSET Tools
      BY <1>6, SetFacts DEF Start, TypeOK, TextOf, Sources
    <2>13. QED
      BY <2>2, <2>3, <2>4, <2>5, <2>6, <2>7, <2>8, <2>9, <2>10, <2>11, <2>12 DEF TypeOK
  <1>7. QED
    BY <1>1, <1>2, <1>3, <1>4, <1>5, <1>6

\* A step that changes nothing keeps the whole invariant.
LEMMA StutterKeeps == IInv /\ UNCHANGED vars => IInv'
  <1> SUFFICES ASSUME IInv, UNCHANGED vars PROVE IInv'
    OBVIOUS
  <1>1. /\ UNCHANGED <<up, restarts, pc, connected, boot, session, defaults, keysets, snap, sdk>>
        /\ UNCHANGED <<worker, mounted, source, lost>>
    BY DEF vars, process, state, mount
  <1>2. UNCHANGED <<file, staged, wanted, peers, client, shown, notified, overlap, alone, settled>>
    BY DEF vars, config, clients, history
  <1>3. TypeOK'
    BY <1>1, <1>2 DEF IInv, TypeOK
  <1>4. StagesFit'
    BY <1>1, <1>2 DEF IInv, StagesFit, Quiet, Active
  <1>5. DescribedIsLoaded' /\ PlansAreLoaded'
    BY <1>1, <1>2 DEF IInv, DescribedIsLoaded, PlansAreLoaded
  <1>6. NoChangeIsMissed' /\ ListersArePeers'
    BY <1>1, <1>2 DEF IInv, NoChangeIsMissed, ListersArePeers
  <1>7. LoneCopiesAreTrue'
    BY <1>1, <1>2 DEF IInv, LoneCopiesAreTrue, Active, Visible, Advertised, KeysFor
  <1>8. SerialFilesAreKnown'
    BY <1>1, <1>2 DEF IInv, SerialFilesAreKnown, AsWanted
  <1>9. FileIsWritten'
    BY <1>1, <1>2 DEF IInv, FileIsWritten, Pushing
  <1>10. QED
    BY <1>3, <1>4, <1>5, <1>6, <1>7, <1>8, <1>9 DEF IInv

-----------------------------------------------------------------------------
(* Stages.                                                                 *)

\* A step of an operation leaves the others where they are; and one that has a
\* successor goes there.
LEMMA OnlyItMoves ==
  ASSUME TypeOK, NEW o \in Ops, Admin(o) \/ Regenerate(o)
  PROVE  /\ \A q \in Ops : q # o => pc'[q] = pc[q]
         /\ up /\ up'
         /\ Active(o) \/ Begins(o) \/ (pc'[o] = "done" /\ UNCHANGED history /\ pc[o] = "idle")
         /\ ~ Begins(o) => overlap' = overlap /\ alone' \subseteq alone
  <1>1. CASE Reload(o)
    BY <1>1, ReloadFacts DEF Active, TypeOK, process
  <1>2. CASE ~ Reload(o)
    <2>1. \A q \in Ops : q # o => pc'[q] = pc[q]
      BY <1>2 DEF Admin, Regenerate, StartAdmin, Connect, Turn, Learn, ReadConfig, TruncateConfig,
         WriteConfig, Remember, Snapshot, Collect, Render, OpenSdk, FillSdk, Ship, Swap, Notify,
         Goto, TypeOK
    <2>2. up /\ up'
      BY <1>2 DEF Admin, Regenerate, StartAdmin, Starts, Arrives, Connect, Turn, Learn, ReadConfig,
         TruncateConfig, WriteConfig, Remember, Snapshot, Collect, Render, OpenSdk, FillSdk, Ship,
         Swap, Notify, process
    <2>3. Active(o) \/ Begins(o) \/ (pc'[o] = "done" /\ UNCHANGED history /\ pc[o] = "idle")
      <3>1. CASE StartAdmin(o)
        BY <3>1 DEF StartAdmin, Starts
      <3>2. CASE Learn(o)
        BY <3>2 DEF Learn, Arrives, Goto, TypeOK
      <3>3. CASE ~ StartAdmin(o) /\ ~ Learn(o)
        BY <1>2, <3>3 DEF Admin, Regenerate, Connect, Turn, ReadConfig, TruncateConfig,
           WriteConfig, Remember, Snapshot, Collect, Render, OpenSdk, FillSdk, Ship, Swap, Notify,
           Active
      <3>4. QED
        BY <3>1, <3>2, <3>3
    <2>4. Begins(o) \/ UNCHANGED <<overlap, alone>>
      BY <1>2 DEF Admin, Regenerate, StartAdmin, Starts, Connect, Turn, Learn, ReadConfig,
         TruncateConfig, WriteConfig, Remember, Snapshot, Collect, Render, OpenSdk, FillSdk, Ship,
         Swap, Notify, history
    <2>5. QED
      BY <2>1, <2>2, <2>3, <2>4
  <1>3. QED
    BY <1>1, <1>2

\* Where a step of an operation can take it.
LEMMA AdminStages ==
  ASSUME TypeOK, NEW o \in Ops, Admin(o) \/ Regenerate(o),
         pc[o] \in {"connect", "turn", "read", "truncate", "write", "remember"} =>
           Kind(o) # "learn",
         pc[o] = "turn" => ToolOp(o)
  PROVE  /\ pc'[o] \in {"connect", "turn", "read", "truncate", "write", "remember"} =>
              Kind(o) # "learn"
         /\ pc'[o] = "turn" => ToolOp(o)
  <1>1. CASE StartAdmin(o)
    BY <1>1 DEF StartAdmin, Starts, Goto, TypeOK, ToolOp, Kinds
  <1>2. CASE Connect(o)
    BY <1>2 DEF Connect, Goto, TypeOK
  <1>3. CASE Turn(o)
    BY <1>3 DEF Turn, Goto, TypeOK
  <1>4. CASE Learn(o)
    BY <1>4 DEF Learn, Goto, TypeOK
  <1>5. CASE ReadConfig(o) \/ TruncateConfig(o) \/ WriteConfig(o) \/ Remember(o)
    BY <1>5 DEF ReadConfig, TruncateConfig, WriteConfig, Remember, Goto, TypeOK
  <1>6. CASE Regenerate(o)
    <2>1. CASE Reload(o)
      BY <2>1, ReloadFacts DEF TypeOK
    <2>2. CASE ~ Reload(o)
      BY <1>6, <2>2 DEF Regenerate, Snapshot, Collect, Render, OpenSdk, FillSdk, Ship, Swap,
         Notify, Goto, TypeOK
    <2>3. QED
      BY <2>1, <2>2
  <1>7. QED
    BY <1>1, <1>2, <1>3, <1>4, <1>5, <1>6 DEF Admin

\* Stages fit after each step.
LEMMA StagesStep == TypeOK /\ StagesFit /\ Next => StagesFit'
  <1> SUFFICES ASSUME TypeOK, StagesFit, Next PROVE StagesFit'
    OBVIOUS
  <1>1. ASSUME NEW o \in Ops, Admin(o) \/ Regenerate(o) PROVE StagesFit'
    <2>1. /\ \A q \in Ops : q # o => pc'[q] = pc[q]
          /\ up /\ up'
          /\ Active(o) \/ Begins(o) \/ (pc'[o] = "done" /\ UNCHANGED history /\ pc[o] = "idle")
          /\ ~ Begins(o) => overlap' = overlap /\ alone' \subseteq alone
      BY <1>1, OnlyItMoves
    <2>2. \A q \in Ops :
            /\ pc'[q] \in {"connect", "turn", "read", "truncate", "write", "remember"} =>
                 Kind(q) # "learn"
            /\ pc'[q] = "turn" => ToolOp(q)
      BY <1>1, <2>1, AdminStages DEF StagesFit
    <2>3. /\ \A p \in alone', q \in Ops : Active(p)' /\ Active(q)' => p = q
          /\ ~ overlap' => \A p, q \in Ops : Active(p)' /\ Active(q)' => p = q
      <3>1. \A q \in Ops : q # o => (Active(q)' <=> Active(q))
        BY <2>1 DEF Active
      <3>2. CASE Begins(o)
        BY <3>1, <3>2 DEF Begins, Quiet
      <3>3. CASE ~ Begins(o)
        <4>1. Active(o)' => Active(o)
          BY <2>1, <3>3 DEF Active
        <4>2. alone \in SUBSET Ops
          BY DEF TypeOK
        <4>3. QED
          BY <2>1, <3>1, <3>3, <4>1, <4>2 DEF StagesFit
      <3>4. QED
        BY <3>2, <3>3
    <2>4. QED
      BY <2>1, <2>2, <2>3 DEF StagesFit, Quiet
  <1>2. CASE \/ \E c \in Clients : Register(c) \/ ReadDescription(c) \/ Leave(c)
             \/ WorkerDies
    <2>1. UNCHANGED <<up, pc, overlap, alone>>
      BY <1>2 DEF Register, ReadDescription, Leave, WorkerDies, process, history
    <2>2. QED
      BY <2>1 DEF StagesFit, Quiet, Active
  <1>3. CASE Stop
    <2>1. \A q \in Ops : ~ Active(q)' /\ (pc'[q] = pc[q] \/ pc'[q] = "failed")
      BY <1>3 DEF Stop, Active
    <2>2. alone' \in SUBSET Ops
      BY <1>3 DEF Stop, history, TypeOK
    <2>3. QED
      BY <2>1, <2>2 DEF StagesFit, Quiet
  <1>4. CASE Start
    <2>1. up' /\ alone' = {} /\ ~ overlap' /\ pc' = pc /\ ~ up
      BY <1>4 DEF Start
    <2>2. \A q \in Ops : ~ Active(q)'
      BY <2>1 DEF StagesFit, Quiet, Active
    <2>3. QED
      BY <2>1, <2>2 DEF StagesFit
  <1>5. QED
    BY <1>1, <1>2, <1>3, <1>4 DEF Next

-----------------------------------------------------------------------------
(* What is described is loaded.                                            *)

\* An operation's step that neither plans, loads nor describes.
LEMMA AdminShowsNothing ==
  ASSUME TypeOK, NEW o \in Ops, Admin(o)
  PROVE  /\ UNCHANGED <<snap, sdk, worker, mount, clients>>
         /\ pc[o] \notin {"collect", "render", "open", "fill", "reload", "ship", "swap",
                         "notify"}
         /\ pc'[o] \notin {"collect", "render", "open", "fill", "reload", "ship", "swap",
                         "notify"}
  <1>1. UNCHANGED <<snap, sdk, worker, mount, clients>>
    BY DEF Admin, StartAdmin, Connect, Turn, Learn, ReadConfig, TruncateConfig, WriteConfig,
           Remember
  <1>2. pc[o] \notin {"collect", "render", "open", "fill", "reload", "ship", "swap", "notify"}
    BY DEF Admin, StartAdmin, Starts, Arrives, Connect, Turn, Learn, ReadConfig, TruncateConfig,
           WriteConfig, Remember
  <1>3. pc'[o] \notin {"collect", "render", "open", "fill", "reload", "ship", "swap", "notify"}
    BY DEF Admin, StartAdmin, Connect, Turn, Learn, ReadConfig, TruncateConfig, WriteConfig,
           Remember, Goto, TypeOK
  <1>4. QED
    BY <1>1, <1>2, <1>3

\* The mounted file holds what the operation that is alone in it has put there.
LEMMA FileStep == TypeOK /\ StagesFit /\ FileIsWritten /\ Next => FileIsWritten'
  <1> SUFFICES ASSUME TypeOK, StagesFit, FileIsWritten, Next PROVE FileIsWritten'
    OBVIOUS
  <1> DEFINE Finds(o) ==
        /\ pc[o] \in {"open", "fill"} => mounted
        /\ (pc[o] = "fill" /\ ~ (snap[o].plan \subseteq lost)) => source = TextOf({})
        /\ (mounted /\ pc[o] = "reload" /\ ~ (snap[o].plan \subseteq lost)) =>
             source = TextOf(snap[o].plan)
  <1>1. ASSUME NEW o \in Ops, Admin(o) PROVE FileIsWritten'
    <2>1. /\ \A q \in Ops : q # o => pc'[q] = pc[q]
          /\ UNCHANGED <<snap, mounted, source, lost>>
          /\ pc[o] \notin {"open", "fill", "reload"} /\ pc'[o] \notin {"open", "fill", "reload"}
      BY <1>1, OnlyItMoves, AdminShowsNothing DEF mount
    <2>2. QED
      BY <2>1 DEF FileIsWritten, Pushing
  <1>2. ASSUME NEW o \in Ops, Regenerate(o) PROVE FileIsWritten'
    <2>1. \A q \in Ops : q # o => pc'[q] = pc[q]
      BY <1>2, OnlyItMoves
    <2>2. CASE OpenSdk(o)
      <3>1. UNCHANGED <<snap, mounted>> /\ mounted
        BY <2>2 DEF OpenSdk, FileIsWritten
      <3>2. CASE pc'[o] = "failed" /\ UNCHANGED <<source, lost>>
        BY <2>1, <3>1, <3>2 DEF FileIsWritten, Pushing
      <3>3. CASE pc'[o] = "fill" /\ source' = TextOf({}) /\ Pushing = {} /\ lost' = lost
        BY <2>1, <3>1, <3>3 DEF FileIsWritten, Pushing
      <3>4. CASE /\ pc'[o] = "fill" /\ source' = TextOf({}) /\ Pushing # {}
                 /\ lost' = lost \cup UNION {snap[q].plan : q \in Pushing \cup {o}}
        <4>1. \A q \in Pushing' : q \in Pushing \cup {o}
          BY <2>1 DEF Pushing
        <4>2. \A q \in Pushing' : snap[q].plan \subseteq lost'
          BY <3>4, <4>1
        <4>3. \A q \in Ops : pc'[q] \in {"fill", "reload"} => snap[q].plan \subseteq lost'
          BY <4>2 DEF Pushing
        <4>4. QED
          BY <3>1, <4>2, <4>3 DEF FileIsWritten
      <3>5. QED
        BY <2>2, <3>2, <3>3, <3>4 DEF OpenSdk, Goto, TypeOK
    <2>3. CASE FillSdk(o)
      <3>1. UNCHANGED <<snap, mounted, lost>> /\ mounted /\ pc[o] = "fill"
        BY <2>3 DEF FillSdk, FileIsWritten
      <3>2. Pushing' \subseteq Pushing /\ o \in Pushing
        BY <2>1, <3>1 DEF Pushing
      <3>3. \A q \in Pushing : q # o => snap[q].plan \subseteq lost /\ snap[o].plan \subseteq lost
        BY <3>1, <3>2 DEF FileIsWritten
      <3>4. \A q \in Ops : q # o => Finds(q)'
        <4>1. \A q \in Ops : pc[q] \in {"fill", "reload"} => q \in Pushing
          BY DEF Pushing
        <4>2. QED
          BY <2>1, <3>1, <3>3, <4>1
      <3>5. Finds(o)'
        <4>1. /\ pc'[o] \in {"reload", "failed"}
              /\ (pc'[o] = "reload" /\ source = TextOf({})) => source' = TextOf(snap[o].plan)
          BY <2>3 DEF FillSdk, Goto, TypeOK
        <4>2. ~ (snap[o].plan \subseteq lost) => source = TextOf({})
          BY <3>1 DEF FileIsWritten
        <4>3. QED
          BY <3>1, <4>1, <4>2
      <3>6. \A p, q \in Pushing' : (mounted' /\ p # q) => snap'[p].plan \subseteq lost'
        BY <3>1, <3>2 DEF FileIsWritten
      <3>7. QED
        BY <3>4, <3>5, <3>6 DEF FileIsWritten
    <2>4. CASE Reload(o)
      <3>1. UNCHANGED <<snap, mounted, source>> /\ pc'[o] \in {"ship", "failed"}
        BY <2>4, ReloadFacts DEF TypeOK
      <3>2. lost \subseteq lost'
        BY <2>4, ReloadFacts
      <3>3. Pushing' \subseteq Pushing
        BY <2>1, <3>1 DEF Pushing
      <3>4. \A q \in Ops : Finds(q)'
        BY <2>1, <3>1, <3>2 DEF FileIsWritten
      <3>5. QED
        BY <3>1, <3>2, <3>3, <3>4 DEF FileIsWritten
    <2>5. CASE Snapshot(o) \/ Collect(o) \/ Render(o)
      <3>1. UNCHANGED <<mounted, source, lost>> /\ \A q \in Ops : q # o => snap'[q] = snap[q]
        BY <2>5 DEF Snapshot, Collect, Render, mount, TypeOK
      <3>2. /\ pc[o] \notin {"open", "fill", "reload"}
            /\ pc'[o] \in {"collect", "render"} \/ pc'[o] = (IF mounted THEN "open" ELSE "reload")
        BY <2>5 DEF Snapshot, Collect, Render, Goto, TypeOK
      <3>3. \A q \in Ops : Finds(q)'
        <4>1. \A q \in Ops : q # o => Finds(q)'
          BY <2>1, <3>1 DEF FileIsWritten
        <4>2. Finds(o)'
          BY <3>1, <3>2
        <4>3. QED
          BY <4>1, <4>2
      <3>4. \A p, q \in Pushing' : (mounted' /\ p # q) => snap'[p].plan \subseteq lost'
        <4>1. mounted => Pushing' \subseteq Pushing \ {o}
          BY <2>1, <3>2 DEF Pushing
        <4>2. \A q \in Pushing \ {o} : snap'[q] = snap[q]
          BY <3>1 DEF Pushing
        <4>3. QED
          BY <3>1, <4>1, <4>2 DEF FileIsWritten
      <3>5. QED
        BY <3>3, <3>4 DEF FileIsWritten
    <2>6. CASE Ship(o) \/ Swap(o) \/ Notify(o)
      <3>1. UNCHANGED <<snap, mounted, source, lost>>
        BY <2>6 DEF Ship, Swap, Notify, mount
      <3>2. pc'[o] \notin {"open", "fill", "reload"}
        BY <2>6 DEF Ship, Swap, Notify, Goto, TypeOK
      <3>3. QED
        BY <2>1, <3>1, <3>2 DEF FileIsWritten, Pushing
    <2>7. QED
      BY <1>2, <2>2, <2>3, <2>4, <2>5, <2>6 DEF Regenerate
  <1>3. CASE \/ \E c \in Clients : Register(c) \/ ReadDescription(c) \/ Leave(c)
             \/ WorkerDies
    <2>1. UNCHANGED <<pc, snap, mounted, source, lost>>
      BY <1>3 DEF Register, ReadDescription, Leave, WorkerDies, mount
    <2>2. QED
      BY <2>1 DEF FileIsWritten, Pushing
  <1>4. CASE Stop
    <2>1. \A q \in Ops : pc'[q] \notin {"open", "fill", "reload"}
      BY <1>4 DEF Stop, Active
    <2>2. QED
      BY <2>1 DEF FileIsWritten, Pushing
  <1>5. CASE Start
    <2>1. \A q \in Ops : ~ Active(q) /\ pc'[q] = pc[q]
      BY <1>5 DEF Start, StagesFit, Quiet
    <2>2. \A q \in Ops : pc'[q] \notin {"open", "fill", "reload"}
      BY <2>1 DEF Active
    <2>3. QED
      BY <2>2 DEF FileIsWritten, Pushing
  <1>6. QED
    BY <1>1, <1>2, <1>3, <1>4, <1>5 DEF Next

\* The reload comes before the swap, and what it loads is what was pushed, unless that
\* is lost.
LEMMA LoadedStep ==
  TypeOK /\ StagesFit /\ FileIsWritten /\ DescribedIsLoaded /\ PlansAreLoaded /\ Next
    => DescribedIsLoaded' /\ PlansAreLoaded'
  <1> SUFFICES ASSUME TypeOK, StagesFit, FileIsWritten, DescribedIsLoaded, PlansAreLoaded, Next
               PROVE  DescribedIsLoaded' /\ PlansAreLoaded'
    OBVIOUS
  <1> DEFINE W == [up : BOOLEAN, tools : SUBSET Tools, loaded : SUBSET Tools,
                   keys : SUBSET (Tools \X Keys)]
             Known == worker.loaded \cup lost
  <1>0. worker \in W
    BY DEF TypeOK
  <1>1. ASSUME NEW o \in Ops, Admin(o) PROVE DescribedIsLoaded' /\ PlansAreLoaded'
    <2>1. \A q \in Ops : q # o => pc'[q] = pc[q]
      BY <1>1, OnlyItMoves
    <2>2. up /\ UNCHANGED <<snap, sdk, worker, lost>> /\ pc'[o] \notin {"ship", "swap"}
      BY <1>1, AdminShowsNothing, OnlyItMoves DEF mount
    <2>3. QED
      BY <2>1, <2>2 DEF DescribedIsLoaded, PlansAreLoaded
  <1>2. ASSUME NEW o \in Ops, Regenerate(o) PROVE DescribedIsLoaded' /\ PlansAreLoaded'
    <2>1. up /\ \A q \in Ops : q # o => pc'[q] = pc[q]
      BY <1>2, OnlyItMoves
    <2>2. \A q \in Ops : q # o => snap'[q] = snap[q]
      <3>1. CASE Reload(o)
        BY <3>1, ReloadFacts
      <3>2. CASE ~ Reload(o)
        BY <1>2, <3>2 DEF Regenerate, Snapshot, Collect, Render, OpenSdk, FillSdk, Ship, Swap,
           Notify, TypeOK
      <3>3. QED
        BY <3>1, <3>2
    <2>3. Known \subseteq Known'
      <3>1. CASE Reload(o)
        <4>1. UNCHANGED worker \/ \E got \in SUBSET Tools :
                worker' = [worker EXCEPT !.tools = got, !.loaded = @ \cup got]
          BY <3>1, ReloadFacts
        <4>2. worker.loaded \subseteq worker'.loaded
          BY <1>0, <4>1
        <4>3. lost \subseteq lost'
          BY <3>1, ReloadFacts
        <4>4. QED
          BY <4>2, <4>3
      <3>2. CASE OpenSdk(o)
        <4>1. worker' = worker /\ lost \subseteq lost'
          BY <3>2 DEF OpenSdk
        <4>2. QED
          BY <4>1
      <3>3. CASE ~ Reload(o) /\ ~ OpenSdk(o)
        <4>1. worker.loaded = worker'.loaded /\ lost' = lost
          BY <1>0, <1>2, <3>3 DEF Regenerate, Snapshot, Collect, Render, FillSdk, Ship, Swap,
             Notify, mount
        <4>2. QED
          BY <4>1
      <3>4. QED
        BY <3>1, <3>2, <3>3
    <2>4. sdk' \subseteq Known'
      <3>1. CASE Swap(o)
        <4>1. snap[o].plan \subseteq Known /\ sdk' = snap[o].plan
          BY <2>1, <3>1 DEF Swap, Swapped, PlansAreLoaded
        <4>2. QED
          BY <2>3, <4>1
      <3>2. CASE ~ Swap(o)
        <4>1. sdk' = sdk
          BY <1>2, <3>2, ReloadFacts DEF Regenerate, Snapshot, Collect, Render, OpenSdk, FillSdk,
             Ship, Notify
        <4>2. sdk \subseteq Known
          BY <2>1 DEF DescribedIsLoaded
        <4>3. QED
          BY <2>3, <4>1, <4>2
      <3>3. QED
        BY <3>1, <3>2
    <2>5. pc'[o] \in {"ship", "swap"} => snap'[o].plan \subseteq Known'
      <3>1. CASE Reload(o)
        <4>1. snap' = snap /\ pc'[o] \in {"ship", "failed"} /\ pc[o] = "reload"
          BY <3>1, ReloadFacts DEF TypeOK
        <4>2. SUFFICES ASSUME pc'[o] = "ship" PROVE snap[o].plan \subseteq Known'
          BY <4>1
        <4>3. PICK got \in SUBSET Tools :
                /\ worker' = [worker EXCEPT !.tools = got, !.loaded = @ \cup got]
                /\ (mounted /\ source.whole) => got = source.tools
                /\ ~ mounted => got = snap[o].plan \/ snap[o].plan \subseteq lost'
          BY <3>1, <4>2, ReloadFacts
        <4>4. got \subseteq worker'.loaded
          BY <1>0, <4>3
        <4>5. CASE mounted /\ ~ (snap[o].plan \subseteq lost)
          <5>1. source = TextOf(snap[o].plan)
            BY <4>1, <4>5 DEF FileIsWritten
          <5>2. QED
            BY <4>3, <4>4, <4>5, <5>1 DEF TextOf
        <4>6. CASE mounted /\ snap[o].plan \subseteq lost
          BY <2>3, <4>6
        <4>7. CASE ~ mounted
          BY <4>3, <4>4, <4>7
        <4>8. QED
          BY <4>5, <4>6, <4>7
      <3>2. CASE Ship(o)
        <4>1. snap' = snap /\ snap[o].plan \subseteq Known
          BY <2>1, <3>2 DEF Ship, PlansAreLoaded
        <4>2. QED
          BY <2>3, <4>1
      <3>3. CASE ~ Reload(o) /\ ~ Ship(o)
        BY <1>2, <3>3 DEF Regenerate, Snapshot, Collect, Render, OpenSdk, FillSdk, Swap, Notify,
           Goto, TypeOK
      <3>4. QED
        BY <3>1, <3>2, <3>3
    <2>6. \A q \in Ops : pc'[q] \in {"ship", "swap"} => snap'[q].plan \subseteq Known'
      <3>1. \A q \in Ops : (q # o /\ pc'[q] \in {"ship", "swap"}) => snap'[q].plan \subseteq Known
        BY <2>1, <2>2 DEF PlansAreLoaded
      <3>2. QED
        BY <2>3, <2>5, <3>1
    <2>7. QED
      BY <2>4, <2>6 DEF DescribedIsLoaded, PlansAreLoaded
  <1>3. CASE \E c \in Clients : Register(c) \/ ReadDescription(c) \/ Leave(c)
    <2>1. UNCHANGED <<up, pc, snap, sdk, worker, lost>>
      BY <1>3 DEF Register, ReadDescription, Leave, process, mount
    <2>2. QED
      BY <2>1 DEF DescribedIsLoaded, PlansAreLoaded
  <1>4. CASE WorkerDies
    <2>1. UNCHANGED <<up, pc, snap, sdk, lost>> /\ worker'.loaded = worker.loaded
      BY <1>0, <1>4 DEF WorkerDies, process, mount
    <2>2. QED
      BY <2>1 DEF DescribedIsLoaded, PlansAreLoaded
  <1>5. CASE Stop
    BY <1>5 DEF Stop, DescribedIsLoaded, PlansAreLoaded
  <1>6. CASE Start
    <2>1. sdk' = worker'.loaded
      BY <1>6 DEF Start, FreshWorker
    <2>2. \A q \in Ops : ~ Active(q) /\ pc'[q] = pc[q]
      BY <1>6 DEF Start, StagesFit, Quiet
    <2>3. QED
      BY <2>1, <2>2 DEF DescribedIsLoaded, PlansAreLoaded, Active
  <1>7. QED
    BY <1>1, <1>2, <1>3, <1>4, <1>5, <1>6 DEF Next

-----------------------------------------------------------------------------
(* No client misses a change.                                              *)

\* A client is a peer before it reads, and the notification comes after the swap.
LEMMA MissedStep ==
  TypeOK /\ NoChangeIsMissed /\ ListersArePeers /\ Next
    => NoChangeIsMissed' /\ ListersArePeers'
  <1> SUFFICES ASSUME TypeOK, NoChangeIsMissed, ListersArePeers, Next
               PROVE  NoChangeIsMissed' /\ ListersArePeers'
    OBVIOUS
  <1>0. /\ peers \in [Clients -> Nat] /\ shown \in [Clients -> SUBSET Tools]
        /\ client \in [Clients -> {"none", "reading", "listed", "gone"}]
    BY DEF TypeOK
  <1>1. ASSUME NEW o \in Ops, Admin(o) PROVE NoChangeIsMissed' /\ ListersArePeers'
    <2>1. \A q \in Ops : q # o => pc'[q] = pc[q]
      BY <1>1, OnlyItMoves
    <2>2. up /\ UNCHANGED <<sdk, peers, client, shown, notified>> /\ pc[o] # "notify"
      BY <1>1, AdminShowsNothing, OnlyItMoves DEF clients
    <2>3. QED
      BY <2>1, <2>2 DEF NoChangeIsMissed, ListersArePeers
  <1>2. ASSUME NEW o \in Ops, Regenerate(o) PROVE NoChangeIsMissed' /\ ListersArePeers'
    <2>1. up /\ \A q \in Ops : q # o => pc'[q] = pc[q]
      BY <1>2, OnlyItMoves
    <2>2. CASE Swap(o)
      <3>1. pc'[o] = "notify"
        BY <2>2 DEF Swap, Goto, TypeOK
      <3>2. UNCHANGED <<peers, client, shown, notified>>
        BY <2>2 DEF Swap, clients
      <3>3. QED
        BY <3>1, <3>2 DEF NoChangeIsMissed, ListersArePeers
    <2>3. CASE Notify(o)
      <3>1. UNCHANGED <<client, shown, sdk>>
        BY <2>3 DEF Notify
      <3>2. \A c \in Clients : client[c] \in {"reading", "listed"} => StillThere[c] = peers[c]
        BY <1>0 DEF StillThere, Gone
      <3>3. peers' = StillThere
        BY <2>3 DEF Notify
      <3>4. \A c \in Clients : StillThere[c] > 0 => c \in notified'
        BY <2>3 DEF Notify
      <3>5. QED
        BY <3>1, <3>2, <3>3, <3>4 DEF NoChangeIsMissed, ListersArePeers
    <2>4. CASE ~ Swap(o) /\ ~ Notify(o)
      <3>1. UNCHANGED <<sdk, peers, client, shown, notified>> /\ pc[o] # "notify"
        BY <1>2, <2>4, ReloadFacts DEF Regenerate, Snapshot, Collect, Render, OpenSdk, FillSdk,
           Ship, clients
      <3>2. QED
        BY <2>1, <3>1 DEF NoChangeIsMissed, ListersArePeers
    <2>5. QED
      BY <2>2, <2>3, <2>4
  <1>3. ASSUME NEW c \in Clients, Register(c) PROVE NoChangeIsMissed' /\ ListersArePeers'
    <2>1. UNCHANGED <<up, pc, sdk, shown>>
      BY <1>3 DEF Register, process
    <2>2. /\ client'[c] = "reading" /\ peers'[c] > 0
          /\ \A d \in Clients : d # c =>
               client'[d] = client[d] /\ peers'[d] = peers[d] /\ (d \in notified' <=> d \in notified)
      BY <1>0, <1>3 DEF Register
    <2>3. QED
      BY <2>1, <2>2 DEF NoChangeIsMissed, ListersArePeers
  <1>4. ASSUME NEW c \in Clients, ReadDescription(c) PROVE NoChangeIsMissed' /\ ListersArePeers'
    <2>1. UNCHANGED <<up, pc, sdk, peers, notified>>
      BY <1>4 DEF ReadDescription, process
    <2>2. /\ client[c] = "reading" /\ shown'[c] = sdk
          /\ \A d \in Clients : d # c => client'[d] = client[d] /\ shown'[d] = shown[d]
      BY <1>0, <1>4 DEF ReadDescription
    <2>3. QED
      BY <2>1, <2>2 DEF NoChangeIsMissed, ListersArePeers
  <1>5. ASSUME NEW c \in Clients, Leave(c) PROVE NoChangeIsMissed' /\ ListersArePeers'
    <2>1. UNCHANGED <<up, pc, sdk, peers, shown>>
      BY <1>5 DEF Leave, process
    <2>2. /\ client'[c] = "gone"
          /\ \A d \in Clients : d # c =>
               client'[d] = client[d] /\ (d \in notified' <=> d \in notified)
      BY <1>0, <1>5 DEF Leave
    <2>3. QED
      BY <2>1, <2>2 DEF NoChangeIsMissed, ListersArePeers
  <1>6. CASE WorkerDies
    <2>1. UNCHANGED <<up, pc, sdk, peers, client, shown, notified>>
      BY <1>6 DEF WorkerDies, process, clients
    <2>2. QED
      BY <2>1 DEF NoChangeIsMissed, ListersArePeers
  <1>7. CASE Stop
    BY <1>7 DEF Stop, clients, NoChangeIsMissed, ListersArePeers
  <1>8. CASE Start
    <2>1. \A c \in Clients : client'[c] = "none"
      BY <1>8 DEF Start
    <2>2. QED
      BY <2>1 DEF NoChangeIsMissed, ListersArePeers
  <1>9. QED
    BY <1>1, <1>2, <1>3, <1>4, <1>5, <1>6, <1>7, <1>8 DEF Next

-----------------------------------------------------------------------------
(* An operation that is alone.                                             *)

\* What is visible depends on the state alone.
LEMMA VisibleStays ==
  UNCHANGED <<connected, session, defaults, keysets>> =>
    Visible' = Visible /\ KeysFor(Visible)' = KeysFor(Visible)
  BY DEF Visible, Advertised, KeysFor

\* Nobody is active beside an operation that is alone, and while it regenerates
\* nothing it copied changes.
LEMMA LoneStep == TypeOK /\ StagesFit /\ LoneCopiesAreTrue /\ Next => LoneCopiesAreTrue'
  <1> SUFFICES ASSUME TypeOK, StagesFit, LoneCopiesAreTrue, Next PROVE LoneCopiesAreTrue'
    OBVIOUS
  <1> DEFINE W == [up : BOOLEAN, tools : SUBSET Tools, loaded : SUBSET Tools,
                   keys : SUBSET (Tools \X Keys)]
  <1> DEFINE Late == {"collect", "render", "open", "fill", "reload", "ship", "swap", "notify"}
  <1>0. worker \in W /\ alone \in SUBSET Ops
    BY DEF TypeOK
  <1>1. ASSUME NEW o \in Ops, Admin(o) PROVE LoneCopiesAreTrue'
    <2>1. /\ \A q \in Ops : q # o => pc'[q] = pc[q]
          /\ Active(o) \/ Begins(o) \/ (pc'[o] = "done" /\ UNCHANGED history /\ pc[o] = "idle")
          /\ ~ Begins(o) => overlap' = overlap /\ alone' \subseteq alone
      BY <1>1, OnlyItMoves
    <2>2. /\ UNCHANGED <<snap, sdk, worker, mounted, source>>
          /\ pc[o] \notin Late /\ pc'[o] \notin Late
      BY <1>1, AdminShowsNothing DEF mount
    <2>3. CASE Begins(o)
      <3>1. settled' = FALSE /\ alone' \subseteq {o}
        BY <2>3 DEF Begins
      <3>2. QED
        BY <2>2, <3>1 DEF LoneCopiesAreTrue
    <2>4. CASE pc'[o] = "done" /\ UNCHANGED history /\ pc[o] = "idle"
      <3>1. UNCHANGED <<connected, session, defaults, keysets>>
        <4>1. CASE Learn(o)
          BY <2>4, <4>1 DEF Learn, Goto, TypeOK
        <4>2. CASE ~ Learn(o)
          BY <1>1, <2>4, <4>2 DEF Admin, StartAdmin, Starts, Arrives, Connect, Turn, ReadConfig,
             TruncateConfig, WriteConfig, Remember, Goto, TypeOK
        <4>3. QED
          BY <4>1, <4>2
      <3>2. Visible' = Visible /\ KeysFor(Visible)' = KeysFor(Visible)
        BY <3>1, VisibleStays
      <3>3. UNCHANGED <<alone, settled>>
        BY <2>4 DEF history
      <3>4. QED
        BY <1>0, <2>1, <2>2, <2>4, <3>1, <3>2, <3>3 DEF LoneCopiesAreTrue, Active
    <2>5. CASE Active(o) /\ ~ Begins(o)
      <3>1. UNCHANGED <<alone, settled>>
        BY <1>1, <2>5 DEF Admin, StartAdmin, Starts, Connect, Turn, Learn, ReadConfig,
           TruncateConfig, WriteConfig, Remember, history, Arrives, Active
      <3>2. \A q \in alone : pc'[q] \notin Late
        BY <1>0, <2>1, <2>2, <2>5 DEF StagesFit, Active
      <3>3. ASSUME settled
            PROVE  /\ Visible' = Visible /\ KeysFor(Visible)' = KeysFor(Visible)
                   /\ ~ ToolOp(o)
                   /\ pc'[o] \in {"truncate", "write", "remember", "done", "failed"}
        <4>1. pc[o] \in {"read", "truncate", "write", "remember"} /\ ~ ToolOp(o)
          BY <2>5, <3>3 DEF LoneCopiesAreTrue
        <4>2. ReadConfig(o) \/ TruncateConfig(o) \/ WriteConfig(o) \/ Remember(o)
          BY <1>1, <4>1 DEF Admin, StartAdmin, Starts, Arrives, Connect, Turn, Learn
        <4>3. UNCHANGED <<connected, session, defaults, keysets>>
          BY <4>1, <4>2 DEF ReadConfig, TruncateConfig, WriteConfig, Remember, state
        <4>4. pc'[o] \in {"truncate", "write", "remember", "done", "failed"}
          BY <4>1, <4>2 DEF ReadConfig, TruncateConfig, WriteConfig, Remember, Goto, TypeOK
        <4>5. QED
          BY <4>1, <4>3, <4>4, VisibleStays
      <3>4. settled => \A q \in Ops : Active(q)' => /\ pc'[q] \in {"read", "truncate", "write", "remember"}
                                                  /\ ~ ToolOp(q)
        BY <2>1, <3>3 DEF LoneCopiesAreTrue, Active
      <3>5. QED
        BY <2>2, <3>1, <3>2, <3>3, <3>4 DEF LoneCopiesAreTrue
    <2>6. QED
      BY <2>1, <2>3, <2>4, <2>5
  <1>2. ASSUME NEW o \in Ops, Regenerate(o) PROVE LoneCopiesAreTrue'
    <2>1. \A q \in Ops : q # o => pc'[q] = pc[q]
      BY <1>2, OnlyItMoves
    <2>2. /\ Active(o) /\ alone' \subseteq alone
          /\ pc[o] \in {"snapshot"} \cup Late
          /\ UNCHANGED <<connected, session, defaults, keysets, mounted>>
      <3>1. CASE Reload(o)
        BY <3>1, ReloadFacts DEF Active, state
      <3>2. CASE ~ Reload(o)
        BY <1>2, <3>2 DEF Regenerate, Snapshot, Collect, Render, OpenSdk, FillSdk, Ship, Swap,
           Notify, Active, state, history, mount
      <3>3. QED
        BY <3>1, <3>2
    <2>3. ~ settled
      BY <2>2 DEF LoneCopiesAreTrue
    <2>4. Visible' = Visible /\ KeysFor(Visible)' = KeysFor(Visible)
      BY <2>2, VisibleStays
    <2>5. \A q \in alone : q # o => pc'[q] \notin Late
      BY <1>0, <2>1, <2>2 DEF StagesFit, Active
    <2>6. CASE Notify(o)
      <3>1. /\ pc'[o] \in {"read", "done"}
            /\ pc'[o] = "read" => Kind(o) \in {"enable", "disable"}
        BY <2>6 DEF Notify, Goto, TypeOK
      <3>2. /\ UNCHANGED <<worker, sdk, source, alone>> /\ (settled' <=> o \in alone)
            /\ pc[o] = "notify"
        BY <2>6 DEF Notify, mount
      <3>3. o \in alone => \A q \in Ops : Active(q)' => q = o
        BY <2>1, <2>2 DEF StagesFit, Active
      <3>4. o \in alone => \A q \in Ops : Active(q)' => /\ pc'[q] \in {"read", "truncate", "write", "remember"}
                                                     /\ ~ ToolOp(q)
        BY <3>1, <3>3 DEF Active, ToolOp
      <3>5. o \in alone /\ worker.up => /\ sdk = Visible /\ worker.tools = Visible
                                        /\ worker.keys = KeysFor(Visible)
        BY <3>2 DEF LoneCopiesAreTrue
      <3>6. \A q \in alone' : pc'[q] \notin Late
        BY <2>2, <2>5, <3>1, <3>2
      <3>7. QED
        BY <2>4, <3>2, <3>4, <3>5, <3>6 DEF LoneCopiesAreTrue
    <2>7. CASE ~ Notify(o)
      <3>1. ~ settled'
        BY <1>2, <2>3, <2>7, ReloadFacts DEF Regenerate, Snapshot, Collect, Render, OpenSdk,
           FillSdk, Ship, Swap, history
      <3>2. SUFFICES ASSUME o \in alone, o \in alone'
                     PROVE  LET s == snap'[o] IN
                            /\ pc'[o] = "collect" => s.session = session /\ s.defaults = defaults
                            /\ pc'[o] \in {"render", "open", "fill", "reload", "ship", "swap",
                                             "notify"} => s.plan = Visible
                            /\ pc'[o] \in {"open", "fill", "reload", "ship", "swap", "notify"} =>
                                 s.keys = KeysFor(Visible)
                            /\ pc'[o] = "fill" => source' = TextOf({})
                            /\ (mounted /\ pc'[o] = "reload") => source' = TextOf(Visible)
                            /\ pc'[o] \in {"ship", "swap", "notify"} =>
                                 (worker'.up => worker'.tools = Visible)
                            /\ pc'[o] \in {"swap", "notify"} =>
                                 (worker'.up => worker'.keys = KeysFor(Visible))
                            /\ pc'[o] = "notify" => sdk' = Visible
        BY <2>2, <2>4, <2>5, <3>1 DEF LoneCopiesAreTrue
      <3>3. snap[o] \in Snapshots
        BY DEF TypeOK
      <3>4. CASE Snapshot(o)
        <4>1. pc'[o] = "collect"
          BY <3>4 DEF Snapshot, Goto, TypeOK
        <4>2. snap'[o] = [Nothing EXCEPT !.session = session, !.defaults = defaults]
          BY <3>4 DEF Snapshot, TypeOK
        <4>3. snap'[o].session = session /\ snap'[o].defaults = defaults
          BY <4>2 DEF Nothing
        <4>4. QED
          BY <4>1, <4>3
      <3>5. CASE Collect(o)
        <4>1. pc'[o] = "render"
          BY <3>5 DEF Collect, Goto, TypeOK
        <4>2. snap[o].session = session /\ snap[o].defaults = defaults
          BY <3>2, <3>5 DEF Collect, LoneCopiesAreTrue
        <4>3. snap'[o].plan = {t \in Advertised : Effective(snap[o].session, snap[o].defaults, t)}
          BY <3>3, <3>5 DEF Collect, TypeOK, Snapshots
        <4>4. QED
          BY <4>1, <4>2, <4>3 DEF Visible
      <3>6. CASE Render(o)
        <4>1. pc'[o] = (IF mounted THEN "open" ELSE "reload")
          BY <3>6 DEF Render, Goto, TypeOK
        <4>2. snap[o].plan = Visible
          BY <3>2, <3>6 DEF Render, LoneCopiesAreTrue
        <4>3. snap'[o].keys = KeysFor(snap[o].plan) /\ snap'[o].plan = snap[o].plan
          BY <3>3, <3>6 DEF Render, TypeOK, Snapshots
        <4>4. QED
          BY <4>1, <4>2, <4>3
      <3>7. CASE Reload(o)
        <4>1. snap' = snap /\ pc'[o] \in {"ship", "failed"} /\ pc[o] = "reload"
          BY <3>7, ReloadFacts DEF TypeOK
        <4>2. /\ snap[o].plan = Visible /\ snap[o].keys = KeysFor(Visible)
              /\ mounted => source = TextOf(Visible)
          BY <3>2, <4>1 DEF LoneCopiesAreTrue
        <4>3. ASSUME pc'[o] = "ship" PROVE worker'.tools = Visible
          <5>1. PICK got \in SUBSET Tools :
                  /\ worker' = [worker EXCEPT !.tools = got, !.loaded = @ \cup got]
                  /\ (mounted /\ source.whole) => got = source.tools
                  /\ (~ mounted /\ o \in alone') => got = snap[o].plan
            BY <3>7, <4>3, ReloadFacts
          <5>2. worker'.tools = got
            BY <1>0, <5>1
          <5>3. got = Visible
            BY <3>2, <4>2, <5>1 DEF TextOf
          <5>4. QED
            BY <5>2, <5>3
        <4>4. QED
          BY <4>1, <4>2, <4>3
      <3>8. CASE Ship(o)
        <4>1. snap' = snap /\ pc'[o] = "swap"
          BY <3>8 DEF Ship, Goto, TypeOK
        <4>2. /\ snap[o].plan = Visible /\ snap[o].keys = KeysFor(Visible)
              /\ worker.up => worker.tools = Visible
          BY <3>2, <3>8 DEF Ship, LoneCopiesAreTrue
        <4>3. /\ worker'.up = worker.up /\ worker'.tools = worker.tools
              /\ worker.up => worker'.keys = snap[o].keys
          BY <1>0, <3>8 DEF Ship
        <4>4. QED
          BY <4>1, <4>2, <4>3
      <3>9. CASE Swap(o)
        <4>1. UNCHANGED <<snap, worker>> /\ pc'[o] = "notify" /\ sdk' = snap[o].plan
          BY <3>9 DEF Swap, Swapped, Goto, TypeOK
        <4>2. /\ snap[o].plan = Visible /\ snap[o].keys = KeysFor(Visible)
              /\ worker.up => worker.tools = Visible /\ worker.keys = KeysFor(Visible)
          BY <3>2, <3>9 DEF Swap, LoneCopiesAreTrue
        <4>3. QED
          BY <4>1, <4>2
      <3>10. CASE OpenSdk(o)
        <4>1. snap' = snap /\ pc'[o] \in {"fill", "failed"}
              /\ (pc'[o] = "fill" => source' = TextOf({}))
          BY <3>10 DEF OpenSdk, Goto, TypeOK
        <4>2. snap[o].plan = Visible /\ snap[o].keys = KeysFor(Visible)
          BY <3>2, <3>10 DEF OpenSdk, LoneCopiesAreTrue
        <4>3. QED
          BY <4>1, <4>2
      <3>11. CASE FillSdk(o)
        <4>1. snap' = snap /\ pc[o] = "fill" /\ pc'[o] \in {"reload", "failed"}
              /\ ((pc'[o] = "reload" /\ source = TextOf({})) => source' = TextOf(snap[o].plan))
          BY <3>11 DEF FillSdk, Goto, TypeOK
        <4>2. /\ snap[o].plan = Visible /\ snap[o].keys = KeysFor(Visible)
              /\ source = TextOf({})
          BY <3>2, <4>1 DEF LoneCopiesAreTrue
        <4>3. QED
          BY <4>1, <4>2
      <3>12. QED
        BY <1>2, <2>7, <3>4, <3>5, <3>6, <3>7, <3>8, <3>9, <3>10, <3>11 DEF Regenerate
    <2>8. QED
      BY <2>6, <2>7
  <1>3. CASE \E c \in Clients : Register(c) \/ ReadDescription(c) \/ Leave(c)
    <2>1. UNCHANGED <<pc, connected, session, defaults, keysets, snap, sdk, worker, mounted, source, alone, settled>>
      BY <1>3 DEF Register, ReadDescription, Leave, state, mount, history
    <2>2. Visible' = Visible /\ KeysFor(Visible)' = KeysFor(Visible)
      BY <2>1, VisibleStays
    <2>3. QED
      BY <2>1, <2>2 DEF LoneCopiesAreTrue, Active
  <1>4. CASE WorkerDies
    <2>1. UNCHANGED <<pc, connected, session, defaults, keysets, snap, sdk, mounted, source, alone, settled>>
          /\ ~ worker'.up
      BY <1>0, <1>4 DEF WorkerDies, state, mount, history
    <2>2. Visible' = Visible /\ KeysFor(Visible)' = KeysFor(Visible)
      BY <2>1, VisibleStays
    <2>3. QED
      BY <2>1, <2>2 DEF LoneCopiesAreTrue, Active
  <1>5. CASE Stop
    <2>1. UNCHANGED <<connected, session, defaults, keysets, snap, sdk, worker, mounted, source, alone, settled>>
      BY <1>5 DEF Stop, state, mount, history
    <2>2. Visible' = Visible /\ KeysFor(Visible)' = KeysFor(Visible)
      BY <2>1, VisibleStays
    <2>3. \A q \in Ops : ~ Active(q)'
      BY <1>5 DEF Stop, Active
    <2>4. QED
      BY <1>0, <2>1, <2>2, <2>3 DEF LoneCopiesAreTrue, Active
  <1>6. CASE Start
    <2>1. alone' = {} /\ settled' = FALSE
      BY <1>6 DEF Start
    <2>2. QED
      BY <2>1 DEF LoneCopiesAreTrue
  <1>7. QED
    BY <1>1, <1>2, <1>3, <1>4, <1>5, <1>6 DEF Next

-----------------------------------------------------------------------------
(* Defaults made one at a time.                                            *)

\* The writer of mcp.json carries its content, and nobody writes beside it.
LEMMA SerialStep == TypeOK /\ StagesFit /\ SerialFilesAreKnown /\ Next => SerialFilesAreKnown'
  <1> SUFFICES ASSUME TypeOK, StagesFit, SerialFilesAreKnown, Next PROVE SerialFilesAreKnown'
    OBVIOUS
  <1>1. ASSUME NEW o \in Ops, Admin(o) \/ Regenerate(o), ~ overlap' PROVE SerialFilesAreKnown'
    <2>1. /\ \A q \in Ops : q # o => pc'[q] = pc[q]
          /\ up /\ up'
          /\ Active(o) \/ Begins(o) \/ (pc'[o] = "done" /\ UNCHANGED history /\ pc[o] = "idle")
          /\ ~ Begins(o) => overlap' = overlap /\ alone' \subseteq alone
      BY <1>1, OnlyItMoves
    <2> DEFINE Writing == {"truncate", "write", "remember"}
    <2>2. CASE pc'[o] \notin Writing /\ pc[o] \notin Writing /\ ~ ReadConfig(o)
      <3>1. UNCHANGED <<file, staged, wanted, boot, defaults>>
        BY <1>1, <2>2, ReloadFacts DEF Admin, Regenerate, StartAdmin, Connect, Turn, Learn,
           TruncateConfig, WriteConfig, Remember, Snapshot, Collect, Render, OpenSdk, FillSdk,
           Ship, Swap, Notify, config, state
      <3>2. ~ overlap
        BY <1>1, <2>1 DEF Begins
      <3>3. QED
        BY <2>1, <2>2, <3>1, <3>2 DEF SerialFilesAreKnown, AsWanted
    <2>3. CASE pc'[o] \in Writing \/ pc[o] \in Writing \/ ReadConfig(o)
      <3>1. /\ ReadConfig(o) \/ TruncateConfig(o) \/ WriteConfig(o) \/ Remember(o)
            /\ pc[o] \in {"read"} \cup Writing
        <4>1. CASE Reload(o)
          BY <2>3, <4>1, ReloadFacts DEF ReadConfig, TypeOK
        <4>2. CASE ~ Reload(o)
          BY <1>1, <2>3, <4>2 DEF Admin, Regenerate, StartAdmin, Starts, Arrives, Connect, Turn,
             Learn, ReadConfig, TruncateConfig, WriteConfig, Remember, Snapshot, Collect, Render,
             OpenSdk, FillSdk, Ship, Swap, Notify, Goto, TypeOK
        <4>3. QED
          BY <4>1, <4>2
      <3>2. ~ overlap /\ Active(o)
        <4>1. Active(o)
          BY <3>1 DEF Active
        <4>2. ~ overlap
          <5>1. CASE Begins(o)
            BY <1>1, <5>1 DEF Begins
          <5>2. CASE ~ Begins(o)
            <6>1. overlap' = overlap
              BY <2>1, <5>2
            <6>2. QED
              BY <1>1, <6>1
          <5>3. QED
            BY <5>1, <5>2
        <4>3. QED
          BY <4>1, <4>2
      <3>3. \A q \in Ops : q # o => pc'[q] \notin Writing /\ pc[q] \notin Writing
        BY <2>1, <3>2 DEF StagesFit, Active
      <3>4. CASE ReadConfig(o)
        <4>1. UNCHANGED <<file, wanted, boot, defaults>>
          BY <3>4 DEF ReadConfig, state
        <4>2. pc[o] = "read" /\ pc'[o] \in {"truncate", "failed"}
              /\ (pc'[o] = "truncate" => staged'[o] = file)
          BY <3>4 DEF ReadConfig, Goto, TypeOK
        <4>3. AsWanted(file) /\ boot = file.servers /\ defaults = file.tools
          BY <2>1, <3>2, <3>3, <4>2 DEF SerialFilesAreKnown
        <4>4. QED
          BY <3>3, <4>1, <4>2, <4>3 DEF SerialFilesAreKnown, AsWanted
      <3>5. CASE TruncateConfig(o)
        <4>1. UNCHANGED <<staged, wanted, boot, defaults>>
          BY <3>5 DEF TruncateConfig, state
        <4>2. pc[o] = "truncate" /\ pc'[o] = "write"
          BY <3>5 DEF TruncateConfig, Goto, TypeOK
        <4>3. AsWanted(file) /\ boot = file.servers /\ defaults = file.tools /\ staged[o] = file
          BY <2>1, <3>2, <3>3, <4>2 DEF SerialFilesAreKnown
        <4>4. QED
          BY <3>3, <4>1, <4>2, <4>3 DEF SerialFilesAreKnown, AsWanted
      <3>6. CASE WriteConfig(o)
        <4>1. UNCHANGED <<staged, boot, defaults>>
          BY <3>6 DEF WriteConfig, state
        <4>2. pc[o] = "write" /\ pc'[o] = "remember" 
              /\ file' = Changed(o, staged[o]) /\ wanted' = Changed(o, wanted)
          BY <3>6 DEF WriteConfig, Goto, TypeOK
        <4>3. AsWanted(staged[o]) /\ boot = staged[o].servers /\ defaults = staged[o].tools
          BY <2>1, <3>2, <4>2 DEF SerialFilesAreKnown
        <4>4. staged[o] \in Files /\ wanted \in Files
          BY DEF TypeOK
        <4>5. Kind(o) # "learn" /\ Kind(o) \in Kinds
          BY <4>2, RequestFacts DEF StagesFit
        <4>6. ToolOp(o) <=> Kind(o) \notin {"enable", "disable"}
          BY <4>5 DEF ToolOp, Kinds
        <4>7. AsWanted(file)'
          <5>1. /\ staged[o].intact /\ staged[o].servers = wanted.servers
                /\ staged[o].tools = wanted.tools
            BY <4>3 DEF AsWanted
          <5>2. /\ Changed(o, staged[o]).intact
                /\ Changed(o, staged[o]).servers = Changed(o, wanted).servers
                /\ Changed(o, staged[o]).tools = Changed(o, wanted).tools
            <6> DEFINE EntryChanges(f) ==
                  /\ Changed(o, f).intact = f.intact
                  /\ Kind(o) \in {"enable", "disable"} =>
                       /\ Changed(o, f).servers = [f.servers EXCEPT ![Server(o)] = (Kind(o) = "enable")]
                       /\ Changed(o, f).tools = f.tools
                  /\ Kind(o) \notin {"enable", "disable"} =>
                       /\ Changed(o, f).servers = f.servers
                       /\ Changed(o, f).tools = [f.tools EXCEPT ![Tool(o)] =
                                                   IF Kind(o) = "enable_tool" THEN "on" ELSE "off"]
            <6>1. EntryChanges(staged[o]) /\ EntryChanges(wanted)
              BY <4>4, ChangedFacts
            <6>2. QED
              BY <5>1, <6>1
          <5>3. QED
            BY <4>2, <5>2 DEF AsWanted
        <4>8. IF ToolOp(o)
              THEN /\ boot = file'.servers
                   /\ file'.tools = [defaults EXCEPT ![Tool(o)] =
                                        IF Kind(o) = "enable_tool" THEN "on" ELSE "off"]
              ELSE /\ defaults = file'.tools
                   /\ file'.servers = [boot EXCEPT ![Server(o)] = (Kind(o) = "enable")]
          BY <4>2, <4>3, <4>4, <4>6, ChangedFacts
        <4>9. QED
          BY <3>3, <4>1, <4>2, <4>7, <4>8 DEF SerialFilesAreKnown
      <3>7. CASE Remember(o)
        <4>1. UNCHANGED <<file, wanted, staged>>
          BY <3>7 DEF Remember, config
        <4>2. pc[o] = "remember" /\ pc'[o] \in {"snapshot", "done"}
          BY <3>7 DEF Remember, Goto, TypeOK
        <4>3. /\ AsWanted(file)
              /\ IF ToolOp(o)
                 THEN /\ boot = file.servers
                      /\ file.tools = [defaults EXCEPT ![Tool(o)] =
                                          IF Kind(o) = "enable_tool" THEN "on" ELSE "off"]
                 ELSE /\ defaults = file.tools
                      /\ file.servers = [boot EXCEPT ![Server(o)] = (Kind(o) = "enable")]
          BY <2>1, <3>2, <4>2 DEF SerialFilesAreKnown
        <4>4. boot' = file.servers /\ defaults' = file.tools
          BY <3>7, <4>3 DEF Remember
        <4>5. QED
          BY <3>3, <4>1, <4>2, <4>3, <4>4 DEF SerialFilesAreKnown, AsWanted
      <3>8. QED
        BY <3>1, <3>4, <3>5, <3>6, <3>7
    <2>4. QED
      BY <2>2, <2>3
  <1>2. CASE \/ \E c \in Clients : Register(c) \/ ReadDescription(c) \/ Leave(c)
             \/ WorkerDies
    <2>1. UNCHANGED <<up, pc, boot, defaults, file, staged, wanted, overlap>>
      BY <1>2 DEF Register, ReadDescription, Leave, WorkerDies, process, state, config, history
    <2>2. QED
      BY <2>1 DEF SerialFilesAreKnown, AsWanted
  <1>3. CASE Stop
    BY <1>3 DEF Stop, SerialFilesAreKnown
  <1>4. CASE Start
    <2>1. /\ file'.intact /\ wanted' = file' /\ boot' = file'.servers /\ defaults' = file'.tools
      BY <1>4 DEF Start
    <2>2. \A q \in Ops : ~ Active(q) /\ pc'[q] = pc[q]
      BY <1>4 DEF Start, StagesFit, Quiet
    <2>3. QED
      BY <2>1, <2>2 DEF SerialFilesAreKnown, AsWanted, Active
  <1>5. QED
    BY <1>1, <1>2, <1>3, <1>4 DEF Next, SerialFilesAreKnown

-----------------------------------------------------------------------------
(* Theorems.                                                               *)

\* A gateway that has just started satisfies the invariant.
LEMMA InitIInv == Init => IInv
  <1> SUFFICES ASSUME Init PROVE IInv
    OBVIOUS
  <1>1. TypeOK
    BY InitTypeOK
  <1>2. up /\ (\A o \in Ops : pc[o] = "idle") /\ alone = {} /\ settled = FALSE /\ overlap = FALSE
    BY DEF Init
  <1>3. StagesFit
    BY <1>2 DEF StagesFit, Quiet, Active
  <1>4. DescribedIsLoaded /\ PlansAreLoaded /\ FileIsWritten
    BY <1>2 DEF Init, FreshWorker, DescribedIsLoaded, PlansAreLoaded, FileIsWritten, Pushing
  <1>5. NoChangeIsMissed /\ ListersArePeers
    BY DEF Init, NoChangeIsMissed, ListersArePeers
  <1>6. LoneCopiesAreTrue
    BY <1>2 DEF LoneCopiesAreTrue
  <1>7. SerialFilesAreKnown
    BY <1>2, ParametersTyped DEF Init, SerialFilesAreKnown, AsWanted
  <1>8. QED
    BY <1>1, <1>3, <1>4, <1>5, <1>6, <1>7 DEF IInv

\* Every step keeps it.
LEMMA StepIInv == IInv /\ [Next]_vars => IInv'
  <1> SUFFICES ASSUME IInv, [Next]_vars PROVE IInv'
    OBVIOUS
  <1>1. CASE UNCHANGED vars
    BY <1>1, StutterKeeps
  <1>2. CASE Next
    <2>1. TypeOK'
      BY <1>2, AdminTypes, RegenerateTypes, OtherTypes DEF IInv, Next
    <2>2. StagesFit'
      BY <1>2, StagesStep DEF IInv
    <2>3. DescribedIsLoaded' /\ PlansAreLoaded' /\ FileIsWritten'
      BY <1>2, LoadedStep, FileStep DEF IInv
    <2>4. NoChangeIsMissed' /\ ListersArePeers'
      BY <1>2, MissedStep DEF IInv
    <2>5. LoneCopiesAreTrue'
      BY <1>2, LoneStep DEF IInv
    <2>6. SerialFilesAreKnown'
      BY <1>2, SerialStep DEF IInv
    <2>7. QED
      BY <2>1, <2>2, <2>3, <2>4, <2>5, <2>6 DEF IInv
  <1>3. QED
    BY <1>1, <1>2

\* The invariant holds of every behaviour, however operations interleave, fail
\* and are cut short.
THEOREM RuntimeInductive == Spec => []IInv
  BY InitIInv, StepIInv, PTL DEF Spec

\* Every variable of the runtime keeps its type.
THEOREM RuntimeTyped == Spec => []TypeOK
  <1>1. IInv => TypeOK
    BY DEF IInv
  <1>2. QED
    BY <1>1, RuntimeInductive, PTL

\* A function the description shows has been loaded by the worker, or its push crossed
\* another one or was answered without having been loaded (regenerate_and_reload in
\* runtime.rs, reload_sdk in docker.rs).
THEOREM LoadedTheorem == Spec => []DescribedIsLoaded
  <1>1. IInv => DescribedIsLoaded
    BY DEF IInv
  <1>2. QED
    BY <1>1, RuntimeInductive, PTL

\* A client with an old list has a notification, or one is about to be sent to it
\* (list_tools in server.rs, notify_tools_changed in runtime.rs).
THEOREM NotifiedTheorem == Spec => []NoChangeIsMissed
  <1>1. IInv => NoChangeIsMissed
    BY DEF IInv
  <1>2. QED
    BY <1>1, RuntimeInductive, PTL

\* An operation that regenerates alone leaves the description, the worker and
\* the keysets at the effective state.
THEOREM SettledTheorem == Spec => []LoneOperationsSettle
  <1>1. IInv => LoneOperationsSettle
    BY DEF IInv, LoneCopiesAreTrue, LoneOperationsSettle
  <1>2. QED
    BY <1>1, RuntimeInductive, PTL

\* While operations do not overlap, mcp.json and memory hold every default made
\* one, across restarts (set_enabled and set_tool_enabled in config.rs).
THEOREM DefaultsTheorem == Spec => []SerialDefaultsAgree
  <1>1. IInv => SerialDefaultsAgree
    BY DEF IInv, SerialFilesAreKnown, SerialDefaultsAgree, AsWanted, Quiet, Active
  <1>2. QED
    BY <1>1, RuntimeInductive, PTL

-----------------------------------------------------------------------------
(* The functions of the SDK.                                               *)

\* Appending to a sequence of anything.
LEMMA Appended ==
  ASSUME NEW S, NEW s \in Seq(S), NEW e
  PROVE  /\ Append(s, e) \in Seq({Append(s, e)[i] : i \in DOMAIN Append(s, e)})
         /\ Len(s) \in Nat /\ Len(Append(s, e)) = Len(s) + 1
         /\ DOMAIN s = 1 .. Len(s)
         /\ DOMAIN Append(s, e) = 1 .. (Len(s) + 1)
         /\ \A i \in DOMAIN s : Append(s, e)[i] = s[i]
         /\ Append(s, e)[Len(s) + 1] = e
  <1>1. s \in Seq(S \cup {e})
    OBVIOUS
  <1>2. /\ Append(s, e) \in Seq(S \cup {e}) /\ Len(Append(s, e)) = Len(s) + 1
        /\ \A i \in 1 .. Len(s) : Append(s, e)[i] = s[i]
        /\ Append(s, e)[Len(s) + 1] = e
    BY <1>1, AppendProperties
  <1>3. Len(s) \in Nat /\ DOMAIN s = 1 .. Len(s) /\ DOMAIN Append(s, e) = 1 .. (Len(s) + 1)
    BY <1>2
  <1>4. Append(s, e) \in Seq({Append(s, e)[i] : i \in DOMAIN Append(s, e)})
    <2> DEFINE T == {Append(s, e)[i] : i \in DOMAIN Append(s, e)}
    <2> DEFINE f == Append(s, e)
    <2>1. f = [i \in 1 .. (Len(s) + 1) |-> f[i]]
      <3> HIDE DEF f
      <3>1. f \in Seq(S \cup {e}) /\ Len(f) = Len(s) + 1
        BY <1>2 DEF f
      <3>2. f \in [1 .. (Len(s) + 1) -> S \cup {e}]
        BY <3>1, LenProperties
      <3>3. QED
        BY <3>2
    <2>2. Len(s) + 1 \in Nat /\ \A i \in 1 .. (Len(s) + 1) : f[i] \in T
      BY <1>3
    <2>3. f \in [1 .. (Len(s) + 1) -> T]
      <3> HIDE DEF f, T
      <3>1. QED
        BY <2>1, <2>2
    <2>4. QED
      <3> HIDE DEF f
      <3>1. f \in Seq(T)
        <4> HIDE DEF T
        <4>1. QED
          BY <2>2, <2>3
      <3>2. QED
        BY <3>1 DEF f
  <1>5. QED
    BY <1>2, <1>3, <1>4

\* The last binding of a name is where it is.
LEMMA LastIsUnique ==
  ASSUME NEW S, NEW bs \in Seq(S), NEW fn, NEW i \in DOMAIN bs, IsLast(bs, fn, i)
  PROVE  LastOf(bs, fn) = i
  <1>1. DOMAIN bs = 1 .. Len(bs) /\ Len(bs) \in Nat
    OBVIOUS
  <1>2. LastOf(bs, fn) \in DOMAIN bs /\ IsLast(bs, fn, LastOf(bs, fn))
    BY DEF LastOf
  <1>3. LastOf(bs, fn) <= i /\ i <= LastOf(bs, fn)
    BY <1>2 DEF IsLast
  <1>4. QED
    BY <1>1, <1>2, <1>3

\* A new binding of a name hides the others, and leaves other names alone.
LEMMA DefinedAppended ==
  ASSUME NEW S, NEW bs \in Seq(S), NEW b,
         \A fn \in DOMAIN Defined(bs) : \E i \in DOMAIN bs : IsLast(bs, fn, i)
  PROVE  /\ Defined(Append(bs, b)) = With(Defined(bs), b.fn, b.tool)
         /\ \A fn \in DOMAIN Defined(Append(bs, b)) :
              \E i \in DOMAIN Append(bs, b) : IsLast(Append(bs, b), fn, i)
  <1> DEFINE cs == Append(bs, b)
             n == Len(bs) + 1
  <1>1. /\ cs \in Seq({cs[i] : i \in DOMAIN cs})
        /\ Len(bs) \in Nat /\ DOMAIN bs = 1 .. Len(bs) /\ DOMAIN cs = 1 .. n
        /\ \A i \in DOMAIN bs : cs[i] = bs[i]
        /\ cs[n] = b
    BY Appended
  <1>2. n \in DOMAIN cs /\ n \in Nat /\ DOMAIN cs = DOMAIN bs \cup {n} /\ n \notin DOMAIN bs
    BY <1>1
  <1> HIDE DEF cs, n
  <1>3. DOMAIN Defined(cs) = DOMAIN Defined(bs) \cup {b.fn}
    <2>1. /\ DOMAIN Defined(cs) = {cs[i].fn : i \in DOMAIN cs}
          /\ DOMAIN Defined(bs) = {bs[i].fn : i \in DOMAIN bs}
      BY DEF Defined
    <2>2. \A i \in DOMAIN bs : cs[i] = bs[i] /\ i \in DOMAIN cs
      BY <1>1, <1>2
    <2>3. \A i \in DOMAIN cs : i \in DOMAIN bs \/ (i = n /\ cs[i] = b)
      BY <1>1, <1>2
    <2>4. cs[n] = b /\ n \in DOMAIN cs
      BY <1>1, <1>2
    <2>5. QED
      BY <2>1, <2>2, <2>3, <2>4
  <1>4. n \in DOMAIN cs /\ IsLast(cs, b.fn, n)
    BY <1>1, <1>2 DEF IsLast, n
  <1>5. ASSUME NEW fn \in DOMAIN Defined(bs), fn # b.fn, NEW i \in DOMAIN bs, IsLast(bs, fn, i)
        PROVE  i \in DOMAIN cs /\ IsLast(cs, fn, i) /\ cs[i] = bs[i]
    <2>1. i \in DOMAIN cs /\ cs[i] = bs[i]
      BY <1>1, <1>2
    <2>2. cs[i].fn = fn
      BY <1>5, <2>1 DEF IsLast
    <2>3. ASSUME NEW j \in DOMAIN cs, cs[j].fn = fn PROVE j <= i
      <3>1. j # n
        BY <1>1, <1>5, <2>3
      <3>2. j \in DOMAIN bs /\ bs[j].fn = fn
        BY <1>1, <1>2, <2>3, <3>1
      <3>3. QED
        BY <1>5, <3>2 DEF IsLast
    <2>4. QED
      BY <2>1, <2>2, <2>3 DEF IsLast
  <1>6. \A fn \in DOMAIN Defined(cs) : \E i \in DOMAIN cs : IsLast(cs, fn, i)
    BY <1>3, <1>4, <1>5
  <1>7. \A fn \in DOMAIN Defined(cs) :
          Defined(cs)[fn] = IF fn = b.fn THEN b.tool ELSE Defined(bs)[fn]
    <2> TAKE fn \in DOMAIN Defined(cs)
    <2>1. Defined(cs)[fn] = cs[LastOf(cs, fn)].tool
      BY DEF Defined
    <2>2. CASE fn = b.fn
      <3>1. LastOf(cs, fn) = n
        BY <1>1, <1>4, <2>2, LastIsUnique
      <3>2. QED
        BY <1>1, <2>1, <2>2, <3>1
    <2>3. CASE fn # b.fn
      <3>1. fn \in DOMAIN Defined(bs)
        BY <1>3, <2>3
      <3>2. PICK i \in DOMAIN bs : IsLast(bs, fn, i)
        BY <3>1
      <3>3. LastOf(bs, fn) = i
        BY <3>2, LastIsUnique
      <3>4. i \in DOMAIN cs /\ IsLast(cs, fn, i) /\ cs[i] = bs[i]
        BY <1>5, <2>3, <3>1, <3>2
      <3>5. LastOf(cs, fn) = i
        BY <1>1, <3>4, LastIsUnique
      <3>6. Defined(bs)[fn] = bs[i].tool
        BY <3>1, <3>3 DEF Defined
      <3>7. QED
        BY <2>1, <2>3, <3>4, <3>5, <3>6
    <2>4. QED
      BY <2>2, <2>3
  <1>8. Defined(cs) = With(Defined(bs), b.fn, b.tool)
    <2>1. Defined(cs) = [fn \in DOMAIN Defined(cs) |-> Defined(cs)[fn]]
      BY DEF Defined
    <2>2. QED
      BY <1>3, <1>7, <2>1 DEF With
  <1>9. QED
    BY <1>6, <1>8 DEF cs

\* The invariant of the names holds before the first tool is bound.
LEMMA NamesInitIInv == NamesInit => NamesIInv
  <1> SUFFICES ASSUME NamesInit PROVE NamesIInv
    OBVIOUS
  <1>1. tools \in BoundedSeq(Catalog, MaxTools) /\ IsInjective(tools)
    BY DEF NamesInit
  <1>2. PICK m \in 0 .. MaxTools : tools \in [1 .. m -> Catalog]
    BY <1>1 DEF BoundedSeq, SeqOf
  <1>3. m \in Nat
    BY <1>2
  <1>4. tools \in Seq(Catalog)
    BY <1>2, <1>3
  <1>5. /\ bindings = <<>> /\ count = <<>> /\ route = <<>> /\ imported = NotLoaded
        /\ bindings \in Seq({}) /\ Len(bindings) = 0 /\ DOMAIN bindings = {}
        /\ DOMAIN route = {} /\ DOMAIN count = {}
    BY DEF NamesInit
  <1>6. bindings \in Seq({bindings[i] : i \in DOMAIN bindings})
    <2>1. {bindings[i] : i \in DOMAIN bindings} = {}
      BY <1>5
    <2>2. QED
      BY <1>5, <2>1
  <1>7. route = Defined(bindings)
    <2>1. DOMAIN Defined(bindings) = {}
      BY <1>5 DEF Defined
    <2>2. Defined(bindings) = [fn \in {} |-> bindings[LastOf(bindings, fn)].tool]
      BY <1>5 DEF Defined
    <2>3. QED
      BY <1>5, <2>2
  <1>8. BoundInOrder
    <2>1. Len(tools) \in Nat
      BY <1>4
    <2>2. QED
      BY <1>1, <1>4, <1>5, <1>6, <1>7, <2>1 DEF BoundInOrder
  <1>9. LoadedWhole
    BY <1>5 DEF LoadedWhole, NotLoaded, NamesInit
  <1>10. QED
    BY <1>8, <1>9 DEF NamesIInv

\* What the next binding is.
LEMMA BindFacts ==
  ASSUME NamesIInv, Bind
  PROVE  LET n == Len(bindings) + 1
             base == FnName(tools[n].server, tools[n].name)
             b == [fn |-> Numbered(base), tool |-> tools[n], writes |-> Writes(tools[n])]
         IN /\ n \in DOMAIN tools /\ n \notin DOMAIN bindings
            /\ bindings' = Append(bindings, b)
            /\ DOMAIN bindings' = DOMAIN bindings \cup {n}
            /\ \A i \in DOMAIN bindings : bindings'[i] = bindings[i]
            /\ bindings'[n] = b
            /\ Len(bindings') = n /\ n <= Len(tools)
            /\ bindings' \in Seq({bindings'[i] : i \in DOMAIN bindings'})
            /\ DOMAIN count' = DOMAIN count \cup {base}
            /\ route' = With(route, b.fn, b.tool)
            /\ UNCHANGED <<tools, imported, dry, calls>>
  <1> DEFINE n == Len(bindings) + 1
             base == FnName(tools[n].server, tools[n].name)
             b == [fn |-> Numbered(base), tool |-> tools[n], writes |-> Writes(tools[n])]
  <1>1. /\ bindings' = Append(bindings, b)
        /\ count' = With(count, base, Uses(base) + 1)
        /\ route' = With(route, b.fn, b.tool)
        /\ UNCHANGED <<tools, imported, dry, calls>>
        /\ Len(bindings) < Len(tools)
    BY DEF Bind
  <1>2. bindings \in Seq({bindings[i] : i \in DOMAIN bindings}) /\ tools \in Seq(Catalog)
    BY DEF NamesIInv, BoundInOrder
  <1>3. DOMAIN count' = DOMAIN count \cup {base}
    BY <1>1 DEF With
  <1> HIDE DEF base, b
  <1>4. /\ Append(bindings, b) \in Seq({Append(bindings, b)[i] : i \in DOMAIN Append(bindings, b)})
        /\ Len(bindings) \in Nat /\ Len(Append(bindings, b)) = Len(bindings) + 1
        /\ DOMAIN bindings = 1 .. Len(bindings)
        /\ DOMAIN Append(bindings, b) = 1 .. (Len(bindings) + 1)
        /\ \A i \in DOMAIN bindings : Append(bindings, b)[i] = bindings[i]
        /\ Append(bindings, b)[Len(bindings) + 1] = b
    BY <1>2, Appended
  <1>5. Len(tools) \in Nat /\ DOMAIN tools = 1 .. Len(tools)
    BY <1>2
  <1>6. n \in DOMAIN tools /\ n \notin DOMAIN bindings /\ n <= Len(tools)
    BY <1>1, <1>4, <1>5
  <1>7. DOMAIN bindings' = DOMAIN bindings \cup {n} /\ Len(bindings') = n
    BY <1>1, <1>4
  <1>8. /\ bindings' \in Seq({bindings'[i] : i \in DOMAIN bindings'})
        /\ \A i \in DOMAIN bindings : bindings'[i] = bindings[i]
        /\ bindings'[n] = b
    BY <1>1, <1>4
  <1>9. QED
    BY <1>1, <1>3, <1>6, <1>7, <1>8 DEF b, base

\* Every step keeps it.
LEMMA NamesStep == NamesIInv /\ [NamesNext]_namesVars => NamesIInv'
  <1> SUFFICES ASSUME NamesIInv, [NamesNext]_namesVars PROVE NamesIInv'
    OBVIOUS
  <1>1. CASE Bind
    <2> DEFINE n == Len(bindings) + 1
               base == FnName(tools[n].server, tools[n].name)
               b == [fn |-> Numbered(base), tool |-> tools[n], writes |-> Writes(tools[n])]
    <2>1. /\ n \in DOMAIN tools /\ n \notin DOMAIN bindings
          /\ bindings' = Append(bindings, b)
          /\ DOMAIN bindings' = DOMAIN bindings \cup {n}
          /\ \A i \in DOMAIN bindings : bindings'[i] = bindings[i]
          /\ bindings'[n] = b
          /\ Len(bindings') = n /\ n <= Len(tools)
          /\ bindings' \in Seq({bindings'[i] : i \in DOMAIN bindings'})
          /\ DOMAIN count' = DOMAIN count \cup {base}
          /\ route' = With(route, b.fn, b.tool)
          /\ UNCHANGED <<tools, imported, dry, calls>>
      BY <1>1, BindFacts
    <2>2. /\ bindings'[n].tool = tools[n] /\ bindings'[n].writes = Writes(tools[n])
      BY <2>1
    <2> HIDE DEF n, b
    <2>3. \A i \in DOMAIN bindings' : 
            bindings'[i].tool = tools'[i] /\ bindings'[i].writes = Writes(tools'[i])
      BY <2>1, <2>2 DEF NamesIInv, BoundInOrder
    <2>4. DOMAIN count' = {FnName(tools'[i].server, tools'[i].name) : i \in DOMAIN bindings'}
      BY <2>1 DEF NamesIInv, BoundInOrder
    <2>5. /\ route' = Defined(bindings')
          /\ \A fn \in DOMAIN route' : \E i \in DOMAIN bindings' : IsLast(bindings', fn, i)
      BY <2>1, DefinedAppended DEF NamesIInv, BoundInOrder
    <2>6. BoundInOrder'
      BY <2>1, <2>3, <2>4, <2>5 DEF NamesIInv, BoundInOrder
    <2>7. ~ imported.loaded
      <3>1. Len(bindings) < Len(tools)
        BY <1>1 DEF Bind
      <3>2. Len(bindings) \in Nat /\ Len(tools) \in Nat
        BY DEF NamesIInv, BoundInOrder
      <3>3. QED
        BY <3>1, <3>2 DEF NamesIInv, LoadedWhole
    <2>8. LoadedWhole'
      BY <2>1, <2>7 DEF NamesIInv, LoadedWhole
    <2>9. QED
      BY <2>6, <2>8 DEF NamesIInv
  <1>2. CASE Load
    <2>1. /\ UNCHANGED <<tools, bindings, count, route>> /\ Len(bindings) = Len(tools)
          /\ imported'.functions = Defined(bindings) /\ imported'.mutations = Mutations
          /\ imported'.loaded
      BY <1>2 DEF Load
    <2>2. BoundInOrder' /\ Mutations' = Mutations
      BY <2>1 DEF NamesIInv, BoundInOrder, Mutations
    <2>3. route = Defined(bindings)
      BY DEF NamesIInv, BoundInOrder
    <2>4. QED
      BY <2>1, <2>2, <2>3 DEF NamesIInv, LoadedWhole
  <1>3. CASE UNCHANGED <<tools, bindings, count, route, imported>>
             /\ (imported.loaded \/ calls' = calls)
    <2>1. BoundInOrder' /\ Mutations' = Mutations
      BY <1>3 DEF NamesIInv, BoundInOrder, Mutations
    <2>2. QED
      BY <1>3, <2>1 DEF NamesIInv, LoadedWhole
  <1>4. ASSUME NEW fn \in Namespace PROVE imported.loaded
    <2>1. fn \in DOMAIN imported.functions
      BY DEF Namespace
    <2>2. imported.functions # <<>>
      BY <2>1
    <2>3. QED
      BY <2>2 DEF NamesIInv, LoadedWhole
  <1>5. QED
    BY <1>1, <1>2, <1>3, <1>4 DEF NamesNext, BeginRun, Call, namesVars

\* The names, the routes and the module at each step, for any catalog.
THEOREM NamesInductive == NamesSpec => []NamesIInv
  BY NamesInitIInv, NamesStep, PTL DEF NamesSpec

\* The gateway's route of a name and the worker's module mean the same tool by it
\* (SdkRegistry::build_with_overrides and generate_sdk_py in sdk/mod.rs).
THEOREM RoutesTheorem == NamesSpec => []RoutesMatchTheModule
  <1>1. NamesIInv => RoutesMatchTheModule
    BY DEF NamesIInv, LoadedWhole, RoutesMatchTheModule
  <1>2. QED
    BY <1>1, NamesInductive, PTL

\* What is bound was offered.
LEMMA BoundToolsExist ==
  ASSUME NamesIInv
  PROVE  DOMAIN bindings \subseteq DOMAIN tools /\ \A i \in DOMAIN tools : tools[i] \in Catalog
  <1>1. /\ tools \in Seq(Catalog) /\ bindings \in Seq({bindings[i] : i \in DOMAIN bindings})
        /\ Len(bindings) <= Len(tools)
    BY DEF NamesIInv, BoundInOrder
  <1>2. /\ Len(bindings) \in Nat /\ Len(tools) \in Nat
        /\ DOMAIN bindings = 1 .. Len(bindings) /\ DOMAIN tools = 1 .. Len(tools)
    BY <1>1
  <1>3. QED
    BY <1>1, <1>2

\* A tool that shares its name with no other is not numbered.
LEMMA LoneNamesStep ==
  ASSUME NamesIInv, LoneNamesAreKept, [NamesNext]_namesVars
  PROVE  LoneNamesAreKept'
  <1>1. CASE Bind
    <2> DEFINE n == Len(bindings) + 1
               base == FnName(tools[n].server, tools[n].name)
               b == [fn |-> Numbered(base), tool |-> tools[n], writes |-> Writes(tools[n])]
    <2>1. /\ n \in DOMAIN tools /\ n \notin DOMAIN bindings
          /\ DOMAIN bindings' = DOMAIN bindings \cup {n}
          /\ \A i \in DOMAIN bindings : bindings'[i] = bindings[i]
          /\ bindings'[n] = b
          /\ tools' = tools
      BY <1>1, BindFacts
    <2>2. Shares(tools[n]) \/ Numbered(base) = base
      <3> SUFFICES ASSUME ~ Shares(tools[n]) PROVE Numbered(base) = base
        OBVIOUS
      <3> HIDE DEF n
      <3>1. IsInjective(tools)
        BY DEF NamesIInv, BoundInOrder
      <3>2. DOMAIN bindings \subseteq DOMAIN tools
        BY BoundToolsExist
      <3>3. \A i \in DOMAIN bindings : tools[i] \in Range(tools) \ {tools[n]}
        BY <2>1, <3>1, <3>2 DEF IsInjective, Range
      <3>4. \A i \in DOMAIN bindings : FnName(tools[i].server, tools[i].name) # base
        BY <3>3 DEF Shares, Base
      <3>5. base \notin DOMAIN count
        BY <3>4 DEF NamesIInv, BoundInOrder
      <3>6. QED
        BY <3>5 DEF Uses, Numbered
    <2>3. bindings'[n].fn = Numbered(base) /\ base = Base(tools[n])
      BY <2>1 DEF Base
    <2>4. \A t : Shares(t)' <=> Shares(t)
      BY <2>1 DEF Shares
    <2> HIDE DEF n, b, base
    <2>5. \A i \in DOMAIN bindings' : Shares(tools[i]) \/ bindings'[i].fn = Base(tools[i])
      BY <2>1, <2>2, <2>3 DEF LoneNamesAreKept
    <2>6. QED
      BY <2>1, <2>4, <2>5 DEF LoneNamesAreKept
  <1>2. CASE ~ Bind
    <2>1. UNCHANGED <<tools, bindings>>
      BY <1>2 DEF NamesNext, Load, BeginRun, Call, namesVars
    <2>2. QED
      BY <2>1 DEF LoneNamesAreKept, Shares
  <1>3. QED
    BY <1>1, <1>2

\* On ordinary words the worker's identifier is the generator's.
LEMMA OrdinaryWords ==
  ASSUME NEW raw \in Seq(STRING), Ordinary(raw)
  PROVE  Sanitize(raw) = [i \in DOMAIN raw |-> IF raw[i] \in Separators THEN "_" ELSE raw[i]]
  <1> DEFINE clean == [i \in DOMAIN raw |-> IF raw[i] \in Separators \cup Accented THEN "_" ELSE raw[i]]
  <1>1. clean = [i \in DOMAIN raw |-> IF raw[i] \in Separators THEN "_" ELSE raw[i]]
    BY DEF Ordinary
  <1>2. /\ Len(raw) \in Nat /\ DOMAIN raw = 1 .. Len(raw) /\ Len(raw) # 0
        /\ 1 \in DOMAIN raw
    BY DEF Ordinary
  <1>3. clean \in Seq(STRING \cup {"_"}) /\ Len(clean) = Len(raw) /\ clean # <<>>
    <2>1. ASSUME NEW i \in DOMAIN raw PROVE clean[i] \in STRING \cup {"_"}
      <3>1. raw[i] \in STRING
        <4>1. \A S : \A q \in Seq(S) : \A j \in 1 .. Len(q) : q[j] \in S
          OBVIOUS
        <4>2. QED
          BY <1>2, <2>1, <4>1
      <3>2. clean[i] = "_" \/ clean[i] = raw[i]
        BY <2>1
      <3> HIDE DEF clean
      <3>3. QED
        BY <3>1, <3>2
    <2>2. clean \in [1 .. Len(raw) -> STRING \cup {"_"}]
      <3>1. clean \in [DOMAIN raw -> STRING \cup {"_"}]
        BY <2>1
      <3>2. QED
        BY <1>2, <3>1
    <2> HIDE DEF clean
    <2>3. clean \in Seq(STRING \cup {"_"}) /\ Len(clean) = Len(raw)
      <3>1. \A S : \A n \in Nat : \A q \in [1 .. n -> S] : q \in Seq(S) /\ Len(q) = n
        OBVIOUS
      <3>2. QED
        BY <1>2, <2>2, <3>1
    <2>4. QED
      BY <1>2, <2>3
  <1>4. clean[1] \in {"_", raw[1]} /\ clean[1] \notin Numbers
    BY <1>2, UnderscoreIsPlain DEF Ordinary
  <1>5. Len(clean) = 1 => clean[1] \notin Keywords
    BY <1>3, <1>4, UnderscoreIsPlain DEF Ordinary
  <1> HIDE DEF clean
  <1>6. Sanitize(raw) =
          LET led == IF clean = <<>> \/ clean[1] \in Numbers THEN <<"_">> \o clean ELSE clean
          IN IF Len(led) = 1 /\ led[1] \in Keywords THEN led \o <<"_">> ELSE led
    BY DEF Sanitize, clean
  <1>7. QED
    BY <1>1, <1>3, <1>4, <1>5, <1>6

\* The tool behind a name of the module is the one of its last binding, and all that
\* is known of it.
LEMMA CalledTool ==
  ASSUME NamesIInv, LoneNamesAreKept, NEW fn \in Namespace
  PROVE  LET t == imported.functions[fn]
             found == WorkerFnName(t.server, t.name)
         IN /\ Ordinary(t.server) /\ Ordinary(t.name) => found = Base(t)
            /\ found \in imported.mutations <=>
                 \E i \in DOMAIN bindings : bindings[i].writes /\ bindings[i].fn = found
            /\ Writes(t) /\ ~ Shares(t) =>
                 \E i \in DOMAIN bindings : bindings[i].writes /\ bindings[i].fn = Base(t)
  <1> DEFINE t == imported.functions[fn]
             found == WorkerFnName(t.server, t.name)
  <1>1. imported.loaded /\ fn \in DOMAIN imported.functions
    <2>1. fn \in DOMAIN imported.functions
      BY DEF Namespace
    <2>2. imported.functions # <<>>
      BY <2>1
    <2>3. QED
      BY <2>1, <2>2 DEF NamesIInv, LoadedWhole
  <1>2. imported.functions = Defined(bindings) /\ imported.mutations = Mutations
        /\ fn \in DOMAIN route /\ route = Defined(bindings)
    BY <1>1 DEF NamesIInv, LoadedWhole, BoundInOrder
  <1>3. /\ tools \in Seq(Catalog) /\ bindings \in Seq({bindings[i] : i \in DOMAIN bindings})
        /\ \A i \in DOMAIN bindings :
             bindings[i].tool = tools[i] /\ bindings[i].writes = Writes(tools[i])
    BY DEF NamesIInv, BoundInOrder
  <1>4. \A i \in DOMAIN bindings : tools[i] \in Catalog
    BY <1>3, BoundToolsExist
  <1>5. PICK i \in DOMAIN bindings : IsLast(bindings, fn, i)
    BY <1>2 DEF NamesIInv, BoundInOrder
  <1>6. t = tools[i] /\ t \in Catalog
    <2>1. LastOf(bindings, fn) = i
      BY <1>3, <1>5, LastIsUnique
    <2>2. t = bindings[LastOf(bindings, fn)].tool
      BY <1>2 DEF Defined
    <2>3. QED
      BY <1>3, <1>4, <2>1, <2>2
  <1> HIDE DEF t
  <1>7. Ordinary(t.server) /\ Ordinary(t.name) => found = Base(t)
    <2>1. t.server \in Seq(STRING) /\ t.name \in Seq(STRING)
      BY <1>6, CatalogDescribed DEF Described
    <2>2. QED
      BY <2>1, OrdinaryWords DEF WorkerFnName, Base, FnName
  <1>8. found \in imported.mutations <=>
          \E j \in DOMAIN bindings : bindings[j].writes /\ bindings[j].fn = found
    BY <1>2 DEF Mutations
  <1>9. Writes(t) /\ ~ Shares(t) =>
          \E j \in DOMAIN bindings : bindings[j].writes /\ bindings[j].fn = Base(t)
    BY <1>3, <1>6 DEF LoneNamesAreKept
  <1>10. QED
    BY <1>7, <1>8, <1>9 DEF t

\* What dry runs get wrong is a matter of names (Dispatcher.call_tool in bootstrap.py,
\* build_with_overrides in sdk/mod.rs), for any catalog of tools.
THEOREM DryRunTheorem == NamesSpec => []DryRunErrsOnNamesOnly
  <1>1. NamesInit => LoneNamesAreKept /\ DryRunErrsOnNamesOnly
    BY DEF NamesInit, LoneNamesAreKept, DryRunErrsOnNamesOnly
  <1>2. NamesIInv /\ LoneNamesAreKept /\ DryRunErrsOnNamesOnly /\ [NamesNext]_namesVars
          => (LoneNamesAreKept /\ DryRunErrsOnNamesOnly)'
    <2> SUFFICES ASSUME NamesIInv, LoneNamesAreKept, DryRunErrsOnNamesOnly, [NamesNext]_namesVars
                 PROVE  LoneNamesAreKept' /\ DryRunErrsOnNamesOnly'
      OBVIOUS
    <2>1. LoneNamesAreKept'
      BY LoneNamesStep
    <2>2. ASSUME NEW fn \in Namespace, Call(fn) PROVE DryRunErrsOnNamesOnly'
      <3> DEFINE t == imported.functions[fn]
                 found == WorkerFnName(t.server, t.name)
                 new == [fn |-> fn, tool |-> t, dry |-> dry, stub |-> Stubbed(t)]
      <3>1. calls' = calls \cup {new} /\ UNCHANGED <<tools, bindings>>
        BY <2>2 DEF Call
      <3>2. new.stub <=> new.dry /\ found \in imported.mutations
        BY DEF Stubbed
      <3>3. /\ Ordinary(t.server) /\ Ordinary(t.name) => found = Base(t)
            /\ found \in imported.mutations <=>
                 \E i \in DOMAIN bindings : bindings[i].writes /\ bindings[i].fn = found
            /\ Writes(t) /\ ~ Shares(t) =>
                 \E i \in DOMAIN bindings : bindings[i].writes /\ bindings[i].fn = Base(t)
        BY CalledTool
      <3>4. new.tool = t
        OBVIOUS
      <3> HIDE DEF new, t, found
      <3>5. /\ new.stub => new.dry
            /\ new.dry /\ Writes(new.tool) /\ ~ new.stub =>
                 ~ (Ordinary(new.tool.server) /\ Ordinary(new.tool.name)) \/ Shares(new.tool)
            /\ new.stub /\ ~ Writes(new.tool) =>
                 \/ ~ (Ordinary(new.tool.server) /\ Ordinary(new.tool.name))
                 \/ \E i \in DOMAIN bindings :
                      bindings[i].writes /\ bindings[i].fn = Base(new.tool)
        BY <3>2, <3>3, <3>4
      <3>6. \A u : Shares(u)' <=> Shares(u)
        BY <3>1 DEF Shares
      <3>7. QED
        BY <3>1, <3>5, <3>6 DEF DryRunErrsOnNamesOnly
    <2>3. ASSUME ~ \E fn \in Namespace : Call(fn) PROVE DryRunErrsOnNamesOnly'
      <3>1. CASE Bind
        <4>1. calls' = calls /\ Len(bindings) < Len(tools)
          BY <3>1 DEF Bind
        <4>2. Len(bindings) \in Nat /\ Len(tools) \in Nat
          BY DEF NamesIInv, BoundInOrder
        <4>3. calls' = {}
          BY <4>1, <4>2 DEF NamesIInv, LoadedWhole
        <4>4. QED
          BY <4>3 DEF DryRunErrsOnNamesOnly
      <3>2. CASE UNCHANGED <<calls, tools, bindings>>
        BY <3>2 DEF DryRunErrsOnNamesOnly, Shares
      <3>3. QED
        BY <2>3, <3>1, <3>2 DEF NamesNext, Load, BeginRun, namesVars
    <2>4. QED
      BY <2>1, <2>2, <2>3
  <1>3. QED
    BY <1>1, <1>2, NamesInductive, PTL DEF NamesSpec

-----------------------------------------------------------------------------
(* The check of a call.                                                    *)

\* The parameters in their order are a sequence.
LEMMA RankedIsASeq ==
  ASSUME NEW s, IsFiniteSet(s)
  PROVE  Ranked(s) \in Seq({Ranked(s)[i] : i \in DOMAIN Ranked(s)})
  <1>1. Cardinality(s) \in Nat
    BY FS_CardinalityType
  <1>2. DOMAIN Ranked(s) = 1 .. Cardinality(s)
    BY DEF Ranked
  <1>3. Ranked(s) = [i \in 1 .. Cardinality(s) |-> Ranked(s)[i]]
    BY DEF Ranked
  <1> DEFINE T == {Ranked(s)[i] : i \in DOMAIN Ranked(s)}
             f == Ranked(s)
  <1>4. f \in [1 .. Cardinality(s) -> T]
    <2>1. \A i \in 1 .. Cardinality(s) : f[i] \in T
      BY <1>2
    <2> HIDE DEF f, T
    <2>2. f = [i \in 1 .. Cardinality(s) |-> f[i]]
      BY <1>3 DEF f
    <2>3. QED
      BY <2>1, <2>2
  <1>5. f \in Seq(T)
    <2> HIDE DEF f, T
    <2>1. QED
      BY <1>1, <1>4
  <1>6. QED
    BY <1>5

\* A step describes the tool, judges the call, or runs it.
LEMMA CallSteps ==
  ASSUME [CallNext]_callVars
  PROVE  \/ Describe \/ Validate \/ SendArguments \/ UNCHANGED callVars
         \/ \E more \in 0 .. Cardinality(Params), extra \in SUBSET Params :
              /\ text.starred \/ more = 0
              /\ text.spread \/ extra = {}
              /\ BindArguments(text.positional + more, text.keywords \cup extra)
  BY DEF CallNext

\* The shape of a text.
LEMMA TextFacts ==
  ASSUME text \in Texts
  PROVE  text.positional \in Int /\ text.starred \in BOOLEAN /\ text.spread \in BOOLEAN
  BY DEF Texts

\* The faults the check sees are those that Python raises for.
LEMMA FaultsRaise ==
  ASSUME NEW S, params \in Seq(S), text \in Texts
  PROVE  /\ TooMany \/ Missing => Raises(text.positional, text.keywords)
         /\ Raises(text.positional, text.keywords) /\ ~text.starred =>
              \/ TooMany \/ Missing
              \/ \E i \in 1 .. text.positional : params[i] \in text.keywords
  <1>1. Len(params) \in Nat /\ DOMAIN params = 1 .. Len(params) /\ text.positional \in Int
    BY TextFacts
  <1>2. ASSUME TooMany PROVE Raises(text.positional, text.keywords)
    BY <1>2 DEF TooMany, Raises
  <1>3. ASSUME Missing PROVE Raises(text.positional, text.keywords)
    <2>1. PICK p \in schema.required : p \notin text.keywords \cup Given
      BY <1>3 DEF Missing
    <2>2. CASE text.positional > Len(params)
      BY <2>2 DEF Raises
    <2>3. CASE ~ (text.positional > Len(params))
      <3>1. \A i \in 1 .. text.positional : i \in DOMAIN params
        BY <1>1, <2>3
      <3>2. \A i \in 1 .. text.positional : params[i] # p
        BY <2>1, <3>1 DEF Given
      <3>3. QED
        BY <2>1, <3>2 DEF Raises
    <2>4. QED
      BY <2>2, <2>3
  <1>4. ASSUME Raises(text.positional, text.keywords), ~text.starred
        PROVE  \/ TooMany \/ Missing
               \/ \E i \in 1 .. text.positional : params[i] \in text.keywords
    <2>1. CASE text.positional > Len(params)
      BY <1>4, <2>1 DEF TooMany
    <2>2. CASE \E p \in schema.required :
                 p \notin text.keywords /\ \A i \in 1 .. text.positional : params[i] # p
      BY <1>4, <2>2 DEF Missing, Given
    <2>3. QED
      BY <1>4, <2>1, <2>2 DEF Raises
  <1>5. QED
    BY <1>2, <1>3, <1>4

\* The invariant holds of a call that is not described yet.
LEMMA CallInitIInv == CallInit => CallIInv
  BY DEF CallInit, CallIInv, RejectedCallsRaise, VisibleFaultsAreRejected

\* A step that leaves schema, signature and text keeps what they show.
LEMMA FaultsStay ==
  UNCHANGED <<schema, params, text>> =>
    (TooMany' <=> TooMany) /\ (Missing' <=> Missing)
  BY DEF TooMany, Missing, Given

\* Every step keeps it.
LEMMA CallStep == CallIInv /\ [CallNext]_callVars => CallIInv'
  <1> SUFFICES ASSUME CallIInv, [CallNext]_callVars PROVE CallIInv'
    OBVIOUS
  <1> DEFINE S == {params[i] : i \in DOMAIN params}
  <1>0. text \in Texts /\ (stage # "described" => params \in Seq(S))
    BY DEF CallIInv
  <1>1. CASE Describe
    <2> DEFINE all == Range(schema.declared)
               now == {p \in all : Required(p)}
               later == {p \in all : ~Required(p)}
    <2>1. schema \in InputSchemas /\ UNCHANGED <<schema, text>> /\ stage' = "written"
      BY <1>1 DEF CallIInv, Describe
    <2>2. all \subseteq Params
      <3>1. PICK d \in BoundedSeq(Params, Cardinality(Params)) : schema.declared = d
        BY <2>1 DEF InputSchemas
      <3>2. PICK m \in 0 .. Cardinality(Params) : d \in [1 .. m -> Params]
        BY <3>1 DEF BoundedSeq, SeqOf
      <3>3. QED
        BY <3>1, <3>2 DEF Range
    <2>3. IsFiniteSet(now) /\ IsFiniteSet(later)
      BY <2>2, NamesAreNumbers, FS_Subset
    <2> DEFINE f == Ranked(now)
               g == Ranked(later)
               T == {f[i] : i \in DOMAIN f} \cup {g[i] : i \in DOMAIN g}
    <2>4. f \in Seq({f[i] : i \in DOMAIN f}) /\ g \in Seq({g[i] : i \in DOMAIN g})
      BY <2>3, RankedIsASeq
    <2>5. params' = f \o g
      BY <1>1 DEF Describe, Split
    <2>6. params' \in Seq({params'[i] : i \in DOMAIN params'})
      <3> HIDE DEF f, g
      <3>1. f \in Seq(T) /\ g \in Seq(T)
        BY <2>4
      <3>2. params' \in Seq(T)
        <4> HIDE DEF T
        <4>1. QED
          BY <2>5, <3>1, ConcatProperties
      <3>3. params' \in [1 .. Len(params') -> T] /\ Len(params') \in Nat
        <4> HIDE DEF T
        <4>1. QED
          BY <3>2, LenProperties
      <3> DEFINE R == {params'[i] : i \in DOMAIN params'}
      <3>4. params' \in [1 .. Len(params') -> R]
        <4>1. \A i \in 1 .. Len(params') : params'[i] \in R
          <5> HIDE DEF T
          <5>1. QED
            BY <3>3
        <4> HIDE DEF R, T
        <4>2. params' = [i \in 1 .. Len(params') |-> params'[i]]
          BY <3>3
        <4>3. QED
          BY <4>1, <4>2
      <3>5. QED
        <4> HIDE DEF R
        <4>1. params' \in Seq(R)
          BY <3>3, <3>4
        <4>2. QED
          BY <4>1 DEF R
    <2>7. QED
      BY <1>0, <2>1, <2>6 DEF CallIInv, RejectedCallsRaise, VisibleFaultsAreRejected
  <1>2. CASE Validate
    <2>1. UNCHANGED <<schema, params, text>> /\ stage = "written"
      BY <1>2 DEF Validate
    <2>2. \/ stage' = "rejected" /\ ~text.spread /\ (TooMany \/ Missing)
          \/ stage' = "accepted" /\ ~ (~text.spread /\ (TooMany \/ Missing))
      BY <1>2 DEF Validate
    <2>3. (TooMany' <=> TooMany) /\ (Missing' <=> Missing)
      BY <2>1, FaultsStay
    <2>4. TooMany \/ Missing => Raises(text.positional, text.keywords) /\ ~text.starred
      BY <1>0, <2>1, FaultsRaise DEF TooMany, Missing
    <2>5. RejectedCallsRaise'
      BY <2>1, <2>2, <2>4 DEF RejectedCallsRaise, Raises
    <2>6. VisibleFaultsAreRejected'
      BY <2>2 DEF VisibleFaultsAreRejected
    <2>7. QED
      BY <2>1, <2>2, <2>3, <2>5, <2>6 DEF CallIInv
  <1>3. CASE SendArguments
    <2>1. UNCHANGED <<schema, params, text>> /\ stage = "bound" /\ stage' = "sent"
      BY <1>3 DEF SendArguments
    <2>2. (TooMany' <=> TooMany) /\ (Missing' <=> Missing)
      BY <2>1, FaultsStay
    <2>3. QED
      BY <2>1, <2>2 DEF CallIInv, RejectedCallsRaise, VisibleFaultsAreRejected
  <1>4. ASSUME NEW more \in 0 .. Cardinality(Params), NEW extra \in SUBSET Params,
               text.starred \/ more = 0, text.spread \/ extra = {},
               BindArguments(text.positional + more, text.keywords \cup extra)
        PROVE  CallIInv'
    <2>1. UNCHANGED <<schema, params, text>> /\ stage = "accepted"
      BY <1>4 DEF BindArguments
    <2>2. \/ stage' = "raised" /\ Raises(text.positional + more, text.keywords \cup extra)
          \/ stage' = "bound"
      BY <1>4 DEF BindArguments
    <2>3. (TooMany' <=> TooMany) /\ (Missing' <=> Missing)
      BY <2>1, FaultsStay
    <2>4. RejectedCallsRaise'
      BY <2>2 DEF RejectedCallsRaise
    <2>5. VisibleFaultsAreRejected'
      <3> SUFFICES ASSUME stage' = "raised", ~text.starred, ~text.spread
                   PROVE  \E i \in 1 .. text.positional : params[i] \in text.keywords
        BY <2>1 DEF VisibleFaultsAreRejected
      <3>1. more = 0 /\ extra = {}
        BY <1>4
      <3>2. text.positional + more = text.positional /\ text.keywords \cup extra = text.keywords
        BY <1>0, <3>1, TextFacts
      <3>3. Raises(text.positional, text.keywords)
        BY <2>2, <3>2
      <3>4. ~TooMany /\ ~Missing
        BY <2>1 DEF CallIInv
      <3>5. QED
        BY <1>0, <2>1, <3>3, <3>4, FaultsRaise
    <2>6. QED
      BY <2>1, <2>2, <2>3, <2>4, <2>5 DEF CallIInv
  <1>5. CASE UNCHANGED callVars
    <2>1. UNCHANGED <<schema, params, text, stage>>
      BY <1>5 DEF callVars
    <2>2. (TooMany' <=> TooMany) /\ (Missing' <=> Missing)
      BY <2>1, FaultsStay
    <2>3. QED
      BY <2>1, <2>2 DEF CallIInv, RejectedCallsRaise, VisibleFaultsAreRejected, Raises
  <1>6. QED
    BY <1>1, <1>2, <1>3, <1>4, <1>5, CallSteps

\* The invariant holds of every call of every tool, for any parameters.
THEOREM CallInductive == CallSpec => []CallIInv
  BY CallInitIInv, CallStep, PTL DEF CallSpec

\* A call is never rejected that would have run (_validate_call in bootstrap.py).
THEOREM RejectionTheorem == CallSpec => []RejectedCallsRaise
  <1>1. CallIInv => RejectedCallsRaise
    BY DEF CallIInv
  <1>2. QED
    BY <1>1, CallInductive, PTL

\* A call that raises for its arguments hid that from the check.
THEOREM AcceptanceTheorem == CallSpec => []VisibleFaultsAreRejected
  <1>1. CallIInv => VisibleFaultsAreRejected
    BY DEF CallIInv
  <1>2. QED
    BY <1>1, CallInductive, PTL

-----------------------------------------------------------------------------
(* The check of field accesses.  What is behind it is said of one node of  *)
(* a tree at a time (Kept), so that no proof recurses over trees; where a  *)
(* first place on a path is needed, the least number gives it.             *)

\* A set of numbers has a least one.
LEMMA LeastNumber ==
  ASSUME NEW T, T \subseteq Nat, T # {}
  PROVE  \E m \in T : \A k \in T : m <= k
<1>1. IsWellFoundedOn(OpToRel(<, Nat), Nat)
  BY NatLessThanWellFounded
<1>2. PICK m \in T : \A k \in T : <<k, m>> \notin OpToRel(<, Nat)
  BY <1>1, WFMin
<1>3. \A k \in T : ~(k < m)
  BY <1>2 DEF OpToRel
<1>4. ASSUME NEW k \in T PROVE m <= k
  <2>1. k \in Nat /\ m \in Nat
    OBVIOUS
  <2>2. ~(k < m)
    BY <1>3
  <2> QED
    BY <2>1, <2>2
<1> QED
  BY <1>4

\* The steps to a node, and the steps to what is above it.
LEMMA AboveFacts ==
  ASSUME NEW S, NEW p \in Seq(S), NEW n \in 0 .. Len(p)
  PROVE  /\ Above(p, n) \in Seq(S) /\ Len(Above(p, n)) = n
         /\ \A i \in 1 .. n : Above(p, n)[i] = p[i]
         /\ \A m \in 0 .. n : Above(Above(p, n), m) = Above(p, m)
         /\ n = Len(p) => Above(p, n) = p
<1>1. \A m \in 0 .. n : Above(p, m) = [i \in 1 .. m |-> p[i]]
  BY DEF Above
<1>2. /\ Above(p, n) \in Seq(S) /\ Len(Above(p, n)) = n
      /\ \A i \in 1 .. n : Above(p, n)[i] = p[i]
  BY <1>1
<1>3. ASSUME NEW m \in 0 .. n PROVE Above(Above(p, n), m) = Above(p, m)
  <2>1. Above(Above(p, n), m) = [i \in 1 .. m |-> Above(p, n)[i]]
    BY <1>2 DEF Above
  <2> QED
    BY <2>1, <1>1, <1>2
<1>4. n = Len(p) => Above(p, n) = p
  BY <1>1
<1> QED
  BY <1>2, <1>3, <1>4

LEMMA PlaceFacts ==
  ASSUME NEW labels, labels = Labels \/ labels = Places, NEW p \in Seq(labels)
  PROVE  /\ Place(p) \in Seq(Places) /\ Len(Place(p)) = Len(p)
         /\ \A i \in 1 .. Len(p) : Place(p)[i] = IF p[i].step = "at" THEN Index ELSE p[i]
         /\ \A n \in 0 .. Len(p) : Place(Above(p, n)) = Above(Place(p), n)
         /\ \A kind : \A i \in 1 .. Len(p) : Fits(kind, Place(p)[i]) <=> Fits(kind, p[i])
         /\ labels = Places => Place(p) = p
<1>1. \A i \in 1 .. Len(p) :
        /\ p[i] \in labels
        /\ (IF p[i].step = "at" THEN Index ELSE p[i]) \in Places
        /\ \A kind : Fits(kind, IF p[i].step = "at" THEN Index ELSE p[i]) <=> Fits(kind, p[i])
        /\ labels = Places => p[i].step # "at"
  <2> TAKE i \in 1 .. Len(p)
  <2>1. p[i] \in labels
    OBVIOUS
  <2> QED
    BY <2>1 DEF Labels, Places, Index, Fits
<1>2. Place(p) = [i \in 1 .. Len(p) |-> IF p[i].step = "at" THEN Index ELSE p[i]]
  BY DEF Place
<1>3. Place(p) \in Seq(Places) /\ Len(Place(p)) = Len(p)
  BY <1>1, <1>2
<1>4. ASSUME NEW n \in 0 .. Len(p) PROVE Place(Above(p, n)) = Above(Place(p), n)
  <2>1. /\ Above(p, n) \in Seq(labels) /\ Len(Above(p, n)) = n
        /\ \A i \in 1 .. n : Above(p, n)[i] = p[i]
    BY AboveFacts
  <2>2. Place(Above(p, n)) = [i \in 1 .. n |-> IF p[i].step = "at" THEN Index ELSE p[i]]
    BY <2>1 DEF Place
  <2>3. /\ Above(Place(p), n) \in Seq(Places) /\ Len(Above(Place(p), n)) = n
        /\ \A i \in 1 .. n : Above(Place(p), n)[i] = Place(p)[i]
    BY <1>3, AboveFacts
  <2> QED
    BY <2>2, <2>3, <1>2
<1>5. labels = Places => Place(p) = p
  BY <1>1, <1>2
<1> QED
  BY <1>1, <1>2, <1>3, <1>4, <1>5

\* Whatever else was observed, a structure keeps each node of a tree that was.
LEMMA JoinedKeeps ==
  ASSUME NEW labels, labels = Labels \/ labels = Places, NEW a, IsTree(a, labels),
         NEW O, Observed(a) \subseteq O, NEW p \in DOMAIN a
  PROVE  Kept(Joined(O), Place(p), a[p])
<1> DEFINE P == Place(p)
           n == Len(p)
           K(i) == KindAt(O, Above(P, i))
           Reached(m) == \A i \in 1 .. m : Fits(K(i - 1), P[i])
<1>1. p \in Seq(labels) /\ DOMAIN p = 1 .. n /\ n \in Nat
  BY DEF IsTree
<1>2. /\ P \in Seq(Places) /\ Len(P) = n /\ DOMAIN P = 1 .. n
      /\ \A m \in 0 .. n : Place(Above(p, m)) = Above(P, m)
      /\ \A kind : \A i \in 1 .. n : Fits(kind, P[i]) <=> Fits(kind, p[i])
  <2>1. /\ P \in Seq(Places) /\ Len(P) = n
        /\ \A m \in 0 .. n : Place(Above(p, m)) = Above(P, m)
        /\ \A kind : \A i \in 1 .. n : Fits(kind, P[i]) <=> Fits(kind, p[i])
    BY <1>1, PlaceFacts
  <2> QED
    BY <2>1
<1>3. ASSUME NEW m \in 0 .. n
      PROVE  /\ Above(p, m) \in DOMAIN a /\ a[Above(p, m)] \in NodeKinds
             /\ <<Above(P, m), a[Above(p, m)]>> \in O
  <2>1. CASE m = n
    <3>1. Above(p, m) = p
      BY <2>1, <1>1, AboveFacts
    <3> QED
      BY <3>1, <1>2 DEF IsTree, Observed
  <2>2. CASE m < n
    <3>1. m + 1 \in DOMAIN p /\ (m + 1) - 1 = m
      BY <2>2, <1>1
    <3>2. Above(p, m) \in DOMAIN a
      BY <3>1 DEF IsTree
    <3> QED
      BY <3>2, <1>2 DEF IsTree, Observed
  <2>3. m = n \/ m < n
    <3>1. n \in Nat
      BY <1>1
    <3> HIDE DEF n
    <3> QED
      BY <3>1
  <2> QED
    BY <2>1, <2>2, <2>3
<1>4. ASSUME NEW m \in 0 .. n
      PROVE  K(m) \in NodeKinds /\ Strongest({a[Above(p, m)], K(m)}) = K(m)
  <2> DEFINE seenThere == {x \in O : x[1] = Above(P, m)}
  <2>0. <<Above(P, m), a[Above(p, m)]>> \in seenThere
    BY <1>3
  <2>1. a[Above(p, m)] \in {o[2] : o \in seenThere}
    BY <2>0
  <2> QED
    BY <2>1, <1>3 DEF KindAt, Strongest, NodeKinds
<1>5. ASSUME NEW i \in 1 .. n, ~Fits(K(i - 1), P[i])
      PROVE  K(i - 1) = "object" /\ P[i] = Index
  <2>1. Fits(a[Above(p, i - 1)], P[i])
    BY <1>1, <1>2 DEF IsTree
  <2>2. i - 1 \in 0 .. n /\ P[i] \in Places
    BY <1>1, <1>2
  <2> QED
    BY <1>4, <1>5, <2>1, <2>2 DEF Fits, Strongest, NodeKinds, Places
<1>6. ASSUME NEW m \in 0 .. n, Reached(m)
      PROVE  Above(P, m) \in DOMAIN Joined(O) /\ Joined(O)[Above(P, m)] = K(m)
  <2>1. DOMAIN Above(P, m) = 1 .. m
    BY <1>1, <1>2, AboveFacts
  <2>2. \A i \in 1 .. m : Above(Above(P, m), i - 1) = Above(P, i - 1) /\ Above(P, m)[i] = P[i]
    <3> TAKE i \in 1 .. m
    <3>1. i - 1 \in 0 .. m
      BY <1>1
    <3> QED
      BY <3>1, <1>1, <1>2, AboveFacts
  <2>3. \A i \in DOMAIN Above(P, m) :
          Fits(KindAt(O, Above(Above(P, m), i - 1)), Above(P, m)[i])
    BY <2>1, <2>2, <1>6
  <2> DEFINE there == {x \in O : \A i \in DOMAIN x[1] : Fits(KindAt(O, Above(x[1], i - 1)), x[1][i])}
  <2>5. <<Above(P, m), a[Above(p, m)]>> \in there
    BY <2>3, <1>3
  <2>4. Above(P, m) \in {o[1] : o \in there}
    BY <2>5
  <2>6. DOMAIN Joined(O) = {o[1] : o \in there}
    BY DEF Joined
  <2> QED
    BY <2>4, <2>6 DEF Joined
<1>7. CASE Reached(n)
  <2>1. Above(P, n) = P /\ Above(p, n) = p
    BY <1>1, <1>2, AboveFacts
  <2> QED
    BY <1>7, <1>6, <1>4, <2>1, <1>1 DEF Kept
<1>8. CASE ~Reached(n)
  <2> DEFINE T == {i \in 1 .. n : ~Fits(K(i - 1), P[i])}
  <2>1. T # {} /\ T \subseteq Nat
    BY <1>8, <1>1
  <2>2. PICK m \in T : \A k \in T : m <= k
    BY <2>1, LeastNumber
  <2>3. m - 1 \in 0 .. n /\ Reached(m - 1)
    BY <2>2, <1>1
  <2>4. Above(P, m - 1) \in DOMAIN Joined(O) /\ Joined(O)[Above(P, m - 1)] = K(m - 1)
    BY <2>3, <1>6
  <2>5. K(m - 1) = "object" /\ P[m] = Index
    BY <2>2, <1>5
  <2> QED
    BY <2>4, <2>5, <1>2 DEF Kept
<1> QED
  BY <1>7, <1>8

\* Observations of whole trees: what is above a node was observed, of a kind that may
\* have it below, and so were the elements of an array.
Whole(O) ==
  \A o \in O : /\ o[1] \in Seq(Places) /\ o[2] \in NodeKinds
               /\ \A i \in DOMAIN o[1] : \E x \in O : x[1] = Above(o[1], i - 1) /\ Fits(x[2], o[1][i])
               /\ o[2] = "array" => \E x \in O : x[1] = Append(o[1], Index)

LEMMA ObservedIsWhole ==
  ASSUME NEW labels, labels = Labels \/ labels = Places, NEW a, IsTree(a, labels)
  PROVE  Whole(Observed(a))
<1> DEFINE HasAbove(P) == \A i \in DOMAIN P : \E x \in Observed(a) : x[1] = Above(P, i - 1) /\ Fits(x[2], P[i])
<1>1. ASSUME NEW p \in DOMAIN a
      PROVE  /\ Place(p) \in Seq(Places) /\ a[p] \in NodeKinds /\ <<Place(p), a[p]>> \in Observed(a)
             /\ HasAbove(Place(p))
             /\ a[p] = "array" => <<Append(Place(p), Index), "leaf">> \in Observed(a)
  <2>1. p \in Seq(labels) /\ DOMAIN p = 1 .. Len(p) /\ a[p] \in NodeKinds
    BY DEF IsTree
  <2>2. /\ Place(p) \in Seq(Places) /\ Len(Place(p)) = Len(p)
        /\ \A n \in 0 .. Len(p) : Place(Above(p, n)) = Above(Place(p), n)
        /\ \A kind : \A i \in 1 .. Len(p) : Fits(kind, Place(p)[i]) <=> Fits(kind, p[i])
    BY <2>1, PlaceFacts
  <2>3. ASSUME NEW i \in DOMAIN Place(p)
        PROVE  \E x \in Observed(a) : x[1] = Above(Place(p), i - 1) /\ Fits(x[2], Place(p)[i])
    <3>1. i \in DOMAIN p /\ i - 1 \in 0 .. Len(p)
      BY <2>1, <2>2
    <3>2. Above(p, i - 1) \in DOMAIN a /\ Fits(a[Above(p, i - 1)], p[i])
      BY <3>1 DEF IsTree
    <3>3. <<Place(Above(p, i - 1)), a[Above(p, i - 1)]>> \in Observed(a)
      BY <3>2 DEF Observed
    <3>4. Place(Above(p, i - 1)) = Above(Place(p), i - 1) /\ Fits(a[Above(p, i - 1)], Place(p)[i])
      BY <2>1, <2>2, <3>1, <3>2
    <3> QED
      BY <3>3, <3>4
  <2> QED
    BY <2>1, <2>2, <2>3 DEF Observed
<1>2. ASSUME NEW o \in Observed(a)
      PROVE  /\ o[1] \in Seq(Places) /\ o[2] \in NodeKinds /\ HasAbove(o[1])
             /\ o[2] = "array" => \E x \in Observed(a) : x[1] = Append(o[1], Index)
  <2>1. CASE \E p \in DOMAIN a : o = <<Place(p), a[p]>>
    <3>1. PICK p \in DOMAIN a : o = <<Place(p), a[p]>>
      BY <2>1
    <3>2. o[1] = Place(p) /\ o[2] = a[p]
      BY <3>1
    <3> HIDE DEF HasAbove
    <3> QED
      BY <3>2, <1>1
  <2>2. CASE \E p \in DOMAIN a : a[p] = "array" /\ o = <<Append(Place(p), Index), "leaf">>
    <3>1. PICK p \in DOMAIN a : a[p] = "array" /\ o = <<Append(Place(p), Index), "leaf">>
      BY <2>2
    <3> DEFINE P == Place(p)
               Q == Append(P, Index)
    <3>2. P \in Seq(Places) /\ <<P, a[p]>> \in Observed(a) /\ HasAbove(P)
      BY <1>1
    <3>3. o[1] = Q /\ o[2] = "leaf" /\ Q \in Seq(Places) /\ Len(Q) = Len(P) + 1 /\ Len(P) \in Nat
      BY <3>1, <3>2 DEF Places
    <3>4. Q[Len(P) + 1] = Index /\ \A i \in 1 .. Len(P) : Q[i] = P[i]
      BY <3>2
    <3>5. \A m \in 0 .. Len(P) : Above(Q, m) = Above(P, m)
      BY <3>2, <3>3, <3>4 DEF Above
    <3>6. ASSUME NEW i \in DOMAIN Q
          PROVE  \E x \in Observed(a) : x[1] = Above(Q, i - 1) /\ Fits(x[2], Q[i])
      <4>1. i \in 1 .. Len(P) + 1 /\ i - 1 \in 0 .. Len(P)
        BY <3>3
      <4>2. CASE i \in DOMAIN P
        <5>1. Q[i] = P[i] /\ Above(Q, i - 1) = Above(P, i - 1)
          BY <4>1, <4>2, <3>2, <3>4, <3>5
        <5> QED
          BY <5>1, <4>2, <3>2
      <4>3. CASE i = Len(P) + 1
        <5>1. i - 1 = Len(P) /\ Above(P, Len(P)) = P
          BY <4>3, <3>2, <3>3, AboveFacts
        <5>2. Above(Q, i - 1) = P /\ Fits(a[p], Q[i])
          BY <5>1, <4>3, <3>1, <3>4, <3>5, <4>1 DEF Fits, Index
        <5> QED
          BY <5>2, <3>2
      <4> QED
        BY <4>1, <4>2, <4>3, <3>2
    <3> QED
      BY <3>3, <3>6 DEF NodeKinds
  <2> QED
    BY <2>1, <2>2 DEF Observed
<1> QED
  BY <1>2 DEF Whole

LEMMA JoinedIsKeys ==
  ASSUME NEW O, Whole(O)
  PROVE  IsKeys(Joined(O))
<1> DEFINE there == {x \in O : \A i \in DOMAIN x[1] : Fits(KindAt(O, Above(x[1], i - 1)), x[1][i])}
<1>1. DOMAIN Joined(O) = {o[1] : o \in there} /\ \A p \in DOMAIN Joined(O) : Joined(O)[p] = KindAt(O, p)
  BY DEF Joined
<1>2. ASSUME NEW p \in DOMAIN Joined(O)
      PROVE  /\ p \in Seq(Places) /\ Joined(O)[p] \in NodeKinds
             /\ \A i \in DOMAIN p : /\ Above(p, i - 1) \in DOMAIN Joined(O)
                                    /\ Fits(Joined(O)[Above(p, i - 1)], p[i])
  <2>1. PICK o \in there : p = o[1]
    BY <1>1
  <2>2. p \in Seq(Places) /\ \A i \in DOMAIN p : Fits(KindAt(O, Above(p, i - 1)), p[i])
    BY <2>1 DEF Whole
  <2>3. Joined(O)[p] \in NodeKinds
    BY <1>1 DEF KindAt, Strongest, NodeKinds
  <2>4. ASSUME NEW i \in DOMAIN p PROVE Above(p, i - 1) \in DOMAIN Joined(O)
    <3>1. i \in 1 .. Len(p) /\ i - 1 \in 0 .. Len(p)
      BY <2>2
    <3>2. PICK x \in O : x[1] = Above(p, i - 1)
      BY <2>1 DEF Whole
    <3>3. /\ DOMAIN x[1] = 1 .. i - 1
          /\ \A j \in 1 .. i - 1 : x[1][j] = p[j]
          /\ \A m \in 0 .. i - 1 : Above(x[1], m) = Above(p, m)
      <4>1. p \in Seq(Places)
        BY <2>2
      <4>2. /\ Above(p, i - 1) \in Seq(Places) /\ Len(Above(p, i - 1)) = i - 1
            /\ \A j \in 1 .. i - 1 : Above(p, i - 1)[j] = p[j]
            /\ \A m \in 0 .. i - 1 : Above(Above(p, i - 1), m) = Above(p, m)
        BY <3>1, <4>1, AboveFacts
      <4> QED
        BY <3>2, <4>2
    <3>4. \A j \in DOMAIN x[1] : Fits(KindAt(O, Above(x[1], j - 1)), x[1][j])
      <4> TAKE j \in DOMAIN x[1]
      <4>1. j \in DOMAIN p /\ j - 1 \in 0 .. i - 1
        BY <3>1, <3>3, <2>2
      <4> QED
        BY <4>1, <3>3, <2>2
    <3>5. x \in there
      BY <3>4
    <3> QED
      BY <3>5, <3>2, <1>1
  <2> QED
    BY <2>2, <2>3, <2>4, <1>1
<1> QED
  BY <1>2 DEF IsKeys, IsTree

\* What is left when some observations are put together first: nothing that they
\* told is lost, but what is lost in the whole anyway.
LEMMA JoinedAgain ==
  ASSUME NEW O, Whole(O), NEW S, Whole(S)
  PROVE  Joined(Observed(Joined(O)) \cup S) = Joined(O \cup S)
<1> DEFINE J == Joined(O)
           A == Observed(J) \cup S
           B == O \cup S
           Lost(q) == \E i \in DOMAIN q : KindAt(O, Above(q, i - 1)) = "object" /\ q[i] = Index
           In(T, q) == \A i \in DOMAIN q : Fits(KindAt(T, Above(q, i - 1)), q[i])
<1>1. \A T, q : KindAt(T, q) = Strongest({o[2] : o \in {x \in T : x[1] = q}})
  BY DEF KindAt
<1>2. \A T : /\ DOMAIN Joined(T) = {o[1] : o \in {x \in T : In(T, x[1])}}
             /\ \A p \in DOMAIN Joined(T) : Joined(T)[p] = KindAt(T, p)
  BY DEF Joined
<1>3. \A q \in DOMAIN J : q \in Seq(Places) /\ Place(q) = q
  <2> TAKE q \in DOMAIN J
  <2>1. q \in Seq(Places)
    BY JoinedIsKeys DEF IsKeys, IsTree
  <2> QED
    BY <2>1, PlaceFacts
\* The kinds observed in J at a place that it has, and what it adds to them.
<1>4. \A x \in Observed(J) :
        \/ x[1] \in DOMAIN J /\ x[2] = J[x[1]]
        \/ x[2] = "leaf" /\ \E q \in DOMAIN J : J[q] = "array" /\ x[1] = Append(q, Index)
  <2> TAKE x \in Observed(J)
  <2> HIDE DEF J
  <2> QED
    BY <1>3 DEF Observed
<1>5. \A q \in DOMAIN J : <<q, J[q]>> \in Observed(J)
  <2> HIDE DEF J
  <2> QED
    BY <1>3 DEF Observed
<1>6. \A x \in Observed(J) : \E o \in O : o[1] = x[1]
  <2> TAKE x \in Observed(J)
  <2>1. CASE x[1] \in DOMAIN J
    <3>1. DOMAIN J = {o[1] : o \in {y \in O : In(O, y[1])}}
      BY <1>2
    <3> HIDE DEF J, In
    <3> QED
      BY <2>1, <3>1
  <2>2. ASSUME NEW q \in DOMAIN J, J[q] = "array", x[1] = Append(q, Index)
        PROVE  \E o \in O : o[1] = x[1]
    <3>1. KindAt(O, q) = "array"
      BY <2>2, <1>2
    <3>2. "array" \in {o[2] : o \in {y \in O : y[1] = q}}
      BY <3>1 DEF KindAt, Strongest
    <3>3. PICK o \in O : o[1] = q /\ o[2] = "array"
      BY <3>2
    <3> QED
      BY <3>3, <2>2 DEF Whole
  <2> QED
    BY <2>1, <2>2, <1>4
\* A place observed is in J, or lost.
<1>7. ASSUME NEW o \in O, ~Lost(o[1]) PROVE o[1] \in DOMAIN J
  <2>1. ASSUME NEW i \in DOMAIN o[1] PROVE Fits(KindAt(O, Above(o[1], i - 1)), o[1][i])
    <3>1. PICK x \in O : x[1] = Above(o[1], i - 1) /\ Fits(x[2], o[1][i])
      BY DEF Whole
    <3>2. x[2] \in {y[2] : y \in {z \in O : z[1] = Above(o[1], i - 1)}}
      BY <3>1
    <3>3. o[1][i] \in Places
      BY DEF Whole
    <3>4. KindAt(O, Above(o[1], i - 1)) # "object" \/ o[1][i] # Index
      BY <1>7
    <3> QED
      BY <3>1, <3>2, <3>3, <3>4 DEF KindAt, Strongest, Fits, Places, Index
  <2> QED
    BY <2>1, <1>2
\* Where nothing is lost, both have the same kind.
<1>8. ASSUME NEW q, ~Lost(q) PROVE KindAt(A, q) = KindAt(B, q)
  <2>1. CASE \E o \in O : o[1] = q
    <3>1. q \in DOMAIN J /\ J[q] = KindAt(O, q)
      BY <2>1, <1>7, <1>8, <1>2
    <3>2. <<q, J[q]>> \in Observed(J) /\ \A x \in Observed(J) : x[1] = q => x[2] \in {J[q], "leaf"}
      BY <3>1, <1>4, <1>5
    <3> DEFINE kO == {o[2] : o \in {x \in O : x[1] = q}}
               kJ == {o[2] : o \in {x \in Observed(J) : x[1] = q}}
               kS == {o[2] : o \in {x \in S : x[1] = q}}
    <3>3. KindAt(A, q) = Strongest(kJ \cup kS) /\ KindAt(B, q) = Strongest(kO \cup kS)
      <4>1. {o[2] : o \in {x \in A : x[1] = q}} = kJ \cup kS
        OBVIOUS
      <4>2. {o[2] : o \in {x \in B : x[1] = q}} = kO \cup kS
        OBVIOUS
      <4> QED
        BY <4>1, <4>2 DEF KindAt
    <3>4. J[q] \in kJ /\ kJ \subseteq {J[q], "leaf"} /\ J[q] = Strongest(kO)
      BY <3>1, <3>2 DEF KindAt
    <3>5. Strongest(kJ \cup kS) = Strongest(kO \cup kS)
      <4> HIDE DEF kJ, kS, kO, J
      <4> QED
        BY <3>4 DEF Strongest
    <3> QED
      BY <3>3, <3>5
  <2>2. CASE ~\E o \in O : o[1] = q
    <3>1. {x \in A : x[1] = q} = {x \in B : x[1] = q}
      BY <2>2, <1>6
    <3> QED
      BY <3>1 DEF KindAt
  <2> QED
    BY <2>1, <2>2
\* What is lost is so in both.
<1>9. ASSUME NEW q \in Seq(Places), Lost(q) PROVE ~In(A, q) /\ ~In(B, q)
  <2> DEFINE L == {i \in DOMAIN q : KindAt(O, Above(q, i - 1)) = "object" /\ q[i] = Index}
  <2>1. L # {} /\ L \subseteq Nat
    BY <1>9
  <2>2. PICK m \in L : \A k \in L : m <= k
    BY <2>1, LeastNumber
  <2> DEFINE P == Above(q, m - 1)
  <2>3. m \in DOMAIN q /\ m - 1 \in 0 .. Len(q) /\ q[m] = Index /\ KindAt(O, P) = "object"
    BY <2>2
  <2>4. /\ DOMAIN P = 1 .. m - 1 /\ \A j \in 1 .. m - 1 : P[j] = q[j]
        /\ \A j \in 0 .. m - 1 : Above(P, j) = Above(q, j)
    BY <2>3, AboveFacts
  <2>5. ~Lost(P)
    <3> SUFFICES ASSUME NEW j \in 1 .. m - 1, KindAt(O, Above(P, j - 1)) = "object", P[j] = Index
                 PROVE  FALSE
      BY <2>4
    <3>1. j - 1 \in 0 .. m - 1 /\ j \in DOMAIN q
      BY <2>3
    <3>2. j \in L
      BY <3>1, <2>4
    <3> QED
      BY <3>2, <2>2, <2>3
  <2>6. "object" \in {o[2] : o \in {x \in O : x[1] = P}}
    BY <2>3 DEF KindAt, Strongest
  <2>7. "object" \in {o[2] : o \in {x \in B : x[1] = P}}
    BY <2>6
  <2>8. KindAt(B, P) = "object" /\ KindAt(A, P) = "object"
    BY <2>5, <2>7, <1>8 DEF KindAt, Strongest
  <2>9. ~Fits("object", q[m])
    BY <2>3 DEF Fits, Index
  <2> QED
    BY <2>3, <2>8, <2>9
<1>10. ASSUME NEW q \in Seq(Places), ~Lost(q) PROVE In(A, q) <=> In(B, q)
  <2>1. ASSUME NEW i \in DOMAIN q PROVE ~Lost(Above(q, i - 1))
    <3> DEFINE P == Above(q, i - 1)
    <3>1. i - 1 \in 0 .. Len(q)
      OBVIOUS
    <3>2. /\ DOMAIN P = 1 .. i - 1 /\ \A j \in 1 .. i - 1 : P[j] = q[j]
          /\ \A j \in 0 .. i - 1 : Above(P, j) = Above(q, j)
      BY <3>1, AboveFacts
    <3> SUFFICES ASSUME NEW j \in 1 .. i - 1, KindAt(O, Above(P, j - 1)) = "object", P[j] = Index
                 PROVE  FALSE
      BY <3>2
    <3>3. j - 1 \in 0 .. i - 1 /\ j \in DOMAIN q
      BY <3>1
    <3> QED
      BY <3>2, <3>3, <1>10
  <2>2. \A i \in DOMAIN q : KindAt(A, Above(q, i - 1)) = KindAt(B, Above(q, i - 1))
    BY <2>1, <1>8
  <2> QED
    BY <2>2
<1>11. DOMAIN Joined(A) = DOMAIN Joined(B)
  <2>1. ASSUME NEW x \in A, In(A, x[1]) PROVE \E y \in B : x[1] = y[1] /\ In(B, y[1])
    <3>1. PICK y \in B : x[1] = y[1]
      BY <1>6
    <3>2. x[1] \in Seq(Places)
      BY <3>1 DEF Whole
    <3> QED
      BY <2>1, <3>1, <3>2, <1>9, <1>10
  <2>2. ASSUME NEW y \in B, In(B, y[1]) PROVE \E x \in A : x[1] = y[1] /\ In(A, x[1])
    <3>1. y[1] \in Seq(Places)
      BY DEF Whole
    <3>2. ~Lost(y[1]) /\ In(A, y[1])
      BY <2>2, <3>1, <1>9, <1>10
    <3>3. PICK x \in A : x[1] = y[1]
      <4>1. CASE y \in S
        BY <4>1
      <4>2. CASE y \in O
        <5>1. y[1] \in DOMAIN J
          BY <4>2, <3>2, <1>7
        <5>2. <<y[1], J[y[1]]>> \in Observed(J)
          BY <5>1, <1>5
        <5> HIDE DEF J
        <5> QED
          BY <5>2
      <4> QED
        BY <4>1, <4>2
    <3> QED
      BY <3>2, <3>3
  <2> HIDE DEF A, B, In
  <2>3. DOMAIN Joined(A) = {o[1] : o \in {x \in A : In(A, x[1])}}
    BY <1>2, Zenon
  <2>4. DOMAIN Joined(B) = {o[1] : o \in {x \in B : In(B, x[1])}}
    BY <1>2, Zenon
  <2> QED
    BY <2>1, <2>2, <2>3, <2>4
<1>12. ASSUME NEW p \in DOMAIN Joined(A) PROVE Joined(A)[p] = Joined(B)[p]
  <2>1. PICK x \in A : x[1] = p /\ In(A, p)
    <3>1. DOMAIN Joined(A) = {o[1] : o \in {x \in A : In(A, x[1])}}
      BY <1>2, Zenon
    <3> HIDE DEF A, In
    <3> QED
      BY <3>1
  <2>2. PICK y \in B : y[1] = p
    BY <2>1, <1>6
  <2>3. p \in Seq(Places)
    BY <2>2 DEF Whole
  <2>4. ~Lost(p)
    BY <2>1, <2>3, <1>9
  <2>5. KindAt(A, p) = KindAt(B, p)
    BY <2>4, <1>8
  <2> HIDE DEF A, B
  <2> QED
    BY <2>5, <1>2, <1>11
<1>13. \A T : Joined(T) = [p \in DOMAIN Joined(T) |-> Joined(T)[p]]
  BY DEF Joined
<1> HIDE DEF A, B
<1>14. Joined(A) = Joined(B)
  BY <1>11, <1>12, <1>13
<1> QED
  BY <1>14 DEF A, B, J

\* What a value shows is kept by what is extracted from it.
LEMMA ExtractCovers ==
  ASSUME NEW v, IsValue(v)
  PROVE  IsKeys(Extract(v)) /\ Covers(Extract(v), v)
<1>1. IsKeys(Extract(v))
  BY ObservedIsWhole, JoinedIsKeys DEF IsValue, Extract
<1>2. ASSUME NEW p \in DOMAIN v PROVE Kept(Extract(v), Place(p), v[p])
  BY JoinedKeeps DEF IsValue, Extract
<1> QED
  BY <1>1, <1>2 DEF Covers

\* A merge covers what either side covered.
LEMMA MergeCovers ==
  ASSUME NEW a, IsKeys(a), NEW O, Observed(a) \subseteq O, NEW v, IsValue(v), Covers(a, v)
  PROVE  Covers(Joined(O), v)
<1> DEFINE M == Joined(O)
<1> SUFFICES ASSUME NEW p \in DOMAIN v
             PROVE  Kept(M, Place(p), v[p])
  BY DEF Covers
<1> DEFINE P == Place(p)
<1>1. P \in Seq(Places) /\ v[p] \in NodeKinds
  BY PlaceFacts DEF IsValue, IsTree
<1>2. ASSUME NEW q \in DOMAIN a PROVE Kept(M, q, a[q]) /\ a[q] \in NodeKinds
  <2>1. q \in Seq(Places) /\ a[q] \in NodeKinds
    BY DEF IsKeys, IsTree
  <2>2. Place(q) = q
    BY <2>1, PlaceFacts
  <2>3. Kept(M, Place(q), a[q])
    BY JoinedKeeps DEF IsKeys
  <2> QED
    BY <2>1, <2>2, <2>3
<1>3. Kept(a, P, v[p])
  BY DEF Covers
<1>4. CASE P \in DOMAIN a /\ Strongest({v[p], a[P]}) = a[P]
  <2>1. Kept(M, P, a[P]) /\ a[P] \in NodeKinds
    BY <1>4, <1>2
  <2>2. CASE P \in DOMAIN M /\ Strongest({a[P], M[P]}) = M[P]
    <3>1. Strongest({v[p], M[P]}) = M[P]
      BY <1>1, <1>4, <2>1, <2>2 DEF Strongest, NodeKinds
    <3> QED
      BY <3>1, <2>2 DEF Kept
  <2> QED
    BY <2>1, <2>2 DEF Kept
<1>5. ASSUME NEW i \in DOMAIN P, Above(P, i - 1) \in DOMAIN a, a[Above(P, i - 1)] = "object", P[i] = Index
      PROVE  Kept(M, P, v[p])
  <2> DEFINE Q == Above(P, i - 1)
  <2>1. i \in 1 .. Len(P) /\ i - 1 \in 0 .. Len(P)
    BY <1>1
  <2>2. /\ DOMAIN Q = 1 .. i - 1
        /\ \A j \in 1 .. i - 1 : Q[j] = P[j]
        /\ \A m \in 0 .. i - 1 : Above(Q, m) = Above(P, m)
    BY <1>1, <2>1, AboveFacts
  <2>3. Kept(M, Q, "object")
    BY <1>5, <1>2
  <2>4. CASE Q \in DOMAIN M /\ Strongest({"object", M[Q]}) = M[Q]
    <3>1. M[Q] = "object"
      BY <2>4 DEF Strongest
    <3> QED
      BY <3>1, <2>4, <1>5 DEF Kept
  <2>5. ASSUME NEW j \in DOMAIN Q, Above(Q, j - 1) \in DOMAIN M, M[Above(Q, j - 1)] = "object", Q[j] = Index
        PROVE  Kept(M, P, v[p])
    <3>1. j \in DOMAIN P /\ Above(Q, j - 1) = Above(P, j - 1) /\ P[j] = Index
      <4>1. j - 1 \in 0 .. i - 1 /\ j \in 1 .. Len(P)
        BY <2>1, <2>2
      <4> QED
        BY <4>1, <2>2, <2>5, <1>1
    <3> QED
      BY <3>1, <2>5 DEF Kept
  <2> QED
    BY <2>3, <2>4, <2>5 DEF Kept
<1> QED
  BY <1>3, <1>4, <1>5 DEF Kept

\* An access that works on a value is accepted by whatever covers the value.
LEMMA CoveredIsAccepted ==
  ASSUME NEW v, IsValue(v), NEW ks, Covers(ks, v), NEW chain \in Seq(Accesses), Succeeds(v, chain)
  PROVE  Accepts(ks, chain)
<1> SUFFICES ASSUME NEW n \in DOMAIN chain, Decides(ks, chain, n)
             PROVE  PlaceOf(chain, n) \in DOMAIN ks
  BY DEF Accepts
<1>1. PICK p \in DOMAIN v :
        /\ Len(p) <= Len(chain) /\ \A i \in DOMAIN p : Takes(chain[i], p[i])
        /\ Len(p) = Len(chain) \/ IsMethod(chain[Len(p) + 1])
  BY DEF Succeeds
<1>2. p \in Seq(Labels) /\ n \in 1 .. Len(chain) /\ Len(p) \in Nat
  BY DEF IsValue, IsTree
<1>3. n <= Len(p)
  <2> SUFFICES ASSUME Len(p) < n PROVE FALSE
    BY <1>2
  <2>1. Len(p) + 1 \in 1 .. n /\ IsMethod(chain[Len(p) + 1])
    BY <1>1, <1>2
  <2> QED
    BY <2>1 DEF Decides, Undecided
<1> DEFINE q == Above(p, n)
<1>4. q \in DOMAIN v
  <2>1. CASE n = Len(p)
    BY <2>1, <1>2, AboveFacts
  <2>2. CASE n < Len(p)
    <3>1. n + 1 \in DOMAIN p /\ (n + 1) - 1 = n
      BY <2>2, <1>2
    <3> QED
      BY <3>1 DEF IsValue, IsTree
  <2> QED
    BY <2>1, <2>2, <1>2, <1>3
<1>5. q \in Seq(Labels) /\ Len(q) = n /\ \A i \in 1 .. n : q[i] = p[i]
  <2>1. n \in 0 .. Len(p) /\ p \in Seq(Labels)
    BY <1>2, <1>3
  <2> QED
    BY <2>1, AboveFacts
<1>6. \A i \in 1 .. n : Place(q)[i] = IF chain[i].step = "index" THEN Index ELSE Sub(chain[i].name)
  <2> TAKE i \in 1 .. n
  <2>1. chain[i] \in Accesses /\ p[i] \in Labels /\ Takes(chain[i], p[i])
    BY <1>1, <1>2, <1>3
  <2>2. Place(q)[i] = IF p[i].step = "at" THEN Index ELSE p[i]
    BY <1>5, PlaceFacts
  <2> QED
    BY <2>1, <2>2 DEF Accesses, Labels, Takes, Index, Sub
<1>7. Place(q) \in Seq(Places) /\ Len(Place(q)) = n
  BY <1>5, PlaceFacts
<1>8. \A m \in 0 .. n : Above(Place(q), m) = PlaceOf(chain, m)
  BY <1>6, <1>7, <1>2 DEF PlaceOf, Above
<1>9. Place(q) = PlaceOf(chain, n)
  <2>1. n \in 0 .. Len(Place(q)) /\ n = Len(Place(q))
    BY <1>7, <1>2
  <2>2. Above(Place(q), n) = Place(q)
    BY <2>1, <1>7, AboveFacts
  <2> QED
    BY <2>1, <2>2, <1>8
<1>10. Kept(ks, Place(q), v[q])
  BY <1>4 DEF Covers
<1>11. ASSUME NEW i \in DOMAIN Place(q), Above(Place(q), i - 1) \in DOMAIN ks,
              ks[Above(Place(q), i - 1)] = "object", Place(q)[i] = Index
       PROVE  FALSE
  <2>1. i \in 1 .. n /\ i - 1 \in 0 .. n
    BY <1>7, <1>2
  <2>2. chain[i].step = "index"
    <3>1. \A x : Sub(x) # Index
      <4> TAKE x
      <4>1. Sub(x).step = "sub" /\ Index.step = "index"
        BY DEF Sub, Index
      <4> QED
        BY <4>1
    <3> QED
      BY <3>1, <2>1, <1>6, <1>11
  <2>3. ks[PlaceOf(chain, i - 1)] = "object"
    BY <2>1, <1>8, <1>11
  <2> QED
    BY <2>1, <2>2, <2>3 DEF Decides, Undecided
<1> QED
  BY <1>9, <1>10, <1>11 DEF Kept

LEMMA UnionIsWhole ==
  ASSUME NEW a, IsKeys(a), NEW b, IsKeys(b)
  PROVE  Whole(Observed(a) \cup Observed(b))
<1>1. Whole(Observed(a)) /\ Whole(Observed(b))
  BY ObservedIsWhole DEF IsKeys
<1> QED
  BY <1>1 DEF Whole

LEMMA ManyAreWhole ==
  ASSUME NEW T, \A O \in T : Whole(O)
  PROVE  Whole(UNION T)
<1>1. ASSUME NEW o \in UNION T
      PROVE  /\ o[1] \in Seq(Places) /\ o[2] \in NodeKinds
             /\ \A i \in DOMAIN o[1] :
                  \E x \in UNION T : x[1] = Above(o[1], i - 1) /\ Fits(x[2], o[1][i])
             /\ o[2] = "array" => \E x \in UNION T : x[1] = Append(o[1], Index)
  <2>1. PICK O \in T : o \in O
    OBVIOUS
  <2>2. Whole(O) /\ O \subseteq UNION T
    OBVIOUS
  <2> QED
    BY <2>1, <2>2 DEF Whole
<1> QED
  BY <1>1 DEF Whole

LEMMA LearnStep ==
  CheckIInv /\ LearnKeys =>
    CheckTypeOK' /\ EventsAreReturned' /\ LearnedFromTheSet' /\ LearnedIsCovered'
<1> SUFFICES ASSUME CheckIInv, LearnKeys
             PROVE  CheckTypeOK' /\ EventsAreReturned' /\ LearnedFromTheSet' /\ LearnedIsCovered'
  OBVIOUS
<1> USE DEF CheckIInv
<1> DEFINE t == Head(events).tool
           v == Head(events).value
           merged == IF t \in DOMAIN learned THEN Merge(learned[t], Extract(v)) ELSE Extract(v)
<1>1. /\ events # <<>> /\ events' = Tail(events)
      /\ learned' = [u \in DOMAIN learned \cup {t} |-> IF u # t THEN learned[u] ELSE merged]
      /\ seen' = [seen EXCEPT !.learned[t] = @ \cup {v}]
      /\ UNCHANGED <<shipped, verdict>>
  BY DEF LearnKeys
<1>2. t \in SdkFns /\ v \in Returns[t] /\ IsValue(v) /\ v \in Values
  <2>1. 1 \in DOMAIN events /\ Head(events) = events[1]
    BY <1>1 DEF CheckTypeOK
  <2> DEFINE Event == [tool : SdkFns, value : Values]
  <2>4. events \in Seq(Event)
    BY DEF CheckTypeOK
  <2>5. events[1] \in Event
    <3> HIDE DEF Event
    <3> QED
      BY <2>1, <2>4
  <2>2. events[1] \in [tool : SdkFns, value : Values]
    BY <2>5
  <2>3. t \in SdkFns /\ v \in Returns[t]
    BY <2>1, <2>2 DEF EventsAreReturned
  <2> QED
    BY <2>3, ConstantsFit DEF Values
<1>3. /\ \A u \in SdkFns : seen'.learned[u] = IF u = t THEN seen.learned[u] \cup {v} ELSE seen.learned[u]
      /\ seen'.shipped = seen.shipped
      /\ seen' \in [learned : ResultSets, shipped : ResultSets]
  <2>1. seen'.learned = [seen.learned EXCEPT ![t] = @ \cup {v}] /\ seen'.shipped = seen.shipped
        /\ seen' = [learned |-> seen'.learned, shipped |-> seen'.shipped]
    BY <1>1, <1>2 DEF CheckTypeOK
  <2>2. seen.learned \in [SdkFns -> SUBSET Values] /\ \A u \in SdkFns : seen.learned[u] \subseteq Returns[u]
    BY DEF CheckTypeOK, ResultSets
  <2>3. seen'.learned \in ResultSets
    BY <2>1, <2>2, <1>2 DEF ResultSets
  <2> QED
    BY <2>1, <2>2, <2>3 DEF CheckTypeOK
<1>4. CheckTypeOK'
  <2>1. events' \in Seq([tool : SdkFns, value : Values]) /\ Len(events') <= MaxEvents
    BY <1>1, ConstantsFit DEF CheckTypeOK
  <2> QED
    BY <2>1, <1>1, <1>2, <1>3 DEF CheckTypeOK
<1>5. EventsAreReturned'
  <2>1. \A i \in DOMAIN events' : i + 1 \in DOMAIN events /\ events'[i] = events[i + 1]
    BY <1>1 DEF CheckTypeOK
  <2> QED
    BY <2>1 DEF EventsAreReturned
<1>6. IsKeys(Extract(v)) /\ Covers(Extract(v), v)
  BY <1>2, ExtractCovers
<1>7. /\ IsKeys(merged) /\ Covers(merged, v)
      /\ \A w \in seen.learned[t] : Covers(merged, w)
  <2>1. CASE t \in DOMAIN learned
    <3> DEFINE O == Observed(learned[t]) \cup Observed(Extract(v))
    <3>1. merged = Joined(O) /\ IsKeys(learned[t])
      BY <2>1 DEF Merge, LearnedIsCovered
    <3>2. IsKeys(merged)
      BY <3>1, <1>6, UnionIsWhole, JoinedIsKeys
    <3>3. Covers(merged, v)
      BY <3>1, <1>2, <1>6, MergeCovers
    <3>4. ASSUME NEW w \in seen.learned[t] PROVE Covers(merged, w)
      <4>1. IsValue(w) /\ Covers(learned[t], w)
        BY <1>2, ConstantsFit DEF CheckTypeOK, ResultSets, LearnedIsCovered
      <4> QED
        BY <4>1, <3>1, MergeCovers
    <3> QED
      BY <3>2, <3>3, <3>4
  <2>2. CASE t \notin DOMAIN learned
    BY <2>2, <1>2, <1>6 DEF LearnedIsCovered
  <2> QED
    BY <2>1, <2>2
<1>8. LearnedIsCovered'
  <2> HIDE DEF merged
  <2>1. \A u \in DOMAIN learned' : IsKeys(learned'[u])
    BY <1>1, <1>7 DEF LearnedIsCovered
  <2>2. ASSUME NEW u \in SdkFns, NEW w \in seen'.learned[u]
        PROVE  u \in DOMAIN learned' /\ Covers(learned'[u], w)
    <3>1. CASE u = t
      BY <3>1, <1>1, <1>3, <1>7
    <3>2. CASE u # t
      BY <3>2, <1>1, <1>3 DEF LearnedIsCovered
    <3> QED
      BY <3>1, <3>2
  <2> QED
    BY <2>1, <2>2 DEF LearnedIsCovered
<1> DEFINE Told(values) == UNION {Observed(w) : w \in values}
<1>9. merged = Joined(Told(seen'.learned[t]))
  <2>1. /\ seen'.learned[t] = seen.learned[t] \cup {v}
        /\ Told(seen.learned[t] \cup {v}) = Told(seen.learned[t]) \cup Observed(v)
        /\ \A w \in seen.learned[t] : IsValue(w)
    <3>1. seen'.learned[t] = seen.learned[t] \cup {v}
      BY <1>2, <1>3
    <3>2. Told(seen.learned[t] \cup {v}) = Told(seen.learned[t]) \cup Observed(v)
      OBVIOUS
    <3>3. seen.learned \in ResultSets
      BY DEF CheckTypeOK
    <3>4. seen.learned[t] \subseteq Returns[t]
      BY <3>3, <1>2 DEF ResultSets
    <3>5. \A w \in Returns[t] : IsValue(w)
      BY <1>2, ConstantsFit
    <3> QED
      BY <3>1, <3>2, <3>4, <3>5
  <2>2. Whole(Observed(v)) /\ \A w \in seen.learned[t] : Whole(Observed(w))
    BY <1>2, <2>1, ObservedIsWhole DEF IsValue
  <2>3. CASE t \in DOMAIN learned
    <3> DEFINE U == Told(seen.learned[t])
    <3>1. Whole(U)
      BY <2>2, ManyAreWhole
    <3>2. learned[t] = Joined(U) /\ Whole(Observed(Extract(v)))
      BY <2>3, <1>6, ObservedIsWhole DEF LearnedFromTheSet, IsKeys
    <3>3. merged = Joined(Observed(Joined(U)) \cup Observed(Extract(v)))
      BY <2>3, <3>2 DEF Merge
    <3> HIDE DEF U, merged
    <3>4. merged = Joined(Observed(Extract(v)) \cup U)
      <4>1. U \cup Observed(Extract(v)) = Observed(Extract(v)) \cup U
        OBVIOUS
      <4> QED
        BY <3>1, <3>2, <3>3, <4>1, JoinedAgain
    <3>5. merged = Joined(Observed(v) \cup U)
      BY <3>1, <3>4, <2>2, JoinedAgain DEF Extract
    <3>6. Observed(v) \cup U = U \cup Observed(v)
      OBVIOUS
    <3> QED
      BY <3>5, <3>6, <2>1 DEF U
  <2>4. CASE t \notin DOMAIN learned
    <3>1. seen.learned[t] = {}
      BY <2>4, <1>2 DEF LearnedIsCovered
    <3>2. Told({v}) = Observed(v)
      OBVIOUS
    <3> QED
      BY <2>1, <2>4, <3>1, <3>2 DEF Extract
  <2> QED
    BY <2>3, <2>4
<1>10. LearnedFromTheSet'
  <2> HIDE DEF merged
  <2> SUFFICES ASSUME NEW u \in DOMAIN learned' PROVE learned'[u] = Joined(Told(seen'.learned[u]))
    BY DEF LearnedFromTheSet
  <2>1. CASE u = t
    BY <2>1, <1>1, <1>9
  <2>2. CASE u # t
    BY <2>2, <1>1, <1>3 DEF LearnedFromTheSet, CheckTypeOK
  <2> QED
    BY <2>1, <2>2
<1> QED
  BY <1>4, <1>5, <1>8, <1>10

LEMMA ShipStep == CheckIInv /\ ShipKeys => CheckTypeOK' /\ ShippedIsCovered'
<1> SUFFICES ASSUME CheckIInv, ShipKeys
             PROVE  CheckTypeOK' /\ ShippedIsCovered'
  OBVIOUS
<1> USE DEF CheckIInv
<1> DEFINE all == [t \in DOMAIN Seeds \cup DOMAIN learned |->
                     IF t \notin DOMAIN learned THEN Seeds[t]
                     ELSE IF t \notin DOMAIN Seeds THEN learned[t] ELSE Merge(Seeds[t], learned[t])]
<1>1. /\ shipped' = Useful(all)
      /\ seen' = [seen EXCEPT !.shipped = seen.learned]
      /\ UNCHANGED <<events, learned, verdict>>
  BY DEF ShipKeys, Validation
<1>2. /\ DOMAIN shipped' \subseteq DOMAIN all
      /\ \A t \in DOMAIN shipped' : shipped'[t] = all[t] /\ ~IsEmpty(shipped'[t])
  BY <1>1 DEF Useful
<1>3. DOMAIN all \subseteq SdkFns
  BY ConstantsFit DEF CheckTypeOK, Seeds, Useful
<1>4. seen'.shipped = seen.learned /\ seen'.learned = seen.learned
      /\ seen' \in [learned : ResultSets, shipped : ResultSets]
  BY <1>1 DEF CheckTypeOK
<1>5. CheckTypeOK'
  BY <1>1, <1>2, <1>3, <1>4 DEF CheckTypeOK
<1>6. ASSUME NEW t \in DOMAIN shipped', NEW v \in seen'.shipped[t] PROVE Covers(shipped'[t], v)
  <2>1. t \in SdkFns /\ t \in DOMAIN all /\ v \in seen.learned[t]
    BY <1>2, <1>3, <1>4
  <2>2. t \in DOMAIN learned /\ IsKeys(learned[t]) /\ Covers(learned[t], v)
    BY <2>1 DEF LearnedIsCovered
  <2>3. IsValue(v)
    BY <2>1, ConstantsFit DEF CheckTypeOK, ResultSets
  <2>4. CASE t \in DOMAIN Seeds
    <3>1. shipped'[t] = Joined(Observed(Seeds[t]) \cup Observed(learned[t]))
      BY <1>2, <2>1, <2>2, <2>4 DEF Merge
    <3> QED
      BY <3>1, <2>2, <2>3, MergeCovers
  <2>5. CASE t \notin DOMAIN Seeds
    BY <2>5, <1>2, <2>1, <2>2
  <2> QED
    BY <2>4, <2>5
<1> QED
  BY <1>5, <1>6 DEF ShippedIsCovered

\* A use that is reported is of a name bound once, by a call of a known tool, and
\* no value the tool's structure covers allows it.
LEMMA SubmitStep ==
  ASSUME CheckIInv, NEW p \in Programs, Submit(p)
  PROVE  CheckTypeOK' /\ EventsAreReturned' /\ RejectionsAreEarned'
<1> USE DEF CheckIInv
<1>1. p \in Seq(Statements) /\ DOMAIN p = 1 .. Len(p) /\ Len(p) \in Nat
  BY ConstantsFit
<1>2. /\ verdict' = [program |-> p, rejected |-> Reported(p) # {}, known |-> seen.shipped]
      /\ UNCHANGED <<learned, shipped, seen>>
  BY DEF Submit
<1>3. ASSUME NEW i \in Calls(p) PROVE p[i].tool \in SdkFns
  <2>1. p[i] \in Statements /\ p[i].op = "call"
    BY <1>1 DEF Calls
  <2> QED
    BY <2>1 DEF Statements
<1>4. events' \in Seq([tool : SdkFns, value : Values]) /\ Len(events') <= MaxEvents /\ EventsAreReturned'
  <2>1. CASE Reported(p) # {}
    BY <2>1 DEF Submit, CheckTypeOK, EventsAreReturned
  <2>2. CASE Reported(p) = {}
    <3>1. PICK value \in [Calls(p) -> Values], nth \in [1 .. Cardinality(Calls(p)) -> Calls(p)] :
            /\ \A i \in Calls(p) : value[i] \in Returns[p[i].tool]
            /\ events' = events \o
                 [n \in DOMAIN nth |-> [tool |-> p[nth[n]].tool, value |-> value[nth[n]]]]
      BY <2>2 DEF Submit
    <3> DEFINE k == Cardinality(Calls(p))
               new == [n \in DOMAIN nth |-> [tool |-> p[nth[n]].tool, value |-> value[nth[n]]]]
    <3>2. k \in Nat /\ DOMAIN nth = 1 .. k
      <4>1. IsFiniteSet(Calls(p))
        <5>1. IsFiniteSet(1 .. Len(p)) /\ Calls(p) \subseteq 1 .. Len(p)
          BY <1>1, FS_Interval DEF Calls
        <5> QED
          BY <5>1, FS_Subset
      <4> QED
        BY <4>1, FS_CardinalityType
    <3>3. \A n \in 1 .. k : new[n] \in [tool : SdkFns, value : Values] /\ new[n].value \in Returns[new[n].tool]
      BY <3>1, <3>2, <1>3
    <3>6. Len(events) + k <= MaxEvents
      BY DEF Submit
    <3>8. DOMAIN new = 1 .. k /\ events' = events \o new
      BY <3>1, <3>2
    <3>9. new \in [1 .. k -> [tool : SdkFns, value : Values]]
      BY <3>3, <3>8
    <3> DEFINE Event == [tool : SdkFns, value : Values]
    <3>10. events \in Seq(Event) /\ new \in [1 .. k -> Event]
      BY <3>9 DEF CheckTypeOK
    <3> HIDE DEF k, new, Event
    <3>4. new \in Seq(Event) /\ Len(new) = k
      BY <3>2, <3>10
    <3>5. /\ events' \in Seq(Event) /\ Len(events') = Len(events) + k
          /\ \A i \in DOMAIN events' : events'[i] = IF i <= Len(events) THEN events[i] ELSE new[i - Len(events)]
      <4>1. /\ events' \in Seq(Event) /\ Len(events') = Len(events) + k
            /\ \A i \in 1 .. Len(events) + k :
                 events'[i] = IF i <= Len(events) THEN events[i] ELSE new[i - Len(events)]
        BY <3>2, <3>4, <3>8, <3>10, ConcatProperties
      <4> QED
        BY <4>1
    <3>7. ASSUME NEW i \in DOMAIN events' PROVE events'[i].value \in Returns[events'[i].tool]
      <4>1. i \in 1 .. Len(events) + k /\ Len(events) \in Nat
        BY <3>5, <3>2 DEF CheckTypeOK
      <4>2. CASE i <= Len(events)
        BY <4>1, <4>2, <3>5 DEF EventsAreReturned, CheckTypeOK
      <4>3. CASE ~(i <= Len(events))
        <5>1. i - Len(events) \in 1 .. k /\ events'[i] = new[i - Len(events)]
          BY <4>1, <4>3, <3>5, <3>2
        <5> QED
          BY <5>1, <3>3
      <4> QED
        BY <4>2, <4>3
    <3> QED
      BY <3>5, <3>6, <3>7 DEF EventsAreReturned, Event
  <2> QED
    BY <2>1, <2>2
<1>5. CheckTypeOK'
  BY <1>2, <1>4 DEF CheckTypeOK
<1>6. ASSUME verdict'.rejected, Plain(p), MaySucceed(p, seen.shipped) PROVE FALSE
  <2>1. PICK i \in Reported(p) : TRUE
    BY <1>2, <1>6
  <2> DEFINE x == p[i].var
  <2>2. /\ i \in Reads(p) /\ Tracked(p, x)
        /\ ~Accepts(shipped[p[LastCall(p, x)].tool], p[i].chain)
    BY DEF Reported
  <2>3. \A j \in Binds(p, x) : p[j].op # "assign"
    BY <2>2 DEF Tracked, Assigns, KnownCalls
  <2>4. BoundOnce(p, x)
    BY <1>6, <2>2, <2>3 DEF Plain
  <2>5. PICK value \in [Calls(p) -> UNION {seen.shipped[t] : t \in SdkFns}] :
          /\ \A h \in Calls(p) : value[h] \in seen.shipped[p[h].tool]
          /\ \A h \in Reads(p) : \E j \in Binding(p, h) : j \in Calls(p) => Succeeds(value[j], p[h].chain)
    BY <1>6 DEF MaySucceed
  <2>6. PICK j \in Binding(p, i) : j \in Calls(p) => Succeeds(value[j], p[i].chain)
    BY <2>2, <2>5
  <2>7. j \in Binds(p, x) /\ KnownCalls(p, x) = {j}
    <3>1. j \in Binds(p, x)
      BY <2>6 DEF Binding
    <3>2. KnownCalls(p, x) \subseteq Binds(p, x) /\ KnownCalls(p, x) # {}
      BY <2>2 DEF Tracked, KnownCalls, Assigns
    <3> QED
      BY <3>1, <3>2, <2>4 DEF BoundOnce
  <2>8. LastCall(p, x) = j
    <3>1. j <= j
      BY <1>1, <2>7 DEF Binds
    <3> QED
      BY <3>1, <2>7 DEF LastCall
  <2>9. j \in Calls(p) /\ p[j].tool \in DOMAIN shipped /\ p[j].tool \in SdkFns
    BY <2>7, <1>3 DEF KnownCalls, Assigns, Binds, Calls
  <2>10. value[j] \in seen.shipped[p[j].tool] /\ Succeeds(value[j], p[i].chain)
    BY <2>5, <2>6, <2>9
  <2>11. Covers(shipped[p[j].tool], value[j]) /\ IsValue(value[j])
    BY <2>9, <2>10, ConstantsFit DEF ShippedIsCovered, CheckTypeOK, ResultSets
  <2>12. p[i].chain \in Seq(Accesses)
    <3>1. p[i] \in Statements /\ p[i].op = "read"
      BY <1>1, <2>2 DEF Reads
    <3> QED
      BY <3>1 DEF Statements
  <2>13. Accepts(shipped[p[j].tool], p[i].chain)
    BY <2>10, <2>11, <2>12, CoveredIsAccepted
  <2> QED
    BY <2>2, <2>8, <2>13
<1>7. RejectionsAreEarned'
  BY <1>2, <1>6 DEF RejectionsAreEarned
<1> QED
  BY <1>4, <1>5, <1>7

LEMMA CheckInitIInv == CheckInit => CheckIInv
<1> SUFFICES ASSUME CheckInit PROVE CheckIInv
  OBVIOUS
<1> DEFINE nothing == [t \in SdkFns |-> {}]
<1>1. nothing \in ResultSets
  BY DEF ResultSets
<1>2. DOMAIN shipped \subseteq SdkFns /\ \A t \in DOMAIN shipped : ~IsEmpty(shipped[t])
  BY ConstantsFit DEF CheckInit, Seeds, Useful
<1>3. DOMAIN learned = {} /\ events = <<>> /\ Len(events) = 0
  BY DEF CheckInit
<1>4. CheckTypeOK
  BY <1>1, <1>2, <1>3, ConstantsFit DEF CheckInit, CheckTypeOK, None
<1>5. EventsAreReturned /\ LearnedFromTheSet /\ LearnedIsCovered /\ ShippedIsCovered
  BY <1>2, <1>3 DEF CheckInit, EventsAreReturned, LearnedFromTheSet, LearnedIsCovered, ShippedIsCovered
<1>6. RejectionsAreEarned
  BY DEF CheckInit, RejectionsAreEarned, None
<1> QED
  BY <1>4, <1>5, <1>6 DEF CheckIInv

LEMMA CheckStep == CheckIInv /\ [CheckNext]_checkVars => CheckIInv'
<1> SUFFICES ASSUME CheckIInv, [CheckNext]_checkVars PROVE CheckIInv'
  OBVIOUS
<1>1. CASE LearnKeys
  <2>1. UNCHANGED <<shipped, verdict>> /\ seen'.shipped = seen.shipped
    BY <1>1 DEF LearnKeys, CheckIInv, CheckTypeOK
  <2>2. ShippedIsCovered' /\ RejectionsAreEarned'
    BY <2>1 DEF CheckIInv, ShippedIsCovered, RejectionsAreEarned
  <2> QED
    BY <1>1, <2>2, LearnStep DEF CheckIInv
<1>2. CASE ShipKeys
  <2>1. UNCHANGED <<events, learned, verdict>> /\ seen'.learned = seen.learned
    BY <1>2 DEF ShipKeys, CheckIInv, CheckTypeOK
  <2>2. EventsAreReturned' /\ LearnedFromTheSet' /\ LearnedIsCovered' /\ RejectionsAreEarned'
    BY <2>1 DEF CheckIInv, EventsAreReturned, LearnedFromTheSet, LearnedIsCovered, RejectionsAreEarned
  <2> QED
    BY <1>2, <2>2, ShipStep DEF CheckIInv
<1>3. ASSUME NEW p \in Programs, Submit(p) PROVE CheckIInv'
  <2>1. UNCHANGED <<learned, shipped, seen>>
    BY <1>3 DEF Submit
  <2>2. LearnedFromTheSet' /\ LearnedIsCovered' /\ ShippedIsCovered'
    BY <2>1 DEF CheckIInv, LearnedFromTheSet, LearnedIsCovered, ShippedIsCovered
  <2> QED
    BY <1>3, <2>2, SubmitStep DEF CheckIInv
<1>4. CASE UNCHANGED checkVars
  BY <1>4 DEF checkVars, CheckIInv, CheckTypeOK, EventsAreReturned, LearnedFromTheSet,
              LearnedIsCovered, ShippedIsCovered, RejectionsAreEarned
<1> QED
  BY <1>1, <1>2, <1>3, <1>4 DEF CheckNext

\* What has been learned covers every result learned from, what the worker has
\* every result that it was built from, whatever order they came in.
THEOREM CheckInductive == CheckSpec => []CheckIInv
<1> QED
  BY CheckInitIInv, CheckStep, PTL DEF CheckSpec

\* What is learned of a tool is a function of the set of its results: whatever their
\* order, their shapes, and however often each came.
THEOREM SetTheorem == CheckSpec => []LearnedFromTheSet
<1>1. CheckIInv => LearnedFromTheSet
  BY DEF CheckIInv
<1> QED
  BY <1>1, CheckInductive, PTL

\* An access that works on a result the worker's map was built from is accepted,
\* for any tools, results (objects, arrays and scalars nested in any way), schemas
\* and programs.
THEOREM AcceptedTheorem == CheckSpec => []SeenAccessesAreAccepted
<1>1. CheckIInv => SeenAccessesAreAccepted
  <2> SUFFICES ASSUME CheckIInv, NEW t \in DOMAIN shipped, NEW v \in seen.shipped[t],
                      NEW c \in Chains, Succeeds(v, c)
               PROVE  Accepts(shipped[t], c)
    BY DEF SeenAccessesAreAccepted
  <2>1. Covers(shipped[t], v) /\ IsValue(v)
    BY ConstantsFit DEF CheckIInv, ShippedIsCovered, CheckTypeOK, ResultSets
  <2>2. PICK p \in Programs : \E i \in Reads(p) : c = p[i].chain
    BY DEF Chains
  <2>3. PICK i \in Reads(p) : c = p[i].chain
    BY <2>2
  <2>5. p[i] \in Statements /\ p[i].op = "read"
    BY ConstantsFit DEF Reads
  <2>4. c \in Seq(Accesses)
    BY <2>3, <2>5 DEF Statements
  <2> QED
    BY <2>1, <2>4, CoveredIsAccepted
<1> QED
  BY <1>1, CheckInductive, PTL

\* A program is rejected only if it fails on every result the worker's map was
\* built from, unless a name is bound again by a call or a loop.
THEOREM EarnedTheorem == CheckSpec => []RejectionsAreEarned
<1>1. CheckIInv => RejectionsAreEarned
  BY DEF CheckIInv
<1> QED
  BY <1>1, CheckInductive, PTL
==============================================================================
