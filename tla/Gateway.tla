-------------------------------- MODULE Gateway --------------------------------
(* The life of gateway processes on one machine: the start of run_gateway      *)
(* (src/src/main.rs) step by step, the worker's process or container and the   *)
(* working directory it mounts (src/src/exec/host.rs, docker.rs), the HTTP     *)
(* port they compete for, the admin socket each one publishes (src/src/        *)
(* admin.rs), and the ways a process ends: the end of its input, an error that *)
(* `?` carries out of main, and a signal or a crash.  No part of the program   *)
(* handles a signal, so SIGINT, SIGTERM and SIGKILL all end it on the spot.    *)
(*                                                                             *)
(* A pid can be used again: workdir, container name and socket path are all    *)
(* made from it, so what an earlier process left is met by a later one.        *)
EXTENDS Naturals

CONSTANTS
  Pids,       \* process ids
  NoPid,      \* nobody
  Docker,     \* the pids whose worker runs in a container
  Pinned,     \* CODEMCP_ADMIN_SOCKET is set, to the same path for all
  MaxStarts   \* bound: processes started

ASSUME GatewayAssumption ==
  /\ NoPid \notin Pids
  /\ Docker \subseteq Pids
  /\ Pinned \in BOOLEAN /\ MaxStarts \in Nat

VARIABLES
  stage,      \* pid -> the step of run_gateway it is at
  adm,        \* pid -> the task that runs admin::serve
  worker,     \* pid -> the worker this process started
  orphan,     \* pid -> what an earlier process with this pid left of its worker:
              \* one that runs, or a container that was created and never started
  dir,        \* pid -> its worker's workdir exists
  up,         \* pid -> its upstreams are connected
  port,       \* who listens on the HTTP port
  sock,       \* socket path -> who bound the file that is there
  refused,    \* pid -> the daemon would not remove the container
  ended,      \* pid -> how the last process with this pid ended
  http,       \* the pids whose process serves HTTP, all on the same port
  starts      \* processes started so far

gvars == <<stage, adm, worker, orphan, dir, up, port, sock, refused, ended, http, starts>>

Booting == {"upstreams", "daemon", "workdir", "image", "create", "accept", "runtime", "bind"}
Closing == {"remove", "rmdir", "drain", "exit"}

\* A slip: one file for all.
PathByConfig(p) == NoPid

\* admin::socket_path: one file per process unless the environment pins it.
Path(p) == IF Pinned THEN NoPid ELSE p

TypeOK ==
  /\ stage \in [Pids -> {"down", "serve"} \cup Booting \cup Closing]
  /\ adm \in [Pids -> {"off", "clear", "bind", "on", "failed"}]
  /\ worker \in [Pids -> {"none", "booting", "connected"}]
  /\ orphan \in [Pids -> {"none", "created", "running"}]
  /\ dir \in [Pids -> BOOLEAN] /\ up \in [Pids -> BOOLEAN]
  /\ port \in Pids \cup {NoPid}
  /\ sock \in [Pids \cup {NoPid} -> Pids \cup {NoPid}]
  /\ refused \in [Pids -> BOOLEAN]
  /\ ended \in [Pids -> {"none", "clean", "failed", "signal"}]
  /\ http \in SUBSET Pids /\ starts \in 0 .. MaxStarts
  /\ \A p \in Pids :
       /\ stage[p] = "down" => adm[p] = "off" /\ worker[p] = "none" /\ ~up[p] /\ port # p
       /\ worker[p] # "none" => stage[p] \notin {"upstreams", "daemon", "workdir", "image", "create"}
       /\ port = p => p \in http

Init ==
  /\ stage = [p \in Pids |-> "down"] /\ adm = [p \in Pids |-> "off"]
  /\ worker = [p \in Pids |-> "none"] /\ orphan = [p \in Pids |-> "none"]
  /\ dir = [p \in Pids |-> FALSE] /\ up = [p \in Pids |-> FALSE]
  /\ port = NoPid /\ sock = [s \in Pids \cup {NoPid} |-> NoPid]
  /\ refused = [p \in Pids |-> FALSE] /\ ended = [p \in Pids |-> "none"]
  /\ http = {} /\ starts = 0

Goto(p, s) == stage' = [stage EXCEPT ![p] = s]

\* The process is gone: its sockets close, the file of its admin socket stays.
\* A worker or a container that is left loses the connection only.
Die(p, how, left) ==
  /\ Goto(p, "down")
  /\ adm' = [adm EXCEPT ![p] = "off"]
  /\ up' = [up EXCEPT ![p] = FALSE]
  /\ port' = IF port = p THEN NoPid ELSE port
  /\ worker' = [worker EXCEPT ![p] = "none"]
  /\ orphan' = [orphan EXCEPT ![p] = IF left = "none" THEN @ ELSE left]
  /\ ended' = [ended EXCEPT ![p] = how]
  /\ http' = http \ {p}
  /\ UNCHANGED <<sock, starts>>

\* Its worker, if it has one.
Running(p) == IF worker[p] = "none" THEN "none" ELSE "running"

\* An exit that unwinds drops a host worker's Child, which kills it
\* (kill_on_drop); nothing is dropped for a container.
Leave(p, how) == Die(p, how, IF p \in Docker THEN Running(p) ELSE "none")

---------------------------------------------------------------------------
\* The start.

Start(p) ==
  /\ stage[p] = "down" /\ starts < MaxStarts
  /\ starts' = starts + 1
  /\ http' \in {http, http \cup {p}}
  /\ ended' = [ended EXCEPT ![p] = "none"]
  /\ refused' = [refused EXCEPT ![p] = FALSE]
  /\ Goto(p, "upstreams")
  /\ UNCHANGED <<adm, worker, orphan, dir, up, port, sock>>

\* config::load, then connect_all, which leaves out the servers that fail.
Connect(p) ==
  /\ stage[p] = "upstreams"
  /\ up' = [up EXCEPT ![p] = TRUE]
  /\ Goto(p, IF p \in Docker THEN "daemon" ELSE "workdir")
  /\ UNCHANGED <<adm, worker, orphan, dir, port, sock, refused, ended, http, starts>>

\* The daemon answers, the network exists, the control channel is bound.
Prepare(p) ==
  /\ stage[p] = "daemon"
  /\ Goto(p, "workdir")
  /\ UNCHANGED <<adm, worker, orphan, dir, up, port, sock, refused, ended, http, starts>>

WriteWorkdir(p) ==
  /\ stage[p] = "workdir"
  /\ dir' = [dir EXCEPT ![p] = TRUE]
  /\ Goto(p, IF p \in Docker THEN "image" ELSE "create")
  /\ UNCHANGED <<adm, worker, orphan, up, port, sock, refused, ended, http, starts>>

EnsureImage(p) ==
  /\ stage[p] = "image"
  /\ Goto(p, "create")
  /\ UNCHANGED <<adm, worker, orphan, dir, up, port, sock, refused, ended, http, starts>>

\* The container's name is made from the pid: one that was left still holds it.
Spawn(p) ==
  /\ stage[p] = "create" /\ (p \in Docker => orphan[p] = "none")
  /\ worker' = [worker EXCEPT ![p] = "booting"]
  /\ Goto(p, "accept")
  /\ UNCHANGED <<adm, orphan, dir, up, port, sock, refused, ended, http, starts>>

\* create_container fails, or start_container does and the container stays as it
\* was made; the workdir goes either way, whoever else mounts it.
CreateFails(p) ==
  /\ stage[p] = "create" /\ p \in Docker
  /\ dir' = [dir EXCEPT ![p] = FALSE]
  /\ \/ Die(p, "failed", "none")
     \/ orphan[p] = "none" /\ Die(p, "failed", "created")
  /\ UNCHANGED refused

\* accept_worker: the first connection carries the right token.
WorkerDials(p) ==
  /\ stage[p] = "accept" /\ worker[p] = "booting"
  /\ worker' = [worker EXCEPT ![p] = "connected"]
  /\ Goto(p, "runtime")
  /\ UNCHANGED <<adm, orphan, dir, up, port, sock, refused, ended, http, starts>>

\* Nobody dialled in time: a container is removed, if the daemon will.
AcceptTimesOut(p) ==
  /\ stage[p] = "accept"
  /\ IF p \in Docker
     THEN /\ dir' = [dir EXCEPT ![p] = FALSE]
          /\ \E refuses \in BOOLEAN :
               /\ refused' = [refused EXCEPT ![p] = refuses]
               /\ Die(p, "failed", IF refuses THEN Running(p) ELSE "none")
     ELSE UNCHANGED <<dir, refused>> /\ Leave(p, "failed")

AssembleRuntime(p) ==
  /\ stage[p] = "runtime"
  /\ Goto(p, "bind")
  /\ UNCHANGED <<adm, worker, orphan, dir, up, port, sock, refused, ended, http, starts>>

\* The port is bound before the task of the admin socket is spawned.
BindPort(p) ==
  /\ stage[p] = "bind"
  /\ IF p \in http THEN port = NoPid /\ port' = p ELSE UNCHANGED port
  /\ adm' = [adm EXCEPT ![p] = "clear"]
  /\ Goto(p, "serve")
  /\ UNCHANGED <<worker, orphan, dir, up, sock, refused, ended, http, starts>>

---------------------------------------------------------------------------
\* admin::serve, a task beside the server.

ClearSocket(p) ==
  /\ adm[p] = "clear"
  /\ sock' = [sock EXCEPT ![Path(p)] = NoPid]
  /\ adm' = [adm EXCEPT ![p] = "bind"]
  /\ UNCHANGED <<stage, worker, orphan, dir, up, port, refused, ended, http, starts>>

\* A bind that fails is logged and the gateway serves without it.
BindSocket(p) ==
  /\ adm[p] = "bind"
  /\ IF sock[Path(p)] = NoPid
     THEN sock' = [sock EXCEPT ![Path(p)] = p] /\ adm' = [adm EXCEPT ![p] = "on"]
     ELSE UNCHANGED sock /\ adm' = [adm EXCEPT ![p] = "failed"]
  /\ UNCHANGED <<stage, worker, orphan, dir, up, port, refused, ended, http, starts>>

---------------------------------------------------------------------------
\* The end.

EndOfInput(p) ==
  /\ stage[p] = "serve" /\ p \notin http
  /\ Goto(p, "remove")
  /\ UNCHANGED <<adm, worker, orphan, dir, up, port, sock, refused, ended, http, starts>>

\* A slip: the workdir goes before the container.
RemoveMountFirst(p) ==
  /\ stage[p] = "remove"
  /\ dir' = [dir EXCEPT ![p] = FALSE]
  /\ Goto(p, "rmdir")
  /\ UNCHANGED <<adm, worker, orphan, up, port, sock, refused, ended, http, starts>>

\* Runtime::shutdown: the executor first, a container before its workdir.
RemoveContainer(p) ==
  /\ stage[p] = "remove"
  /\ IF p \in Docker
     THEN \E refuses \in BOOLEAN :
            /\ refused' = [refused EXCEPT ![p] = refuses]
            /\ worker' = IF refuses THEN worker ELSE [worker EXCEPT ![p] = "none"]
     ELSE UNCHANGED <<refused, worker>>
  /\ Goto(p, "rmdir")
  /\ UNCHANGED <<adm, orphan, dir, up, port, sock, ended, http, starts>>

\* A slip: the workdir is forgotten.
KeepWorkdir(p) ==
  /\ stage[p] = "rmdir"
  /\ Goto(p, "drain")
  /\ UNCHANGED <<adm, worker, orphan, dir, up, port, sock, refused, ended, http, starts>>

RemoveWorkdir(p) ==
  /\ stage[p] = "rmdir"
  /\ dir' = IF p \in Docker THEN [dir EXCEPT ![p] = FALSE] ELSE dir
  /\ Goto(p, "drain")
  /\ UNCHANGED <<adm, worker, orphan, up, port, sock, refused, ended, http, starts>>

DisconnectUpstreams(p) ==
  /\ stage[p] = "drain"
  /\ up' = [up EXCEPT ![p] = FALSE]
  /\ Goto(p, "exit")
  /\ UNCHANGED <<adm, worker, orphan, dir, port, sock, refused, ended, http, starts>>

Exit(p) ==
  /\ stage[p] = "exit"
  /\ Leave(p, "clean")
  /\ UNCHANGED <<dir, refused>>

\* An error that leaves main: from a step of the start, or from the server.
\* Neither the executor's shutdown nor the manager's is reached.
Fail(p) ==
  /\ stage[p] \in Booting \cup {"serve"}
  /\ stage[p] = "create" => p \notin Docker
  /\ Leave(p, "failed")
  /\ UNCHANGED <<dir, refused>>

\* A signal or a crash: nothing is dropped, no shutdown runs.
Kill(p) ==
  /\ stage[p] # "down"
  /\ Die(p, "signal", Running(p))
  /\ UNCHANGED <<dir, refused>>

---------------------------------------------------------------------------
\* The worker's own life.

\* It gives up (no websockets, out of memory, sys.exit in a program) and the
\* gateway is not told by anything modelled here.
WorkerDies(p) ==
  /\ worker[p] # "none"
  /\ worker' = [worker EXCEPT ![p] = "none"]
  /\ UNCHANGED <<stage, adm, orphan, dir, up, port, sock, refused, ended, http, starts>>

\* A worker without a connection leaves its loop and ends with its programs, and
\* the daemon removes its container.  One that never ran stays.
OrphanEnds(p) ==
  /\ orphan[p] = "running"
  /\ orphan' = [orphan EXCEPT ![p] = "none"]
  /\ UNCHANGED <<stage, adm, worker, dir, up, port, sock, refused, ended, http, starts>>

Boot(p) ==
  \/ Connect(p) \/ Prepare(p) \/ WriteWorkdir(p) \/ EnsureImage(p) \/ Spawn(p) \/ CreateFails(p)
  \/ AssembleRuntime(p) \/ BindPort(p)

Next == \E p \in Pids :
  \/ Start(p) \/ Boot(p) \/ WorkerDials(p) \/ AcceptTimesOut(p)
  \/ ClearSocket(p) \/ BindSocket(p)
  \/ EndOfInput(p) \/ RemoveContainer(p) \/ RemoveWorkdir(p) \/ DisconnectUpstreams(p) \/ Exit(p)
  \/ Fail(p) \/ Kill(p) \/ WorkerDies(p) \/ OrphanEnds(p)

Spec == Init /\ [][Next]_gvars

---------------------------------------------------------------------------
\* Properties.

\* As long as the process that made it lives, a container has the upstreams its
\* programs call and the workdir it mounts, which no container of an earlier process
\* mounts too: from its creation through the steps of the start that follow, the
\* serving and the shutdown, unless the daemon refused to remove it.  Nothing is said
\* of a container that outlives its process (OrphansKeepTheirWorkdir).
ContainerHasItsNeeds ==
  \A p \in Docker : worker[p] # "none" /\ ~refused[p] =>
    dir[p] /\ up[p] /\ orphan[p] # "running"

\* The end of stdio leaves neither container nor workdir, whatever a process
\* with the same pid had left before.
EndOfInputLeavesNothing ==
  \A p \in Docker : ended[p] = "clean" /\ ~refused[p] => ~dir[p] /\ orphan[p] = "none"

\* A gateway with an admin socket is one that serves, with the port if it serves
\* HTTP, and the file at its path is its own: a process that starts, loses the
\* port, ends or crashes beside it does not take the path away.
SocketReachesOwner ==
  \A p \in Pids : adm[p] = "on" => sock[Path(p)] = p /\ (p \in http => port = p)

---------------------------------------------------------------------------
\* The invariant behind these, by the step a process is at.

Started  == {"create", "accept", "runtime", "bind", "serve"}
WithDir  == {"image", "remove", "rmdir"} \cup Started
WithUp   == (Booting \ {"upstreams"}) \cup {"serve", "remove", "rmdir", "drain"}
Named    == (Started \ {"create"}) \cup Closing
Removed  == {"rmdir", "drain", "exit"}

ContainersByStage ==
  \A p \in Docker :
    /\ stage[p] \in WithDir => dir[p]
    /\ stage[p] \in {"drain", "exit"} => ~dir[p]
    /\ stage[p] \in Named => orphan[p] = "none"
    /\ stage[p] \in Removed /\ ~refused[p] => worker[p] = "none"

ProcessesByStage ==
  \A p \in Pids :
    /\ stage[p] \in WithUp => up[p]
    /\ ended[p] # "none" => stage[p] = "down"
    /\ adm[p] # "off" /\ p \in http => port = p

\* A file is taken away only by a process with the same path.
BoundIsThere == \A p \in Pids : adm[p] = "on" => sock[Path(p)] = p

IInv ==
  /\ TypeOK /\ ContainersByStage /\ ProcessesByStage
  /\ EndOfInputLeavesNothing
  /\ ~Pinned => BoundIsThere

---------------------------------------------------------------------------
\* What the documentation says, and the code does not do.

\* What the plan says of signals: they shut a serving gateway down, as the end
\* of its input does.
SignalShutsDown == [][\A p \in Docker :
  stage[p] = "serve" /\ ended'[p] = "signal" => ~dir'[p] /\ orphan'[p] = "none"]_gvars

\* What the comment in the start says: a failed start cleans its workdir up.
FailedStartCleansUp == \A p \in Docker : ended[p] = "failed" /\ ~refused[p] => ~dir[p]

\* What the workdir is for, a mount with the SDK in it for as long as the container
\* runs: the failed start of a later process with the same pid takes it away.
OrphansKeepTheirWorkdir == [][\A p \in Docker :
  orphan[p] = "running" /\ dir[p] /\ ~dir'[p] => orphan'[p] # "running"]_gvars

\* What the cleanup of a failed start is for: nothing is left that would be in the
\* way of the next one.
FailedStartFreesName == \A p \in Docker : ended[p] = "failed" /\ ~refused[p] => orphan[p] = "none"
=============================================================================
