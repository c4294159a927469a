--------------------------------- MODULE Worker ---------------------------------
(***************************************************************************)
(* The Python worker (src/pyworker/bootstrap.py).                          *)
(*                                                                         *)
(* One event loop reads the control channel.  A `run` becomes a task that  *)
(* hands the program to a thread of the default pool; `reload` is awaited  *)
(* inside the read loop and needs a pool thread of its own; `set_shapes`   *)
(* and the answers to SDK calls are handled in the loop.  Every run shares *)
(* one SDK module, one Dispatcher and the process's stdout.  Threads       *)
(* interleave between any two steps of _exec_user_code, and with the loop. *)
(***************************************************************************)
EXTENDS Naturals, Sequences, FiniteSets, SequencesExt

CONSTANTS Runs,      \* programs sent to the worker
          Fns,       \* generated SDK functions, of every SDK version
          Sdks,      \* the SDK sources the gateway pushes, in order
          Mounted,   \* the Docker backend: sdk.py is a file the gateway writes
          DryRuns,   \* the sets of runs that may be dry runs
          MaxCalls,  \* SDK calls a program makes at most
          MaxShapes, \* set_shapes pushes at most
          Threads,   \* size of asyncio's default thread pool
          None       \* no run

ASSUME ParametersTyped ==
  /\ "reload" \notin Runs /\ None \notin Runs
  /\ MaxCalls \in Nat /\ MaxShapes \in Nat
  /\ DryRuns \subseteq SUBSET Runs /\ Mounted \in BOOLEAN
  /\ Sdks \in Seq([fns : SUBSET Fns, mutations : SUBSET Fns])
  /\ Sdks # <<>>
  /\ \A v \in DOMAIN Sdks : Sdks[v].mutations \subseteq Sdks[v].fns

Keys == Runs \X (1 .. MaxCalls)

Frames == [type : {"run"}, run : Runs]
            \cup [type : {"reload", "set_shapes"}, version : Nat]
            \cup [type : {"result"}, id : Nat, of : Keys, ok : BOOLEAN]

\* A Pending handle, with the future it reads and the sink it will record in.
Handles == [fn : Fns, id : Nat, sink : Runs \cup {None}, stub : BOOLEAN,
            state : {"registered", "fired", "ok", "error", "timeout"},
            future : Keys \cup {<<>>}, good : BOOLEAN]

Records == [of : Keys, kind : {"ok", "error", "timeout", "dry_run"}]

VARIABLES
  inbox,      \* frames in front of the read loop, in order
  readLoop,   \* "reading", or the stage of the reload it awaits
  jobs,       \* submitted to the pool, not yet on a thread
  alive,      \* the worker process
  pushed,     \* versions the gateway has pushed: [sdk, shapes]
  before,     \* history: versions pushed before each run
  module,     \* the SDK module: [version, fns, mutations, dispatch]
  keysets,    \* SdkHolder.keysets, as a version
  written,    \* the version the mounted sdk.py holds
  taken,      \* the version of the last reload frame read
  text,       \* the version being executed while the module is reloaded (0: none)
  failed,     \* history: reloads answered with an error, or that loaded an old text
  phase,      \* how far each run is
  dry,        \* the dry_run option of each run
  keys,       \* keysets each run validates against, as a version
  names,      \* SDK functions in each run's namespace
  seen,       \* history: SDK version each run was injected with
  ctx,        \* Dispatcher._trace, ._dry_run, ._mutations
  counter,    \* Dispatcher._counter
  futures,    \* Dispatcher._pending: ids whose future is registered
  calls,      \* each run's handles, in order
  waitingFor, \* the handle each blocked run reads (0: none)
  sends,      \* call_tool requests whose sending is scheduled on the event loop
  unsent,     \* history: ids of requests whose sending failed
  upstream,   \* call_tool requests on the wire, not answered
  trace,      \* the entries of each run's _TraceSink
  report,     \* the trace each answered run returned
  stdout,     \* sys.stdout: the run whose buffer it is, or None
  saved,      \* what redirect_stdout of each run will restore
  overlapped, \* history: runs that executed while another did
  reloaded    \* history: runs during which the module was reloaded

gateway  == <<pushed, before>>
source   == <<written, taken, text, failed>>
shared   == <<module, keysets, source>>
outputs  == <<stdout, saved>>
setup    == <<dry, keys, names, seen>>
traffic  == <<counter, futures, sends, unsent, upstream>>
progress == <<phase, calls, waitingFor>>
traces   == <<trace, report>>
history  == <<overlapped, reloaded>>
loop     == <<inbox, readLoop, jobs>>
vars == <<loop, alive, gateway, shared, progress, setup, ctx, traffic, traces, outputs, history>>

Executing(r) == phase[r] \in {"begun", "injected", "running", "calling", "waiting"}

TypeOK ==
  /\ inbox \in Seq(Frames)
  /\ readLoop \in {"reading", "queued", "loading", "defining"}
  /\ jobs \in Seq(Runs \cup {"reload"})
  /\ alive \in BOOLEAN
  /\ pushed \in [sdk : DOMAIN Sdks, shapes : Nat]
  /\ before \in [Runs -> [sdk : Nat, shapes : Nat]]
  /\ module \in [version : DOMAIN Sdks, fns : SUBSET Fns, mutations : SUBSET Fns,
                 dispatch : {"stub", "call_tool"}]
  /\ keysets \in Nat
  /\ written \in DOMAIN Sdks /\ taken \in DOMAIN Sdks /\ text \in {0} \cup DOMAIN Sdks
  /\ failed \in SUBSET (DOMAIN Sdks)
  /\ phase \in [Runs -> {"idle", "sent", "spawned", "queued", "begun", "injected", "running",
                         "calling", "waiting", "answered", "dropped"}]
  /\ dry \in [Runs -> BOOLEAN]
  /\ keys \in [Runs -> Nat]
  /\ names \in [Runs -> SUBSET Fns]
  /\ seen \in [Runs -> Nat]
  /\ ctx \in [sink : Runs \cup {None}, dry : BOOLEAN, mutations : SUBSET Fns]
  /\ counter \in Nat
  /\ futures \in SUBSET (1 .. counter)
  /\ calls \in [Runs -> Seq(Handles)]
  /\ waitingFor \in [Runs -> 0 .. MaxCalls]
  /\ sends \in SUBSET [id : Nat, of : Keys]
  /\ unsent \in SUBSET (1 .. counter)
  /\ upstream \in SUBSET [id : Nat, of : Keys]
  /\ trace \in [Runs -> Seq(Records)]
  /\ report \in [Runs -> Seq(Records)]
  /\ stdout \in Runs \cup {None}
  /\ saved \in [Runs -> Runs \cup {None}]
  /\ overlapped \in SUBSET Runs
  /\ reloaded \in SUBSET Runs

Init ==
  /\ inbox = <<>>
  /\ readLoop = "reading"
  /\ jobs = <<>>
  /\ alive = TRUE
  /\ pushed = [sdk |-> 1, shapes |-> 0]
  /\ before = [r \in Runs |-> [sdk |-> 0, shapes |-> 0]]
  /\ module = [version |-> 1, fns |-> Sdks[1].fns, mutations |-> Sdks[1].mutations,
               dispatch |-> "stub"]
  /\ keysets = 0
  /\ written = 1 /\ taken = 1 /\ text = 0 /\ failed = {}
  /\ phase = [r \in Runs |-> "idle"]
  /\ dry \in {[r \in Runs |-> r \in D] : D \in DryRuns}
  /\ keys = [r \in Runs |-> 0]
  /\ names = [r \in Runs |-> {}]
  /\ seen = [r \in Runs |-> 0]
  /\ ctx = [sink |-> None, dry |-> FALSE, mutations |-> {}]
  /\ counter = 0
  /\ futures = {}
  /\ calls = [r \in Runs |-> <<>>]
  /\ waitingFor = [r \in Runs |-> 0]
  /\ sends = {} /\ unsent = {} /\ upstream = {}
  /\ trace = [r \in Runs |-> <<>>]
  /\ report = [r \in Runs |-> <<>>]
  /\ stdout = None
  /\ saved = [r \in Runs |-> None]
  /\ overlapped = {}
  /\ reloaded = {}

-----------------------------------------------------------------------------
(* The gateway's end of the control channel.  What it sends to a process that has  *)
(* ended is lost.                                                                  *)

SendRun(r) ==
  /\ alive
  /\ phase[r] = "idle"
  /\ phase' = [phase EXCEPT ![r] = "sent"]
  /\ before' = [before EXCEPT ![r] = pushed]
  /\ inbox' = Append(inbox, [type |-> "run", run |-> r])
  /\ UNCHANGED <<readLoop, jobs, alive, pushed, shared, calls, waitingFor, setup, ctx, traffic,
                 traces, outputs, history>>

\* DockerExecutor::reload_sdk writes the mounted file before it sends the frame, and
\* nothing holds the next one back from writing in between.
WriteSdk ==
  /\ alive
  /\ Mounted
  /\ written < Len(Sdks)
  /\ written' = written + 1
  /\ UNCHANGED <<loop, alive, gateway, module, keysets, taken, text, failed, progress, setup, ctx,
                 traffic, traces, outputs, history>>

SendReload ==
  /\ alive
  /\ pushed.sdk < IF Mounted THEN written ELSE Len(Sdks)
  /\ pushed' = [pushed EXCEPT !.sdk = @ + 1]
  /\ inbox' = Append(inbox, [type |-> "reload", version |-> pushed.sdk + 1])
  /\ UNCHANGED <<readLoop, jobs, alive, before, shared, progress, setup, ctx, traffic,
                 traces, outputs, history>>

SendShapes ==
  /\ alive
  /\ pushed.shapes < MaxShapes
  /\ pushed' = [pushed EXCEPT !.shapes = @ + 1]
  /\ inbox' = Append(inbox, [type |-> "set_shapes", version |-> pushed.shapes + 1])
  /\ UNCHANGED <<readLoop, jobs, alive, before, shared, progress, setup, ctx, traffic,
                 traces, outputs, history>>

\* Answers come back in any order, with a result or an error.
AnswerCall(q) ==
  /\ alive
  /\ q \in upstream
  /\ upstream' = upstream \ {q}
  /\ \E ok \in BOOLEAN :
       inbox' = Append(inbox, [type |-> "result", id |-> q.id, of |-> q.of, ok |-> ok])
  /\ UNCHANGED <<readLoop, jobs, alive, gateway, shared, progress, setup, ctx, counter, futures,
                 sends, unsent, traces, outputs, history>>

-----------------------------------------------------------------------------
(* The read loop of main(), on the event loop.                             *)

\* Mutant: the reload runs as a task of its own.
NeverBusy == TRUE

LoopFree == readLoop = "reading"

Reads(type) ==
  /\ alive
  /\ LoopFree
  /\ inbox # <<>>
  /\ Head(inbox).type = type
  /\ inbox' = Tail(inbox)

\* asyncio.create_task(_handle_run(..))
ReadRun ==
  /\ Reads("run")
  /\ phase' = [phase EXCEPT ![Head(inbox).run] = "spawned"]
  /\ UNCHANGED <<readLoop, jobs, alive, gateway, shared, calls, waitingFor, setup, ctx, traffic,
                 traces, outputs, history>>

\* await _handle_reload(..): the loop reads nothing more until it is done.
ReadReload ==
  /\ Reads("reload")
  /\ taken' = Head(inbox).version
  /\ readLoop' = "queued"
  /\ jobs' = Append(jobs, "reload")
  /\ UNCHANGED <<alive, gateway, module, keysets, written, text, failed, progress, setup, ctx,
                 traffic, traces, outputs, history>>

ReadShapes ==
  /\ Reads("set_shapes")
  /\ keysets' = Head(inbox).version
  /\ UNCHANGED <<readLoop, jobs, alive, gateway, module, source, progress, setup, ctx, traffic,
                 traces, outputs, history>>

\* Mutant: an error response does not resolve the future.
ResolvedWithValue(f) ==
  [r \in Runs |-> [k \in DOMAIN calls[r] |->
     IF calls[r][k].id = f.id /\ f.id \in futures /\ f.ok
     THEN [calls[r][k] EXCEPT !.future = f.of, !.good = f.ok] ELSE calls[r][k]]]

\* Dispatcher.handle_response: the future is popped and resolved; an id with no
\* future is ignored.
Resolved(f) ==
  [r \in Runs |-> [k \in DOMAIN calls[r] |->
     IF calls[r][k].id = f.id /\ f.id \in futures
     THEN [calls[r][k] EXCEPT !.future = f.of, !.good = f.ok] ELSE calls[r][k]]]

\* Mutant: the table of futures is cleared with the first answer.
ReadResultClears ==
  /\ Reads("result")
  /\ futures' = {}
  /\ calls' = Resolved(Head(inbox))
  /\ UNCHANGED <<readLoop, jobs, alive, gateway, shared, phase, waitingFor, setup, ctx, counter,
                 sends, unsent, upstream, traces, outputs, history>>

ReadResult ==
  /\ Reads("result")
  /\ futures' = futures \ {Head(inbox).id}
  /\ calls' = Resolved(Head(inbox))
  /\ UNCHANGED <<readLoop, jobs, alive, gateway, shared, phase, waitingFor, setup, ctx, counter,
                 sends, unsent, upstream, traces, outputs, history>>

-----------------------------------------------------------------------------
(* The thread pool and SdkHolder.reload.                                   *)

\* The task's first step: the arguments of to_thread are evaluated (keysets
\* among them) and the program joins the pool's queue.
Submit(r) ==
  /\ alive
  /\ phase[r] = "spawned"
  /\ phase' = [phase EXCEPT ![r] = "queued"]
  /\ keys' = [keys EXCEPT ![r] = keysets]
  /\ jobs' = Append(jobs, r)
  /\ UNCHANGED <<inbox, readLoop, alive, gateway, shared, calls, waitingFor, dry, names, seen,
                 ctx, traffic, traces, outputs, history>>

ThreadFree ==
  Cardinality({r \in Runs : Executing(r)}) + (IF readLoop \in {"loading", "defining"} THEN 1 ELSE 0)
    < Threads

Takes(job) ==
  /\ alive
  /\ ThreadFree
  /\ jobs # <<>>
  /\ Head(jobs) = job
  /\ jobs' = Tail(jobs)

\* The thread writes sdk.py, if it can, and starts importlib.reload.
StartReload ==
  /\ Takes("reload")
  /\ readLoop' = "loading"
  /\ UNCHANGED <<inbox, alive, gateway, shared, progress, setup, ctx, traffic, traces, outputs,
                 history>>

\* What the file holds: on Docker whatever the gateway wrote last; else the source that
\* was sent, or the old one if the write raised an OSError, which is swallowed, or if
\* the old bytecode passes for it (same size, same second).
Texts == IF Mounted THEN {written} ELSE {taken, module.version}

\* The text is executed in the module's own dictionary.  Its first statements define
\* the placeholder dispatch and the mutation set...
LoadHeader ==
  /\ alive
  /\ readLoop = "loading"
  /\ readLoop' = "defining"
  /\ text' \in Texts
  /\ failed' = IF text' < taken THEN failed \cup {taken} ELSE failed
  /\ module' = [module EXCEPT !.dispatch = "stub", !.mutations = Sdks[text'].mutations]
  /\ reloaded' = reloaded \cup {r \in Runs : Executing(r)}
  /\ UNCHANGED <<inbox, jobs, alive, gateway, keysets, written, taken, progress, setup, ctx,
                 traffic, traces, outputs, overlapped>>

\* ... the rest its functions.  Names the new source does not define stay.  The
\* reload is answered and the read loop goes on.
LoadFunctions ==
  /\ alive
  /\ readLoop = "defining"
  /\ readLoop' = "reading"
  /\ module' = [module EXCEPT !.version = text, !.fns = @ \cup Sdks[text].fns]
  /\ text' = 0
  /\ reloaded' = reloaded \cup {r \in Runs : Executing(r)}
  /\ UNCHANGED <<inbox, jobs, alive, gateway, keysets, written, taken, failed, progress, setup, ctx,
                 traffic, traces, outputs, overlapped>>

\* A text that does not compile raises before any of it is executed: the reload is
\* answered with the traceback, and the module stays as it was.
ReloadFails ==
  /\ alive
  /\ readLoop = "loading"
  /\ readLoop' = "reading"
  /\ failed' = failed \cup {taken}
  /\ UNCHANGED <<inbox, jobs, alive, gateway, module, keysets, written, taken, text, progress,
                 setup, ctx, traffic, traces, outputs, history>>

-----------------------------------------------------------------------------
(* _exec_user_code, on a pool thread.                                      *)

\* A program the pre-flight check rejects: nothing of it runs and no shared
\* state is touched.
Reject(r) ==
  /\ Takes(r)
  /\ phase' = [phase EXCEPT ![r] = "answered"]
  /\ UNCHANGED <<inbox, readLoop, alive, gateway, shared, calls, waitingFor, setup, ctx, traffic,
                 traces, outputs, history>>

\* Mutant: the dry_run flag is not reset.
BeginKeepsDryRun(r) ==
  /\ Takes(r)
  /\ phase' = [phase EXCEPT ![r] = "begun"]
  /\ ctx' = [sink |-> r, dry |-> IF ctx.sink = None THEN dry[r] ELSE ctx.dry,
             mutations |-> module.mutations]
  /\ LET others == {q \in Runs : Executing(q)} IN
       overlapped' = IF others = {} THEN overlapped ELSE overlapped \cup others \cup {r}
  /\ reloaded' = IF readLoop \in {"loading", "defining"} THEN reloaded \cup {r} ELSE reloaded
  /\ UNCHANGED <<inbox, readLoop, alive, gateway, shared, calls, waitingFor, setup, traffic,
                 traces, outputs>>

\* begin_run: the dispatcher's context becomes this run's.
Begin(r) ==
  /\ Takes(r)
  /\ phase' = [phase EXCEPT ![r] = "begun"]
  /\ ctx' = [sink |-> r, dry |-> dry[r], mutations |-> module.mutations]
  /\ LET others == {q \in Runs : Executing(q)} IN
       overlapped' = IF others = {} THEN overlapped ELSE overlapped \cup others \cup {r}
  /\ reloaded' = IF readLoop \in {"loading", "defining"} THEN reloaded \cup {r} ELSE reloaded
  /\ UNCHANGED <<inbox, readLoop, alive, gateway, shared, calls, waitingFor, setup, traffic,
                 traces, outputs>>

\* for name in dir(sdk_module): namespace[name] = ..
Inject(r) ==
  /\ alive
  /\ phase[r] = "begun"
  /\ phase' = [phase EXCEPT ![r] = "injected"]
  /\ names' = [names EXCEPT ![r] = module.fns]
  /\ seen' = [seen EXCEPT ![r] = module.version]
  /\ UNCHANGED <<loop, alive, gateway, shared, calls, waitingFor, dry, keys, ctx, traffic,
                 traces, outputs, history>>

\* sdk_module._codemcp_dispatch = dispatcher.call_tool; then redirect_stdout
Wire(r) ==
  /\ alive
  /\ phase[r] = "injected"
  /\ phase' = [phase EXCEPT ![r] = "running"]
  /\ module' = [module EXCEPT !.dispatch = "call_tool"]
  /\ saved' = [saved EXCEPT ![r] = stdout]
  /\ stdout' = r
  /\ UNCHANGED <<loop, alive, gateway, keysets, source, calls, waitingFor, setup, ctx, traffic,
                 traces, history>>

\* The program leaves its thread: the redirection is undone.
Leaves(r, how) ==
  /\ phase' = [phase EXCEPT ![r] = how]
  /\ waitingFor' = [waitingFor EXCEPT ![r] = 0]
  /\ stdout' = saved[r]
  /\ saved' = [saved EXCEPT ![r] = None]
  /\ UNCHANGED <<loop, alive, gateway, shared, calls, setup, ctx, traffic, trace, history>>

\* It ends with a value, whose handles _resolve has read like the program's own
\* reads, or with an uncaught error: _handle_run sends the response.
Ended(r) ==
  /\ Leaves(r, "answered")
  /\ report' = [report EXCEPT ![r] = trace[r]]

Finish(r) ==
  /\ alive
  /\ phase[r] = "running"
  /\ Ended(r)

\* `result` is, or holds, the handle of a failed call.  _resolve raises and the
\* error is noted, but the value stays as it was: _json_safe reads the handle
\* once more, on the event loop, and ends the task before it sends a response.
FinishUnsent(r) ==
  /\ alive
  /\ phase[r] = "running"
  /\ \E k \in DOMAIN calls[r] : calls[r][k].state \in {"error", "timeout"}
  /\ Leaves(r, "dropped")
  /\ UNCHANGED report

\* The program calls sys.exit: SystemExit is no Exception, it leaves the task
\* and ends the process.
Exit(r) ==
  /\ alive
  /\ phase[r] = "running"
  /\ alive' = FALSE
  /\ UNCHANGED <<loop, gateway, shared, progress, setup, ctx, traffic, traces, outputs, history>>

-----------------------------------------------------------------------------
(* SDK calls: the generated function, Dispatcher.call_tool and Pending.    *)

CanCall(r) ==
  /\ alive
  /\ phase[r] = "running"
  /\ Len(calls[r]) < MaxCalls

Key(r) == <<r, Len(calls[r]) + 1>>

NewHandle(fn, id) ==
  [fn |-> fn, id |-> id, sink |-> None, stub |-> FALSE, state |-> "registered",
   future |-> <<>>, good |-> FALSE]

\* The placeholder raises RuntimeError in the program.
CallPlaceholder(r) ==
  /\ CanCall(r)
  /\ names[r] # {}
  /\ module.dispatch = "stub"
  /\ Ended(r)

\* A mutating call of a dry run is recorded and stubbed.
CallStubbed(r, fn) ==
  /\ CanCall(r)
  /\ fn \in names[r]
  /\ module.dispatch = "call_tool"
  /\ ctx.dry /\ fn \in ctx.mutations
  /\ calls' = [calls EXCEPT ![r] = Append(@, [NewHandle(fn, 0) EXCEPT !.stub = TRUE,
                                                !.sink = ctx.sink, !.state = "ok",
                                                !.future = Key(r)])]
  /\ trace' = [trace EXCEPT ![ctx.sink] = Append(@, [of |-> Key(r), kind |-> "dry_run"])]
  /\ UNCHANGED <<loop, alive, gateway, shared, phase, waitingFor, setup, ctx, traffic, report,
                 outputs, history>>

CallRegistersPerRun(r, fn) ==
  /\ CanCall(r)
  /\ fn \in names[r]
  /\ module.dispatch = "call_tool"
  /\ ~ (ctx.dry /\ fn \in ctx.mutations)
  /\ counter' = counter + 1
  /\ futures' = futures \cup {Len(calls[r]) + 1}
  /\ calls' = [calls EXCEPT ![r] = Append(@, NewHandle(fn, Len(calls[r]) + 1))]
  /\ phase' = [phase EXCEPT ![r] = "calling"]
  /\ UNCHANGED <<loop, alive, gateway, shared, waitingFor, setup, ctx, sends, unsent, upstream,
                 traces, outputs, history>>

\* Any other call takes an id and registers its future...
CallRegisters(r, fn) ==
  /\ CanCall(r)
  /\ fn \in names[r]
  /\ module.dispatch = "call_tool"
  /\ ~ (ctx.dry /\ fn \in ctx.mutations)
  /\ counter' = counter + 1
  /\ futures' = futures \cup {counter + 1}
  /\ calls' = [calls EXCEPT ![r] = Append(@, NewHandle(fn, counter + 1))]
  /\ phase' = [phase EXCEPT ![r] = "calling"]
  /\ UNCHANGED <<loop, alive, gateway, shared, waitingFor, setup, ctx, sends, unsent, upstream,
                 traces, outputs, history>>

\* ... schedules the sending on the event loop, and returns a Pending on the current
\* trace sink.
CallFires(r) ==
  /\ alive
  /\ phase[r] = "calling"
  /\ phase' = [phase EXCEPT ![r] = "running"]
  /\ LET k == Len(calls[r]) IN
       /\ sends' = sends \cup {[id |-> calls[r][k].id, of |-> <<r, k>>]}
       /\ calls' = [calls EXCEPT ![r][k] = [@ EXCEPT !.state = "fired", !.sink = ctx.sink]]
  /\ UNCHANGED <<loop, alive, gateway, shared, waitingFor, setup, ctx, counter, futures, unsent,
                 upstream, traces, outputs, history>>

\* _send, on the event loop: the request goes on the wire...
Send(q) ==
  /\ alive
  /\ q \in sends
  /\ sends' = sends \ {q}
  /\ upstream' = upstream \cup {q}
  /\ UNCHANGED <<loop, alive, gateway, shared, progress, setup, ctx, counter, futures, unsent,
                 traces, outputs, history>>

\* ... or its arguments are no JSON (another call's Pending, a set): nobody looks at
\* what _send raised, and the future stays registered.
SendFails(q) ==
  /\ alive
  /\ q \in sends
  /\ sends' = sends \ {q}
  /\ unsent' = unsent \cup {q.id}
  /\ UNCHANGED <<loop, alive, gateway, shared, progress, setup, ctx, counter, futures, upstream,
                 traces, outputs, history>>

\* Pending.result: a value or error already cached is returned at once; else
\* the thread blocks.
Read(r, k) ==
  /\ alive
  /\ phase[r] = "running"
  /\ k \in DOMAIN calls[r]
  /\ calls[r][k].state = "fired"
  /\ phase' = [phase EXCEPT ![r] = "waiting"]
  /\ waitingFor' = [waitingFor EXCEPT ![r] = k]
  /\ UNCHANGED <<loop, alive, gateway, shared, calls, setup, ctx, traffic, traces, outputs,
                 history>>

\* The outcome is cached and recorded; an error is raised in the program, which
\* catches it and goes on, or ends.
Settle(r, kind) ==
  LET k == waitingFor[r]
      s == calls[r][k].sink IN
    /\ phase' = [phase EXCEPT ![r] = "running"]
    /\ waitingFor' = [waitingFor EXCEPT ![r] = 0]
    /\ calls' = [calls EXCEPT ![r][k].state = kind]
    /\ trace' = [trace EXCEPT ![s] = Append(@, [of |-> <<r, k>>, kind |-> kind])]
    /\ UNCHANGED <<loop, alive, gateway, shared, setup, ctx, traffic, report, outputs, history>>

Resume(r) ==
  /\ alive
  /\ phase[r] = "waiting"
  /\ LET h == calls[r][waitingFor[r]] IN
       h.future # <<>> /\ Settle(r, IF h.good THEN "ok" ELSE "error")

\* timeout_ms, or .result(timeout): it may expire just as the answer comes.
CallTimesOut(r) ==
  /\ alive
  /\ phase[r] = "waiting"
  /\ Settle(r, "timeout")

-----------------------------------------------------------------------------
Gateway  == (\E r \in Runs : SendRun(r)) \/ WriteSdk \/ SendReload \/ SendShapes
ReadLoop == ReadRun \/ ReadReload \/ ReadShapes \/ ReadResult
Reload   == StartReload \/ LoadHeader \/ LoadFunctions \/ ReloadFails
Execute(r) == Submit(r) \/ Reject(r) \/ Begin(r) \/ Inject(r) \/ Wire(r)
Program(r) ==
  \/ Finish(r) \/ FinishUnsent(r) \/ Exit(r) \/ CallPlaceholder(r) \/ CallFires(r)
  \/ Resume(r) \/ CallTimesOut(r)
  \/ \E fn \in Fns : CallStubbed(r, fn) \/ CallRegisters(r, fn)
  \/ \E k \in 1 .. MaxCalls : Read(r, k)

Next ==
  \/ Gateway
  \/ \E q \in upstream : AnswerCall(q)
  \/ \E q \in sends : Send(q) \/ SendFails(q)
  \/ ReadLoop
  \/ Reload
  \/ \E r \in Runs : Execute(r) \/ Program(r)

Spec == Init /\ [][Next]_vars

\* Tasks and threads are scheduled and a frame read is handled.  A program may compute
\* for ever, a call need neither be answered nor time out, and the gateway need not send
\* anything.
Fairness ==
  /\ WF_vars(ReadLoop)
  /\ WF_vars(Reload)
  /\ \A r \in Runs : /\ WF_vars(Submit(r)) /\ WF_vars(Reject(r) \/ Begin(r))
                     /\ WF_vars(Inject(r)) /\ WF_vars(Wire(r))
                     /\ WF_vars(CallFires(r)) /\ WF_vars(Resume(r))
  /\ WF_vars(\E q \in sends : Send(q) \/ SendFails(q))

FairSpec == Spec /\ Fairness

-----------------------------------------------------------------------------
(* What holds however runs, reloads and answers interleave.                *)

Settled(h)    == h.state \in {"ok", "error", "timeout"}
Handed(r)     == DOMAIN calls[r]
Fired(h)      == h.id # 0 /\ h.state # "registered"
RecordsOf(r,k) == UNION {{q} \X {i \in DOMAIN trace[q] : trace[q][i].of = <<r, k>>} : q \in Runs}

\* The value a Pending reads is the answer to its own call, across concurrent
\* runs that share the Dispatcher's counter and its table of futures.
ValuesAreOwn ==
  \A r \in Runs : \A k \in Handed(r) :
    calls[r][k].future # <<>> => calls[r][k].future = <<r, k>>

Answered(id)  == \E i \in DOMAIN inbox : inbox[i].type = "result" /\ inbox[i].id = id

\* A call that was made is never orphaned but by its own sending: until its future is
\* resolved the future stays registered, and the request is scheduled or on the wire or
\* its answer on the way, even when a read of it timed out meanwhile.  If its sending
\* failed, nothing ever answers it.
CallsStayServed ==
  \A r \in Runs : \A k \in Handed(r) :
    LET h == calls[r][k]
        q == [id |-> h.id, of |-> <<r, k>>] IN
      /\ (Fired(h) /\ h.future = <<>>) =>
           /\ h.id \in futures
           /\ h.id \in unsent \/ q \in sends \cup upstream \/ Answered(h.id)
      /\ h.id \in unsent =>
           h.future = <<>> /\ q \notin sends \cup upstream /\ ~ Answered(h.id)

\* However often a program reads a handle, and whichever of a timeout and a late
\* answer wins, a call is recorded exactly once, when its outcome is settled.
SettledCallsAreRecordedOnce ==
  \A r \in Runs : \A k \in Handed(r) :
    Cardinality(RecordsOf(r, k)) = IF Settled(calls[r][k]) THEN 1 ELSE 0

\* A run sent after a set_shapes is checked against those shapes or later ones, and one
\* sent after a reload executes with that SDK or a later one, never with older: the
\* read loop waits for the reload.  A reload that failed, or that loaded an old text,
\* leaves it with the last one before that took effect.
RunsSeeEarlierPushes ==
  \A r \in Runs :
    /\ phase[r] \in {"queued", "begun", "injected", "running", "calling", "waiting"}
         => keys[r] >= before[r].shapes
    /\ seen[r] # 0 => \A v \in 1 .. before[r].sdk : v \in failed \/ v <= seen[r]

\* A run that executed alone returns a trace of exactly its own settled calls.
LoneReportsAreExact ==
  \A r \in Runs : (phase[r] = "answered" /\ r \notin overlapped) =>
    {report[r][i].of : i \in DOMAIN report[r]}
      = {<<r, k>> : k \in {j \in Handed(r) : Settled(calls[r][j])}}

\* A dry run that executed alone, with no reload meanwhile, put no call on the
\* wire that the SDK it was given classifies as mutating.
LoneDryRunsWriteNothing ==
  \A r \in Runs : (dry[r] /\ r \notin overlapped \cup reloaded) =>
    \A k \in Handed(r) : Fired(calls[r][k]) =>
                            calls[r][k].fn \notin Sdks[seen[r]].mutations

\* A program that lacks a thread, or waits for a call that has been answered.
KeptWaiting(r) ==
  \/ phase[r] \in {"sent", "spawned", "queued"}
  \/ /\ phase[r] = "waiting"
     /\ LET id == calls[r][waitingFor[r]].id IN
          id \notin unsent \cup {q.id : q \in sends \cup upstream}

\* As long as a pool thread comes free from time to time, every run that is sent gets
\* one, although reloads hold up the read loop, and a program that waits for a call is
\* given the answer once it has come, value or error.
RunsAreServed ==
  []<>(ThreadFree \/ ~ alive) => \A r \in Runs : []<>(~ KeptWaiting(r) \/ ~ alive)

-----------------------------------------------------------------------------
(* The invariant behind them.                                              *)

\* A call that was made with this id.
Issued(id, of) ==
  /\ of[2] \in Handed(of[1])
  /\ calls[of[1]][of[2]].id = id
  /\ Fired(calls[of[1]][of[2]])

\* No two calls have one id, and requests and answers bear the id of their call.
IdsAreOwned ==
  /\ \A r \in Runs : \A k \in Handed(r) : calls[r][k].id <= counter
  /\ \A r, q \in Runs : \A k \in Handed(r), j \in Handed(q) :
       calls[r][k].id # 0 /\ calls[r][k].id = calls[q][j].id => r = q /\ k = j
  /\ \A q \in sends \cup upstream : Issued(q.id, q.of)
  /\ \A i \in DOMAIN inbox : inbox[i].type = "result" => Issued(inbox[i].id, inbox[i].of)

\* Nothing has come of a request before it is sent, nor of a call before it is fired.
SendsComeFirst ==
  /\ \A q \in sends :
       q \notin upstream /\ ~ Answered(q.id) /\ calls[q.of[1]][q.of[2]].future = <<>>
  /\ \A r \in Runs : \A k \in Handed(r) : calls[r][k].id \in unsent => Fired(calls[r][k])

\* How far a run is tells what its handles are; the last may be half made.
CallsFollowPhase ==
  \A r \in Runs :
    /\ phase[r] \in {"idle", "sent", "spawned", "queued", "begun", "injected"} => calls[r] = <<>>
    /\ Len(calls[r]) <= MaxCalls
    /\ \A k \in Handed(r) :
         IF calls[r][k].state = "registered"
         THEN /\ phase[r] = "calling" /\ k = Len(calls[r])
              /\ calls[r][k].id \in futures /\ calls[r][k].future = <<>>
         ELSE calls[r][k].sink \in Runs
    /\ phase[r] = "calling" => calls[r] # <<>> /\ calls[r][Len(calls[r])].state = "registered"
    /\ phase[r] = "waiting" => /\ waitingFor[r] \in Handed(r)
                               /\ calls[r][waitingFor[r]].state = "fired"
    /\ Executing(r) => ctx.sink \in Runs

\* A record is of a settled call, and each settled call has one.
RecordsFollowCalls ==
  /\ \A q \in Runs : \A i \in DOMAIN trace[q] :
       LET of == trace[q][i].of IN of[2] \in Handed(of[1]) /\ Settled(calls[of[1]][of[2]])
  /\ \A q, p \in Runs : \A i \in DOMAIN trace[q], j \in DOMAIN trace[p] :
       trace[q][i].of = trace[p][j].of => q = p /\ i = j
  /\ \A r \in Runs : \A k \in Handed(r) :
       Settled(calls[r][k]) => \E q \in Runs : \E i \in DOMAIN trace[q] : trace[q][i].of = <<r, k>>

\* Version v has been handled (have), or is on its way in front of frame i.
Reaches(type, have, v, i) ==
  v <= have \/ \E j \in DOMAIN inbox : j < i /\ inbox[j].type = type /\ inbox[j].version = v

\* The pushes of one type that are on their way ascend one by one from what is had to
\* what was pushed.
Ascending(type, have, last) ==
  /\ have <= last
  /\ Reaches(type, have, last, Len(inbox) + 1)
  /\ \A i \in DOMAIN inbox : inbox[i].type = type =>
       /\ have < inbox[i].version /\ inbox[i].version <= last
       /\ Reaches(type, have, inbox[i].version - 1, i)
       /\ \A j \in DOMAIN inbox :
            j < i /\ inbox[j].type = type => inbox[j].version < inbox[i].version

PushesAreInOrder ==
  /\ Ascending("set_shapes", keysets, pushed.shapes)
  /\ Ascending("reload", taken, pushed.sdk)

\* The module has this version, or had the chance.
Tried(v) == v <= module.version \/ v \in failed

\* The newest text that a load finds.
Newest == IF Mounted THEN written ELSE taken

\* What was taken was tried, except for what is being loaded; and no text is older than
\* the one before.
VersionsAscend ==
  /\ \A v \in 1 .. taken : Tried(v) \/ (v = taken /\ readLoop # "reading")
  /\ module.version <= Newest
  /\ readLoop = "defining" =>
       /\ text \in module.version .. Newest
       /\ taken <= text \/ taken \in failed

\* A run is sent once, and what was pushed before it is in front of it, or handled.
RunsAreBehind ==
  /\ \A i \in DOMAIN inbox : inbox[i].type = "run" =>
       LET r == inbox[i].run IN
         /\ phase[r] = "sent"
         /\ Reaches("set_shapes", keysets, before[r].shapes, i)
         /\ Reaches("reload", taken, before[r].sdk, i)
         /\ \A j \in DOMAIN inbox : inbox[j] = inbox[i] => i = j
  /\ \A r \in Runs :
       /\ phase[r] \notin {"idle", "sent"} =>
            before[r].shapes <= keysets /\ \A v \in 1 .. before[r].sdk : Tried(v)
       /\ phase[r] \in {"idle", "sent", "spawned", "queued"} => seen[r] = 0

\* The pool's queue holds each run that is queued, and the reload the loop waits for,
\* once.
JobsAreSingle ==
  /\ \A i \in DOMAIN jobs : IF jobs[i] = "reload" THEN readLoop = "queued"
                                                 ELSE phase[jobs[i]] = "queued"
  /\ IsInjective(jobs)

\* Only runs that overlap record into each other's sinks.
SinksAreShared ==
  /\ \A r \in Runs : Executing(r) => ctx.sink = r \/ {r, ctx.sink} \subseteq overlapped
  /\ \A r \in Runs : \A k \in Handed(r) : calls[r][k].state # "registered" =>
       calls[r][k].sink = r \/ {r, calls[r][k].sink} \subseteq overlapped
  /\ \A q \in Runs : \A i \in DOMAIN trace[q] :
       LET r == trace[q][i].of[1] IN r = q \/ {r, q} \subseteq overlapped
  /\ \A r \in Runs : phase[r] # "answered" => report[r] = <<>>

\* A future that is registered has not been resolved; a stub never had one.
FuturesAreOpen ==
  \A r \in Runs : \A k \in Handed(r) :
    /\ calls[r][k].id \in futures => calls[r][k].future = <<>>
    /\ calls[r][k].stub => calls[r][k].id = 0 /\ calls[r][k].state = "ok"

\* A lone run's context is what it began with, and what it has sent was no write.
LoneContexts ==
  /\ module.mutations = Sdks[IF readLoop = "defining" THEN text ELSE module.version].mutations
  /\ \A r \in Runs : (Executing(r) /\ r \notin overlapped \cup reloaded) =>
       /\ ctx.dry = dry[r] /\ ctx.mutations = Sdks[module.version].mutations
       /\ readLoop # "defining"
       /\ phase[r] # "begun" => seen[r] = module.version
  /\ \A r \in Runs : (dry[r] /\ r \notin overlapped \cup reloaded) =>
       \A k \in Handed(r) : calls[r][k].id # 0 => calls[r][k].fn \notin Sdks[seen[r]].mutations

IInv ==
  /\ TypeOK
  /\ IdsAreOwned /\ ValuesAreOwn /\ CallsFollowPhase /\ SendsComeFirst /\ CallsStayServed
  /\ RecordsFollowCalls
  /\ PushesAreInOrder /\ VersionsAscend /\ RunsAreBehind /\ RunsSeeEarlierPushes
  /\ JobsAreSingle
  /\ SinksAreShared /\ LoneReportsAreExact
  /\ LoneContexts /\ FuturesAreOpen

-----------------------------------------------------------------------------
(* What the worker promises.                                               *)

\* A run that has begun and has no functions yet has done nothing.
Stage(r) ==
  IF phase[r] \in {"answered", "dropped"} THEN phase[r]
  ELSE IF phase[r] \in {"injected", "running", "calling", "waiting"} THEN "executing"
  ELSE "waiting"

Made(h) ==
  [fn |-> h.fn,
   answer |-> IF h.stub \/ h.future = <<>> THEN "none" ELSE IF h.good THEN "ok" ELSE "error",
   outcome |-> IF h.stub THEN "dry_run" ELSE IF Settled(h) THEN h.state ELSE "open"]

Stages    == [r \in Runs |-> Stage(r)]
Writers   == [r \in Runs |-> IF seen[r] = 0 THEN {} ELSE Sdks[seen[r]].mutations]
CallsMade == [r \in Runs |-> [k \in Handed(r) |-> Made(calls[r][k])]]
Disturbed == overlapped \cup reloaded

Promise == INSTANCE RunPromise WITH
  stage <- Stages, writers <- Writers, made <- CallsMade, log <- trace, mixed <- Disturbed

\* Each program is run as if the worker were its own, unless it overlapped another
\* or a reload; and calls are answered, settled and recorded once even then
\* (README.md:547, "no crosstalk").
PromiseKept == Promise!Spec

-----------------------------------------------------------------------------
(* What the documentation says, and interleavings refute.                  *)

\* "Under dry_run, mutating calls are not sent upstream." (README.md)
DryRunsWriteNothing ==
  \A q \in upstream : dry[q.of[1]] =>
    \A v \in DOMAIN Sdks : calls[q.of[1]][q.of[2]].fn \notin Sdks[v].mutations

\* "no crosstalk, isolated stdout/result" (README.md): what a program prints goes
\* to its own buffer.
StdoutIsIsolated ==
  \A r \in Runs : phase[r] \in {"running", "calling", "waiting"} => stdout = r

\* "hot-reloads it into the running worker (no worker restart, no lost state)"
\* (README.md): a program that is running can go on calling its functions.
ReloadKeepsRunsWorking ==
  \A r \in Runs : phase[r] = "running" => module.dispatch = "call_tool"

\* "Disabling a tool removes it from the SDK ... the LLM can no longer call it"
\* (README.md): a run sent after the reload has no function that it dropped.
RemovedFunctionsAreGone ==
  \A r \in Runs :
    names[r] \subseteq UNION {Sdks[v].fns : v \in {w \in DOMAIN Sdks : w >= before[r].sdk}}

\* call_tool "records every call into the run's trace sink" (bootstrap.py).
EveryCallIsRecorded ==
  \A r \in Runs : phase[r] = "answered" =>
    \A k \in Handed(r) : Fired(calls[r][k]) => RecordsOf(r, k) # {}

\* "An uncaught ToolError is returned as a structured JSON error field" (README.md):
\* no program ends without a response.
UncaughtErrorsAreReturned == \A r \in Runs : phase[r] # "dropped"

\* "the worker itself stays responsive to new runs" (README.md).
NewRunsStart == \A r \in Runs : []<>(phase[r] \notin {"sent", "spawned", "queued"} \/ ~ alive)

\* "Fire now: the request is on the wire before we return" (bootstrap.py).
FiredIsOnTheWire ==
  \A r \in Runs : \A k \in Handed(r) :
    LET h == calls[r][k] IN
      (Fired(h) /\ h.future = <<>>) =>
        [id |-> h.id, of |-> <<r, k>>] \in upstream \/ Answered(h.id)
=============================================================================
