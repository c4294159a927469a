---------------------------- MODULE ControlChannel ----------------------------
(***************************************************************************)
(* The gateway's end of the JSON-RPC control channel (src/src/control.rs)  *)
(* and the executors that call it (src/src/exec/host.rs, docker.rs).       *)
(*                                                                         *)
(* A caller task allocates an id, registers a oneshot sender under it in   *)
(* the `pending` map, posts a frame on the unbounded outbound queue and    *)
(* awaits the oneshot.  A writer task moves frames to the WebSocket; a     *)
(* reader task completes oneshots, spawns one task per `call_tool`, and    *)
(* when the connection ends fails whatever is in `pending`.  Calls of      *)
(* `run` sit under the executor's timeout; `reload` and `set_shapes` do    *)
(* not.  Every task interleaves with every other at its await points.      *)
(***************************************************************************)
EXTENDS Naturals, Sequences

CONSTANTS Runs,       \* calls of ControlHandle::run
          Pushes,     \* calls of ControlHandle::reload and ::set_shapes
          ToolCalls,  \* call_tool requests the worker may send
          NoRequest   \* "no request": the owner of a reply no worker wrote

ASSUME KindsDisjoint == Runs \cap Pushes = {} /\ NoRequest \notin Runs \cup Pushes

Requests == Runs \cup Pushes

Reply  == [kind : {"none", "answer", "error", "lost", "timeout", "closed"},
           of   : Requests \cup {NoRequest}]
NoReply    == [kind |-> "none", of |-> NoRequest]
Failure(k) == [kind |-> k, of |-> NoRequest]

Frame == [type : {"request"}, id : Nat, req : Requests]

\* The writer's queue carries requests and the results of tool calls; the
\* worker's frames are responses and tool calls.
OutFrame == Frame \cup [type : {"result"}, call : ToolCalls, ok : BOOLEAN]
InFrame  == [type : {"response"}, id : Nat, req : Requests, ok : BOOLEAN]
              \cup [type : {"call"}, call : ToolCalls]

VARIABLES
  nextId,      \* ControlHandle.next_id
  task,        \* where each caller task stands
  reqId,       \* the id each caller allocated (0: none yet)
  pending,     \* the map id -> caller whose oneshot sender it holds
  oneshot,     \* the value in each caller's oneshot channel
  outcome,     \* what each call returned
  outbound,    \* the unbounded queue in front of the writer task
  writer,      \* "up", or "down" once a send failed and the queue was dropped
  reader,      \* "reading", "draining" (loop left), "stopped" (map drained)
  link,        \* the TCP connection
  toWorker,    \* frames written and not yet read by the worker
  fromWorker,  \* frames the worker sent and the reader has not read
  inHand,      \* requests the worker has read and not answered
  taken,       \* history: how often the worker read each request
  call,        \* progress of each call_tool request
  shapeEvents  \* tool calls whose result went to the shape learner

callers == <<nextId, task, reqId, outcome>>
wire    == <<link, toWorker, fromWorker, inHand, taken>>
tools   == <<call, shapeEvents>>
vars    == <<callers, pending, oneshot, outbound, writer, reader, wire, tools>>

CallStates == {"idle", "sent", "upstream", "ok", "toolError", "failed",
               "replied", "dropped", "received"}

TypeOK ==
  /\ nextId \in Nat \ {0}
  /\ task \in [Requests -> {"idle", "allocated", "registered", "waiting", "done"}]
  /\ reqId \in [Requests -> Nat]
  /\ DOMAIN pending \in SUBSET Nat
  /\ pending \in [DOMAIN pending -> Requests]
  /\ oneshot \in [Requests -> Reply]
  /\ outcome \in [Requests -> Reply]
  /\ outbound \in Seq(OutFrame)
  /\ writer \in {"up", "down"}
  /\ reader \in {"reading", "draining", "stopped"}
  /\ link \in {"up", "down"}
  /\ toWorker \in Seq(OutFrame)
  /\ fromWorker \in Seq(InFrame)
  /\ inHand \in SUBSET Frame
  /\ taken \in [Requests -> Nat]
  /\ call \in [ToolCalls -> CallStates]
  /\ shapeEvents \in SUBSET ToolCalls

Init ==
  /\ nextId = 1
  /\ task = [r \in Requests |-> "idle"]
  /\ reqId = [r \in Requests |-> 0]
  /\ pending = [i \in {} |-> NoRequest]
  /\ oneshot = [r \in Requests |-> NoReply]
  /\ outcome = [r \in Requests |-> NoReply]
  /\ outbound = <<>>
  /\ writer = "up"
  /\ reader = "reading"
  /\ link = "up"
  /\ toWorker = <<>>
  /\ fromWorker = <<>>
  /\ inHand = {}
  /\ taken = [r \in Requests |-> 0]
  /\ call = [c \in ToolCalls |-> "idle"]
  /\ shapeEvents = {}

-----------------------------------------------------------------------------
(* The caller tasks: ControlHandle::run, ::reload and ::set_shapes.        *)

\* Mutant: the counter is read where it should be advanced.
AllocateSame(r) ==
  /\ task[r] = "idle"
  /\ reqId' = [reqId EXCEPT ![r] = nextId]
  /\ task' = [task EXCEPT ![r] = "allocated"]
  /\ UNCHANGED <<nextId, outcome, pending, oneshot, outbound, writer, reader, wire, tools>>

\* let id = self.next_id.fetch_add(1)
Allocate(r) ==
  /\ task[r] = "idle"
  /\ reqId' = [reqId EXCEPT ![r] = nextId]
  /\ nextId' = nextId + 1
  /\ task' = [task EXCEPT ![r] = "allocated"]
  /\ UNCHANGED <<outcome, pending, oneshot, outbound, writer, reader, wire, tools>>

\* self.pending.lock().await.insert(id, tx)
Register(r) ==
  /\ task[r] = "allocated"
  /\ pending' = [i \in DOMAIN pending \cup {reqId[r]} |->
                   IF i = reqId[r] THEN r ELSE pending[i]]
  /\ task' = [task EXCEPT ![r] = "registered"]
  /\ UNCHANGED <<nextId, reqId, outcome, oneshot, outbound, writer, reader, wire, tools>>

Return(r, reply) ==
  /\ task' = [task EXCEPT ![r] = "done"]
  /\ outcome' = [outcome EXCEPT ![r] = reply]
  /\ UNCHANGED <<nextId, reqId>>

\* self.outbound.send(..): fails only when the writer dropped its end, and then
\* returns without taking the entry out of `pending`.
Post(r) ==
  /\ task[r] = "registered"
  /\ \/ /\ writer = "up"
        /\ outbound' = Append(outbound, [type |-> "request", id |-> reqId[r], req |-> r])
        /\ task' = [task EXCEPT ![r] = "waiting"]
        /\ UNCHANGED <<nextId, reqId, outcome>>
     \/ /\ writer = "down"
        /\ Return(r, Failure("closed"))
        /\ UNCHANGED outbound
  /\ UNCHANGED <<pending, oneshot, writer, reader, wire, tools>>

\* rx.await completes
Receive(r) ==
  /\ task[r] = "waiting"
  /\ oneshot[r] # NoReply
  /\ Return(r, oneshot[r])
  /\ UNCHANGED <<pending, oneshot, outbound, writer, reader, wire, tools>>

\* tokio::time::timeout around `run` drops the future at one of its awaits; the
\* `pending` entry, if made, stays.  The inner future is polled first, so a
\* reply that is there wins.
Timeout(r) ==
  /\ r \in Runs
  /\ task[r] \in {"allocated", "waiting"}
  /\ oneshot[r] = NoReply
  /\ Return(r, Failure("timeout"))
  /\ UNCHANGED <<pending, oneshot, outbound, writer, reader, wire, tools>>

-----------------------------------------------------------------------------
(* The writer task and the reader task.                                    *)

\* Mutant: a frame is written and kept at the head of the queue.
WriteAndKeep ==
  /\ writer = "up"
  /\ outbound # <<>>
  /\ link = "up"
  /\ Len(toWorker) < 2
  /\ toWorker' = Append(toWorker, Head(outbound))
  /\ UNCHANGED <<callers, pending, oneshot, outbound, writer, reader, link, fromWorker, inHand,
                 taken, tools>>

\* A frame reaches the worker; or, the connection being gone, it disappears in
\* a socket buffer, or the send fails, which ends the task and drops the queue.
Write ==
  /\ writer = "up"
  /\ outbound # <<>>
  /\ \/ /\ link = "up"
        /\ toWorker' = Append(toWorker, Head(outbound))
        /\ outbound' = Tail(outbound)
        /\ UNCHANGED writer
     \/ /\ link = "down"
        /\ outbound' = Tail(outbound)
        /\ UNCHANGED <<writer, toWorker>>
     \/ /\ link = "down"
        /\ writer' = "down"
        /\ outbound' = <<>>
        /\ UNCHANGED toWorker
  /\ UNCHANGED <<callers, pending, oneshot, reader, link, fromWorker, inHand, taken, tools>>

\* Sending on a oneshot whose receiver is gone has no effect.
Completed(r, reply) ==
  IF task[r] = "done" THEN oneshot ELSE [oneshot EXCEPT ![r] = reply]

Forget(i) == [j \in DOMAIN pending \ {i} |-> pending[j]]

\* handle_incoming on a response: take the sender out of the map and use it;
\* an id the map does not hold is ignored.
ReadResponse ==
  /\ reader = "reading"
  /\ fromWorker # <<>>
  /\ Head(fromWorker).type = "response"
  /\ LET f == Head(fromWorker) IN
       \/ /\ f.id \in DOMAIN pending
          /\ pending' = Forget(f.id)
          /\ oneshot' = Completed(pending[f.id],
                          [kind |-> IF f.ok THEN "answer" ELSE "error", of |-> f.req])
       \/ /\ f.id \notin DOMAIN pending
          /\ UNCHANGED <<pending, oneshot>>
  /\ fromWorker' = Tail(fromWorker)
  /\ UNCHANGED <<callers, outbound, writer, reader, link, toWorker, inHand,
                 taken, tools>>

\* A call_tool frame: its own task is spawned and the reader goes on.
ReadCall ==
  /\ reader = "reading"
  /\ fromWorker # <<>>
  /\ Head(fromWorker).type = "call"
  /\ call' = [call EXCEPT ![Head(fromWorker).call] = "upstream"]
  /\ fromWorker' = Tail(fromWorker)
  /\ UNCHANGED <<callers, pending, oneshot, outbound, writer, reader, link, toWorker,
                 inHand, taken, shapeEvents>>

\* Close frame, read error or end of stream: the loop is left...
LeaveLoop ==
  /\ reader = "reading"
  /\ link = "down"
  /\ fromWorker = <<>>
  /\ reader' = "draining"
  /\ UNCHANGED <<callers, pending, oneshot, outbound, writer, wire, tools>>

\* Mutant: only runs are failed, pushes are dropped from the map.
DrainRuns ==
  /\ reader = "draining"
  /\ reader' = "stopped"
  /\ oneshot' = [r \in Requests |->
                   IF r \in Runs /\ task[r] # "done" /\ \E i \in DOMAIN pending : pending[i] = r
                   THEN Failure("lost") ELSE oneshot[r]]
  /\ pending' = [i \in {} |-> NoRequest]
  /\ UNCHANGED <<callers, outbound, writer, wire, tools>>

\* ... and, under the lock, every pending request is failed.
Drain ==
  /\ reader = "draining"
  /\ reader' = "stopped"
  /\ oneshot' = [r \in Requests |->
                   IF task[r] # "done" /\ \E i \in DOMAIN pending : pending[i] = r
                   THEN Failure("lost") ELSE oneshot[r]]
  /\ pending' = [i \in {} |-> NoRequest]
  /\ UNCHANGED <<callers, outbound, writer, wire, tools>>

-----------------------------------------------------------------------------
(* handle_call_tool, one task per call.                                    *)

\* upstreams.call_tool(..).await returns: a result, a result flagged isError,
\* or an error.
UpstreamReturns(c) ==
  /\ call[c] = "upstream"
  /\ \E s \in {"ok", "toolError", "failed"} : call' = [call EXCEPT ![c] = s]
  /\ UNCHANGED <<callers, pending, oneshot, outbound, writer, reader, wire, shapeEvents>>

\* A result not flagged isError is offered to the learner, then the response
\* is queued; with the writer gone the task ends with an error.
ReplyToCall(c) ==
  /\ call[c] \in {"ok", "toolError", "failed"}
  /\ shapeEvents' = IF call[c] = "ok" THEN shapeEvents \cup {c} ELSE shapeEvents
  /\ \/ /\ writer = "up"
        /\ outbound' = Append(outbound, [type |-> "result", call |-> c,
                                         ok |-> call[c] # "failed"])
        /\ call' = [call EXCEPT ![c] = "replied"]
     \/ /\ writer = "down"
        /\ call' = [call EXCEPT ![c] = "dropped"]
        /\ UNCHANGED outbound
  /\ UNCHANGED <<callers, pending, oneshot, writer, reader, wire>>

-----------------------------------------------------------------------------
(* The far end: the worker's read loop and the connection.                 *)

\* The read loop takes a frame: a request starts, a result resolves its future.
WorkerReads ==
  /\ link = "up"
  /\ toWorker # <<>>
  /\ toWorker' = Tail(toWorker)
  /\ LET f == Head(toWorker) IN
       \/ /\ f.type = "request"
          /\ inHand' = inHand \cup {f}
          /\ taken' = [taken EXCEPT ![f.req] = @ + 1]
          /\ UNCHANGED call
       \/ /\ f.type = "result"
          /\ call' = [call EXCEPT ![f.call] = "received"]
          /\ UNCHANGED <<inHand, taken>>
  /\ UNCHANGED <<callers, pending, oneshot, outbound, writer, reader, link, fromWorker,
                 shapeEvents>>

\* A run (or a push) ends: its response, with or without an error, is sent.
WorkerAnswers(f) ==
  /\ link = "up"
  /\ f \in inHand
  /\ inHand' = inHand \ {f}
  /\ \E ok \in BOOLEAN :
       fromWorker' = Append(fromWorker,
                       [type |-> "response", id |-> f.id, req |-> f.req, ok |-> ok])
  /\ UNCHANGED <<callers, pending, oneshot, outbound, writer, reader, link, toWorker, taken,
                 tools>>

\* A running program calls an SDK function.
WorkerCalls(c) ==
  /\ link = "up"
  /\ call[c] = "idle"
  /\ \E f \in inHand : f.req \in Runs
  /\ call' = [call EXCEPT ![c] = "sent"]
  /\ fromWorker' = Append(fromWorker, [type |-> "call", call |-> c])
  /\ UNCHANGED <<callers, pending, oneshot, outbound, writer, reader, link, toWorker,
                 inHand, taken, shapeEvents>>

\* The worker dies or the connection breaks: what was written is lost, and of
\* what the worker sent only some prefix still arrives.
LoseLink ==
  /\ link = "up"
  /\ link' = "down"
  /\ toWorker' = <<>>
  /\ inHand' = {}
  /\ \E n \in 0 .. Len(fromWorker) : fromWorker' = SubSeq(fromWorker, 1, n)
  /\ UNCHANGED <<callers, pending, oneshot, outbound, writer, reader, taken, tools>>

-----------------------------------------------------------------------------
Caller(r) == Allocate(r) \/ Register(r) \/ Post(r) \/ Receive(r) \/ Timeout(r)
Reader    == ReadResponse \/ ReadCall \/ LeaveLoop \/ Drain
Worker    == WorkerReads \/ (\E f \in inHand : WorkerAnswers(f))
                         \/ (\E c \in ToolCalls : WorkerCalls(c))

Next ==
  \/ \E r \in Requests : Caller(r)
  \/ Write
  \/ Reader
  \/ \E c \in ToolCalls : UpstreamReturns(c) \/ ReplyToCall(c)
  \/ Worker
  \/ LoseLink

Spec == Init /\ [][Next]_vars

\* The gateway's tasks are polled until they finish and its timers fire.  Nothing
\* is asked of the other end: the worker may leave a frame unread (a reload that
\* finds no thread of its pool free holds its read loop) or a request unanswered
\* for ever, the socket may take no more, the upstream need never return, and the
\* connection need never break.
Fairness ==
  /\ \A r \in Requests : /\ WF_vars(Register(r)) /\ WF_vars(Post(r))
                         /\ WF_vars(Receive(r))  /\ WF_vars(Timeout(r))
  /\ WF_vars(Reader)

FairSpec == Spec /\ Fairness

-----------------------------------------------------------------------------
(* Properties.                                                             *)

\* A call that returns the worker's answer returns the answer to its own
\* request, however many calls are in flight and however late an answer to a
\* timed-out run arrives (id allocation, `pending`, handle_incoming).
AnswersMatch ==
  \A r \in Requests : outcome[r].kind \in {"answer", "error"} => outcome[r].of = r

\* Its response is on its way from the worker, or the connection is lost and the
\* drain still to come.
Due(r) ==
  /\ task[r] \in {"registered", "waiting"}
  /\ \/ /\ reader = "reading"
        /\ \E k \in DOMAIN fromWorker :
             fromWorker[k].type = "response" /\ fromWorker[k].req = r
     \/ link = "down" /\ reader # "stopped"

\* Every call of `run` returns, whatever the worker, the upstreams and the
\* connection do.  A reload or set_shapes has no timeout: it returns once the worker
\* has sent its response, though the connection breaks before that is read, and
\* when the connection is lost after it was registered and before the drain.
CallsReturn ==
  /\ \A r \in Runs : task[r] # "idle" ~> task[r] = "done"
  /\ \A r \in Pushes : Due(r) ~> task[r] = "done"

\* "Connection gone: fail all pending run requests." (control.rs, after the read
\* loop): once the reader has stopped nothing still waits for a reply.
ConnectionGoneFailsAll ==
  \A r \in Requests :
    (reader = "stopped" /\ task[r] = "waiting") ~> task[r] = "done"

-----------------------------------------------------------------------------
(* The inductive invariant behind AnswersMatch and RpcSpec.                *)

\* Ids are allocated once, to one caller, and never reused.
IdsAreUnique ==
  /\ \A r \in Requests : reqId[r] < nextId /\ (task[r] # "idle" => reqId[r] # 0)
  /\ \A r, s \in Requests :
       (task[r] # "idle" /\ task[s] # "idle" /\ reqId[r] = reqId[s]) => r = s

\* The map, and every frame of a request or response, carries its caller's id.
Posted(r) == task[r] \in {"waiting", "done"}

OwnId(f) == f.id = reqId[f.req] /\ Posted(f.req)

IdsAreOwned ==
  /\ \A i \in DOMAIN pending : reqId[pending[i]] = i /\ task[pending[i]] # "idle"
  /\ \A k \in DOMAIN outbound : outbound[k].type = "request" => OwnId(outbound[k])
  /\ \A k \in DOMAIN toWorker : toWorker[k].type = "request" => OwnId(toWorker[k])
  /\ \A f \in inHand : OwnId(f)
  /\ \A k \in DOMAIN fromWorker : fromWorker[k].type = "response" => OwnId(fromWorker[k])

\* A request is written once and, until then, is not taken.
WrittenOnce ==
  /\ \A r \in Requests : taken[r] \in {0, 1} /\ (taken[r] = 1 => Posted(r))
  /\ \A k \in DOMAIN outbound : outbound[k].type = "request" =>
       /\ taken[outbound[k].req] = 0
       /\ \A l \in DOMAIN outbound :
            (outbound[l].type = "request" /\ outbound[l].req = outbound[k].req) => l = k
       /\ \A l \in DOMAIN toWorker :
            toWorker[l].type = "request" => toWorker[l].req # outbound[k].req
  /\ \A k \in DOMAIN toWorker : toWorker[k].type = "request" =>
       /\ taken[toWorker[k].req] = 0
       /\ \A l \in DOMAIN toWorker :
            (toWorker[l].type = "request" /\ toWorker[l].req = toWorker[k].req) => l = k

\* Replies come from the worker that took the request, or from the drain.
RepliesAreEarned ==
  /\ \A f \in inHand : taken[f.req] = 1
  /\ \A k \in DOMAIN fromWorker :
       fromWorker[k].type = "response" => taken[fromWorker[k].req] = 1
  /\ \A r \in Requests :
       /\ oneshot[r].kind \in {"none", "answer", "error", "lost"}
       /\ oneshot[r].kind \in {"none", "lost"} => oneshot[r].of = NoRequest
       /\ oneshot[r].kind \in {"answer", "error"} => oneshot[r].of = r /\ taken[r] = 1
       /\ oneshot[r].kind = "lost" => link = "down"

LossIsNoticed ==
  /\ writer = "down" => link = "down"
  /\ reader # "reading" => link = "down"

IInv ==
  /\ TypeOK
  /\ IdsAreUnique
  /\ IdsAreOwned
  /\ WrittenOnce
  /\ RepliesAreEarned
  /\ LossIsNoticed
  /\ AnswersMatch

-----------------------------------------------------------------------------
(* What the channel promises its callers.                                  *)

\* The channel implements RemoteCall: requests are open from their allocation,
\* and the worker takes a request when its read loop reads the frame.
Phase == [r \in Requests |-> IF task[r] \in {"idle", "done"} THEN task[r] ELSE "open"]

Rpc == INSTANCE RemoteCall WITH phase <- Phase

RpcSpec == Rpc!Spec
=============================================================================
