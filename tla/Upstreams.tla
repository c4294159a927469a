------------------------------- MODULE Upstreams -------------------------------
(***************************************************************************)
(* The set of upstream MCP servers (src/src/upstream/mod.rs): a map from   *)
(* names to live services behind a tokio RwLock.                           *)
(*                                                                         *)
(* The lock is fair: requests queue in order, readers at the head are let  *)
(* in together, a writer waits until it is alone, and whoever comes after  *)
(* a waiting writer waits too.  A tool call keeps its read guard while the *)
(* upstream works, with no limit of time.                                  *)
(***************************************************************************)
EXTENDS Naturals, Sequences, FiniteSets

CONSTANTS Tasks,     \* tool calls and admin requests
          Request,   \* Tasks -> [kind, server]
          Servers,
          Booted,    \* the servers connect_all connected
          None

Kinds == {"call", "connect", "disconnect", "list", "shutdown"}

ASSUME ParametersTyped ==
  /\ Request \in [Tasks -> [kind : Kinds, server : Servers]]
  /\ Booted \subseteq Servers
  /\ Tasks \cap Servers = {}
  /\ None \notin Tasks \cup Servers

\* A connection is named after the task that opened it, or after its server if
\* connect_all did.
Services == Tasks \cup Servers

VARIABLES
  pc,
  queue,      \* tasks waiting for the lock, in order
  holders,    \* tasks that hold the lock
  upstreams,  \* the map: a service for each connected server
  service,    \* "unopened", "open" or "cancelled"
  using,      \* the service each call is waiting for
  closing,    \* services each task has taken out of the map and will cancel
  boot,       \* the task that holds Runtime's boot mutex
  todo        \* servers each listing has still to look at

lock == <<queue, holders>>
vars == <<pc, lock, upstreams, service, using, closing, boot, todo>>

Stages == {"idle", "opening", "waiting", "locked", "calling", "cancelling", "probed", "listing",
           "done", "unknown", "failed"}

\* What the lock, the map and the tasks may hold.
TypeOK ==
  /\ pc \in [Tasks -> Stages]
  /\ queue \in Seq(Tasks)
  /\ holders \in SUBSET Tasks
  /\ upstreams \in [Servers -> Services \cup {None}]
  /\ service \in [Services -> {"unopened", "open", "cancelled"}]
  /\ using \in [Tasks -> Services \cup {None}]
  /\ closing \in [Tasks -> SUBSET Services]
  /\ boot \in Tasks \cup {None}
  /\ todo \in [Tasks -> SUBSET Servers]

Kind(t)   == Request[t].kind
Server(t) == Request[t].server

\* call_tool, is_connected and all_tools read; the rest write.
Writes(t) == Kind(t) \in {"connect", "disconnect", "shutdown"}

Init ==
  /\ pc = [t \in Tasks |-> "idle"]
  /\ queue = <<>>
  /\ holders = {}
  /\ upstreams = [s \in Servers |-> IF s \in Booted THEN s ELSE None]
  /\ service = [x \in Services |-> IF x \in Booted THEN "open" ELSE "unopened"]
  /\ using = [t \in Tasks |-> None]
  /\ closing = [t \in Tasks |-> {}]
  /\ boot = None
  /\ todo = [t \in Tasks |-> {}]

Goto(t, stage) == pc' = [pc EXCEPT ![t] = stage]

-----------------------------------------------------------------------------
(* The lock.                                                               *)

Enqueue(t) == queue' = Append(queue, t)

Compatible(t) == \A h \in holders : ~ Writes(t) /\ ~ Writes(h)

\* The task at the head of the queue is let in.
Acquire(t) ==
  /\ queue # <<>> /\ t = Head(queue)
  /\ Compatible(t)
  /\ queue' = Tail(queue)
  /\ holders' = holders \cup {t}
  /\ Goto(t, "locked")
  /\ UNCHANGED <<upstreams, service, using, closing, boot, todo>>

-----------------------------------------------------------------------------
(* call_tool                                                               *)

Arrive(t) ==
  /\ Kind(t) = "call"
  /\ pc[t] = "idle"
  /\ Enqueue(t)
  /\ Goto(t, "waiting")
  /\ UNCHANGED <<holders, upstreams, service, using, closing, boot, todo>>

\* Mutant: the guard is dropped once the service is found.
RouteAndRelease(t) ==
  /\ Kind(t) = "call"
  /\ pc[t] = "locked"
  /\ upstreams[Server(t)] # None
  /\ using' = [using EXCEPT ![t] = upstreams[Server(t)]]
  /\ Goto(t, "calling")
  /\ holders' = holders \ {t}
  /\ UNCHANGED <<queue, upstreams, service, closing, boot, todo>>

\* The server's service gets the call, and the guard is kept...
Route(t) ==
  /\ Kind(t) = "call"
  /\ pc[t] = "locked"
  /\ upstreams[Server(t)] # None
  /\ using' = [using EXCEPT ![t] = upstreams[Server(t)]]
  /\ Goto(t, "calling")
  /\ UNCHANGED <<lock, upstreams, service, closing, boot, todo>>

\* ... unless there is none ...
Unrouted(t) ==
  /\ Kind(t) = "call"
  /\ pc[t] = "locked"
  /\ upstreams[Server(t)] = None
  /\ holders' = holders \ {t}
  /\ Goto(t, "unknown")
  /\ UNCHANGED <<queue, upstreams, service, using, closing, boot, todo>>

\* ... until the upstream answers, with a result or an error.
Answer(t) ==
  /\ pc[t] = "calling"
  /\ using' = [using EXCEPT ![t] = None]
  /\ holders' = holders \ {t}
  /\ Goto(t, "done")
  /\ UNCHANGED <<queue, upstreams, service, closing, boot, todo>>

-----------------------------------------------------------------------------
(* connect_one, disconnect_one and shutdown.                               *)

\* Runtime::enable and disable look the server up under the boot mutex;
\* shutdown does not.
Begin(t) ==
  /\ Writes(t)
  /\ pc[t] = "idle"
  /\ Kind(t) # "shutdown" => boot = None
  /\ IF Kind(t) = "connect" THEN /\ Goto(t, "opening")
                                 /\ UNCHANGED queue
                            ELSE /\ Goto(t, "waiting")
                                 /\ Enqueue(t)
  /\ UNCHANGED <<holders, upstreams, service, using, closing, boot, todo>>

\* connect_and_list, which may fail before or after the service is up; in the
\* latter case the service is cancelled.
Open(t) ==
  /\ pc[t] = "opening"
  /\ \/ /\ service' = [service EXCEPT ![t] = "open"]
        /\ Enqueue(t)
        /\ Goto(t, "waiting")
     \/ /\ service' \in {service, [service EXCEPT ![t] = "cancelled"]}
        /\ Goto(t, "failed")
        /\ UNCHANGED queue
  /\ UNCHANGED <<holders, upstreams, using, closing, boot, todo>>

\* Mutant: a connection replaced in the map is forgotten.
InsertOver(t) ==
  /\ Kind(t) = "connect"
  /\ pc[t] = "locked"
  /\ upstreams' = [upstreams EXCEPT ![Server(t)] = t]
  /\ Goto(t, "cancelling")
  /\ UNCHANGED <<lock, service, using, closing, boot, todo>>

\* The new service goes into the map; the one it replaces will be cancelled.
Insert(t) ==
  /\ Kind(t) = "connect"
  /\ pc[t] = "locked"
  /\ upstreams' = [upstreams EXCEPT ![Server(t)] = t]
  /\ closing' = [closing EXCEPT ![t] = {upstreams[Server(t)]} \ {None}]
  /\ Goto(t, "cancelling")
  /\ UNCHANGED <<lock, service, using, boot, todo>>

Taken(t) == IF Kind(t) = "shutdown" THEN Servers ELSE {Server(t)}

\* One entry, or all, are taken out of the map, and the guard is dropped before
\* anything is cancelled.
Remove(t) ==
  /\ Kind(t) \in {"disconnect", "shutdown"}
  /\ pc[t] = "locked"
  /\ upstreams' = [s \in Servers |-> IF s \in Taken(t) THEN None ELSE upstreams[s]]
  /\ closing' = [closing EXCEPT ![t] = {upstreams[s] : s \in Taken(t)} \ {None}]
  /\ holders' = holders \ {t}
  /\ Goto(t, "cancelling")
  /\ UNCHANGED <<queue, service, using, boot, todo>>

Cancel(t) ==
  /\ pc[t] = "cancelling"
  /\ \E x \in closing[t] :
       /\ service' = [service EXCEPT ![x] = "cancelled"]
       /\ closing' = [closing EXCEPT ![t] = @ \ {x}]
  /\ UNCHANGED <<pc, lock, upstreams, using, boot, todo>>

\* Mutant: the write guard is leaked.
EndGuarded(t) ==
  /\ pc[t] = "cancelling"
  /\ closing[t] = {}
  /\ Goto(t, "done")
  /\ UNCHANGED <<lock, upstreams, service, using, closing, boot, todo>>

\* The operation ends; connect_one has kept the write guard until here.
End(t) ==
  /\ pc[t] = "cancelling"
  /\ closing[t] = {}
  /\ holders' = holders \ {t}
  /\ Goto(t, "done")
  /\ UNCHANGED <<queue, upstreams, service, using, closing, boot, todo>>

-----------------------------------------------------------------------------
(* Runtime::list: for each configured server is_connected, and all_tools if *)
(* it is, with the boot mutex held over the whole loop.                    *)

List(t) ==
  /\ Kind(t) = "list"
  /\ pc[t] = "idle"
  /\ boot = None
  /\ boot' = t
  /\ todo' = [todo EXCEPT ![t] = Servers]
  /\ Goto(t, "listing")
  /\ UNCHANGED <<lock, upstreams, service, using, closing>>

\* is_connected
Probe(t) ==
  /\ pc[t] = "listing"
  /\ todo[t] # {}
  /\ Enqueue(t)
  /\ Goto(t, "waiting")
  /\ UNCHANGED <<holders, upstreams, service, using, closing, boot, todo>>

This(t) == CHOOSE s \in todo[t] : TRUE

\* A connected server is read again for its tools, the others are done with.
\* (using marks the second reading.)
Probed(t) ==
  /\ Kind(t) = "list"
  /\ pc[t] = "locked"
  /\ holders' = holders \ {t}
  /\ \/ /\ upstreams[This(t)] # None /\ using[t] = None
        /\ using' = [using EXCEPT ![t] = upstreams[This(t)]]
        /\ Goto(t, "probed")
        /\ UNCHANGED todo
     \/ /\ upstreams[This(t)] = None \/ using[t] # None
        /\ using' = [using EXCEPT ![t] = None]
        /\ todo' = [todo EXCEPT ![t] = @ \ {This(t)}]
        /\ Goto(t, "listing")
  /\ UNCHANGED <<queue, upstreams, service, closing, boot>>

\* all_tools
ReadTools(t) ==
  /\ pc[t] = "probed"
  /\ Enqueue(t)
  /\ Goto(t, "waiting")
  /\ UNCHANGED <<holders, upstreams, service, using, closing, boot, todo>>

Listed(t) ==
  /\ pc[t] = "listing"
  /\ todo[t] = {}
  /\ boot' = None
  /\ Goto(t, "done")
  /\ UNCHANGED <<lock, upstreams, service, using, closing, todo>>

-----------------------------------------------------------------------------
Call(t)   == Arrive(t) \/ Route(t) \/ Unrouted(t) \/ Answer(t)
Change(t) == Begin(t) \/ Open(t) \/ Insert(t) \/ Remove(t) \/ Cancel(t) \/ End(t)
Look(t)   == List(t) \/ Probe(t) \/ Probed(t) \/ ReadTools(t) \/ Listed(t)

Next == \E t \in Tasks : Acquire(t) \/ Call(t) \/ Change(t) \/ Look(t)

Spec == Init /\ [][Next]_vars

\* Tasks proceed when they can.  What waits for an upstream may wait for ever:
\* neither connecting and listing its tools, nor a call, nor the close of a
\* connection has a time limit over the whole of it.  No request need arrive.
Fairness ==
  \A t \in Tasks :
    /\ WF_vars(Acquire(t))
    /\ WF_vars(Route(t) \/ Unrouted(t))
    /\ WF_vars(Insert(t) \/ Remove(t) \/ End(t))
    /\ WF_vars(pc[t] # "idle" /\ Look(t))

FairSpec == Spec /\ Fairness

-----------------------------------------------------------------------------

Mapped == {upstreams[s] : s \in Servers} \ {None}

\* No reconnection, disconnection or shutdown cancels a service while a tool
\* call waits for its answer.
CallsKeepTheirService ==
  \A t \in Tasks : (Kind(t) = "call" /\ pc[t] = "calling") => service[using[t]] = "open"

\* No connection is leaked: one that is open is in the map, or its opener is
\* about to put it there, or some task is about to cancel it.
ServicesAreOwned ==
  \A x \in Services : service[x] = "open" =>
    \/ x \in Mapped
    \/ x \in Tasks /\ pc[x] \in {"waiting", "locked"}
    \/ \E t \in Tasks : x \in closing[t]

-----------------------------------------------------------------------------
(* Why those two hold, whatever the number of tasks: the inductive invariant. *)

\* Who holds the lock, and who waits for it, is read off the program counters.
LockFollowsPc ==
  /\ \A t \in Tasks : t \in holders <=>
       pc[t] \in {"locked", "calling"} \/ (pc[t] = "cancelling" /\ Kind(t) = "connect")
  /\ \A i \in DOMAIN queue : pc[queue[i]] = "waiting"
  /\ \A i, j \in DOMAIN queue : queue[i] = queue[j] => i = j

StagesFitKinds ==
  \A t \in Tasks :
    /\ pc[t] = "calling" => Kind(t) = "call"
    /\ pc[t] = "opening" => Kind(t) = "connect"
    /\ pc[t] = "cancelling" => Writes(t)
    /\ pc[t] \in {"probed", "listing"} => Kind(t) = "list"
    /\ (Kind(t) = "list" /\ pc[t] \in {"waiting", "locked", "probed"}) => todo[t] # {}

WritersAreAlone == \A g, h \in holders : Writes(g) => g = h

\* A task's own service is open from its connection to its insertion.
OpenersHaveTheirs ==
  \A t \in Tasks :
    /\ (Kind(t) = "connect" /\ pc[t] \in {"waiting", "locked"}) => service[t] = "open"
    /\ (Kind(t) # "connect" \/ pc[t] \in {"idle", "opening"}) => service[t] = "unopened"

\* A service that has been in the map.
Placed(x) ==
  x \in Servers \/ (x \in Tasks /\ Kind(x) = "connect" /\ pc[x] \in {"cancelling", "done"})

MapHoldsLiveServices ==
  \A s \in Servers : upstreams[s] # None =>
    LET x == upstreams[s] IN
      /\ service[x] = "open"
      /\ Placed(x)
      /\ x = s \/ (x \in Tasks /\ Server(x) = s)
      /\ \A t \in Tasks : x \notin closing[t]

ClosingWerePlaced ==
  \A t \in Tasks : \A x \in closing[t] : Placed(x) /\ pc[t] = "cancelling"

CallsUseTheMap ==
  \A t \in Tasks : (Kind(t) = "call" /\ pc[t] = "calling") =>
    using[t] # None /\ using[t] = upstreams[Server(t)]

\* The lock, the map, the services and the program counters fit together, so
\* that call_tool, connect_one, disconnect_one and shutdown keep the two.
IInv ==
  /\ TypeOK
  /\ LockFollowsPc
  /\ StagesFitKinds
  /\ WritersAreAlone
  /\ OpenersHaveTheirs
  /\ MapHoldsLiveServices
  /\ ClosingWerePlaced
  /\ CallsUseTheMap
  /\ ServicesAreOwned

-----------------------------------------------------------------------------

Ended(t) == pc[t] \in {"done", "unknown", "failed"}

\* It waits for an upstream with the lock in its hands: a tool call keeps its read
\* guard, and connect_one its write guard while it closes what it replaced.
Guards(t) == t \in holders /\ pc[t] \in {"calling", "cancelling"}

\* A request whose own waits for an upstream end is not kept by the others, as
\* long as each of them lets go of the lock again: the lock, the mutex and the
\* cancellations never wait for each other, and a connection attempt or a shutdown
\* that hangs holds nobody up.
TasksEnd ==
  \A t \in Tasks :
    (/\ []<>(pc[t] \notin {"opening", "calling", "cancelling"})
     /\ \A u \in Tasks \ {t} : []<> ~ Guards(u))
    => (pc[t] # "idle" ~> Ended(t))

\* A call that its server answers returns, whatever other servers do.
HealthyCallsReturn ==
  \A t \in Tasks : (Kind(t) = "call" /\ []<>(pc[t] # "calling"))
                   => (pc[t] # "idle" ~> Ended(t))
=============================================================================
