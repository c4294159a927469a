-------------------------- MODULE Upstreams_proofs --------------------------
(***************************************************************************)
(* Theorems about Upstreams, for any tasks, requests and servers: its      *)
(* types, that a tool call keeps the connection it uses, and that no open  *)
(* connection is forgotten.  They rest on the inductive invariant IInv,    *)
(* whose parts are proved to be preserved one lemma each.                  *)
(***************************************************************************)
EXTENDS Upstreams, TLAPS, SequenceTheorems

\* What Append does, index by index.
LEMMA AppendFacts ==
  ASSUME NEW S, NEW s \in Seq(S), NEW e \in S
  PROVE  /\ Append(s, e) \in Seq(S)
         /\ DOMAIN Append(s, e) = DOMAIN s \cup {Len(s) + 1}
         /\ Len(s) + 1 \notin DOMAIN s
         /\ \A k \in DOMAIN s : Append(s, e)[k] = s[k]
         /\ Append(s, e)[Len(s) + 1] = e
  BY AppendProperties

\* What Head and Tail do, index by index.
LEMMA TailFacts ==
  ASSUME NEW S, NEW s \in Seq(S), s # <<>>
  PROVE  /\ Tail(s) \in Seq(S)
         /\ 1 \in DOMAIN s
         /\ Head(s) = s[1]
         /\ Head(s) \in S
         /\ \A k \in DOMAIN Tail(s) :
              k \in Nat /\ k + 1 \in DOMAIN s /\ k + 1 # 1 /\ Tail(s)[k] = s[k + 1]
  BY HeadTailProperties

LEMMA InitIInv == Init => IInv
  <1> SUFFICES ASSUME Init PROVE IInv
    OBVIOUS
  <1> USE ParametersTyped DEF Init
  <1>1. TypeOK
    BY DEF TypeOK, Services, Stages
  <1>2. LockFollowsPc /\ StagesFitKinds /\ WritersAreAlone /\ ClosingWerePlaced /\ CallsUseTheMap
    BY DEF LockFollowsPc, StagesFitKinds, WritersAreAlone, ClosingWerePlaced, CallsUseTheMap
  <1>3. OpenersHaveTheirs
    BY DEF OpenersHaveTheirs, Services
  <1>4. MapHoldsLiveServices
    BY DEF MapHoldsLiveServices, Placed, Services
  <1>5. ServicesAreOwned
    BY DEF ServicesAreOwned, Mapped, Services
  <1>6. QED
    BY <1>1, <1>2, <1>3, <1>4, <1>5 DEF IInv

\* The kinds are disjoint.
LEMMA KindsOfRequests ==
  ASSUME NEW t \in Tasks
  PROVE  /\ Kind(t) \in Kinds
         /\ Server(t) \in Servers
         /\ Writes(t) <=> Kind(t) \notin {"call", "list"}
  BY ParametersTyped DEF Kind, Server, Writes, Kinds

-----------------------------------------------------------------------------
(* Type correctness.                                                       *)

LEMMA TypeStep == IInv /\ [Next]_vars => TypeOK'
  <1> SUFFICES ASSUME IInv, [Next]_vars PROVE TypeOK'
    OBVIOUS
  <1> USE DEF TypeOK, Goto, Stages
  <1>0. TypeOK
    BY DEF IInv
  <1>a. ASSUME NEW t \in Tasks, Enqueue(t) PROVE queue' \in Seq(Tasks)
    BY <1>0, <1>a, AppendFacts DEF Enqueue
  <1>1. ASSUME NEW t \in Tasks, Acquire(t) PROVE TypeOK'
    BY <1>0, <1>1, TailFacts DEF Acquire
  <1>2. ASSUME NEW t \in Tasks, Call(t) PROVE TypeOK'
    <2>1. CASE Arrive(t)
      BY <1>0, <1>a, <2>1 DEF Arrive
    <2>2. CASE Route(t)
      BY <1>0, <2>2, KindsOfRequests DEF Route, lock
    <2>3. CASE Unrouted(t)
      BY <1>0, <2>3 DEF Unrouted
    <2>4. CASE Answer(t)
      BY <1>0, <2>4 DEF Answer
    <2>5. QED
      BY <1>2, <2>1, <2>2, <2>3, <2>4 DEF Call
  <1>3. ASSUME NEW t \in Tasks, Change(t) PROVE TypeOK'
    <2>1. CASE Begin(t)
      BY <1>0, <1>a, <2>1 DEF Begin
    <2>2. CASE Open(t)
      BY <1>0, <1>a, <2>2 DEF Open, Services
    <2>3. CASE Insert(t)
      BY <1>0, <2>3, KindsOfRequests DEF Insert, lock, Services
    <2>4. CASE Remove(t)
      <3>1. Taken(t) \in SUBSET Servers
        BY KindsOfRequests DEF Taken
      <3>2. {upstreams[s] : s \in Taken(t)} \ {None} \in SUBSET Services
        BY <1>0, <3>1
      <3>3. QED
        BY <1>0, <2>4, <3>2 DEF Remove
    <2>5. CASE Cancel(t)
      BY <1>0, <2>5 DEF Cancel, lock
    <2>6. CASE End(t)
      BY <1>0, <2>6 DEF End
    <2>7. QED
      BY <1>3, <2>1, <2>2, <2>3, <2>4, <2>5, <2>6 DEF Change
  <1>4. ASSUME NEW t \in Tasks, Look(t) PROVE TypeOK'
    <2>1. CASE List(t)
      BY <1>0, <2>1 DEF List, lock
    <2>2. CASE Probe(t)
      BY <1>0, <1>a, <2>2 DEF Probe
    <2>3. CASE Probed(t)
      <3>1. This(t) \in Servers
        <4>1. todo[t] # {} /\ todo[t] \subseteq Servers
          BY <1>0, <2>3 DEF IInv, StagesFitKinds, Probed
        <4>2. QED
          BY <4>1 DEF This
      <3>2. CASE /\ using' = [using EXCEPT ![t] = upstreams[This(t)]]
                 /\ pc' = [pc EXCEPT ![t] = "probed"]
                 /\ todo' = todo
        BY <1>0, <2>3, <3>1, <3>2 DEF Probed
      <3>3. CASE /\ using' = [using EXCEPT ![t] = None]
                 /\ pc' = [pc EXCEPT ![t] = "listing"]
                 /\ todo' = [todo EXCEPT ![t] = @ \ {This(t)}]
        BY <1>0, <2>3, <3>3 DEF Probed
      <3>4. QED
        BY <2>3, <3>2, <3>3 DEF Probed
    <2>4. CASE ReadTools(t)
      BY <1>0, <1>a, <2>4 DEF ReadTools
    <2>5. CASE Listed(t)
      BY <1>0, <2>5 DEF Listed, lock
    <2>6. QED
      BY <1>4, <2>1, <2>2, <2>3, <2>4, <2>5 DEF Look
  <1>5. CASE UNCHANGED vars
    BY <1>0, <1>5 DEF vars, lock
  <1>6. QED
    BY <1>1, <1>2, <1>3, <1>4, <1>5 DEF Next

-----------------------------------------------------------------------------
(* The lock.                                                               *)

\* A task that joins the queue was not in it.
LEMMA EnqueueKeeps ==
  ASSUME TypeOK, LockFollowsPc, NEW t \in Tasks,
         Enqueue(t), pc[t] # "waiting", pc' = [pc EXCEPT ![t] = "waiting"]
  PROVE  /\ \A i \in DOMAIN queue' : pc'[queue'[i]] = "waiting"
         /\ \A i, j \in DOMAIN queue' : queue'[i] = queue'[j] => i = j
  <1> DEFINE n == Len(queue) + 1
  <1>1. queue \in Seq(Tasks) /\ pc \in [Tasks -> Stages]
    BY DEF TypeOK
  <1>2. /\ DOMAIN queue' = DOMAIN queue \cup {n}
        /\ n \notin DOMAIN queue
        /\ \A k \in DOMAIN queue : queue'[k] = queue[k]
        /\ queue'[n] = t
    BY <1>1, AppendFacts DEF Enqueue
  <1>3. \A k \in DOMAIN queue : queue[k] \in Tasks /\ queue[k] # t /\ pc[queue[k]] = "waiting"
    BY <1>1 DEF LockFollowsPc
  <1>4. \A i \in DOMAIN queue' : pc'[queue'[i]] = "waiting"
    BY <1>1, <1>2, <1>3
  <1>5. \A i, j \in DOMAIN queue' : queue'[i] = queue'[j] => i = j
    BY <1>2, <1>3 DEF LockFollowsPc
  <1>6. QED
    BY <1>4, <1>5

\* A step of a task outside the queue leaves those inside waiting.
LEMMA QueueKeeps ==
  ASSUME TypeOK, LockFollowsPc, NEW t \in Tasks, pc[t] # "waiting", UNCHANGED queue,
         \A u \in Tasks : u # t => pc'[u] = pc[u]
  PROVE  /\ \A i \in DOMAIN queue' : pc'[queue'[i]] = "waiting"
         /\ \A i, j \in DOMAIN queue' : queue'[i] = queue'[j] => i = j
  <1>1. \A k \in DOMAIN queue : queue[k] \in Tasks /\ queue[k] # t /\ pc[queue[k]] = "waiting"
    BY DEF LockFollowsPc, TypeOK
  <1>2. QED
    BY <1>1 DEF LockFollowsPc

\* Only a waiting task is let in.
LEMMA AcquirersWaited ==
  ASSUME TypeOK, LockFollowsPc, NEW t \in Tasks, Acquire(t)
  PROVE  pc[t] = "waiting"
  <1>1. t = queue[1] /\ 1 \in DOMAIN queue
    BY TailFacts DEF TypeOK, Acquire
  <1>2. QED
    BY <1>1 DEF LockFollowsPc

LEMMA LockStep == IInv /\ [Next]_vars => LockFollowsPc'
  <1> SUFFICES ASSUME IInv, [Next]_vars PROVE LockFollowsPc'
    OBVIOUS
  <1>0. TypeOK /\ LockFollowsPc /\ StagesFitKinds
    BY DEF IInv
  <1> DEFINE Holding == \A t \in Tasks : t \in holders <=>
               pc[t] \in {"locked", "calling"} \/ (pc[t] = "cancelling" /\ Kind(t) = "connect")
             Queued == /\ \A i \in DOMAIN queue : pc[queue[i]] = "waiting"
                       /\ \A i, j \in DOMAIN queue : queue[i] = queue[j] => i = j
  <1>q. Holding' /\ Queued' => LockFollowsPc'
    BY DEF LockFollowsPc
  <1>h. Holding /\ holders \in SUBSET Tasks /\ pc \in [Tasks -> Stages]
    BY <1>0 DEF LockFollowsPc, TypeOK
  <1>1. ASSUME NEW t \in Tasks, Acquire(t) PROVE LockFollowsPc'
    <2>1. /\ Tail(queue) \in Seq(Tasks)
          /\ t = queue[1] /\ 1 \in DOMAIN queue
          /\ \A k \in DOMAIN queue' :
               k \in Nat /\ k + 1 \in DOMAIN queue /\ k + 1 # 1 /\ queue'[k] = queue[k + 1]
      BY <1>0, <1>1, TailFacts DEF TypeOK, Acquire
    <2>2. \A k \in DOMAIN queue' :
            queue'[k] \in Tasks /\ queue'[k] # t /\ pc[queue'[k]] = "waiting"
      BY <1>0, <2>1 DEF LockFollowsPc, TypeOK
    <2>3. \A k \in DOMAIN queue' : pc'[queue'[k]] = "waiting"
      BY <1>1, <1>h, <2>2 DEF Acquire, Goto
    <2>4. \A i, j \in DOMAIN queue' : queue'[i] = queue'[j] => i = j
      BY <1>0, <2>1 DEF LockFollowsPc
    <2>5. Holding'
      BY <1>1, <1>h DEF Acquire, Goto, Kind
    <2>6. QED
      BY <1>q, <2>3, <2>4, <2>5
  <1>a. ASSUME NEW t \in Tasks, Enqueue(t), pc[t] # "waiting", Goto(t, "waiting"),
               t \notin holders, UNCHANGED holders
        PROVE  LockFollowsPc'
    <2>1. Queued'
      BY <1>0, <1>a, EnqueueKeeps DEF Goto
    <2>2. Holding'
      BY <1>a, <1>h DEF Goto, Kind
    <2>3. QED
      BY <1>q, <2>1, <2>2
  <1>b. ASSUME NEW t \in Tasks, pc[t] # "waiting", UNCHANGED queue,
               \A u \in Tasks : u # t => pc'[u] = pc[u], Holding'
        PROVE  LockFollowsPc'
    BY <1>0, <1>b, <1>q, QueueKeeps
  <1>2. ASSUME NEW t \in Tasks, Call(t) PROVE LockFollowsPc'
    <2>1. CASE Arrive(t)
      BY <1>a, <1>h, <2>1 DEF Arrive, Goto
    <2>2. CASE Route(t) \/ Unrouted(t) \/ Answer(t)
      <3>1. /\ pc[t] # "waiting" /\ UNCHANGED queue
            /\ \A u \in Tasks : u # t => pc'[u] = pc[u]
        BY <1>h, <2>2 DEF Route, Unrouted, Answer, Goto, lock
      <3>2. Holding'
        BY <1>0, <1>h, <2>2 DEF Route, Unrouted, Answer, Goto, lock, Kind, StagesFitKinds
      <3>3. QED
        BY <1>b, <3>1, <3>2
    <2>3. QED
      BY <1>2, <2>1, <2>2 DEF Call
  <1>3. ASSUME NEW t \in Tasks, Change(t) PROVE LockFollowsPc'
    <2>1. CASE Begin(t)
      <3>1. CASE Kind(t) = "connect"
        <4>1. /\ pc[t] # "waiting" /\ UNCHANGED queue
              /\ \A u \in Tasks : u # t => pc'[u] = pc[u]
          BY <1>h, <2>1, <3>1 DEF Begin, Goto
        <4>2. Holding'
          BY <1>h, <2>1, <3>1 DEF Begin, Goto, Kind
        <4>3. QED
          BY <1>b, <4>1, <4>2
      <3>2. CASE Kind(t) # "connect"
        BY <1>a, <1>h, <2>1, <3>2 DEF Begin, Goto
      <3>3. QED
        BY <3>1, <3>2
    <2>2. CASE Open(t)
      <3>1. CASE Enqueue(t) /\ Goto(t, "waiting")
        BY <1>a, <1>h, <2>2, <3>1 DEF Open, Goto
      <3>2. CASE UNCHANGED queue /\ Goto(t, "failed")
        <4>1. /\ pc[t] # "waiting"
              /\ \A u \in Tasks : u # t => pc'[u] = pc[u]
          BY <1>h, <2>2, <3>2 DEF Open, Goto
        <4>2. Holding'
          BY <1>h, <2>2, <3>2 DEF Open, Goto, Kind
        <4>3. QED
          BY <1>b, <3>2, <4>1, <4>2
      <3>3. QED
        BY <2>2, <3>1, <3>2 DEF Open
    <2>3. CASE Insert(t) \/ Remove(t) \/ End(t)
      <3>1. /\ pc[t] # "waiting" /\ UNCHANGED queue
            /\ \A u \in Tasks : u # t => pc'[u] = pc[u]
        BY <1>h, <2>3 DEF Insert, Remove, End, Goto, lock
      <3>2. Holding'
        BY <1>h, <2>3 DEF Insert, Remove, End, Goto, lock, Kind
      <3>3. QED
        BY <1>b, <3>1, <3>2
    <2>4. CASE Cancel(t)
      BY <1>0, <2>4 DEF Cancel, lock, LockFollowsPc, Kind
    <2>5. QED
      BY <1>3, <2>1, <2>2, <2>3, <2>4 DEF Change
  <1>4. ASSUME NEW t \in Tasks, Look(t) PROVE LockFollowsPc'
    <2>1. CASE Probe(t) \/ ReadTools(t)
      BY <1>a, <1>h, <2>1 DEF Probe, ReadTools, Goto
    <2>2. CASE List(t) \/ Probed(t) \/ Listed(t)
      <3>1. /\ pc[t] # "waiting" /\ UNCHANGED queue
            /\ \A u \in Tasks : u # t => pc'[u] = pc[u]
        BY <1>h, <2>2 DEF List, Probed, Listed, Goto, lock
      <3>2. Holding'
        BY <1>h, <2>2 DEF List, Probed, Listed, Goto, lock, Kind
      <3>3. QED
        BY <1>b, <3>1, <3>2
    <2>3. QED
      BY <1>4, <2>1, <2>2 DEF Look
  <1>5. CASE UNCHANGED vars
    BY <1>0, <1>5 DEF vars, lock, LockFollowsPc, Kind
  <1>6. QED
    BY <1>1, <1>2, <1>3, <1>4, <1>5 DEF Next

\* Whoever is let in while a writer is inside, or is a writer, is let in alone.
LEMMA WritersStep == IInv /\ [Next]_vars => WritersAreAlone'
  <1> SUFFICES ASSUME IInv, [Next]_vars PROVE WritersAreAlone'
    OBVIOUS
  <1>0. WritersAreAlone
    BY DEF IInv
  <1>1. ASSUME NEW t \in Tasks, Acquire(t) PROVE WritersAreAlone'
    BY <1>0, <1>1 DEF Acquire, Compatible, WritersAreAlone, Writes, Kind
  <1>2. ASSUME holders' \subseteq holders PROVE WritersAreAlone'
    BY <1>0, <1>2 DEF WritersAreAlone, Writes, Kind
  <1>3. ASSUME NEW t \in Tasks, Call(t) \/ Change(t) \/ Look(t) PROVE holders' \subseteq holders
    BY <1>3 DEF Call, Arrive, Route, Unrouted, Answer, Change, Begin, Open, Insert, Remove, Cancel,
                End, Look, List, Probe, Probed, ReadTools, Listed, lock
  <1>4. CASE UNCHANGED vars
    BY <1>2, <1>4 DEF vars, lock
  <1>5. QED
    BY <1>1, <1>2, <1>3, <1>4 DEF Next

\* Each stage is reached by the tasks of one kind.
LEMMA StagesStep == IInv /\ [Next]_vars => StagesFitKinds'
  <1> SUFFICES ASSUME IInv, [Next]_vars PROVE StagesFitKinds'
    OBVIOUS
  <1>0. TypeOK /\ StagesFitKinds
    BY DEF IInv
  <1> USE DEF TypeOK, StagesFitKinds, Goto, Kind, Writes
  <1>1. ASSUME NEW t \in Tasks, Acquire(t) \/ Call(t) PROVE StagesFitKinds'
    <2>1. CASE Acquire(t)
      <3>1. pc[t] = "waiting"
        BY <2>1, AcquirersWaited DEF IInv
      <3>2. QED
        BY <1>0, <2>1, <3>1 DEF Acquire
    <2>2. CASE Call(t)
      BY <1>0, <2>2 DEF Call, Arrive, Route, Unrouted, Answer, lock
    <2>3. QED
      BY <1>1, <2>1, <2>2
  <1>2. ASSUME NEW t \in Tasks, Change(t) PROVE StagesFitKinds'
    <2>1. CASE Begin(t) \/ Open(t)
      BY <1>0, <2>1 DEF Begin, Open
    <2>2. CASE Insert(t) \/ Remove(t) \/ Cancel(t) \/ End(t)
      BY <1>0, <2>2 DEF Insert, Remove, Cancel, End, lock
    <2>3. QED
      BY <1>2, <2>1, <2>2 DEF Change
  <1>3. ASSUME NEW t \in Tasks, Look(t) PROVE StagesFitKinds'
    BY <1>0, <1>3 DEF Look, List, Probe, Probed, ReadTools, Listed, lock
  <1>4. CASE UNCHANGED vars
    BY <1>0, <1>4 DEF vars, lock
  <1>5. QED
    BY <1>1, <1>2, <1>3, <1>4 DEF Next

-----------------------------------------------------------------------------
(* The connections.                                                        *)

\* A service that was ever in the map counts as such for good.
LEMMA PlacedStays ==
  ASSUME TypeOK, LockFollowsPc, [Next]_vars, NEW x \in Services, Placed(x)
  PROVE  Placed(x)'
  <1> USE DEF TypeOK, Goto, Kind, Placed
  <1>1. ASSUME NEW t \in Tasks, Acquire(t) PROVE Placed(x)'
    <2>1. pc[t] = "waiting"
      BY <1>1, AcquirersWaited
    <2>2. QED
      BY <1>1, <2>1 DEF Acquire
  <1>2. ASSUME NEW t \in Tasks, Call(t) PROVE Placed(x)'
    BY <1>2 DEF Call, Arrive, Route, Unrouted, Answer
  <1>3. ASSUME NEW t \in Tasks, Change(t) PROVE Placed(x)'
    BY <1>3 DEF Change, Begin, Open, Insert, Remove, Cancel, End
  <1>4. ASSUME NEW t \in Tasks, Look(t) PROVE Placed(x)'
    BY <1>4 DEF Look, List, Probe, Probed, ReadTools, Listed
  <1>5. CASE UNCHANGED vars
    BY <1>5 DEF vars
  <1>6. QED
    BY <1>1, <1>2, <1>3, <1>4, <1>5 DEF Next

\* The steps that leave the connections, the map and the cancellations alone.
Quiet == UNCHANGED <<upstreams, service, closing>>

LEMMA QuietSteps ==
  ASSUME NEW t \in Tasks, Acquire(t) \/ Call(t) \/ Look(t) \/ Begin(t) \/ End(t)
  PROVE  Quiet
  BY DEF Quiet, Acquire, Call, Arrive, Route, Unrouted, Answer, Begin, End, Look, List, Probe,
         Probed, ReadTools, Listed

\* Two servers never share a service, and nobody's own service is mapped before
\* it inserts it.
LEMMA MapIsInjective ==
  ASSUME MapHoldsLiveServices, NEW s \in Servers, NEW r \in Servers,
         upstreams[s] # None, upstreams[s] = upstreams[r]
  PROVE  s = r
  BY ParametersTyped DEF MapHoldsLiveServices

LEMMA OpenersStep == IInv /\ [Next]_vars => OpenersHaveTheirs'
  <1> SUFFICES ASSUME IInv, [Next]_vars PROVE OpenersHaveTheirs'
    OBVIOUS
  <1>0. TypeOK /\ LockFollowsPc /\ StagesFitKinds /\ OpenersHaveTheirs /\ ClosingWerePlaced
    BY DEF IInv
  <1> USE DEF TypeOK, OpenersHaveTheirs, Goto, Kind, Services
  <1>1. ASSUME NEW t \in Tasks, Acquire(t) PROVE OpenersHaveTheirs'
    <2>1. pc[t] = "waiting"
      BY <1>0, <1>1, AcquirersWaited
    <2>2. QED
      BY <1>0, <1>1, <2>1 DEF Acquire
  <1>2. ASSUME NEW t \in Tasks, Call(t) PROVE OpenersHaveTheirs'
    BY <1>0, <1>2 DEF Call, Arrive, Route, Unrouted, Answer, StagesFitKinds
  <1>3. ASSUME NEW t \in Tasks, Look(t) PROVE OpenersHaveTheirs'
    BY <1>0, <1>3 DEF Look, List, Probe, Probed, ReadTools, Listed, StagesFitKinds
  <1>4. ASSUME NEW t \in Tasks, Begin(t) \/ Open(t) PROVE OpenersHaveTheirs'
    BY <1>0, <1>4 DEF Begin, Open, StagesFitKinds
  <1>5. ASSUME NEW t \in Tasks, Insert(t) \/ Remove(t) \/ End(t) PROVE OpenersHaveTheirs'
    BY <1>0, <1>5 DEF Insert, Remove, End
  <1>6. ASSUME NEW t \in Tasks, Cancel(t) PROVE OpenersHaveTheirs'
    <2>1. PICK x \in closing[t] : service' = [service EXCEPT ![x] = "cancelled"]
      BY <1>6 DEF Cancel
    <2>2. Placed(x)
      BY <1>0, <2>1 DEF ClosingWerePlaced
    <2>3. \A u \in Tasks : u = x => Kind(u) = "connect" /\ pc[u] \in {"cancelling", "done"}
      BY <2>2, ParametersTyped DEF Placed
    <2>4. QED
      BY <1>0, <1>6, <2>1, <2>3 DEF Cancel
  <1>7. CASE UNCHANGED vars
    BY <1>0, <1>7 DEF vars
  <1>8. QED
    BY <1>1, <1>2, <1>3, <1>4, <1>5, <1>6, <1>7 DEF Next, Change

LEMMA MapStep == IInv /\ [Next]_vars => MapHoldsLiveServices'
  <1> SUFFICES ASSUME IInv, [Next]_vars PROVE MapHoldsLiveServices'
    OBVIOUS
  <1>0. TypeOK /\ LockFollowsPc /\ OpenersHaveTheirs /\ MapHoldsLiveServices /\ ClosingWerePlaced
    BY DEF IInv
  <1>p. \A x \in Services : Placed(x) => Placed(x)'
    BY <1>0, PlacedStays
  <1> DEFINE Live(s, x) ==
               /\ service[x] = "open"
               /\ Placed(x)
               /\ x = s \/ (x \in Tasks /\ Server(x) = s)
               /\ \A t \in Tasks : x \notin closing[t]
  <1>m. \A s \in Servers, x \in Services : x = upstreams[s] => Live(s, x)
    BY <1>0, ParametersTyped DEF MapHoldsLiveServices, Services
  <1>s. SUFFICES ASSUME NEW s \in Servers, NEW x \in Services, x = upstreams'[s] PROVE Live(s, x)'
    <2>1. TypeOK'
      BY TypeStep
    <2>2. QED
      BY <1>s, <2>1 DEF TypeOK, MapHoldsLiveServices, Placed
  <1>q. CASE Quiet
    BY <1>p, <1>m, <1>s, <1>q DEF Quiet, Server
  <1>1. ASSUME NEW t \in Tasks, Open(t) PROVE Live(s, x)'
    <2>1. x = upstreams[s] /\ UNCHANGED closing
      BY <1>s, <1>1 DEF Open
    <2>2. Live(s, x) /\ Placed(x)'
      BY <1>m, <1>p, <2>1
    <2>3. x # t
      BY <1>1, <2>2, ParametersTyped DEF Open, Placed, Services
    <2>4. service'[x] = "open"
      BY <1>0, <1>1, <2>2, <2>3 DEF Open, TypeOK
    <2>5. QED
      BY <2>1, <2>2, <2>4 DEF Server
  <1>2. ASSUME NEW t \in Tasks, Insert(t) PROVE Live(s, x)'
    <2>0. /\ UNCHANGED service
          /\ upstreams' = [upstreams EXCEPT ![Server(t)] = t]
          /\ closing' = [closing EXCEPT ![t] = {upstreams[Server(t)]} \ {None}]
          /\ Kind(t) = "connect" /\ pc[t] = "locked" /\ pc'[t] = "cancelling"
      BY <1>0, <1>2 DEF Insert, Goto, TypeOK
    <2>1. t \in Services /\ ~ Placed(t)
      BY <2>0, ParametersTyped DEF Services, Placed
    <2>2. CASE s = Server(t)
      <3>1. x = t
        BY <1>0, <1>s, <2>0, <2>2 DEF TypeOK
      <3>2. service'[x] = "open"
        BY <1>0, <2>0, <3>1 DEF OpenersHaveTheirs
      <3>3. Placed(x)'
        BY <2>0, <3>1 DEF Placed, Kind
      <3>4. upstreams[Server(t)] # t
        BY <1>m, <2>1, KindsOfRequests
      <3>5. ASSUME NEW u \in Tasks PROVE x \notin closing'[u]
        <4>1. t \notin closing[u]
          BY <1>0, <2>1 DEF ClosingWerePlaced
        <4>2. QED
          BY <1>0, <2>0, <3>1, <3>4, <4>1 DEF TypeOK
      <3>6. QED
        BY <2>2, <3>1, <3>2, <3>3, <3>5 DEF Server
    <2>3. CASE s # Server(t)
      <3>1. x = upstreams[s]
        BY <1>0, <1>s, <2>0, <2>3 DEF TypeOK
      <3>2. Live(s, x) /\ Placed(x)'
        BY <1>m, <1>p, <3>1
      <3>3. x # upstreams[Server(t)]
        BY <1>0, <2>3, <3>1, MapIsInjective, KindsOfRequests, ParametersTyped DEF Services
      <3>4. \A u \in Tasks : x \notin closing'[u]
        BY <1>0, <2>0, <3>2, <3>3 DEF TypeOK
      <3>5. QED
        BY <2>0, <3>2, <3>4 DEF Server
    <2>4. QED
      BY <2>2, <2>3
  <1>3. ASSUME NEW t \in Tasks, Remove(t) PROVE Live(s, x)'
    <2>0. /\ UNCHANGED service
          /\ upstreams' = [r \in Servers |-> IF r \in Taken(t) THEN None ELSE upstreams[r]]
          /\ closing' = [closing EXCEPT ![t] = {upstreams[r] : r \in Taken(t)} \ {None}]
          /\ Taken(t) \subseteq Servers
      BY <1>3, KindsOfRequests DEF Remove, Taken
    <2>1. x = upstreams[s] /\ s \notin Taken(t)
      BY <1>s, <2>0, ParametersTyped DEF Services
    <2>2. Live(s, x) /\ Placed(x)'
      BY <1>m, <1>p, <2>1
    <2>3. ASSUME NEW r \in Taken(t) PROVE x # upstreams[r]
      BY <1>0, <2>0, <2>1, MapIsInjective, ParametersTyped DEF Services
    <2>4. \A u \in Tasks : x \notin closing'[u]
      BY <1>0, <2>0, <2>2, <2>3 DEF TypeOK
    <2>5. QED
      BY <2>0, <2>2, <2>4 DEF Server
  <1>4. ASSUME NEW t \in Tasks, Cancel(t) PROVE Live(s, x)'
    <2>1. PICK y \in closing[t] : /\ service' = [service EXCEPT ![y] = "cancelled"]
                                  /\ closing' = [closing EXCEPT ![t] = @ \ {y}]
      BY <1>4 DEF Cancel
    <2>2. x = upstreams[s]
      BY <1>s, <1>4 DEF Cancel
    <2>3. Live(s, x) /\ Placed(x)'
      BY <1>m, <1>p, <2>2
    <2>4. \A u \in Tasks : x \notin closing'[u]
      BY <1>0, <2>1, <2>3 DEF TypeOK
    <2>5. service'[x] = "open"
      BY <1>0, <2>1, <2>3 DEF TypeOK
    <2>6. QED
      BY <2>3, <2>4, <2>5 DEF Server
  <1>5. CASE UNCHANGED vars
    BY <1>q, <1>5 DEF vars, Quiet
  <1>6. QED
    BY <1>q, <1>1, <1>2, <1>3, <1>4, <1>5, QuietSteps DEF Next, Change

LEMMA ClosingStep == IInv /\ [Next]_vars => ClosingWerePlaced'
  <1> SUFFICES ASSUME IInv, [Next]_vars PROVE ClosingWerePlaced'
    OBVIOUS
  <1>0. TypeOK /\ LockFollowsPc /\ MapHoldsLiveServices /\ ClosingWerePlaced
    BY DEF IInv
  <1>p. \A x \in Services : Placed(x) => Placed(x)'
    BY <1>0, PlacedStays
  <1>s. SUFFICES ASSUME NEW u \in Tasks, NEW x \in Services, x \in closing'[u]
                PROVE  Placed(x)' /\ pc'[u] = "cancelling"
    <2>1. TypeOK'
      BY TypeStep
    <2>2. QED
      BY <1>s, <2>1 DEF TypeOK, ClosingWerePlaced
  <1>c. x \in closing[u] => Placed(x)' /\ pc[u] = "cancelling"
    BY <1>0, <1>p DEF ClosingWerePlaced
  <1>m. \A s \in Servers : x = upstreams[s] => Placed(x)'
    BY <1>0, <1>p, ParametersTyped DEF MapHoldsLiveServices, Services
  <1>1. ASSUME NEW t \in Tasks, Acquire(t) PROVE Placed(x)' /\ pc'[u] = "cancelling"
    <2>1. pc[t] = "waiting"
      BY <1>0, <1>1, AcquirersWaited
    <2>2. QED
      BY <1>0, <1>1, <1>c, <1>s, <2>1 DEF Acquire, TypeOK, Goto
  <1>2. ASSUME NEW t \in Tasks, Call(t) \/ Look(t) PROVE Placed(x)' /\ pc'[u] = "cancelling"
    BY <1>0, <1>2, <1>c, <1>s DEF Call, Arrive, Route, Unrouted, Answer, Look, List, Probe, Probed,
         ReadTools, Listed, TypeOK, Goto
  <1>3. ASSUME NEW t \in Tasks, Begin(t) \/ Open(t) \/ End(t)
        PROVE  Placed(x)' /\ pc'[u] = "cancelling"
    BY <1>0, <1>3, <1>c, <1>s DEF Begin, Open, End, TypeOK, Goto
  <1>4. ASSUME NEW t \in Tasks, Insert(t) PROVE Placed(x)' /\ pc'[u] = "cancelling"
    <2>1. x \in closing[u] \/ (u = t /\ x = upstreams[Server(t)])
      BY <1>0, <1>4, <1>s DEF Insert, TypeOK
    <2>2. QED
      BY <1>0, <1>4, <1>c, <1>m, <2>1, KindsOfRequests DEF Insert, TypeOK, Goto
  <1>5. ASSUME NEW t \in Tasks, Remove(t) PROVE Placed(x)' /\ pc'[u] = "cancelling"
    <2>1. x \in closing[u] \/ (u = t /\ \E s \in Taken(t) : x = upstreams[s])
      BY <1>0, <1>5, <1>s DEF Remove, TypeOK
    <2>2. Taken(t) \subseteq Servers
      BY KindsOfRequests DEF Taken
    <2>3. QED
      BY <1>0, <1>5, <1>c, <1>m, <2>1, <2>2 DEF Remove, TypeOK, Goto
  <1>6. ASSUME NEW t \in Tasks, Cancel(t) PROVE Placed(x)' /\ pc'[u] = "cancelling"
    BY <1>0, <1>6, <1>c, <1>s DEF Cancel, TypeOK
  <1>7. CASE UNCHANGED vars
    BY <1>7, <1>c, <1>s DEF vars
  <1>8. QED
    BY <1>1, <1>2, <1>3, <1>4, <1>5, <1>6, <1>7 DEF Next, Change

\* The map only changes under a write guard, which no call in flight allows.
LEMMA CallsStep == IInv /\ [Next]_vars => CallsUseTheMap'
  <1> SUFFICES ASSUME IInv, [Next]_vars PROVE CallsUseTheMap'
    OBVIOUS
  <1>0. TypeOK /\ LockFollowsPc /\ StagesFitKinds /\ WritersAreAlone /\ CallsUseTheMap
    BY DEF IInv
  <1>s. SUFFICES ASSUME NEW c \in Tasks, Kind(c) = "call", pc'[c] = "calling"
                PROVE  using'[c] # None /\ using'[c] = upstreams'[Server(c)]
    BY DEF CallsUseTheMap, Kind, Server
  <1>c. pc[c] = "calling" => /\ using[c] # None /\ using[c] = upstreams[Server(c)]
                             /\ c \in holders
    BY <1>0, <1>s DEF CallsUseTheMap, LockFollowsPc
  <1>q. (pc[c] = "calling" /\ using'[c] = using[c] /\ UNCHANGED upstreams)
          => using'[c] # None /\ using'[c] = upstreams'[Server(c)]
    BY <1>c
  <1>1. ASSUME NEW t \in Tasks, Acquire(t)
        PROVE  using'[c] # None /\ using'[c] = upstreams'[Server(c)]
    <2>1. pc[c] = "calling" /\ using'[c] = using[c] /\ UNCHANGED upstreams
      BY <1>0, <1>1, <1>s DEF Acquire, TypeOK, Goto
    <2>2. QED
      BY <1>q, <2>1
  <1>2. ASSUME NEW t \in Tasks, Call(t)
        PROVE  using'[c] # None /\ using'[c] = upstreams'[Server(c)]
    <2>1. CASE t = c /\ Route(c)
      BY <1>0, <2>1 DEF Route, TypeOK
    <2>2. CASE ~ (t = c /\ Route(c))
      <3>1. pc[c] = "calling" /\ using'[c] = using[c] /\ UNCHANGED upstreams
        BY <1>0, <1>2, <1>s, <2>2 DEF Call, Arrive, Route, Unrouted, Answer, TypeOK, Goto
      <3>2. QED
        BY <1>q, <3>1
    <2>3. QED
      BY <2>1, <2>2
  <1>3. ASSUME NEW t \in Tasks, Change(t)
        PROVE  using'[c] # None /\ using'[c] = upstreams'[Server(c)]
    <2>1. pc[c] = "calling" /\ UNCHANGED using
      BY <1>0, <1>3, <1>s DEF Change, Begin, Open, Insert, Remove, Cancel, End, TypeOK, Goto, lock
    <2>2. ASSUME Insert(t) \/ Remove(t) PROVE FALSE
      <3>1. Writes(t) /\ t \in holders
        BY <1>0, <2>2 DEF Insert, Remove, LockFollowsPc, Writes
      <3>2. c \in holders /\ ~ Writes(c)
        BY <1>c, <1>s, <2>1 DEF Writes
      <3>3. QED
        BY <1>0, <3>1, <3>2 DEF WritersAreAlone
    <2>3. UNCHANGED upstreams
      BY <1>3, <2>2 DEF Change, Begin, Open, Cancel, End
    <2>4. QED
      BY <1>q, <2>1, <2>3
  <1>4. ASSUME NEW t \in Tasks, Look(t)
        PROVE  using'[c] # None /\ using'[c] = upstreams'[Server(c)]
    <2>1. t # c
      BY <1>0, <1>4, <1>s DEF Look, List, Probe, Probed, ReadTools, Listed, StagesFitKinds
    <2>2. pc[c] = "calling" /\ using'[c] = using[c] /\ UNCHANGED upstreams
      BY <1>0, <1>4, <1>s, <2>1 DEF Look, List, Probe, Probed, ReadTools, Listed, TypeOK, Goto
    <2>3. QED
      BY <1>q, <2>2
  <1>5. CASE UNCHANGED vars
    BY <1>5, <1>q, <1>s DEF vars
  <1>6. QED
    BY <1>1, <1>2, <1>3, <1>4, <1>5 DEF Next

\* A connection is handed on, from its opener to the map and from the map to
\* whoever cancels it, and never dropped.
LEMMA OwnedStep == IInv /\ [Next]_vars => ServicesAreOwned'
  <1> SUFFICES ASSUME IInv, [Next]_vars PROVE ServicesAreOwned'
    OBVIOUS
  <1>0. /\ TypeOK /\ LockFollowsPc /\ StagesFitKinds /\ OpenersHaveTheirs
        /\ MapHoldsLiveServices /\ ClosingWerePlaced /\ ServicesAreOwned
    BY DEF IInv
  <1> DEFINE Owned(x) ==
               \/ \E s \in Servers : upstreams[s] = x
               \/ x \in Tasks /\ pc[x] \in {"waiting", "locked"}
               \/ \E t \in Tasks : x \in closing[t]
  <1>s. SUFFICES ASSUME NEW x \in Services, service'[x] = "open" PROVE Owned(x)'
    BY <1>s, ParametersTyped DEF ServicesAreOwned, Mapped, Services
  <1>o. service[x] = "open" => Owned(x)
    BY <1>0 DEF ServicesAreOwned, Mapped
  <1>k. (x \in Tasks /\ pc[x] \in {"waiting", "locked"} /\ service[x] = "open")
          => Kind(x) = "connect"
    BY <1>0 DEF OpenersHaveTheirs
  <1>1. ASSUME NEW t \in Tasks, Acquire(t) PROVE Owned(x)'
    BY <1>0, <1>1, <1>s, <1>o DEF Acquire, TypeOK, Goto
  <1>2. ASSUME NEW t \in Tasks, Call(t) \/ Look(t) PROVE Owned(x)'
    <2>1. Quiet
      BY <1>2, QuietSteps
    <2>2. (x \in Tasks /\ pc[x] \in {"waiting", "locked"}) => pc'[x] = pc[x]
      <3>1. service[x] = "open"
        BY <1>s, <2>1 DEF Quiet
      <3>2. QED
        BY <1>0, <1>2, <1>k, <3>1 DEF Call, Arrive, Route, Unrouted, Answer, Look, List, Probe,
             Probed, ReadTools, Listed, TypeOK, Goto, StagesFitKinds
    <2>3. QED
      BY <1>s, <1>o, <2>1, <2>2 DEF Quiet
  <1>3. ASSUME NEW t \in Tasks, Begin(t) \/ End(t) PROVE Owned(x)'
    BY <1>0, <1>3, <1>s, <1>o DEF Begin, End, TypeOK, Goto
  <1>4. ASSUME NEW t \in Tasks, Open(t) PROVE Owned(x)'
    <2>1. CASE x = t
      <3>1. pc'[x] = "waiting"
        BY <1>0, <1>4, <1>s, <2>1 DEF Open, TypeOK, Goto, Services, OpenersHaveTheirs
      <3>2. QED
        BY <2>1, <3>1
    <2>2. CASE x # t
      BY <1>0, <1>4, <1>s, <1>o, <2>2 DEF Open, TypeOK, Goto
    <2>3. QED
      BY <2>1, <2>2
  <1>5. ASSUME NEW t \in Tasks, Insert(t) PROVE Owned(x)'
    <2>0. /\ UNCHANGED service
          /\ upstreams' = [upstreams EXCEPT ![Server(t)] = t]
          /\ closing' = [closing EXCEPT ![t] = {upstreams[Server(t)]} \ {None}]
          /\ closing[t] = {}
          /\ x # None
      BY <1>0, <1>5, ParametersTyped DEF Insert, TypeOK, ClosingWerePlaced, Services
    <2>1. CASE \E s \in Servers : upstreams[s] = x
      <3>1. PICK s \in Servers : upstreams[s] = x
        BY <2>1
      <3>2. CASE s = Server(t)
        BY <1>0, <2>0, <3>1, <3>2 DEF TypeOK
      <3>3. CASE s # Server(t)
        BY <1>0, <2>0, <3>1, <3>3 DEF TypeOK
      <3>4. QED
        BY <3>2, <3>3
    <2>2. CASE x \in Tasks /\ pc[x] \in {"waiting", "locked"}
      <3>1. CASE x = t
        BY <1>0, <2>0, <3>1, KindsOfRequests DEF TypeOK
      <3>2. CASE x # t
        BY <1>0, <1>5, <2>2, <3>2 DEF Insert, TypeOK, Goto
      <3>3. QED
        BY <3>1, <3>2
    <2>3. CASE \E u \in Tasks : x \in closing[u]
      BY <1>0, <2>0, <2>3 DEF TypeOK
    <2>4. QED
      BY <1>s, <1>o, <2>0, <2>1, <2>2, <2>3
  <1>6. ASSUME NEW t \in Tasks, Remove(t) PROVE Owned(x)'
    <2>0. /\ UNCHANGED service
          /\ upstreams' = [r \in Servers |-> IF r \in Taken(t) THEN None ELSE upstreams[r]]
          /\ closing' = [closing EXCEPT ![t] = {upstreams[r] : r \in Taken(t)} \ {None}]
          /\ closing[t] = {}
          /\ x # None
      BY <1>0, <1>6, ParametersTyped DEF Remove, TypeOK, ClosingWerePlaced, Services
    <2>1. CASE \E s \in Servers : upstreams[s] = x
      <3>1. PICK s \in Servers : upstreams[s] = x
        BY <2>1
      <3>2. CASE s \in Taken(t)
        BY <1>0, <2>0, <3>1, <3>2 DEF TypeOK
      <3>3. CASE s \notin Taken(t)
        BY <2>0, <3>1, <3>3
      <3>4. QED
        BY <3>2, <3>3
    <2>2. CASE x \in Tasks /\ pc[x] \in {"waiting", "locked"}
      <3>1. x # t
        BY <1>6, <1>k, <1>s, <2>0, <2>2 DEF Remove
      <3>2. QED
        BY <1>0, <1>6, <2>2, <3>1 DEF Remove, TypeOK, Goto
    <2>3. CASE \E u \in Tasks : x \in closing[u]
      BY <1>0, <2>0, <2>3 DEF TypeOK
    <2>4. QED
      BY <1>s, <1>o, <2>0, <2>1, <2>2, <2>3
  <1>7. ASSUME NEW t \in Tasks, Cancel(t) PROVE Owned(x)'
    <2>1. PICK y \in closing[t] : /\ service' = [service EXCEPT ![y] = "cancelled"]
                                  /\ closing' = [closing EXCEPT ![t] = @ \ {y}]
      BY <1>7 DEF Cancel
    <2>2. x # y /\ service[x] = "open"
      BY <1>0, <1>s, <2>1 DEF TypeOK
    <2>3. (\E u \in Tasks : x \in closing[u]) => \E u \in Tasks : x \in closing'[u]
      BY <1>0, <2>1, <2>2 DEF TypeOK
    <2>4. QED
      BY <1>7, <1>o, <2>2, <2>3 DEF Cancel
  <1>8. CASE UNCHANGED vars
    BY <1>8, <1>s, <1>o DEF vars
  <1>9. QED
    BY <1>1, <1>2, <1>3, <1>4, <1>5, <1>6, <1>7, <1>8 DEF Next, Change

-----------------------------------------------------------------------------
(* The theorems.                                                           *)

\* The invariant that explains the lock and the map holds of every behaviour,
\* for any number of calls and admin requests.
THEOREM Inductive == Spec => []IInv
  <1>1. IInv /\ [Next]_vars => IInv'
    BY TypeStep, LockStep, StagesStep, WritersStep, OpenersStep, MapStep, ClosingStep, CallsStep,
       OwnedStep DEF IInv
  <1>2. QED
    BY InitIInv, <1>1, PTL DEF Spec

\* The map, the lock and the tasks keep their types.
THEOREM TypeCorrect == Spec => []TypeOK
  <1>1. IInv => TypeOK
    BY DEF IInv
  <1>2. QED
    BY Inductive, <1>1, PTL

\* call_tool's read guard protects the service it uses: no connect, disconnect
\* or shutdown cancels it before the upstream has answered.
THEOREM CallsKeep == Spec => []CallsKeepTheirService
  <1>1. IInv => CallsKeepTheirService
    BY KindsOfRequests DEF IInv, CallsKeepTheirService, CallsUseTheMap, MapHoldsLiveServices
  <1>2. QED
    BY Inductive, <1>1, PTL

\* No connection that connect_and_list opened is left open and forgotten,
\* however connects, disconnects and the shutdown overlap.
THEOREM NothingLeaks == Spec => []ServicesAreOwned
  <1>1. IInv => ServicesAreOwned
    BY DEF IInv
  <1>2. QED
    BY Inductive, <1>1, PTL
=============================================================================
