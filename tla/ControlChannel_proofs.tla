------------------------ MODULE ControlChannel_proofs ------------------------
(***************************************************************************)
(* Theorems about ControlChannel, for any sets of runs, pushes and tool    *)
(* calls: its types, that a caller only ever gets the answer to its own    *)
(* request, and that the channel implements RemoteCall.  All three rest on *)
(* the inductive invariant IInv.                                           *)
(***************************************************************************)
EXTENDS ControlChannel, TLAPS, SequenceTheorems

\* What Append does, index by index.
LEMMA AppendFacts ==
  ASSUME NEW S, NEW s \in Seq(S), NEW e \in S
  PROVE  /\ Append(s, e) \in Seq(S)
         /\ DOMAIN Append(s, e) = DOMAIN s \cup {Len(s) + 1}
         /\ Len(s) + 1 \notin DOMAIN s
         /\ \A k \in DOMAIN s : Append(s, e)[k] = s[k]
         /\ Append(s, e)[Len(s) + 1] = e
  BY AppendProperties

\* What Head and Tail do, index by index.
LEMMA TailFacts ==
  ASSUME NEW S, NEW s \in Seq(S), s # <<>>
  PROVE  /\ Tail(s) \in Seq(S)
         /\ 1 \in DOMAIN s
         /\ Head(s) = s[1]
         /\ Head(s) \in S
         /\ \A k \in DOMAIN Tail(s) :
              k \in Nat /\ k + 1 \in DOMAIN s /\ k + 1 # 1 /\ Tail(s)[k] = s[k + 1]
  BY HeadTailProperties

\* A prefix of a sequence, index by index.
LEMMA PrefixFacts ==
  ASSUME NEW S, NEW s \in Seq(S), NEW n \in 0 .. Len(s)
  PROVE  /\ SubSeq(s, 1, n) \in Seq(S)
         /\ \A k \in DOMAIN SubSeq(s, 1, n) :
              k \in DOMAIN s /\ SubSeq(s, 1, n)[k] = s[k]
  BY SubSeqProperties

\* Every frame of a request or response names one.
LEMMA FramesHaveCallers ==
  ASSUME TypeOK
  PROVE  /\ \A k \in DOMAIN outbound :
              outbound[k].type = "request" => outbound[k].req \in Requests
         /\ \A k \in DOMAIN toWorker :
              toWorker[k].type = "request" => toWorker[k].req \in Requests
         /\ \A k \in DOMAIN fromWorker :
              fromWorker[k].type = "response" => fromWorker[k].req \in Requests
         /\ \A f \in inHand : f.req \in Requests
  <1>1. \A k \in DOMAIN outbound :
          outbound[k].type = "request" => outbound[k].req \in Requests
    BY DEF TypeOK, OutFrame, Frame
  <1>2. \A k \in DOMAIN toWorker :
          toWorker[k].type = "request" => toWorker[k].req \in Requests
    BY DEF TypeOK, OutFrame, Frame
  <1>3. \A k \in DOMAIN fromWorker :
          fromWorker[k].type = "response" => fromWorker[k].req \in Requests
    BY DEF TypeOK, InFrame
  <1>4. \A f \in inHand : f.req \in Requests
    BY DEF TypeOK, Frame
  <1>5. QED
    BY <1>1, <1>2, <1>3, <1>4

\* The empty map, queues and sets satisfy everything.
LEMMA InitIInv == Init => IInv
  <1> SUFFICES ASSUME Init PROVE IInv
    OBVIOUS
  <1>1. TypeOK
    BY DEF Init, TypeOK, NoReply, Reply, CallStates
  <1>2. QED
    BY <1>1 DEF Init, IInv, IdsAreUnique, IdsAreOwned, WrittenOnce, RepliesAreEarned,
                LossIsNoticed, AnswersMatch, NoReply

-----------------------------------------------------------------------------
(* Type correctness.                                                       *)

LEMMA TypeStep == TypeOK /\ [Next]_vars => TypeOK'
  <1> SUFFICES ASSUME TypeOK, [Next]_vars PROVE TypeOK'
    OBVIOUS
  <1> USE DEF TypeOK, Reply, NoReply, Failure
  <1>1. ASSUME NEW r \in Requests, Allocate(r) PROVE TypeOK'
    BY <1>1 DEF Allocate, wire, tools
  <1>2. ASSUME NEW r \in Requests, Register(r) PROVE TypeOK'
    BY <1>2 DEF Register, wire, tools
  <1>3. ASSUME NEW r \in Requests, Post(r) PROVE TypeOK'
    <2>1. CASE writer = "up"
      <3> DEFINE f == [type |-> "request", id |-> reqId[r], req |-> r]
      <3>1. f \in OutFrame
        BY DEF OutFrame, Frame
      <3>2. outbound' = Append(outbound, f)
        BY <1>3, <2>1 DEF Post
      <3>3. outbound' \in Seq(OutFrame)
        BY <3>1, <3>2, AppendFacts
      <3>4. QED
        BY <1>3, <2>1, <3>3 DEF Post, wire, tools
    <2>2. CASE writer = "down"
      <3>1. Return(r, Failure("closed")) /\ UNCHANGED outbound
        BY <1>3, <2>2 DEF Post
      <3>2. Failure("closed") \in Reply
        OBVIOUS
      <3>3. task' \in [Requests -> {"idle", "allocated", "registered", "waiting", "done"}]
            /\ outcome' \in [Requests -> Reply]
        BY <3>1, <3>2 DEF Return
      <3>4. QED
        BY <1>3, <3>1, <3>3 DEF Post, Return, wire, tools
    <2>3. QED
      BY <2>1, <2>2
  <1>4. ASSUME NEW r \in Requests, Receive(r) PROVE TypeOK'
    BY <1>4 DEF Receive, Return, wire, tools
  <1>5. ASSUME NEW r \in Requests, Timeout(r) PROVE TypeOK'
    BY <1>5 DEF Timeout, Return, wire, tools
  <1>6. CASE Write
    <2>1. /\ Tail(outbound) \in Seq(OutFrame)
          /\ Append(toWorker, Head(outbound)) \in Seq(OutFrame)
          /\ <<>> \in Seq(OutFrame)
      BY <1>6, TailFacts, AppendFacts DEF Write
    <2>2. QED
      BY <1>6, <2>1 DEF Write, callers, tools
  <1>7. CASE ReadResponse
    <2> DEFINE f == Head(fromWorker)
    <2>1. /\ f \in InFrame
          /\ f.type = "response"
          /\ Tail(fromWorker) \in Seq(InFrame)
      BY <1>7, TailFacts DEF ReadResponse
    <2>2. f.req \in Requests /\ f.ok \in BOOLEAN
      BY <2>1 DEF InFrame
    <2>3. CASE f.id \in DOMAIN pending
      <3>1. pending[f.id] \in Requests
        BY <2>3
      <3>2. /\ pending' = Forget(f.id)
            /\ oneshot' = Completed(pending[f.id],
                 [kind |-> IF f.ok THEN "answer" ELSE "error", of |-> f.req])
        BY <1>7, <2>3 DEF ReadResponse
      <3>3. DOMAIN pending' \in SUBSET Nat /\ pending' \in [DOMAIN pending' -> Requests]
        BY <3>2 DEF Forget
      <3>4. oneshot' \in [Requests -> Reply]
        BY <2>2, <3>1, <3>2 DEF Completed
      <3>5. QED
        BY <1>7, <2>1, <3>3, <3>4 DEF ReadResponse, callers, tools
    <2>4. CASE f.id \notin DOMAIN pending
      BY <1>7, <2>1, <2>4 DEF ReadResponse, callers, tools
    <2>5. QED
      BY <2>3, <2>4
  <1>8. CASE ReadCall
    <2>1. Tail(fromWorker) \in Seq(InFrame)
      BY <1>8, TailFacts DEF ReadCall
    <2>2. call' \in [ToolCalls -> CallStates]
      BY <1>8 DEF ReadCall, CallStates
    <2>3. QED
      BY <1>8, <2>1, <2>2 DEF ReadCall, callers
  <1>9. CASE LeaveLoop
    BY <1>9 DEF LeaveLoop, callers, wire, tools
  <1>10. CASE Drain
    BY <1>10 DEF Drain, callers, wire, tools
  <1>11. ASSUME NEW c \in ToolCalls, UpstreamReturns(c) PROVE TypeOK'
    BY <1>11 DEF UpstreamReturns, CallStates, callers, wire
  <1>12. ASSUME NEW c \in ToolCalls, ReplyToCall(c) PROVE TypeOK'
    <2> DEFINE f == [type |-> "result", call |-> c, ok |-> call[c] # "failed"]
    <2>1. Append(outbound, f) \in Seq(OutFrame)
      <3>1. f \in OutFrame
        BY DEF OutFrame
      <3>2. QED
        BY <3>1, AppendFacts
    <2>2. shapeEvents' \in SUBSET ToolCalls /\ call' \in [ToolCalls -> CallStates]
      BY <1>12 DEF ReplyToCall, CallStates
    <2>3. QED
      BY <1>12, <2>1, <2>2 DEF ReplyToCall, callers, wire
  <1>13. CASE WorkerReads
    <2> DEFINE f == Head(toWorker)
    <2>1. f \in OutFrame /\ Tail(toWorker) \in Seq(OutFrame)
      BY <1>13, TailFacts DEF WorkerReads
    <2>2. CASE f.type = "request"
      <3>1. f \in Frame /\ f.req \in Requests
        BY <2>1, <2>2 DEF OutFrame, Frame
      <3>2. taken' \in [Requests -> Nat]
        <4>1. taken' = [taken EXCEPT ![f.req] = taken[f.req] + 1]
          BY <1>13, <2>2 DEF WorkerReads
        <4>2. taken[f.req] + 1 \in Nat
          BY <3>1
        <4> HIDE DEF f
        <4>3. QED
          BY <3>1, <4>1, <4>2
      <3>3. inHand' \in SUBSET Frame
        BY <1>13, <2>2, <3>1 DEF WorkerReads
      <3>4. QED
        <4>1. UNCHANGED <<nextId, task, reqId, outcome, pending, oneshot, outbound, writer,
                          reader, link, fromWorker, call, shapeEvents>>
              /\ toWorker' = Tail(toWorker)
          BY <1>13, <2>2 DEF WorkerReads, callers
        <4>2. QED
          BY <2>1, <3>2, <3>3, <4>1
    <2>3. CASE f.type = "result"
      <3>1. call' \in [ToolCalls -> CallStates]
        BY <1>13, <2>3 DEF WorkerReads, CallStates
      <3>2. QED
        BY <1>13, <2>1, <2>3, <3>1 DEF WorkerReads, callers
    <2>4. QED
      BY <1>13, <2>2, <2>3 DEF WorkerReads
  <1>14. ASSUME NEW f \in inHand, WorkerAnswers(f) PROVE TypeOK'
    <2>1. PICK ok \in BOOLEAN : fromWorker' = Append(fromWorker,
                      [type |-> "response", id |-> f.id, req |-> f.req, ok |-> ok])
      BY <1>14 DEF WorkerAnswers
    <2>2. [type |-> "response", id |-> f.id, req |-> f.req, ok |-> ok] \in InFrame
      BY DEF InFrame, Frame
    <2>3. fromWorker' \in Seq(InFrame)
      BY <2>1, <2>2, AppendFacts
    <2>4. QED
      BY <1>14, <2>3 DEF WorkerAnswers, callers, tools
  <1>15. ASSUME NEW c \in ToolCalls, WorkerCalls(c) PROVE TypeOK'
    <2>1. [type |-> "call", call |-> c] \in InFrame
      BY DEF InFrame
    <2>2. fromWorker' \in Seq(InFrame)
      BY <1>15, <2>1, AppendFacts DEF WorkerCalls
    <2>3. call' \in [ToolCalls -> CallStates]
      BY <1>15 DEF WorkerCalls, CallStates
    <2>4. QED
      BY <1>15, <2>2, <2>3 DEF WorkerCalls, callers
  <1>16. CASE LoseLink
    <2>1. fromWorker' \in Seq(InFrame)
      BY <1>16, PrefixFacts DEF LoseLink
    <2>2. QED
      BY <1>16, <2>1 DEF LoseLink, callers, tools
  <1>17. CASE UNCHANGED vars
    BY <1>17 DEF vars, callers, wire, tools
  <1>18. QED
    BY <1>1, <1>2, <1>3, <1>4, <1>5, <1>6, <1>7, <1>8, <1>9, <1>10, <1>11, <1>12, <1>13,
       <1>14, <1>15, <1>16, <1>17 DEF Next, Caller, Reader, Worker

-----------------------------------------------------------------------------
(* Ids.                                                                    *)

\* Only Allocate touches ids, and only it makes a caller leave "idle".
LEMMA IdsFrame ==
  ASSUME TypeOK, [Next]_vars
  PROVE  \/ \E r \in Requests : Allocate(r)
         \/ /\ UNCHANGED <<nextId, reqId>>
            /\ \A r \in Requests :
                 /\ task'[r] = "idle" <=> task[r] = "idle"
                 /\ Posted(r) => Posted(r)'
  <1> USE DEF TypeOK, Posted
  <1>1. ASSUME NEW r \in Requests, Register(r) \/ Post(r) \/ Receive(r) \/ Timeout(r)
        PROVE  /\ UNCHANGED <<nextId, reqId>>
               /\ \A q \in Requests :
                    /\ task'[q] = "idle" <=> task[q] = "idle"
                    /\ Posted(q) => Posted(q)'
    BY <1>1 DEF Register, Post, Receive, Timeout, Return
  <1>2. ASSUME UNCHANGED callers
        PROVE  /\ UNCHANGED <<nextId, reqId>>
               /\ \A q \in Requests :
                    /\ task'[q] = "idle" <=> task[q] = "idle"
                    /\ Posted(q) => Posted(q)'
    BY <1>2 DEF callers
  <1>3. (Write \/ Reader \/ Worker \/ LoseLink \/ UNCHANGED vars
          \/ \E c \in ToolCalls : UpstreamReturns(c) \/ ReplyToCall(c)) => UNCHANGED callers
    BY DEF Write, Reader, ReadResponse, ReadCall, LeaveLoop, Drain, Worker, WorkerReads,
           WorkerAnswers, WorkerCalls, LoseLink, UpstreamReturns, ReplyToCall, vars
  <1>4. QED
    BY <1>1, <1>2, <1>3 DEF Next, Caller

LEMMA IdsStep == TypeOK /\ IdsAreUnique /\ [Next]_vars => IdsAreUnique'
  <1> SUFFICES ASSUME TypeOK, IdsAreUnique, [Next]_vars PROVE IdsAreUnique'
    OBVIOUS
  <1>1. ASSUME NEW r \in Requests, Allocate(r) PROVE IdsAreUnique'
    BY <1>1 DEF Allocate, IdsAreUnique, TypeOK
  <1>2. ASSUME UNCHANGED <<nextId, reqId>>,
               \A r \in Requests : task'[r] = "idle" <=> task[r] = "idle"
        PROVE  IdsAreUnique'
    BY <1>2 DEF IdsAreUnique
  <1>3. QED
    BY <1>1, <1>2, IdsFrame

\* A frame or entry that is its caller's own stays so while callers advance.
OwnIdNext(f) == f.id = reqId'[f.req] /\ task'[f.req] \in {"waiting", "done"}

LEMMA OwnIdStable ==
  ASSUME TypeOK, [Next]_vars, NEW f, f.req \in Requests, OwnId(f)
  PROVE  OwnIdNext(f)
  BY IdsFrame DEF OwnId, OwnIdNext, Posted, Allocate, TypeOK

LEMMA OwnedStep == TypeOK /\ IdsAreUnique /\ IdsAreOwned /\ [Next]_vars => IdsAreOwned'
  <1> SUFFICES ASSUME TypeOK, IdsAreUnique, IdsAreOwned, [Next]_vars PROVE IdsAreOwned'
    OBVIOUS
  <1> DEFINE Keys == \A i \in DOMAIN pending : reqId[pending[i]] = i /\ task[pending[i]] # "idle"
             Out == \A k \in DOMAIN outbound :
                      outbound[k].type = "request" => OwnId(outbound[k])
             Wire == \A k \in DOMAIN toWorker :
                      toWorker[k].type = "request" => OwnId(toWorker[k])
             Held == \A f \in inHand : OwnId(f)
             Back == \A k \in DOMAIN fromWorker :
                      fromWorker[k].type = "response" => OwnId(fromWorker[k])
  <1>0. Keys /\ Out /\ Wire /\ Held /\ Back
    BY DEF IdsAreOwned
  <1>1. \A k \in DOMAIN outbound :
          outbound[k].type = "request" => outbound[k].req \in Requests /\ OwnIdNext(outbound[k])
    <2> SUFFICES ASSUME NEW k \in DOMAIN outbound, outbound[k].type = "request"
                 PROVE  outbound[k].req \in Requests /\ OwnIdNext(outbound[k])
      OBVIOUS
    <2>1. outbound[k].req \in Requests
      BY DEF TypeOK, OutFrame, Frame
    <2>2. QED
      BY <2>1, <1>0, OwnIdStable
  <1>2. \A k \in DOMAIN toWorker :
          toWorker[k].type = "request" => toWorker[k].req \in Requests /\ OwnIdNext(toWorker[k])
    <2> SUFFICES ASSUME NEW k \in DOMAIN toWorker, toWorker[k].type = "request"
                 PROVE  toWorker[k].req \in Requests /\ OwnIdNext(toWorker[k])
      OBVIOUS
    <2>1. toWorker[k].req \in Requests
      BY DEF TypeOK, OutFrame, Frame
    <2>2. QED
      BY <2>1, <1>0, OwnIdStable
  <1>3. \A f \in inHand : f.req \in Requests /\ OwnIdNext(f)
    <2> SUFFICES ASSUME NEW f \in inHand PROVE f.req \in Requests /\ OwnIdNext(f)
      OBVIOUS
    <2>1. f.req \in Requests
      BY DEF TypeOK, Frame
    <2>2. QED
      BY <2>1, <1>0, OwnIdStable
  <1>4. \A k \in DOMAIN fromWorker :
          fromWorker[k].type = "response" => OwnIdNext(fromWorker[k])
    <2> SUFFICES ASSUME NEW k \in DOMAIN fromWorker, fromWorker[k].type = "response"
                 PROVE  OwnIdNext(fromWorker[k])
      OBVIOUS
    <2>1. fromWorker[k].req \in Requests
      BY DEF TypeOK, InFrame
    <2>2. QED
      BY <2>1, <1>0, OwnIdStable
  <1>5. \A i \in DOMAIN pending : reqId'[pending[i]] = i /\ task'[pending[i]] # "idle"
    BY <1>0, IdsFrame DEF Allocate, TypeOK
  <1> HIDE DEF Keys, Out, Wire, Held, Back
  <1>6. Keys'
    <2>1. ASSUME NEW r \in Requests, Register(r) PROVE Keys'
      BY <2>1, <1>5, IdsFrame DEF Register, Keys, TypeOK, IdsAreUnique
    <2>2. ASSUME ReadResponse PROVE Keys'
      BY <2>2, <1>5 DEF ReadResponse, Forget, Keys
    <2>3. CASE Drain
      BY <2>3 DEF Drain, Keys
    <2>4. CASE UNCHANGED pending
      BY <2>4, <1>5 DEF Keys
    <2>5. UNCHANGED pending \/ ReadResponse \/ Drain \/ \E r \in Requests : Register(r)
      BY DEF Next, Caller, Allocate, Post, Receive, Timeout, Write, Reader, ReadCall, LeaveLoop,
             UpstreamReturns, ReplyToCall, Worker, WorkerReads, WorkerAnswers, WorkerCalls,
             LoseLink, vars
    <2>6. QED
      BY <2>1, <2>2, <2>3, <2>4, <2>5
  <1>7. Out'
    <2>1. ASSUME NEW r \in Requests, Post(r), writer = "up" PROVE Out'
      <3> DEFINE f == [type |-> "request", id |-> reqId[r], req |-> r]
      <3>1. outbound' = Append(outbound, f) /\ OwnIdNext(f)
        BY <2>1 DEF Post, OwnIdNext, TypeOK
      <3>2. f \in OutFrame
        BY DEF OutFrame, Frame, TypeOK
      <3>3. QED
        BY <3>1, <3>2, <1>1, AppendFacts DEF Out, OwnId, OwnIdNext, Posted, TypeOK
    <2>2. ASSUME NEW c \in ToolCalls, ReplyToCall(c), writer = "up" PROVE Out'
      <3> DEFINE f == [type |-> "result", call |-> c, ok |-> call[c] # "failed"]
      <3>1. outbound' = Append(outbound, f) /\ f.type # "request"
        BY <2>2 DEF ReplyToCall
      <3>2. f \in OutFrame
        BY DEF OutFrame
      <3>3. QED
        BY <3>1, <3>2, <1>1, AppendFacts DEF Out, OwnId, OwnIdNext, Posted, TypeOK
    <2>3. CASE Write
      <3>1. outbound' = Tail(outbound) \/ outbound' = <<>>
        BY <2>3 DEF Write
      <3>2. \A k \in DOMAIN Tail(outbound) :
              k + 1 \in DOMAIN outbound /\ Tail(outbound)[k] = outbound[k + 1]
        BY <2>3, TailFacts DEF Write, TypeOK
      <3>3. \A k \in DOMAIN outbound' : outbound'[k].type = "request" => OwnIdNext(outbound'[k])
        <4>1. CASE outbound' = Tail(outbound)
          BY <4>1, <3>2, <1>1
        <4>2. CASE outbound' = <<>>
          BY <4>2
        <4>3. QED
          BY <3>1, <4>1, <4>2
      <3>4. QED
        BY <3>3 DEF Out, OwnId, OwnIdNext, Posted
    <2>4. CASE UNCHANGED outbound
      BY <2>4, <1>1 DEF Out, OwnId, OwnIdNext, Posted
    <2>5. \/ UNCHANGED outbound
          \/ Write
          \/ \E r \in Requests : Post(r) /\ writer = "up"
          \/ \E c \in ToolCalls : ReplyToCall(c) /\ writer = "up"
      BY DEF Next, Caller, Allocate, Register, Post, Receive, Timeout, Reader, ReadResponse,
             ReadCall, LeaveLoop, Drain, UpstreamReturns, ReplyToCall, Worker, WorkerReads,
             WorkerAnswers, WorkerCalls, LoseLink, vars
    <2>6. QED
      BY <2>1, <2>2, <2>3, <2>4, <2>5
  <1>8. Wire'
    <2>1. CASE Write
      <3>1. CASE toWorker' = Append(toWorker, Head(outbound))
        BY <2>1, <3>1, <1>1, <1>2, AppendFacts, TailFacts DEF Write, Wire, OwnId, OwnIdNext, Posted, TypeOK
      <3>2. CASE UNCHANGED toWorker
        BY <3>2, <1>2 DEF Wire, OwnId, OwnIdNext, Posted
      <3>3. QED
        BY <2>1, <3>1, <3>2 DEF Write
    <2>2. CASE WorkerReads
      BY <2>2, <1>2, TailFacts DEF WorkerReads, Wire, OwnId, OwnIdNext, Posted, TypeOK
    <2>3. CASE LoseLink
      BY <2>3 DEF LoseLink, Wire
    <2>4. CASE UNCHANGED toWorker
      BY <2>4, <1>2 DEF Wire, OwnId, OwnIdNext, Posted
    <2>5. UNCHANGED toWorker \/ Write \/ WorkerReads \/ LoseLink
      BY DEF Next, Caller, Allocate, Register, Post, Receive, Timeout, Reader, ReadResponse,
             ReadCall, LeaveLoop, Drain, UpstreamReturns, ReplyToCall, Worker,
             WorkerAnswers, WorkerCalls, vars, wire
    <2>6. QED
      BY <2>1, <2>2, <2>3, <2>4, <2>5
  <1>9. Held'
    <2>1. CASE WorkerReads
      BY <2>1, <1>2, <1>3, TailFacts DEF WorkerReads, Held, OwnId, OwnIdNext, Posted, TypeOK
    <2>2. inHand' \subseteq inHand \/ WorkerReads
      BY DEF Next, Caller, Allocate, Register, Post, Receive, Timeout, Write, Reader,
             ReadResponse, ReadCall, LeaveLoop, Drain, UpstreamReturns, ReplyToCall, Worker,
             WorkerAnswers, WorkerCalls, LoseLink, vars, wire
    <2>3. QED
      BY <2>1, <2>2, <1>3 DEF Held, OwnId, OwnIdNext, Posted
  <1>10. Back'
    <2>1. ASSUME NEW f \in inHand, WorkerAnswers(f) PROVE Back'
      <3>1. PICK ok \in BOOLEAN : fromWorker' = Append(fromWorker,
                      [type |-> "response", id |-> f.id, req |-> f.req, ok |-> ok])
        BY <2>1 DEF WorkerAnswers
      <3> DEFINE g == [type |-> "response", id |-> f.id, req |-> f.req, ok |-> ok]
      <3>2. g \in InFrame /\ OwnIdNext(g)
        BY <1>3 DEF InFrame, OwnIdNext, TypeOK, Frame
      <3>3. QED
        BY <3>1, <3>2, <1>4, AppendFacts DEF Back, OwnId, OwnIdNext, Posted, TypeOK
    <2>2. ASSUME NEW c \in ToolCalls, WorkerCalls(c) PROVE Back'
      <3> DEFINE g == [type |-> "call", call |-> c]
      <3>1. fromWorker' = Append(fromWorker, g) /\ g \in InFrame /\ g.type # "response"
        BY <2>2 DEF WorkerCalls, InFrame
      <3>2. QED
        BY <3>1, <1>4, AppendFacts DEF Back, OwnId, OwnIdNext, Posted, TypeOK
    <2>3. CASE ReadResponse \/ ReadCall
      <3>1. fromWorker' = Tail(fromWorker)
        BY <2>3 DEF ReadResponse, ReadCall
      <3>2. \A k \in DOMAIN Tail(fromWorker) :
              k + 1 \in DOMAIN fromWorker /\ Tail(fromWorker)[k] = fromWorker[k + 1]
        BY <2>3, TailFacts DEF ReadResponse, ReadCall, TypeOK
      <3>3. \A k \in DOMAIN fromWorker' :
              fromWorker'[k].type = "response" => OwnIdNext(fromWorker'[k])
        BY <3>1, <3>2, <1>4
      <3>4. QED
        BY <3>3 DEF Back, OwnId, OwnIdNext, Posted
    <2>4. CASE LoseLink
      BY <2>4, <1>4, PrefixFacts DEF LoseLink, Back, OwnId, OwnIdNext, Posted, TypeOK
    <2>5. CASE UNCHANGED fromWorker
      BY <2>5, <1>4 DEF Back, OwnId, OwnIdNext, Posted
    <2>6. \/ UNCHANGED fromWorker
          \/ ReadResponse \/ ReadCall \/ LoseLink
          \/ \E f \in inHand : WorkerAnswers(f)
          \/ \E c \in ToolCalls : WorkerCalls(c)
      BY DEF Next, Caller, Allocate, Register, Post, Receive, Timeout, Write, Reader,
             LeaveLoop, Drain, UpstreamReturns, ReplyToCall, Worker, WorkerReads, vars, wire
    <2>7. QED
      BY <2>1, <2>2, <2>3, <2>4, <2>5, <2>6
  <1>11. QED
    BY <1>6, <1>7, <1>8, <1>9, <1>10 DEF IdsAreOwned, Keys, Out, Wire, Held, Back

-----------------------------------------------------------------------------
(* A request is written once.                                              *)

LEMMA WrittenStep == TypeOK /\ IdsAreOwned /\ WrittenOnce /\ [Next]_vars => WrittenOnce'
  <1> SUFFICES ASSUME TypeOK, IdsAreOwned, WrittenOnce, [Next]_vars PROVE WrittenOnce'
    OBVIOUS
  <1>0. \A r \in Requests : Posted(r) => Posted(r)'
    BY IdsFrame DEF Allocate, Posted, TypeOK
  <1>1. ASSUME NEW r \in Requests, Post(r), writer = "up" PROVE WrittenOnce'
    <2> DEFINE f == [type |-> "request", id |-> reqId[r], req |-> r]
    <2>1. outbound' = Append(outbound, f) /\ f \in OutFrame /\ f.type = "request" /\ f.req = r
      BY <1>1 DEF Post, OutFrame, Frame, TypeOK
    <2>2. UNCHANGED <<toWorker, taken>>
      BY <1>1 DEF Post, wire
    <2>3. ~ Posted(r)
      BY <1>1 DEF Post, Posted
    <2>4. taken[r] = 0
      BY <2>3 DEF WrittenOnce
    <2>5. /\ \A k \in DOMAIN outbound : outbound[k].type = "request" => outbound[k].req # r
          /\ \A k \in DOMAIN toWorker : toWorker[k].type = "request" => toWorker[k].req # r
      BY <2>3 DEF IdsAreOwned, OwnId
    <2>6. /\ DOMAIN outbound' = DOMAIN outbound \cup {Len(outbound) + 1}
          /\ \A k \in DOMAIN outbound : outbound'[k] = outbound[k]
          /\ outbound'[Len(outbound) + 1] = f
      BY <2>1, AppendFacts DEF TypeOK
    <2>7. \A q \in Requests : taken'[q] \in {0, 1} /\ (taken'[q] = 1 => Posted(q)')
      BY <1>0, <2>2 DEF WrittenOnce, TypeOK
    <2> HIDE DEF f
    <2>8. QED
      BY <2>1, <2>2, <2>4, <2>5, <2>6, <2>7 DEF WrittenOnce
  <1>2. ASSUME NEW c \in ToolCalls, ReplyToCall(c), writer = "up" PROVE WrittenOnce'
    <2> DEFINE f == [type |-> "result", call |-> c, ok |-> call[c] # "failed"]
    <2>1. outbound' = Append(outbound, f) /\ f \in OutFrame /\ f.type # "request"
      BY <1>2 DEF ReplyToCall, OutFrame
    <2>2. UNCHANGED <<task, toWorker, taken>>
      BY <1>2 DEF ReplyToCall, wire, callers
    <2>3. /\ DOMAIN outbound' = DOMAIN outbound \cup {Len(outbound) + 1}
          /\ \A k \in DOMAIN outbound : outbound'[k] = outbound[k]
          /\ outbound'[Len(outbound) + 1] = f
      BY <2>1, AppendFacts DEF TypeOK
    <2> HIDE DEF f
    <2>4. QED
      BY <2>1, <2>2, <2>3 DEF WrittenOnce, Posted
  <1>3. CASE Write
    <2>1. /\ outbound # <<>> /\ 1 \in DOMAIN outbound /\ Head(outbound) = outbound[1]
          /\ Head(outbound) \in OutFrame
          /\ \A k \in DOMAIN Tail(outbound) :
               k + 1 \in DOMAIN outbound /\ k + 1 # 1 /\ Tail(outbound)[k] = outbound[k + 1]
               /\ k \in Nat
      BY <1>3, TailFacts DEF Write, TypeOK
    <2>2. UNCHANGED <<task, taken>>
      BY <1>3 DEF Write, callers
    <2>3. CASE outbound' = Tail(outbound) /\ toWorker' = Append(toWorker, Head(outbound))
      <3>1. /\ DOMAIN toWorker' = DOMAIN toWorker \cup {Len(toWorker) + 1}
            /\ \A k \in DOMAIN toWorker : toWorker'[k] = toWorker[k]
            /\ toWorker'[Len(toWorker) + 1] = outbound[1]
        BY <2>1, <2>3, AppendFacts DEF TypeOK
      <3>2. \A q \in Requests : taken'[q] \in {0, 1} /\ (taken'[q] = 1 => Posted(q)')
        BY <2>2 DEF WrittenOnce, Posted
      <3>3. \A k \in DOMAIN outbound' : outbound'[k].type = "request" =>
              /\ taken'[outbound'[k].req] = 0
              /\ \A l \in DOMAIN outbound' :
                   (outbound'[l].type = "request" /\ outbound'[l].req = outbound'[k].req) => l = k
              /\ \A l \in DOMAIN toWorker' :
                   toWorker'[l].type = "request" => toWorker'[l].req # outbound'[k].req
        <4> SUFFICES ASSUME NEW k \in DOMAIN outbound', outbound'[k].type = "request"
                     PROVE  /\ taken'[outbound'[k].req] = 0
                            /\ \A l \in DOMAIN outbound' :
                                 (outbound'[l].type = "request"
                                   /\ outbound'[l].req = outbound'[k].req) => l = k
                            /\ \A l \in DOMAIN toWorker' :
                                 toWorker'[l].type = "request"
                                   => toWorker'[l].req # outbound'[k].req
          OBVIOUS
        <4>1. k + 1 \in DOMAIN outbound /\ k + 1 # 1 /\ outbound'[k] = outbound[k + 1] /\ k \in Nat
          BY <2>1, <2>3
        <4>2. taken'[outbound'[k].req] = 0
          BY <4>1, <2>2 DEF WrittenOnce
        <4>3. ASSUME NEW l \in DOMAIN outbound', outbound'[l].type = "request",
                     outbound'[l].req = outbound'[k].req
              PROVE  l = k
          <5>1. l + 1 \in DOMAIN outbound /\ outbound'[l] = outbound[l + 1] /\ l \in Nat
            BY <2>1, <2>3
          <5>2. l + 1 = k + 1
            BY <4>1, <4>3, <5>1 DEF WrittenOnce
          <5>3. QED
            BY <4>1, <5>1, <5>2
        <4>4. ASSUME NEW l \in DOMAIN toWorker', toWorker'[l].type = "request"
              PROVE  toWorker'[l].req # outbound'[k].req
          BY <4>1, <4>4, <3>1, <2>1 DEF WrittenOnce
        <4>5. QED
          BY <4>2, <4>3, <4>4
      <3>4. \A k \in DOMAIN toWorker' : toWorker'[k].type = "request" =>
              /\ taken'[toWorker'[k].req] = 0
              /\ \A l \in DOMAIN toWorker' :
                   (toWorker'[l].type = "request" /\ toWorker'[l].req = toWorker'[k].req) => l = k
        BY <3>1, <2>1, <2>2 DEF WrittenOnce
      <3>5. QED
        BY <3>2, <3>3, <3>4 DEF WrittenOnce
    <2>4. CASE outbound' = Tail(outbound) /\ UNCHANGED toWorker
      <3>1. \A k, l \in DOMAIN outbound' :
              (/\ outbound'[k].type = "request" /\ outbound'[l].type = "request"
               /\ outbound'[l].req = outbound'[k].req) => l = k
        <4> SUFFICES ASSUME NEW k \in DOMAIN outbound', NEW l \in DOMAIN outbound',
                            outbound'[k].type = "request", outbound'[l].type = "request",
                            outbound'[l].req = outbound'[k].req
                     PROVE  l = k
          OBVIOUS
        <4>1. /\ k + 1 \in DOMAIN outbound /\ outbound'[k] = outbound[k + 1] /\ k \in Nat
              /\ l + 1 \in DOMAIN outbound /\ outbound'[l] = outbound[l + 1] /\ l \in Nat
          BY <2>1, <2>4
        <4>2. l + 1 = k + 1
          BY <4>1 DEF WrittenOnce
        <4>3. QED
          BY <4>1, <4>2
      <3>2. \A k \in DOMAIN outbound' : k + 1 \in DOMAIN outbound /\ outbound'[k] = outbound[k + 1]
        BY <2>1, <2>4
      <3>3. QED
        BY <3>1, <3>2, <2>2, <2>4 DEF WrittenOnce, Posted
    <2>5. CASE outbound' = <<>> /\ UNCHANGED toWorker
      BY <2>2, <2>5 DEF WrittenOnce, Posted
    <2>6. QED
      BY <1>3, <2>3, <2>4, <2>5 DEF Write
  <1>4. CASE WorkerReads
    <2> DEFINE f == toWorker[1]
    <2>1. /\ 1 \in DOMAIN toWorker /\ Head(toWorker) = f /\ f \in OutFrame
          /\ \A k \in DOMAIN Tail(toWorker) :
               k + 1 \in DOMAIN toWorker /\ k + 1 # 1 /\ Tail(toWorker)[k] = toWorker[k + 1]
               /\ k \in Nat
      BY <1>4, TailFacts DEF WorkerReads, TypeOK
    <2>2. UNCHANGED <<task, outbound>> /\ toWorker' = Tail(toWorker)
      BY <1>4 DEF WorkerReads, callers
    <2>3. \/ f.type = "request" /\ taken' = [taken EXCEPT ![f.req] = @ + 1]
          \/ f.type = "result" /\ taken' = taken
      BY <1>4, <2>1 DEF WorkerReads
    <2>4. f.type = "request" => Posted(f.req)
      BY <2>1 DEF IdsAreOwned, OwnId
    <2>11. f.type = "request" => f.req \in Requests /\ taken[f.req] = 0
      BY <2>1, FramesHaveCallers DEF WrittenOnce
    <2>5. \A k, l \in DOMAIN toWorker' :
            (/\ toWorker'[k].type = "request" /\ toWorker'[l].type = "request"
             /\ toWorker'[l].req = toWorker'[k].req) => l = k
      <3> SUFFICES ASSUME NEW k \in DOMAIN toWorker', NEW l \in DOMAIN toWorker',
                          toWorker'[k].type = "request", toWorker'[l].type = "request",
                          toWorker'[l].req = toWorker'[k].req
                   PROVE  l = k
        OBVIOUS
      <3>1. /\ k + 1 \in DOMAIN toWorker /\ toWorker'[k] = toWorker[k + 1] /\ k \in Nat
            /\ l + 1 \in DOMAIN toWorker /\ toWorker'[l] = toWorker[l + 1] /\ l \in Nat
        BY <2>1, <2>2
      <3>2. l + 1 = k + 1
        BY <3>1 DEF WrittenOnce
      <3>3. QED
        BY <3>1, <3>2
    <2>6. \A k \in DOMAIN toWorker' :
            toWorker'[k].type = "request" => taken'[toWorker'[k].req] = 0
      <3> SUFFICES ASSUME NEW k \in DOMAIN toWorker', toWorker'[k].type = "request"
                   PROVE  taken'[toWorker'[k].req] = 0
        OBVIOUS
      <3>1. k + 1 \in DOMAIN toWorker /\ k + 1 # 1 /\ toWorker'[k] = toWorker[k + 1]
        BY <2>1, <2>2
      <3>2. taken[toWorker[k + 1].req] = 0
        BY <3>1 DEF WrittenOnce
      <3>3. f.type = "request" => toWorker[k + 1].req # f.req
        BY <3>1, <2>1 DEF WrittenOnce
      <3>4. toWorker[k + 1].req \in Requests /\ toWorker'[k].req = toWorker[k + 1].req
        BY <3>1, FramesHaveCallers
      <3>5. QED
        BY <3>2, <3>3, <3>4, <2>3, <2>11 DEF TypeOK
    <2>7. \A k \in DOMAIN outbound' : outbound'[k].type = "request" =>
            taken'[outbound'[k].req] = 0
      <3> SUFFICES ASSUME NEW k \in DOMAIN outbound, outbound[k].type = "request"
                   PROVE  taken'[outbound[k].req] = 0
        BY <2>2
      <3>1. outbound[k].req \in Requests /\ taken[outbound[k].req] = 0
        BY FramesHaveCallers DEF WrittenOnce
      <3>2. f.type = "request" => f.req # outbound[k].req
        BY <2>1 DEF WrittenOnce
      <3>3. QED
        BY <3>1, <3>2, <2>3, <2>11 DEF TypeOK
    <2>8. \A k \in DOMAIN outbound' : \A l \in DOMAIN toWorker' :
            (outbound'[k].type = "request" /\ toWorker'[l].type = "request")
               => toWorker'[l].req # outbound'[k].req
      BY <2>1, <2>2 DEF WrittenOnce
    <2>9. \A q \in Requests : taken'[q] \in {0, 1} /\ (taken'[q] = 1 => Posted(q)')
      BY <2>2, <2>3, <2>4, <2>11 DEF WrittenOnce, Posted, TypeOK
    <2>10. QED
      BY <2>2, <2>5, <2>6, <2>7, <2>8, <2>9 DEF WrittenOnce
  <1>5. CASE LoseLink
    BY <1>5 DEF LoseLink, WrittenOnce, callers, Posted
  <1>6. CASE UNCHANGED <<outbound, toWorker, taken>>
    BY <1>0, <1>6 DEF WrittenOnce, TypeOK
  <1>7. \/ UNCHANGED <<outbound, toWorker, taken>>
        \/ Write \/ WorkerReads \/ LoseLink
        \/ \E r \in Requests : Post(r) /\ writer = "up"
        \/ \E c \in ToolCalls : ReplyToCall(c) /\ writer = "up"
    BY DEF Next, Caller, Allocate, Register, Post, Receive, Timeout, Reader, ReadResponse,
           ReadCall, LeaveLoop, Drain, UpstreamReturns, ReplyToCall, Worker, WorkerAnswers,
           WorkerCalls, vars, wire
  <1>8. QED
    BY <1>1, <1>2, <1>3, <1>4, <1>5, <1>6, <1>7

-----------------------------------------------------------------------------
(* Replies, the loss of the connection, and what callers get.              *)

LEMMA LossStep == TypeOK /\ LossIsNoticed /\ [Next]_vars => LossIsNoticed'
  <1> SUFFICES ASSUME TypeOK, LossIsNoticed, [Next]_vars PROVE LossIsNoticed'
    OBVIOUS
  <1>1. CASE Write \/ LeaveLoop \/ Drain \/ LoseLink
    BY <1>1 DEF Write, LeaveLoop, Drain, LoseLink, wire, LossIsNoticed, TypeOK
  <1>2. CASE UNCHANGED <<writer, reader, link>>
    BY <1>2 DEF LossIsNoticed
  <1>3. Write \/ LeaveLoop \/ Drain \/ LoseLink \/ UNCHANGED <<writer, reader, link>>
    BY DEF Next, Caller, Allocate, Register, Post, Receive, Timeout, Reader, ReadResponse,
           ReadCall, UpstreamReturns, ReplyToCall, Worker, WorkerReads, WorkerAnswers,
           WorkerCalls, vars, wire
  <1>4. QED
    BY <1>1, <1>2, <1>3

\* The worker's answers come from `taken`; the drain only writes "lost".
LEMMA EarnedStep ==
  TypeOK /\ IdsAreUnique /\ IdsAreOwned /\ WrittenOnce /\ LossIsNoticed /\ RepliesAreEarned
    /\ [Next]_vars => RepliesAreEarned'
  <1> SUFFICES ASSUME TypeOK, IdsAreUnique, IdsAreOwned, WrittenOnce, LossIsNoticed,
                      RepliesAreEarned, [Next]_vars
               PROVE  RepliesAreEarned'
    OBVIOUS
  <1> DEFINE Held == \A f \in inHand : taken[f.req] = 1
             Back == \A k \in DOMAIN fromWorker :
                       fromWorker[k].type = "response" => taken[fromWorker[k].req] = 1
             Fair(r) == /\ oneshot[r].kind \in {"none", "answer", "error", "lost"}
                        /\ oneshot[r].kind \in {"none", "lost"} => oneshot[r].of = NoRequest
                        /\ oneshot[r].kind \in {"answer", "error"} =>
                             oneshot[r].of = r /\ taken[r] = 1
                        /\ oneshot[r].kind = "lost" => link = "down"
  <1>0. Held /\ Back /\ \A r \in Requests : Fair(r)
    BY DEF RepliesAreEarned
  <1>1. /\ \A q \in Requests : taken[q] = 1 => taken'[q] = 1
        /\ link = "down" => link' = "down"
    <2>1. CASE WorkerReads
      <3>1. /\ Head(toWorker) = toWorker[1] /\ 1 \in DOMAIN toWorker
        BY <2>1, TailFacts DEF WorkerReads, TypeOK
      <3>2. toWorker[1].type = "request" => taken[toWorker[1].req] = 0
        BY <3>1 DEF WrittenOnce
      <3>3. QED
        BY <2>1, <3>1, <3>2 DEF WorkerReads, TypeOK
    <2>2. UNCHANGED <<taken, link>> \/ LoseLink \/ WorkerReads
      BY DEF Next, Caller, Allocate, Register, Post, Receive, Timeout, Write, Reader,
             ReadResponse, ReadCall, LeaveLoop, Drain, UpstreamReturns, ReplyToCall, Worker,
             WorkerAnswers, WorkerCalls, vars, wire
    <2>3. QED
      BY <2>1, <2>2 DEF LoseLink
  <1> HIDE DEF Held, Back, Fair
  <1>2. Held'
    <2>1. CASE WorkerReads
      <3>1. /\ Head(toWorker) = toWorker[1] /\ 1 \in DOMAIN toWorker
        BY <2>1, TailFacts DEF WorkerReads, TypeOK
      <3>2. toWorker[1].type = "request" =>
              taken[toWorker[1].req] = 0 /\ toWorker[1].req \in Requests
        BY <3>1, FramesHaveCallers DEF WrittenOnce
      <3>3. toWorker[1].type = "request" => taken'[toWorker[1].req] = 1
        BY <2>1, <3>1, <3>2 DEF WorkerReads, TypeOK
      <3>4. QED
        BY <2>1, <3>1, <3>3, <1>0, <1>1, FramesHaveCallers DEF WorkerReads, Held
    <2>2. inHand' \subseteq inHand \/ WorkerReads
      BY DEF Next, Caller, Allocate, Register, Post, Receive, Timeout, Write, Reader,
             ReadResponse, ReadCall, LeaveLoop, Drain, UpstreamReturns, ReplyToCall, Worker,
             WorkerAnswers, WorkerCalls, LoseLink, vars, wire
    <2>3. QED
      BY <2>1, <2>2, <1>0, <1>1, FramesHaveCallers DEF Held
  <1>3. Back'
    <2>1. ASSUME NEW f \in inHand, WorkerAnswers(f) PROVE Back'
      <3>1. PICK ok \in BOOLEAN : fromWorker' = Append(fromWorker,
                      [type |-> "response", id |-> f.id, req |-> f.req, ok |-> ok])
        BY <2>1 DEF WorkerAnswers
      <3> DEFINE g == [type |-> "response", id |-> f.id, req |-> f.req, ok |-> ok]
      <3>2. g \in InFrame /\ taken[g.req] = 1
        BY <1>0 DEF InFrame, TypeOK, Frame, Held
      <3>3. QED
        BY <3>1, <3>2, <1>0, <1>1, FramesHaveCallers, AppendFacts DEF Back, TypeOK
    <2>2. ASSUME NEW c \in ToolCalls, WorkerCalls(c) PROVE Back'
      <3> DEFINE g == [type |-> "call", call |-> c]
      <3>1. fromWorker' = Append(fromWorker, g) /\ g \in InFrame /\ g.type # "response"
        BY <2>2 DEF WorkerCalls, InFrame
      <3>2. QED
        BY <3>1, <1>0, <1>1, FramesHaveCallers, AppendFacts DEF Back, TypeOK
    <2>3. CASE ReadResponse \/ ReadCall
      <3>1. fromWorker' = Tail(fromWorker)
        BY <2>3 DEF ReadResponse, ReadCall
      <3>2. \A k \in DOMAIN Tail(fromWorker) :
              k + 1 \in DOMAIN fromWorker /\ Tail(fromWorker)[k] = fromWorker[k + 1]
        BY <2>3, TailFacts DEF ReadResponse, ReadCall, TypeOK
      <3>3. QED
        BY <3>1, <3>2, <1>0, <1>1, FramesHaveCallers DEF Back
    <2>4. CASE LoseLink
      BY <2>4, <1>0, <1>1, FramesHaveCallers, PrefixFacts DEF LoseLink, Back, TypeOK
    <2>5. CASE UNCHANGED fromWorker
      BY <2>5, <1>0, <1>1, FramesHaveCallers DEF Back
    <2>6. \/ UNCHANGED fromWorker
          \/ ReadResponse \/ ReadCall \/ LoseLink
          \/ \E f \in inHand : WorkerAnswers(f)
          \/ \E c \in ToolCalls : WorkerCalls(c)
      BY DEF Next, Caller, Allocate, Register, Post, Receive, Timeout, Write, Reader,
             LeaveLoop, Drain, UpstreamReturns, ReplyToCall, Worker, WorkerReads, vars, wire
    <2>7. QED
      BY <2>1, <2>2, <2>3, <2>4, <2>5, <2>6
  <1>4. ASSUME NEW r \in Requests PROVE Fair(r)'
    <2>1. CASE ReadResponse
      <3> DEFINE f == Head(fromWorker)
      <3>1. 1 \in DOMAIN fromWorker /\ f = fromWorker[1] /\ f.type = "response" /\ f \in InFrame
        BY <2>1, TailFacts DEF ReadResponse, TypeOK
      <3>2. OwnId(f) /\ taken[f.req] = 1 /\ f.req \in Requests /\ f.ok \in BOOLEAN
        BY <3>1, <1>0 DEF IdsAreOwned, Back, InFrame
      <3>3. CASE f.id \in DOMAIN pending
        <4>1. pending[f.id] = f.req
          <5>1. pending[f.id] \in Requests /\ reqId[pending[f.id]] = f.id
                /\ task[pending[f.id]] # "idle"
            BY <3>3 DEF IdsAreOwned, TypeOK
          <5>2. reqId[f.req] = f.id /\ task[f.req] # "idle"
            BY <3>2 DEF OwnId, Posted
          <5>3. QED
            BY <5>1, <5>2, <3>2 DEF IdsAreUnique
        <4> DEFINE reply == [kind |-> IF f.ok THEN "answer" ELSE "error", of |-> f.req]
        <4>2. oneshot' = Completed(f.req, reply)
          BY <2>1, <3>3, <4>1 DEF ReadResponse
        <4>3. oneshot'[r] = oneshot[r] \/ (r = f.req /\ oneshot'[r] = reply)
          BY <4>2 DEF Completed, TypeOK
        <4>4. reply.kind \in {"answer", "error"} /\ reply.of = f.req
          BY <3>2
        <4>5. QED
          BY <4>3, <4>4, <3>2, <1>0, <1>1 DEF Fair
      <3>4. CASE f.id \notin DOMAIN pending
        BY <2>1, <3>4, <1>0, <1>1 DEF ReadResponse, Fair
      <3>5. QED
        BY <3>3, <3>4
    <2>2. CASE Drain
      <3>1. oneshot'[r] = Failure("lost") \/ oneshot'[r] = oneshot[r]
        BY <2>2 DEF Drain
      <3>2. link' = "down"
        BY <2>2, <1>1 DEF Drain, LossIsNoticed
      <3>3. QED
        BY <3>1, <3>2, <1>0, <1>1 DEF Fair, Failure
    <2>3. CASE UNCHANGED oneshot
      BY <2>3, <1>0, <1>1 DEF Fair
    <2>4. ReadResponse \/ Drain \/ UNCHANGED oneshot
      BY DEF Next, Caller, Allocate, Register, Post, Receive, Timeout, Write, Reader,
             ReadCall, LeaveLoop, UpstreamReturns, ReplyToCall, Worker,
             WorkerReads, WorkerAnswers, WorkerCalls, LoseLink, vars
    <2>5. QED
      BY <2>1, <2>2, <2>3, <2>4
  <1>5. QED
    BY <1>2, <1>3, <1>4 DEF RepliesAreEarned, Held, Back, Fair

LEMMA AnswersStep == TypeOK /\ RepliesAreEarned /\ AnswersMatch /\ [Next]_vars => AnswersMatch'
  <1> SUFFICES ASSUME TypeOK, RepliesAreEarned, AnswersMatch, [Next]_vars PROVE AnswersMatch'
    OBVIOUS
  <1>1. ASSUME NEW r \in Requests, Receive(r) PROVE AnswersMatch'
    BY <1>1 DEF Receive, Return, AnswersMatch, RepliesAreEarned, TypeOK
  <1>2. ASSUME NEW r \in Requests, Post(r) \/ Timeout(r) PROVE AnswersMatch'
    <2>1. /\ \A q \in Requests \ {r} : outcome'[q] = outcome[q]
          /\ outcome'[r] \in {outcome[r], Failure("closed"), Failure("timeout")}
      BY <1>2 DEF Post, Timeout, Return, TypeOK
    <2>2. QED
      BY <2>1 DEF AnswersMatch, Failure
  <1>3. CASE UNCHANGED outcome
    BY <1>3 DEF AnswersMatch
  <1>4. UNCHANGED outcome \/ \E r \in Requests : Receive(r) \/ Post(r) \/ Timeout(r)
    BY DEF Next, Caller, Allocate, Register, Write, Reader, ReadResponse, ReadCall,
           LeaveLoop, Drain, UpstreamReturns, ReplyToCall, Worker, WorkerReads, WorkerAnswers,
           WorkerCalls, LoseLink, vars, callers
  <1>5. QED
    BY <1>1, <1>2, <1>3, <1>4

-----------------------------------------------------------------------------
(* The theorems.                                                           *)

\* The channel's variables keep their types (TypeOK), for any number of callers.
THEOREM TypeCorrect == Spec => []TypeOK
  <1>1. Init => TypeOK
    BY InitIInv DEF IInv
  <1>2. QED
    BY <1>1, TypeStep, PTL DEF Spec

\* IInv holds in every reachable state: ids, frames and replies stay matched.
THEOREM Inductive == Spec => []IInv
  <1>1. IInv /\ [Next]_vars => IInv'
    BY TypeStep, IdsStep, OwnedStep, WrittenStep, EarnedStep, LossStep, AnswersStep DEF IInv
  <1>2. QED
    BY <1>1, InitIInv, PTL DEF Spec

\* No caller of run, reload or set_shapes ever gets another caller's answer
\* (AnswersMatch), however calls, timeouts, late answers and the loss of the
\* connection interleave.
THEOREM NoMixup == Spec => []AnswersMatch
  <1>1. IInv => AnswersMatch
    BY DEF IInv
  <1>2. QED
    BY <1>1, Inductive, PTL

-----------------------------------------------------------------------------
(* The channel implements RemoteCall.                                      *)

LEMMA RefineInit == Init => Rpc!Init
  BY DEF Init, Rpc!Init, Phase, Requests, Rpc!Members, NoReply

\* Every step of the channel is a step of RemoteCall or changes nothing of it.
LEMMA RefineStep == IInv /\ [Next]_vars => [Rpc!Next]_(Rpc!rpcVars)
  <1> SUFFICES ASSUME IInv, [Next]_vars PROVE Rpc!Next \/ UNCHANGED Rpc!rpcVars
    OBVIOUS
  <1> USE DEF Rpc!rpcVars
  <1>0. TypeOK /\ Requests = Rpc!Members
    BY DEF IInv, Requests, Rpc!Members
  <1>1. ASSUME NEW r \in Requests, Allocate(r) PROVE Rpc!Issue(r)
    <2>1. Phase' = [Phase EXCEPT ![r] = "open"]
      BY <1>0, <1>1 DEF Allocate, Phase, TypeOK
    <2>2. QED
      BY <1>1, <2>1 DEF Allocate, Rpc!Issue, Phase, wire
  <1>2. ASSUME NEW r \in Requests, Register(r) PROVE UNCHANGED Rpc!rpcVars
    BY <1>0, <1>2 DEF Register, Phase, TypeOK, wire
  <1>3. ASSUME NEW r \in Requests, Post(r)
        PROVE  Rpc!Disconnected(r) \/ UNCHANGED Rpc!rpcVars
    <2>1. CASE writer = "up"
      BY <1>0, <1>3, <2>1 DEF Post, Phase, TypeOK, wire
    <2>2. CASE writer = "down"
      <3>1. Return(r, Failure("closed"))
        BY <1>3, <2>2 DEF Post
      <3>2. link = "down"
        BY <2>2 DEF IInv, LossIsNoticed
      <3>3. Phase' = [Phase EXCEPT ![r] = "done"] /\ Phase[r] = "open"
        BY <1>0, <1>3, <3>1 DEF Post, Return, Phase, TypeOK
      <3>4. outcome' = [outcome EXCEPT ![r] = [kind |-> "closed", of |-> NoRequest]]
        BY <3>1 DEF Return, Failure
      <3>5. QED
        BY <1>3, <3>2, <3>3, <3>4 DEF Post, Rpc!Disconnected, Rpc!Finish, wire
    <2>3. QED
      BY <1>0, <2>1, <2>2 DEF TypeOK
  <1>4. ASSUME NEW r \in Requests, Receive(r) PROVE Rpc!Answered(r) \/ Rpc!Disconnected(r)
    <2>1. Phase' = [Phase EXCEPT ![r] = "done"] /\ Phase[r] = "open"
      BY <1>0, <1>4 DEF Receive, Return, Phase, TypeOK
    <2>2. outcome' = [outcome EXCEPT ![r] = oneshot[r]]
      BY <1>4 DEF Receive, Return
    <2>3. /\ oneshot[r].kind \in {"answer", "error"} => oneshot[r].of = r /\ taken[r] = 1
          /\ oneshot[r].kind = "lost" => link = "down" /\ oneshot[r].of = NoRequest
          /\ oneshot[r].kind = "none" => oneshot[r].of = NoRequest
          /\ oneshot[r].kind \in {"none", "answer", "error", "lost"}
      BY DEF IInv, RepliesAreEarned
    <2>4. oneshot[r] = [kind |-> oneshot[r].kind, of |-> oneshot[r].of]
      BY <1>0 DEF TypeOK, Reply
    <2>5. oneshot[r].kind # "none"
      BY <1>4, <2>3, <2>4 DEF Receive, NoReply
    <2>6. CASE oneshot[r].kind = "lost"
      BY <1>4, <2>1, <2>2, <2>3, <2>4, <2>6
      DEF Receive, Rpc!Disconnected, Rpc!Finish, wire
    <2>7. CASE oneshot[r].kind \in {"answer", "error"}
      BY <1>4, <2>1, <2>2, <2>3, <2>4, <2>7 DEF Receive, Rpc!Answered, Rpc!Finish, wire
    <2>8. QED
      BY <2>3, <2>5, <2>6, <2>7
  <1>5. ASSUME NEW r \in Requests, Timeout(r) PROVE Rpc!GivenUp(r)
    <2>1. Phase' = [Phase EXCEPT ![r] = "done"] /\ Phase[r] = "open"
      BY <1>0, <1>5 DEF Timeout, Return, Phase, TypeOK
    <2>2. outcome' = [outcome EXCEPT ![r] = [kind |-> "timeout", of |-> NoRequest]]
      BY <1>5 DEF Timeout, Return, Failure
    <2>3. QED
      BY <1>5, <2>1, <2>2 DEF Timeout, Rpc!GivenUp, Rpc!Finish, wire
  <1>6. CASE WorkerReads
    <2> DEFINE f == toWorker[1]
    <2>1. 1 \in DOMAIN toWorker /\ Head(toWorker) = f /\ f \in OutFrame
      BY <1>0, <1>6, TailFacts DEF WorkerReads, TypeOK
    <2>2. UNCHANGED <<Phase, outcome, link>>
      BY <1>6 DEF WorkerReads, Phase, callers
    <2>3. CASE f.type = "request"
      <3>1. f.req \in Requests
        BY <2>1, <2>3 DEF OutFrame, Frame
      <3>2. taken[f.req] = 0 /\ taken' = [taken EXCEPT ![f.req] = @ + 1] /\ link = "up"
        BY <1>6, <2>1, <2>3 DEF WorkerReads, IInv, WrittenOnce
      <3>3. Phase[f.req] # "idle"
        BY <2>1, <2>3, <3>1 DEF IInv, IdsAreOwned, OwnId, Posted, Phase
      <3>4. Rpc!Take(f.req)
        BY <2>2, <3>2, <3>3 DEF Rpc!Take
      <3>5. QED
        BY <1>0, <3>1, <3>4 DEF Rpc!Next
    <2>4. CASE f.type # "request"
      BY <1>6, <2>1, <2>2, <2>4 DEF WorkerReads
    <2>5. QED
      BY <2>3, <2>4
  <1>7. CASE LoseLink
    BY <1>7 DEF LoseLink, Rpc!Next, Rpc!Break, Phase, callers
  <1>8. CASE UNCHANGED <<task, outcome, taken, link>>
    BY <1>8 DEF Phase
  <1>9. \/ UNCHANGED <<task, outcome, taken, link>>
        \/ WorkerReads \/ LoseLink
        \/ \E r \in Requests : Caller(r)
    BY DEF Next, Write, Reader, ReadResponse, ReadCall, LeaveLoop, Drain, UpstreamReturns,
           ReplyToCall, Worker, WorkerAnswers, WorkerCalls, vars, callers, wire
  <1>10. ASSUME NEW r \in Requests, Caller(r) PROVE Rpc!Next \/ UNCHANGED Rpc!rpcVars
    BY <1>0, <1>1, <1>2, <1>3, <1>4, <1>5, <1>10 DEF Caller, Rpc!Next
  <1>11. QED
    BY <1>6, <1>7, <1>8, <1>9, <1>10

\* The control channel keeps every promise of RemoteCall (RpcSpec): a request is
\* taken at most once and only while connected, and each call returns once, with
\* the answer to itself or for the reason it gives.
THEOREM ImplementsRemoteCall == Spec => RpcSpec
  <1>1. QED
    BY RefineInit, RefineStep, Inductive, PTL DEF Spec, RpcSpec, Rpc!Spec

=============================================================================
