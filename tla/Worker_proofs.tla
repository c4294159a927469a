----------------------------- MODULE Worker_proofs -----------------------------
(***************************************************************************)
(* Theorems about Worker, for any runs, SDKs, numbers of calls and pushes  *)
(* and any size of the pool.  IInv, the conjunction of named invariants at *)
(* the end of Worker, is proved one conjunct at a time, each with those    *)
(* before it.                                                              *)
(***************************************************************************)
EXTENDS Worker, TLAPS, SequenceTheorems, FiniteSetTheorems

\* What Append does, index by index.
LEMMA AppendFacts ==
  ASSUME NEW S, NEW s \in Seq(S), NEW e \in S
  PROVE  /\ Append(s, e) \in Seq(S)
         /\ Len(Append(s, e)) = Len(s) + 1
         /\ DOMAIN Append(s, e) = DOMAIN s \cup {Len(s) + 1}
         /\ Len(s) + 1 \notin DOMAIN s
         /\ \A k \in DOMAIN s : k \in Nat /\ k < Len(s) + 1 /\ Append(s, e)[k] = s[k]
         /\ Append(s, e)[Len(s) + 1] = e
  BY AppendProperties

\* What Head and Tail do, index by index.
LEMMA TailFacts ==
  ASSUME NEW S, NEW s \in Seq(S), s # <<>>
  PROVE  /\ Tail(s) \in Seq(S)
         /\ Len(Tail(s)) + 1 = Len(s)
         /\ 1 \in DOMAIN s
         /\ Head(s) = s[1]
         /\ Head(s) \in S
         /\ \A k \in DOMAIN Tail(s) :
              k \in Nat /\ k + 1 \in DOMAIN s /\ k + 1 # 1 /\ Tail(s)[k] = s[k + 1]
         /\ \A k \in DOMAIN s : k \in Nat /\ (k # 1 => k - 1 \in DOMAIN Tail(s) /\ Tail(s)[k - 1] = s[k])
  BY HeadTailProperties

-----------------------------------------------------------------------------
(* Types.                                                                  *)

\* A frame has the fields of its type.
LEMMA FrameFacts ==
  ASSUME NEW f \in Frames
  PROVE  /\ f.type \in {"run", "reload", "set_shapes", "result"}
         /\ f.type = "run" => f.run \in Runs
         /\ f.type \in {"reload", "set_shapes"} => f.version \in Nat
         /\ f.type = "result" => /\ f.id \in Nat /\ f.of \in Keys /\ f.ok \in BOOLEAN
                                /\ f.of[1] \in Runs /\ f.of[2] \in 1 .. MaxCalls
  BY DEF Frames, Keys

\* There is an SDK, and each is made of functions.
LEMMA SdkFacts ==
  /\ Len(Sdks) \in Nat \ {0} /\ DOMAIN Sdks = 1 .. Len(Sdks)
  /\ \A v \in DOMAIN Sdks : Sdks[v].fns \in SUBSET Fns /\ Sdks[v].mutations \in SUBSET Fns
  <1> DEFINE S == [fns : SUBSET Fns, mutations : SUBSET Fns]
  <1>1. Sdks \in Seq(S) /\ Sdks # <<>>
    BY ParametersTyped
  <1>2. \A v \in DOMAIN Sdks : Sdks[v] \in S
    BY <1>1, ElementOfSeq, LenProperties
  <1>3. Len(Sdks) \in Nat \ {0} /\ DOMAIN Sdks = 1 .. Len(Sdks)
    <2> HIDE DEF S
    <2> QED  BY <1>1, LenProperties, EmptySeq
  <1>4. QED
    BY <1>2, <1>3

\* Types hold at first.
LEMMA InitTypeOK == Init => TypeOK
  <1> SUFFICES ASSUME Init PROVE TypeOK
    OBVIOUS
  <1>1. 1 \in DOMAIN Sdks /\ Sdks[1].fns \in SUBSET Fns /\ Sdks[1].mutations \in SUBSET Fns
    BY SdkFacts
  <1>2. dry \in [Runs -> BOOLEAN]
    <2>1. PICK D \in DryRuns : dry = [r \in Runs |-> r \in D]
      BY DEF Init
    <2>2. QED
      BY <2>1
  <1>3. QED
    BY <1>1, <1>2, ParametersTyped DEF Init, TypeOK

\* What is known of a handle.
LEMMA HandleFacts ==
  ASSUME TypeOK, NEW r \in Runs
  PROVE  /\ calls[r] \in Seq(Handles)
         /\ Len(calls[r]) \in Nat /\ Handed(r) = 1 .. Len(calls[r])
         /\ \A k \in Handed(r) :
              /\ k \in Nat /\ calls[r][k] \in Handles
              /\ calls[r][k].fn \in Fns /\ calls[r][k].id \in Nat
              /\ calls[r][k].sink \in Runs \cup {None}
              /\ calls[r][k].state \in {"registered", "fired", "ok", "error", "timeout"}
              /\ calls[r][k].future \in Keys \cup {<<>>}
  <1>1. calls[r] \in Seq(Handles)
    BY DEF TypeOK
  <1>2. Len(calls[r]) \in Nat /\ Handed(r) = 1 .. Len(calls[r])
    BY <1>1, LenProperties DEF Handed
  <1>3. \A k \in Handed(r) : calls[r][k] \in Handles
    BY <1>1, <1>2, ElementOfSeq
  <1>4. QED
    BY <1>1, <1>2, <1>3 DEF Handles

\* A new handle comes last, and the others stay.
LEMMA NewCallFacts ==
  ASSUME TypeOK, NEW r \in Runs, NEW h \in Handles,
         calls' = [calls EXCEPT ![r] = Append(@, h)]
  PROVE  /\ calls' \in [Runs -> Seq(Handles)]
         /\ Len(calls'[r]) = Len(calls[r]) + 1
         /\ DOMAIN calls'[r] = Handed(r) \cup {Len(calls[r]) + 1}
         /\ Len(calls[r]) + 1 \notin Handed(r)
         /\ calls'[r][Len(calls[r]) + 1] = h
         /\ \A k \in Handed(r) : calls'[r][k] = calls[r][k]
         /\ \A q \in Runs \ {r} : calls'[q] = calls[q]
  <1>1. calls \in [Runs -> Seq(Handles)] /\ calls[r] \in Seq(Handles)
    BY DEF TypeOK
  <1>2. calls' = [calls EXCEPT ![r] = Append(calls[r], h)]
    OBVIOUS
  <1>3. calls'[r] = Append(calls[r], h) /\ \A q \in Runs \ {r} : calls'[q] = calls[q]
    BY <1>1, <1>2
  <1>4. Append(calls[r], h) \in Seq(Handles)
    BY <1>1, AppendFacts
  <1>5. QED
    BY <1>1, <1>2, <1>3, <1>4, AppendFacts DEF Handed

\* One handle changes, and the others stay.
LEMMA ChangedCallFacts ==
  ASSUME TypeOK, NEW r \in Runs, NEW k \in Handed(r), NEW h \in Handles,
         calls' = [calls EXCEPT ![r][k] = h]
  PROVE  /\ calls' \in [Runs -> Seq(Handles)]
         /\ \A q \in Runs : DOMAIN calls'[q] = Handed(q) /\ Len(calls'[q]) = Len(calls[q])
         /\ calls'[r][k] = h
         /\ \A j \in Handed(r) \ {k} : calls'[r][j] = calls[r][j]
         /\ \A q \in Runs \ {r} : calls'[q] = calls[q]
  <1>1. calls \in [Runs -> Seq(Handles)] /\ calls[r] \in Seq(Handles) /\ k \in 1 .. Len(calls[r])
        /\ Handed(r) = 1 .. Len(calls[r])
    BY HandleFacts DEF TypeOK
  <1> DEFINE s == [calls[r] EXCEPT ![k] = h]
  <1>2. s \in Seq(Handles) /\ Len(s) = Len(calls[r])
        /\ \A j \in 1 .. Len(calls[r]) : s[j] = IF j = k THEN h ELSE calls[r][j]
    BY <1>1, ExceptSeq
  <1>3. DOMAIN s = 1 .. Len(calls[r])
    BY <1>1, <1>2, LenProperties
  <1>4. calls' = [calls EXCEPT ![r] = s]
    OBVIOUS
  <1> HIDE DEF s
  <1>5. calls'[r] = s /\ \A q \in Runs \ {r} : calls'[q] = calls[q]
    BY <1>1, <1>4
  <1>6. QED
    BY <1>1, <1>2, <1>3, <1>4, <1>5 DEF Handed

\* An answer changes the futures of one id, and nothing else of a handle.
LEMMA ResolvedFacts ==
  ASSUME TypeOK, NEW f, f.of \in Keys, f.ok \in BOOLEAN, calls' = Resolved(f)
  PROVE  /\ calls' \in [Runs -> Seq(Handles)]
         /\ \A r \in Runs :
              /\ DOMAIN calls'[r] = Handed(r) /\ Len(calls'[r]) = Len(calls[r])
              /\ \A k \in Handed(r) :
                   LET h == calls[r][k] g == calls'[r][k] IN
                     /\ g.fn = h.fn /\ g.id = h.id /\ g.sink = h.sink /\ g.stub = h.stub
                     /\ g.state = h.state
                     /\ IF h.id = f.id /\ f.id \in futures THEN g.future = f.of /\ g.good = f.ok
                                                          ELSE g = h
  <1> DEFINE G(r, k) == IF calls[r][k].id = f.id /\ f.id \in futures
                        THEN [calls[r][k] EXCEPT !.future = f.of, !.good = f.ok] ELSE calls[r][k]
  <1>1. calls' = [r \in Runs |-> [k \in Handed(r) |-> G(r, k)]]
    BY DEF Resolved, Handed
  <1>2. ASSUME NEW r \in Runs, NEW k \in Handed(r)
        PROVE  /\ G(r, k) \in Handles
               /\ G(r, k).fn = calls[r][k].fn /\ G(r, k).id = calls[r][k].id
               /\ G(r, k).sink = calls[r][k].sink /\ G(r, k).stub = calls[r][k].stub
               /\ G(r, k).state = calls[r][k].state
               /\ IF calls[r][k].id = f.id /\ f.id \in futures
                  THEN G(r, k).future = f.of /\ G(r, k).good = f.ok ELSE G(r, k) = calls[r][k]
    BY HandleFacts, ZenonT(60) DEF Handles
  <1> HIDE DEF G
  <1>3. ASSUME NEW r \in Runs
        PROVE  calls'[r] \in Seq(Handles) /\ DOMAIN calls'[r] = Handed(r)
               /\ Len(calls'[r]) = Len(calls[r])
    <2>1. calls'[r] = [k \in 1 .. Len(calls[r]) |-> G(r, k)] /\ Len(calls[r]) \in Nat
      BY <1>1, HandleFacts
    <2>2. calls'[r] \in [1 .. Len(calls[r]) -> Handles]
      BY <2>1, <1>2, HandleFacts
    <2>3. calls'[r] \in Seq(Handles)
      BY <2>1, <2>2, SeqDef
    <2>4. QED
      BY <2>1, <2>3, HandleFacts, LenProperties
  <1>4. calls' \in [Runs -> Seq(Handles)]
    BY <1>1, <1>3
  <1>5. ASSUME NEW r \in Runs, NEW k \in Handed(r) PROVE calls'[r][k] = G(r, k)
    BY <1>1
  <1>6. QED
    BY <1>2, <1>3, <1>4, <1>5

\* A run's sink gets a record more.
LEMMA RecordFacts ==
  ASSUME TypeOK, NEW q \in Runs, NEW e \in Records, trace' = [trace EXCEPT ![q] = Append(@, e)]
  PROVE  /\ trace' \in [Runs -> Seq(Records)]
         /\ Len(trace'[q]) = Len(trace[q]) + 1
         /\ DOMAIN trace'[q] = DOMAIN trace[q] \cup {Len(trace[q]) + 1}
         /\ Len(trace[q]) + 1 \notin DOMAIN trace[q]
         /\ trace'[q][Len(trace[q]) + 1] = e
         /\ \A i \in DOMAIN trace[q] : trace'[q][i] = trace[q][i]
         /\ \A p \in Runs \ {q} : trace'[p] = trace[p]
  <1>1. trace \in [Runs -> Seq(Records)] /\ trace[q] \in Seq(Records)
    BY DEF TypeOK
  <1>2. trace' = [trace EXCEPT ![q] = Append(trace[q], e)]
    OBVIOUS
  <1>3. trace'[q] = Append(trace[q], e) /\ \A p \in Runs \ {q} : trace'[p] = trace[p]
    BY <1>1, <1>2
  <1>4. QED
    BY <1>1, <1>2, <1>3, AppendFacts

\* The head of the read loop's frames, and the frames behind it.
LEMMA ReadFacts ==
  ASSUME TypeOK, NEW type, Reads(type)
  PROVE  /\ inbox \in Seq(Frames) /\ inbox # <<>> /\ inbox' = Tail(inbox)
         /\ inbox' \in Seq(Frames) /\ Head(inbox) \in Frames /\ Head(inbox).type = type
         /\ 1 \in DOMAIN inbox /\ Head(inbox) = inbox[1]
  BY TailFacts DEF TypeOK, Reads

\* The gateway and the upstreams put one frame behind the others.
LEMMA SendFacts ==
  ASSUME TypeOK, NEW f \in Frames, inbox' = Append(inbox, f)
  PROVE  /\ inbox' \in Seq(Frames)
         /\ Len(inbox') = Len(inbox) + 1 /\ Len(inbox) \in Nat
         /\ DOMAIN inbox' = DOMAIN inbox \cup {Len(inbox) + 1}
         /\ Len(inbox) + 1 \notin DOMAIN inbox
         /\ \A i \in DOMAIN inbox : i \in Nat /\ i < Len(inbox) + 1 /\ inbox'[i] = inbox[i]
         /\ inbox'[Len(inbox) + 1] = f
  <1>1. inbox \in Seq(Frames)
    BY DEF TypeOK
  <1>2. QED
    BY <1>1, AppendFacts, LenProperties

\* What a settled read does.
LEMMA SettleFacts ==
  ASSUME TypeOK, CallsFollowPhase, NEW r \in Runs, phase[r] = "waiting",
         NEW kind \in {"ok", "error", "timeout"}, Settle(r, kind)
  PROVE  \E k \in Handed(r), s \in Runs, h \in Handles, e \in Records :
           /\ k = waitingFor[r] /\ s = calls[r][k].sink /\ calls[r][k].state = "fired"
           /\ h.fn = calls[r][k].fn /\ h.id = calls[r][k].id /\ h.sink = s
           /\ h.future = calls[r][k].future /\ h.state = kind
           /\ h.stub = calls[r][k].stub /\ h.good = calls[r][k].good
           /\ e = [of |-> <<r, k>>, kind |-> kind] /\ e.of = <<r, k>>
           /\ calls' = [calls EXCEPT ![r][k] = h]
           /\ trace' = [trace EXCEPT ![s] = Append(@, e)]
  <1> DEFINE k == waitingFor[r]
             s == calls[r][k].sink
             h == [calls[r][k] EXCEPT !.state = kind]
             e == [of |-> <<r, k>>, kind |-> kind]
  <1>1. k \in Handed(r) /\ calls[r][k].state = "fired"
    BY DEF CallsFollowPhase
  <1>2. calls[r][k] \in Handles /\ s \in Runs /\ k \in Nat /\ k # 0
    BY <1>1, HandleFacts DEF CallsFollowPhase
  <1>3. k \in 1 .. MaxCalls
    BY <1>2, ParametersTyped DEF TypeOK
  <1>4. calls' = [calls EXCEPT ![r][k].state = kind] /\ trace' = [trace EXCEPT ![s] = Append(@, e)]
    BY DEF Settle
  <1>5. calls' = [calls EXCEPT ![r][k] = h]
    BY <1>4
  <1>6. h \in Handles /\ e \in Records
    BY <1>2, <1>3 DEF Handles, Records, Keys
  <1>7. h.fn = calls[r][k].fn /\ h.id = calls[r][k].id /\ h.sink = s
        /\ h.future = calls[r][k].future /\ h.state = kind
        /\ h.stub = calls[r][k].stub /\ h.good = calls[r][k].good
        /\ e = [of |-> <<r, k>>, kind |-> kind] /\ e.of = <<r, k>>
    BY <1>2 DEF Handles
  <1>8. QED
    <2> HIDE DEF h, e
    <2>1. k = waitingFor[r] /\ s = calls[r][k].sink
      OBVIOUS
    <2> HIDE DEF k, s
    <2>2. QED
      BY <1>1, <1>2, <1>4, <1>5, <1>6, <1>7, <2>1

\* A call of a program can be named, and is not the program's yet.
LEMMA KeyFacts ==
  ASSUME TypeOK, NEW r \in Runs, CanCall(r)
  PROVE  Key(r) \in Keys /\ Key(r) = <<r, Len(calls[r]) + 1>> /\ Len(calls[r]) + 1 \in Nat \ {0}
  BY HandleFacts, ParametersTyped DEF CanCall, Key, Keys

\* A stubbed call is born settled, and recorded in the sink of the context.
LEMMA StubFacts ==
  ASSUME TypeOK, CallsFollowPhase, NEW r \in Runs, NEW fn \in Fns, CallStubbed(r, fn)
  PROVE  \E h \in Handles :
           /\ h.fn = fn /\ h.id = 0 /\ h.state = "ok" /\ h.sink = ctx.sink /\ h.future = Key(r)
           /\ h.stub
           /\ calls' = [calls EXCEPT ![r] = Append(@, h)]
           /\ ctx.sink \in Runs
           /\ [of |-> Key(r), kind |-> "dry_run"] \in Records
           /\ trace' = [trace EXCEPT ![ctx.sink] = Append(@, [of |-> Key(r), kind |-> "dry_run"])]
  <1> DEFINE h == [NewHandle(fn, 0) EXCEPT !.stub = TRUE, !.sink = ctx.sink, !.state = "ok",
                                           !.future = Key(r)]
  <1>1. CanCall(r) /\ ctx.sink \in Runs
    BY DEF CallStubbed, CanCall, CallsFollowPhase, Executing
  <1>2. Key(r) \in Keys
    BY <1>1, KeyFacts
  <1>3. h \in Handles /\ h.fn = fn /\ h.id = 0 /\ h.state = "ok" /\ h.sink = ctx.sink
        /\ h.future = Key(r) /\ h.stub
    BY <1>1, <1>2 DEF NewHandle, Handles
  <1>4. calls' = [calls EXCEPT ![r] = Append(@, h)]
    BY DEF CallStubbed
  <1>5. QED
    BY <1>1, <1>2, <1>3, <1>4 DEF CallStubbed, Records

\* A registered call has a new id.
LEMMA RegisterFacts ==
  ASSUME TypeOK, NEW r \in Runs, NEW fn \in Fns, CallRegisters(r, fn)
  PROVE  \E h \in Handles :
           /\ h.fn = fn /\ h.id = counter + 1 /\ h.state = "registered" /\ h.sink = None
           /\ h.future = <<>> /\ ~ h.stub
           /\ calls' = [calls EXCEPT ![r] = Append(@, h)]
  <1>1. counter + 1 \in Nat
    BY DEF TypeOK
  <1>2. NewHandle(fn, counter + 1) \in Handles
    BY <1>1 DEF NewHandle, Handles
  <1>3. QED
    BY <1>2 DEF NewHandle, CallRegisters

\* The last handle's request is fired, and its sink is that of the context.
LEMMA CallFiresFacts ==
  ASSUME TypeOK, CallsFollowPhase, NEW r \in Runs, CallFires(r)
  PROVE  LET k == Len(calls[r]) IN
         /\ k \in Handed(r) /\ k \in 1 .. MaxCalls /\ <<r, k>> \in Keys
         /\ ctx.sink \in Runs
         /\ calls[r][k].state = "registered"
         /\ \E h \in Handles :
              /\ h = [calls[r][k] EXCEPT !.state = "fired", !.sink = ctx.sink]
              /\ h.fn = calls[r][k].fn /\ h.id = calls[r][k].id /\ h.future = calls[r][k].future
              /\ h.state = "fired" /\ h.sink = ctx.sink
              /\ h.stub = calls[r][k].stub /\ h.good = calls[r][k].good
              /\ calls' = [calls EXCEPT ![r][k] = h]
         /\ sends' = sends \cup {[id |-> calls[r][k].id, of |-> <<r, k>>]}
  <1> DEFINE k == Len(calls[r])
             h == [calls[r][k] EXCEPT !.state = "fired", !.sink = ctx.sink]
  <1>1. phase[r] = "calling" /\ ctx.sink \in Runs /\ k <= MaxCalls /\ calls[r] # <<>>
        /\ calls[r][k].state = "registered"
    BY DEF CallFires, CallsFollowPhase, Executing
  <1>2. k \in Nat \ {0} /\ k \in Handed(r)
    <2>1. calls[r] \in Seq(Handles) /\ k \in Nat /\ Handed(r) = 1 .. k
      BY HandleFacts
    <2>2. QED
      BY <1>1, <2>1, EmptySeq
  <1>3. k \in 1 .. MaxCalls /\ <<r, k>> \in Keys
    BY <1>1, <1>2, ParametersTyped DEF Keys
  <1>4. calls[r][k] \in Handles
    BY <1>2, HandleFacts
  <1>5. h \in Handles /\ h.fn = calls[r][k].fn /\ h.id = calls[r][k].id
        /\ h.future = calls[r][k].future /\ h.state = "fired" /\ h.sink = ctx.sink
        /\ h.stub = calls[r][k].stub /\ h.good = calls[r][k].good
    BY <1>1, <1>4 DEF Handles
  <1>6. calls' = [calls EXCEPT ![r][k] = h]
        /\ sends' = sends \cup {[id |-> calls[r][k].id, of |-> <<r, k>>]}
    BY DEF CallFires
  <1> HIDE DEF h
  <1>7. QED
    BY <1>1, <1>2, <1>3, <1>5, <1>6 DEF h

\* The three ways a program leaves its thread.
LEMMA LeaveFacts ==
  ASSUME NEW r \in Runs, Finish(r) \/ FinishUnsent(r) \/ CallPlaceholder(r)
  PROVE  /\ phase[r] = "running"
         /\ \E how \in {"answered", "dropped"} :
              /\ Leaves(r, how)
              /\ report' = IF how = "answered" THEN [report EXCEPT ![r] = trace[r]] ELSE report
  <1>1. CASE Finish(r)
    BY <1>1 DEF Finish, Ended
  <1>2. CASE FinishUnsent(r)
    BY <1>2 DEF FinishUnsent
  <1>3. CASE CallPlaceholder(r)
    BY <1>3 DEF CallPlaceholder, CanCall, Ended
  <1>4. QED
    BY <1>1, <1>2, <1>3

\* A request on its way is of the call with its id, which is fired.
LEMMA RequestFacts ==
  ASSUME TypeOK, IdsAreOwned, NEW q \in sends \cup upstream
  PROVE  /\ q.of \in Keys /\ q.of[1] \in Runs /\ q.of = <<q.of[1], q.of[2]>>
         /\ q = [id |-> q.id, of |-> q.of] /\ q.id \in Nat /\ q.id # 0
         /\ q.of[2] \in Handed(q.of[1]) /\ calls[q.of[1]][q.of[2]].id = q.id
         /\ Fired(calls[q.of[1]][q.of[2]])
         /\ \A r \in Runs : \A k \in Handed(r) :
              calls[r][k].id = q.id => r = q.of[1] /\ k = q.of[2]
  <1>1. q \in [id : Nat, of : Keys]
    BY DEF TypeOK
  <1>2. q.of \in Keys /\ q.of[1] \in Runs /\ q.of = <<q.of[1], q.of[2]>>
        /\ q = [id |-> q.id, of |-> q.of] /\ q.id \in Nat
    BY <1>1 DEF Keys
  <1>3. Issued(q.id, q.of)
    BY DEF IdsAreOwned
  <1>4. /\ q.of[2] \in Handed(q.of[1]) /\ calls[q.of[1]][q.of[2]].id = q.id /\ q.id # 0
        /\ Fired(calls[q.of[1]][q.of[2]])
    BY <1>3 DEF Issued, Fired
  <1>5. \A r \in Runs : \A k \in Handed(r) :
          calls[r][k].id = q.id => r = q.of[1] /\ k = q.of[2]
    BY <1>2, <1>4 DEF IdsAreOwned
  <1>6. QED
    BY <1>2, <1>4, <1>5

\* Every step keeps the types.
LEMMA TypeStep == IInv /\ [Next]_vars => TypeOK'
  <1> SUFFICES ASSUME IInv, [Next]_vars PROVE TypeOK'
    OBVIOUS
  <1>0. TypeOK /\ CallsFollowPhase /\ PushesAreInOrder /\ VersionsAscend /\ IdsAreOwned
    BY DEF IInv
  <1> USE DEF loop, gateway, shared, source, outputs, setup, traffic, progress, traces, history
  <1>1. /\ Len(Sdks) \in Nat /\ DOMAIN Sdks = 1 .. Len(Sdks)
         /\ pushed.sdk \in 1 .. Len(Sdks) /\ pushed.shapes \in Nat
         /\ pushed = [sdk |-> pushed.sdk, shapes |-> pushed.shapes]
         /\ module.version \in 1 .. Len(Sdks) /\ written \in 1 .. Len(Sdks)
         /\ taken \in 1 .. Len(Sdks)
    BY <1>0, SdkFacts DEF TypeOK
  <1>2. ASSUME NEW r \in Runs, SendRun(r) PROVE TypeOK'
    <2>1. [type |-> "run", run |-> r] \in Frames
      BY DEF Frames
    <2>2. inbox' \in Seq(Frames)
      BY <1>0, <1>2, <2>1, SendFacts DEF SendRun
    <2>3. pushed \in [sdk : Nat, shapes : Nat]
      BY <1>1
    <2>4. before' \in [Runs -> [sdk : Nat, shapes : Nat]]
      BY <1>0, <1>2, <2>3 DEF SendRun, TypeOK
    <2>5. QED
      BY <1>0, <1>2, <2>2, <2>4 DEF SendRun, TypeOK
  <1>3. CASE SendReload
    <2>1. pushed.sdk + 1 \in DOMAIN Sdks /\ pushed.sdk + 1 \in Nat /\ pushed.shapes \in Nat
      BY <1>1, <1>3 DEF SendReload
    <2>2. [type |-> "reload", version |-> pushed.sdk + 1] \in Frames
      BY <2>1 DEF Frames
    <2>3. inbox' \in Seq(Frames)
      BY <1>0, <1>3, <2>2, SendFacts DEF SendReload
    <2>4. pushed' \in [sdk : DOMAIN Sdks, shapes : Nat]
      BY <1>0, <1>3, <2>1 DEF SendReload, TypeOK
    <2>5. QED
      BY <1>0, <1>3, <2>3, <2>4 DEF SendReload, TypeOK
  <1>4. CASE SendShapes
    <2>1. pushed.shapes + 1 \in Nat /\ pushed.sdk \in DOMAIN Sdks
      BY <1>0, SMTT(30) DEF TypeOK
    <2>2. [type |-> "set_shapes", version |-> pushed.shapes + 1] \in Frames
      BY <2>1 DEF Frames
    <2>3. inbox' \in Seq(Frames)
      BY <1>0, <1>4, <2>2, SendFacts DEF SendShapes
    <2>4. pushed' \in [sdk : DOMAIN Sdks, shapes : Nat]
      BY <1>0, <1>4, <2>1 DEF SendShapes, TypeOK
    <2>5. QED
      BY <1>0, <1>4, <2>3, <2>4 DEF SendShapes, TypeOK
  <1>5. ASSUME NEW q \in upstream, AnswerCall(q) PROVE TypeOK'
    <2>1. PICK ok \in BOOLEAN :
            inbox' = Append(inbox, [type |-> "result", id |-> q.id, of |-> q.of, ok |-> ok])
      BY <1>5 DEF AnswerCall
    <2>2. q.id \in Nat /\ q.of \in Keys
      BY <1>0 DEF TypeOK
    <2>3. [type |-> "result", id |-> q.id, of |-> q.of, ok |-> ok] \in Frames
      BY <2>2 DEF Frames
    <2>4. inbox' \in Seq(Frames)
      BY <1>0, <2>1, <2>3, SendFacts
    <2>5. QED
      BY <1>0, <1>5, <2>4 DEF AnswerCall, TypeOK
  <1>6. CASE WriteSdk
    <2>1. written' \in DOMAIN Sdks
      BY <1>1, <1>6 DEF WriteSdk
    <2>2. QED
      BY <1>0, <1>6, <2>1 DEF WriteSdk, TypeOK
  <1>7. CASE ReadRun
    <2>1. Head(inbox).run \in Runs /\ inbox' \in Seq(Frames)
      BY <1>0, <1>7, ReadFacts, FrameFacts DEF ReadRun
    <2>2. QED
      BY <1>0, <1>7, <2>1 DEF ReadRun, TypeOK
  <1>8. CASE ReadReload
    <2>1. inbox' \in Seq(Frames) /\ jobs' \in Seq(Runs \cup {"reload"})
      BY <1>0, <1>8, ReadFacts, AppendFacts DEF ReadReload, TypeOK
    <2>2. Head(inbox) = inbox[1] /\ 1 \in DOMAIN inbox /\ inbox[1] \in Frames
          /\ inbox[1].type = "reload"
      BY <1>0, <1>8, ReadFacts DEF ReadReload
    <2>3. taken < inbox[1].version /\ inbox[1].version <= pushed.sdk /\ inbox[1].version \in Nat
      BY <1>0, <2>2, FrameFacts DEF PushesAreInOrder, Ascending
    <2>4. taken' \in DOMAIN Sdks
      BY <1>1, <1>8, <2>2, <2>3 DEF ReadReload
    <2>5. QED
      BY <1>0, <1>8, <2>1, <2>4 DEF ReadReload, TypeOK
  <1>9. CASE ReadShapes
    <2>1. Head(inbox).version \in Nat /\ inbox' \in Seq(Frames)
      BY <1>0, <1>9, ReadFacts, FrameFacts DEF ReadShapes
    <2>2. QED
      BY <1>0, <1>9, <2>1 DEF ReadShapes, TypeOK
  <1>10. CASE ReadResult
    <2> DEFINE f == Head(inbox)
    <2>1. f.of \in Keys /\ f.ok \in BOOLEAN /\ inbox' \in Seq(Frames)
      BY <1>0, <1>10, ReadFacts, FrameFacts DEF ReadResult
    <2>2. calls' \in [Runs -> Seq(Handles)]
      BY <1>0, <1>10, <2>1, ResolvedFacts DEF ReadResult
    <2>3. QED
      BY <1>0, <1>10, <2>1, <2>2 DEF ReadResult, TypeOK
  <1>11. ASSUME NEW r \in Runs, Submit(r) PROVE TypeOK'
    <2>1. jobs' \in Seq(Runs \cup {"reload"})
      BY <1>0, <1>11, AppendFacts DEF Submit, TypeOK
    <2>2. QED
      BY <1>0, <1>11, <2>1 DEF Submit, TypeOK
  <1>12. ASSUME NEW job, Takes(job) PROVE jobs' \in Seq(Runs \cup {"reload"})
    BY <1>0, <1>12, TailFacts DEF Takes, TypeOK
  <1>13. CASE StartReload
    <2>1. jobs' \in Seq(Runs \cup {"reload"})
      BY <1>12, <1>13 DEF StartReload
    <2>2. QED
      BY <1>0, <1>13, <2>1 DEF StartReload, Takes, TypeOK
  <1>14. CASE LoadHeader
    <2>1. text' \in DOMAIN Sdks
      BY <1>1, <1>14 DEF LoadHeader, Texts
    <2>2. Sdks[text'].mutations \in SUBSET Fns
      BY <2>1, SdkFacts
    <2>3. module' \in [version : DOMAIN Sdks, fns : SUBSET Fns, mutations : SUBSET Fns,
                       dispatch : {"stub", "call_tool"}]
      BY <1>0, <1>14, <2>2 DEF LoadHeader, TypeOK
    <2>4. QED
      BY <1>0, <1>1, <1>14, <2>1, <2>3 DEF LoadHeader, TypeOK
  <1>15. CASE LoadFunctions
    <2>1. text \in DOMAIN Sdks
      BY <1>0, <1>1, <1>15 DEF LoadFunctions, VersionsAscend, Newest
    <2>2. Sdks[text].fns \in SUBSET Fns
      BY <2>1, SdkFacts
    <2>3. module' \in [version : DOMAIN Sdks, fns : SUBSET Fns, mutations : SUBSET Fns,
                       dispatch : {"stub", "call_tool"}]
      BY <1>0, <1>15, <2>1, <2>2 DEF LoadFunctions, TypeOK
    <2>4. QED
      BY <1>0, <1>15, <2>3 DEF LoadFunctions, TypeOK
  <1>16. CASE ReloadFails
    <2>1. failed' \in SUBSET (DOMAIN Sdks)
      BY <1>0, <1>16 DEF ReloadFails, TypeOK
    <2>2. QED
      BY <1>0, <1>16, <2>1 DEF ReloadFails, TypeOK
  <1>17. ASSUME NEW r \in Runs, Reject(r) PROVE TypeOK'
    BY <1>0, <1>12, <1>17 DEF Reject, TypeOK
  <1>18. ASSUME NEW r \in Runs, Begin(r) PROVE TypeOK'
    <2>1. jobs' \in Seq(Runs \cup {"reload"})
      BY <1>12, <1>18 DEF Begin
    <2>2. ctx' \in [sink : Runs \cup {None}, dry : BOOLEAN, mutations : SUBSET Fns]
      BY <1>0, <1>18 DEF Begin, TypeOK
    <2>3. overlapped' \in SUBSET Runs /\ reloaded' \in SUBSET Runs
      <3> DEFINE others == {q \in Runs : Executing(q)}
      <3>1. /\ overlapped' = IF others = {} THEN overlapped ELSE overlapped \cup others \cup {r}
            /\ reloaded' = IF readLoop \in {"loading", "defining"} THEN reloaded \cup {r} ELSE reloaded
        BY <1>18 DEF Begin
      <3>2. others \subseteq Runs /\ overlapped \subseteq Runs /\ reloaded \subseteq Runs
        BY <1>0 DEF TypeOK
      <3> HIDE DEF others
      <3>3. QED
        BY <3>1, <3>2
    <2>4. QED
      BY <1>0, <1>18, <2>1, <2>2, <2>3 DEF Begin, Takes, TypeOK
  <1>19. ASSUME NEW r \in Runs, Inject(r) PROVE TypeOK'
    <2>1. names' \in [Runs -> SUBSET Fns] /\ seen' \in [Runs -> Nat]
      <3>1. names \in [Runs -> SUBSET Fns] /\ seen \in [Runs -> Nat]
        BY <1>0 DEF TypeOK
      <3>2. module.fns \in SUBSET Fns
        BY <1>0 DEF TypeOK
      <3>3. module.version \in Nat
        BY <1>1
      <3>4. QED
        BY <1>19, <3>1, <3>2, <3>3 DEF Inject
    <2>2. QED
      BY <1>0, <1>19, <2>1 DEF Inject, TypeOK
  <1>20. ASSUME NEW r \in Runs, Wire(r) PROVE TypeOK'
    <2>1. module' \in [version : DOMAIN Sdks, fns : SUBSET Fns, mutations : SUBSET Fns,
                       dispatch : {"stub", "call_tool"}]
      BY <1>0, <1>20 DEF Wire, TypeOK
    <2>2. saved' \in [Runs -> Runs \cup {None}] /\ stdout' \in Runs
      BY <1>0, <1>20 DEF Wire, TypeOK
    <2>3. phase' \in [Runs -> {"idle", "sent", "spawned", "queued", "begun", "injected", "running",
                               "calling", "waiting", "answered", "dropped"}]
      BY <1>0, <1>20 DEF Wire, TypeOK
    <2>4. QED
      BY <1>0, <1>20, <2>1, <2>2, <2>3 DEF Wire, TypeOK
  <1>21. ASSUME NEW r \in Runs, Finish(r) \/ FinishUnsent(r) \/ CallPlaceholder(r)
         PROVE  TypeOK'
    <2>1. PICK how \in {"answered", "dropped"} :
            /\ Leaves(r, how)
            /\ report' = IF how = "answered" THEN [report EXCEPT ![r] = trace[r]] ELSE report
      BY <1>21, LeaveFacts
    <2>2. report' \in [Runs -> Seq(Records)] /\ saved' \in [Runs -> Runs \cup {None}]
          /\ stdout' \in Runs \cup {None}
      BY <1>0, <2>1 DEF Leaves, TypeOK
    <2>3. phase' \in [Runs -> {"idle", "sent", "spawned", "queued", "begun", "injected", "running",
                               "calling", "waiting", "answered", "dropped"}]
      BY <1>0, <2>1 DEF Leaves, TypeOK
    <2>4. waitingFor' \in [Runs -> 0 .. MaxCalls]
      BY <1>0, <2>1, ParametersTyped DEF Leaves, TypeOK
    <2>5. QED
      BY <1>0, <2>1, <2>2, <2>3, <2>4 DEF Leaves, TypeOK
  <1>22. ASSUME NEW r \in Runs, Exit(r) PROVE TypeOK'
    BY <1>0, <1>22 DEF Exit, TypeOK
  <1>23. ASSUME NEW r \in Runs, NEW fn \in Fns, CallStubbed(r, fn) PROVE TypeOK'
    <2>1. PICK h \in Handles :
            /\ calls' = [calls EXCEPT ![r] = Append(@, h)]
            /\ ctx.sink \in Runs
            /\ [of |-> Key(r), kind |-> "dry_run"] \in Records
            /\ trace' = [trace EXCEPT ![ctx.sink] =
                                      Append(@, [of |-> Key(r), kind |-> "dry_run"])]
      BY <1>0, <1>23, StubFacts
    <2>2. calls' \in [Runs -> Seq(Handles)] /\ trace' \in [Runs -> Seq(Records)]
      BY <1>0, <2>1, NewCallFacts, RecordFacts
    <2>3. QED
      BY <1>0, <1>23, <2>2 DEF CallStubbed, TypeOK
  <1>24. ASSUME NEW r \in Runs, NEW fn \in Fns, CallRegisters(r, fn) PROVE TypeOK'
    <2>1. calls' \in [Runs -> Seq(Handles)]
      BY <1>0, <1>24, RegisterFacts, NewCallFacts
    <2>2. /\ counter' \in Nat /\ futures' \in SUBSET (1 .. counter')
          /\ unsent \in SUBSET (1 .. counter')
      <3>1. counter \in Nat /\ futures \in SUBSET (1 .. counter) /\ unsent \in SUBSET (1 .. counter)
        BY <1>0 DEF TypeOK
      <3>2. counter' = counter + 1 /\ futures' = futures \cup {counter + 1}
        BY <1>24 DEF CallRegisters
      <3>3. QED
        BY <3>1, <3>2
    <2>3. QED
      BY <1>0, <1>24, <2>1, <2>2 DEF CallRegisters, TypeOK
  <1>25. ASSUME NEW r \in Runs, CallFires(r) PROVE TypeOK'
    <2> DEFINE k == Len(calls[r])
    <2>1. k \in Handed(r) /\ <<r, k>> \in Keys
          /\ sends' = sends \cup {[id |-> calls[r][k].id, of |-> <<r, k>>]}
      BY <1>0, <1>25, CallFiresFacts
    <2>2. PICK h \in Handles : calls' = [calls EXCEPT ![r][k] = h]
      BY <1>0, <1>25, CallFiresFacts
    <2>3. calls' \in [Runs -> Seq(Handles)] /\ calls[r][k].id \in Nat
      BY <1>0, <2>1, <2>2, ChangedCallFacts, HandleFacts
    <2>4. sends' \in SUBSET [id : Nat, of : Keys]
      <3>1. [id |-> calls[r][k].id, of |-> <<r, k>>] \in [id : Nat, of : Keys]
        BY <2>1, <2>3
      <3>2. sends \in SUBSET [id : Nat, of : Keys]
        BY <1>0 DEF TypeOK
      <3> HIDE DEF k
      <3>3. QED
        BY <2>1, <3>1, <3>2
    <2>5. QED
      BY <1>0, <1>25, <2>3, <2>4 DEF CallFires, TypeOK
  <1>26. ASSUME NEW q \in sends, Send(q) PROVE TypeOK'
    <2>1. upstream' \in SUBSET [id : Nat, of : Keys] /\ sends' \in SUBSET [id : Nat, of : Keys]
      BY <1>0, <1>26 DEF Send, TypeOK
    <2>2. QED
      BY <1>0, <1>26, <2>1 DEF Send, TypeOK
  <1>27. ASSUME NEW q \in sends, SendFails(q) PROVE TypeOK'
    <2>1. q.id \in 1 .. counter
      <3>1. PICK r, k : /\ r \in Runs /\ k \in Handed(r)
                        /\ calls[r][k].id = q.id /\ q.id \in Nat /\ q.id # 0
        BY <1>0, RequestFacts
      <3>2. q.id <= counter /\ counter \in Nat
        BY <1>0, <3>1 DEF IdsAreOwned, TypeOK
      <3>3. QED
        BY <3>1, <3>2
    <2>2. unsent' \in SUBSET (1 .. counter)
      BY <1>0, <1>27, <2>1 DEF SendFails, TypeOK
    <2>3. QED
      BY <1>0, <1>27, <2>2 DEF SendFails, TypeOK
  <1>28. ASSUME NEW r \in Runs, NEW k \in 1 .. MaxCalls, Read(r, k) PROVE TypeOK'
    <2>1. waitingFor' \in [Runs -> 0 .. MaxCalls]
      BY <1>0, <1>28, ParametersTyped DEF Read, TypeOK
    <2>2. QED
      BY <1>0, <1>28, <2>1 DEF Read, TypeOK
  <1>29. ASSUME NEW r \in Runs, phase[r] = "waiting", NEW kind \in {"ok", "error", "timeout"},
                Settle(r, kind), alive' = alive
         PROVE  TypeOK'
    <2>1. PICK k \in Handed(r), s \in Runs, h \in Handles, e \in Records :
            calls' = [calls EXCEPT ![r][k] = h] /\ trace' = [trace EXCEPT ![s] = Append(@, e)]
      BY <1>0, <1>29, SettleFacts
    <2>2. calls' \in [Runs -> Seq(Handles)] /\ trace' \in [Runs -> Seq(Records)]
      BY <1>0, <2>1, ChangedCallFacts, RecordFacts
    <2>3. waitingFor' \in [Runs -> 0 .. MaxCalls]
      BY <1>0, <1>29, ParametersTyped DEF Settle, TypeOK
    <2>4. QED
      BY <1>0, <1>29, <2>2, <2>3 DEF Settle, TypeOK
  <1>30. ASSUME NEW r \in Runs, Resume(r) \/ CallTimesOut(r) PROVE TypeOK'
    BY <1>29, <1>30 DEF Resume, CallTimesOut, Settle
  <1>31. CASE UNCHANGED vars
    BY <1>0, <1>31 DEF vars, TypeOK
  <1>32. QED
    BY <1>2, <1>3, <1>4, <1>5, <1>6, <1>7, <1>8, <1>9, <1>10, <1>11, <1>13, <1>14, <1>15, <1>16,
       <1>17, <1>18, <1>19, <1>20, <1>21, <1>22, <1>23, <1>24, <1>25, <1>26, <1>27, <1>28, <1>30,
       <1>31
    DEF Next, Gateway, ReadLoop, Reload, Execute, Program

-----------------------------------------------------------------------------
(* Calls, requests and answers.                                            *)

\* The answers on their way to the dispatcher.
Results == {inbox[i] : i \in {j \in DOMAIN inbox : inbox[j].type = "result"}}

\* What no call, request, answer or trace notices.
Quiet == UNCHANGED <<calls, counter, futures, sends, unsent, upstream, trace>> /\ Results' = Results

\* Reading another frame leaves the answers, and reading an answer the others.
LEMMA ReadResults ==
  ASSUME TypeOK, NEW type, Reads(type)
  PROVE  /\ Results' \subseteq Results
         /\ \A f \in Results : f \in Results' \/ f = Head(inbox)
         /\ type # "result" => Results' = Results
         /\ type = "result" => Head(inbox) \in Results
  <1>1. inbox \in Seq(Frames) /\ inbox # <<>> /\ inbox' = Tail(inbox)
        /\ Head(inbox) = inbox[1] /\ 1 \in DOMAIN inbox /\ inbox[1].type = type
    BY ReadFacts
  <1>2. /\ \A i \in DOMAIN inbox' : i + 1 \in DOMAIN inbox /\ inbox'[i] = inbox[i + 1]
        /\ \A i \in DOMAIN inbox : i # 1 => i - 1 \in DOMAIN inbox' /\ inbox'[i - 1] = inbox[i]
    BY <1>1, TailFacts
  <1>3. Results' \subseteq Results
    BY <1>2 DEF Results
  <1>4. ASSUME NEW f \in Results PROVE f \in Results' \/ f = Head(inbox)
    <2>1. PICK i \in DOMAIN inbox : inbox[i] = f /\ f.type = "result"
      BY DEF Results
    <2>2. CASE i = 1
      BY <1>1, <2>1, <2>2
    <2>3. CASE i # 1
      <3>1. i - 1 \in DOMAIN inbox' /\ inbox'[i - 1] = f
        BY <1>2, <2>1, <2>3
      <3>2. QED
        BY <2>1, <3>1 DEF Results
    <2>4. QED
      BY <2>2, <2>3
  <1>5. type # "result" => Head(inbox) \notin Results
    BY <1>1 DEF Results
  <1>6. type = "result" => Head(inbox) \in Results
    BY <1>1 DEF Results
  <1>7. QED
    BY <1>3, <1>4, <1>5, <1>6

\* A frame sent is behind the answers, or one more.
LEMMA SendResults ==
  ASSUME TypeOK, NEW f \in Frames, inbox' = Append(inbox, f)
  PROVE  Results' = IF f.type = "result" THEN Results \cup {f} ELSE Results
  <1>1. /\ DOMAIN inbox' = DOMAIN inbox \cup {Len(inbox) + 1}
        /\ \A i \in DOMAIN inbox : inbox'[i] = inbox[i]
        /\ inbox'[Len(inbox) + 1] = f
    BY SendFacts
  <1>2. QED
    BY <1>1 DEF Results

\* The steps that calls, requests and answers take part in.
LEMMA CallSteps ==
  ASSUME IInv, [Next]_vars
  PROVE  \/ Quiet
         \/ \E q \in upstream : AnswerCall(q)
         \/ \E q \in sends : Send(q) \/ SendFails(q)
         \/ ReadResult
         \/ \E r \in Runs, fn \in Fns : CallStubbed(r, fn) \/ CallRegisters(r, fn)
         \/ \E r \in Runs : CallFires(r)
         \/ \E r \in Runs, kind \in {"ok", "error", "timeout"} :
              phase[r] = "waiting" /\ Settle(r, kind)
  <1>0. TypeOK
    BY DEF IInv
  <1> USE DEF loop, gateway, shared, outputs, setup, traffic, progress, traces, history
  <1>1. ASSUME NEW r \in Runs, SendRun(r) PROVE Quiet
    <2>1. [type |-> "run", run |-> r] \in Frames
      BY DEF Frames
    <2>2. QED
      BY <1>0, <1>1, <2>1, SendResults DEF SendRun, Quiet
  <1>2. CASE SendReload
    <2>1. [type |-> "reload", version |-> pushed.sdk + 1] \in Frames
      <3>1. pushed.sdk \in DOMAIN Sdks
        BY <1>0 DEF TypeOK
      <3>2. pushed.sdk + 1 \in Nat
        BY <3>1, SdkFacts
      <3>3. QED
        BY <3>2 DEF Frames
    <2>2. QED
      BY <1>0, <1>2, <2>1, SendResults DEF SendReload, Quiet
  <1>3. CASE SendShapes
    <2>1. [type |-> "set_shapes", version |-> pushed.shapes + 1] \in Frames
      BY <1>0, SMTT(30) DEF Frames, TypeOK
    <2>2. QED
      BY <1>0, <1>3, <2>1, SendResults DEF SendShapes, Quiet
  <1>4. CASE WriteSdk
    BY <1>4 DEF WriteSdk, Quiet, Results
  <1>5. CASE ReadRun
    BY <1>0, <1>5, ReadResults DEF ReadRun, Quiet
  <1>6. CASE ReadReload
    BY <1>0, <1>6, ReadResults DEF ReadReload, Quiet
  <1>7. CASE ReadShapes
    BY <1>0, <1>7, ReadResults DEF ReadShapes, Quiet
  <1>8. CASE Reload
    BY <1>8 DEF Reload, StartReload, LoadHeader, LoadFunctions, ReloadFails, Quiet, Results
  <1>9. ASSUME NEW r \in Runs, Submit(r) \/ Reject(r) \/ Begin(r) PROVE Quiet
    BY <1>9 DEF Submit, Reject, Begin, Quiet, Results
  <1>10. ASSUME NEW r \in Runs, Inject(r) \/ Wire(r) \/ Exit(r) PROVE Quiet
    BY <1>10 DEF Inject, Wire, Exit, Quiet, Results
  <1>11. ASSUME NEW r \in Runs, Finish(r) \/ FinishUnsent(r) \/ CallPlaceholder(r) PROVE Quiet
    BY <1>11, LeaveFacts DEF Leaves, Quiet, Results
  <1>12. ASSUME NEW r \in Runs, NEW k \in 1 .. MaxCalls, Read(r, k) PROVE Quiet
    BY <1>12 DEF Read, Quiet, Results
  <1>13. CASE UNCHANGED vars
    BY <1>13 DEF vars, Quiet, Results
  <1>14. ASSUME NEW r \in Runs, Resume(r) \/ CallTimesOut(r)
         PROVE  \E kind \in {"ok", "error", "timeout"} : phase[r] = "waiting" /\ Settle(r, kind)
    BY <1>14 DEF Resume, CallTimesOut
  <1>15. QED
    BY <1>1, <1>2, <1>3, <1>4, <1>5, <1>6, <1>7, <1>8, <1>9, <1>10, <1>11, <1>12, <1>13, <1>14
    DEF Next, Gateway, ReadLoop, Execute, Program

\* Every id is the dispatcher's own, and no step gives it to a second call.
LEMMA IdsStep == IInv /\ [Next]_vars => IdsAreOwned'
  <1> SUFFICES ASSUME IInv, [Next]_vars PROVE IdsAreOwned'
    OBVIOUS
  <1>0. TypeOK /\ CallsFollowPhase /\ TypeOK'
    BY TypeStep DEF IInv
  <1>1. /\ \A r \in Runs : \A k \in Handed(r) : calls[r][k].id <= counter
        /\ \A r, q \in Runs : \A k \in Handed(r), j \in Handed(q) :
             calls[r][k].id # 0 /\ calls[r][k].id = calls[q][j].id => r = q /\ k = j
        /\ \A q \in sends \cup upstream : Issued(q.id, q.of)
        /\ \A f \in Results : Issued(f.id, f.of)
    BY DEF IInv, IdsAreOwned, Results
  <1>2. /\ \A q \in sends \cup upstream : q.of[1] \in Runs
        /\ \A f \in Results : f.of[1] \in Runs
    <2>1. \A q \in sends \cup upstream : q.of \in Keys
      BY <1>0 DEF TypeOK
    <2>2. \A f \in Results : f \in Frames /\ f.type = "result"
      BY <1>0, ElementOfSeq, LenProperties DEF TypeOK, Results
    <2>3. QED
      BY <2>1, <2>2, FrameFacts DEF Keys
  <1>3. ASSUME \A r \in Runs : \A k \in DOMAIN calls'[r] : calls'[r][k].id <= counter',
               \A r, q \in Runs : \A k \in DOMAIN calls'[r], j \in DOMAIN calls'[q] :
                 calls'[r][k].id # 0 /\ calls'[r][k].id = calls'[q][j].id => r = q /\ k = j,
               \A q \in sends' \cup upstream' : Issued(q.id, q.of)',
               \A f \in Results' : Issued(f.id, f.of)'
        PROVE  IdsAreOwned'
    BY <1>3 DEF IdsAreOwned, Results, Handed
  \* Handles keep their ids, and what was on the wire stays so.
  <1>4. ASSUME \A r \in Runs : DOMAIN calls'[r] = Handed(r),
               \A r \in Runs : \A k \in Handed(r) : calls'[r][k].id = calls[r][k].id,
               \A r \in Runs : \A k \in Handed(r) :
                 calls[r][k].state # "registered" => calls'[r][k].state # "registered",
               counter' = counter,
               \A q \in sends' \cup upstream' : q \in sends \cup upstream \/ Issued(q.id, q.of)',
               \A f \in Results' : f \in Results \/ Issued(f.id, f.of)'
        PROVE  IdsAreOwned'
    <2>1. \A id, of : of[1] \in Runs /\ Issued(id, of) => Issued(id, of)'
      BY <1>4 DEF Issued, Fired, Handed
    <2>2. /\ \A q \in sends' \cup upstream' : Issued(q.id, q.of)'
          /\ \A f \in Results' : Issued(f.id, f.of)'
      BY <1>1, <1>2, <1>4, <2>1
    <2>3. /\ \A r \in Runs : \A k \in DOMAIN calls'[r] : calls'[r][k].id <= counter'
          /\ \A r, q \in Runs : \A k \in DOMAIN calls'[r], j \in DOMAIN calls'[q] :
               calls'[r][k].id # 0 /\ calls'[r][k].id = calls'[q][j].id => r = q /\ k = j
      BY <1>1, <1>4
    <2>4. QED
      BY <1>3, <2>2, <2>3
  \* A new handle has no id or the next one.
  <1>5. ASSUME NEW r \in Runs, NEW h \in Handles,
               \/ h.id = 0 /\ counter' = counter
               \/ h.id = counter + 1 /\ counter' = counter + 1,
               calls' = [calls EXCEPT ![r] = Append(@, h)],
               sends' = sends, upstream' = upstream, inbox' = inbox
        PROVE  IdsAreOwned'
    <2> DEFINE n == Len(calls[r]) + 1
    <2>1. /\ DOMAIN calls'[r] = Handed(r) \cup {n} /\ n \notin Handed(r)
          /\ calls'[r][n] = h
          /\ \A k \in Handed(r) : calls'[r][k] = calls[r][k]
          /\ \A q \in Runs \ {r} : calls'[q] = calls[q]
      BY <1>0, <1>5, NewCallFacts
    <2> HIDE DEF n
    <2>2. counter \in Nat /\ \A q \in Runs : \A k \in Handed(q) : calls[q][k].id \in Nat
      BY <1>0, HandleFacts DEF TypeOK
    <2>3. \A q \in Runs : Handed(q) \subseteq DOMAIN calls'[q]
                          /\ \A k \in Handed(q) : calls'[q][k] = calls[q][k]
      BY <2>1 DEF Handed
    <2>4. \A id, of : of[1] \in Runs /\ Issued(id, of) => Issued(id, of)'
      BY <2>3 DEF Issued, Fired, Handed
    <2>5. Results' = Results
      BY <1>5 DEF Results
    <2>6. /\ \A q \in sends' \cup upstream' : Issued(q.id, q.of)'
          /\ \A f \in Results' : Issued(f.id, f.of)'
      BY <1>1, <1>2, <1>5, <2>4, <2>5
    <2>7. \A q \in Runs : \A k \in DOMAIN calls'[q] :
            \/ q = r /\ k = n /\ calls'[q][k] = h
            \/ k \in Handed(q) /\ calls'[q][k] = calls[q][k]
      BY <2>1 DEF Handed
    <2>8. \A q \in Runs : \A k \in DOMAIN calls'[q] : calls'[q][k].id <= counter'
      BY <1>1, <1>5, <2>2, <2>7
    <2>9. ASSUME NEW p \in Runs, NEW q \in Runs, NEW k \in DOMAIN calls'[p], NEW j \in DOMAIN calls'[q],
                 calls'[p][k].id # 0, calls'[p][k].id = calls'[q][j].id
          PROVE  p = q /\ k = j
      BY <1>1, <1>5, <2>2, <2>7, <2>9
    <2>10. QED
      BY <1>3, <2>6, <2>8, <2>9
  <1>6. CASE Quiet
    BY <1>4, <1>6 DEF Quiet, Handed
  <1>7. ASSUME NEW q \in upstream, AnswerCall(q) PROVE IdsAreOwned'
    <2>1. PICK f : f.id = q.id /\ f.of = q.of /\ Results' = Results \cup {f}
      <3>1. PICK ok \in BOOLEAN :
              inbox' = Append(inbox, [type |-> "result", id |-> q.id, of |-> q.of, ok |-> ok])
        BY <1>7 DEF AnswerCall
      <3>2. [type |-> "result", id |-> q.id, of |-> q.of, ok |-> ok] \in Frames
        BY <1>0 DEF Frames, TypeOK
      <3>3. QED
        BY <1>0, <3>1, <3>2, SendResults
    <2>2. Issued(q.id, q.of)' <=> Issued(q.id, q.of)
      BY <1>7 DEF AnswerCall, Issued, Fired, Handed, progress
    <2>3. QED
      BY <1>1, <1>4, <1>7, <2>1, <2>2 DEF AnswerCall, Handed, progress
  <1>8. CASE ReadResult
    <2> DEFINE f == Head(inbox)
    <2>1. f.of \in Keys /\ f.ok \in BOOLEAN /\ Results' \subseteq Results
      BY <1>0, <1>8, ReadFacts, FrameFacts, ReadResults DEF ReadResult
    <2>2. \A r \in Runs : /\ DOMAIN calls'[r] = Handed(r)
                          /\ \A k \in Handed(r) : /\ calls'[r][k].id = calls[r][k].id
                                                  /\ calls'[r][k].state = calls[r][k].state
      BY <1>0, <1>8, <2>1, ResolvedFacts DEF ReadResult
    <2>3. counter' = counter /\ upstream' = upstream /\ sends' = sends
      BY <1>8 DEF ReadResult
    <2> HIDE DEF f
    <2>4. /\ \A r \in Runs : DOMAIN calls'[r] = Handed(r)
          /\ \A r \in Runs : \A k \in Handed(r) : calls'[r][k].id = calls[r][k].id
          /\ \A r \in Runs : \A k \in Handed(r) : calls'[r][k].state = calls[r][k].state
      BY <2>2
    <2>5. QED
      BY <1>4, <2>1, <2>3, <2>4
  <1>9. ASSUME NEW r \in Runs, NEW fn \in Fns, CallStubbed(r, fn) PROVE IdsAreOwned'
    <2>1. PICK h \in Handles : h.id = 0 /\ calls' = [calls EXCEPT ![r] = Append(@, h)]
      BY <1>0, <1>9, StubFacts
    <2>2. QED
      BY <1>5, <1>9, <2>1 DEF CallStubbed, traffic, loop
  <1>10. ASSUME NEW r \in Runs, NEW fn \in Fns, CallRegisters(r, fn) PROVE IdsAreOwned'
    <2>1. PICK h \in Handles : h.id = counter + 1 /\ calls' = [calls EXCEPT ![r] = Append(@, h)]
      BY <1>0, <1>10, RegisterFacts
    <2>2. QED
      BY <1>5, <1>10, <2>1 DEF CallRegisters, loop
  <1>11. ASSUME NEW r \in Runs, CallFires(r) PROVE IdsAreOwned'
    <2>1. PICK k, q : /\ k = Len(calls[r]) /\ q = [id |-> calls[r][k].id, of |-> <<r, k>>]
                      /\ k \in Handed(r) /\ calls[r][k].state = "registered"
                      /\ sends' = sends \cup {q}
      BY <1>0, <1>11, CallFiresFacts
    <2>2. PICK h \in Handles : /\ h.id = calls[r][k].id /\ h.state = "fired"
                               /\ calls' = [calls EXCEPT ![r][k] = h]
      BY <1>0, <1>11, <2>1, CallFiresFacts
    <2>3. /\ \A p \in Runs : DOMAIN calls'[p] = Handed(p)
          /\ calls'[r][k] = h
          /\ \A j \in Handed(r) \ {k} : calls'[r][j] = calls[r][j]
          /\ \A p \in Runs \ {r} : calls'[p] = calls[p]
      BY <1>0, <2>1, <2>2, ChangedCallFacts
    <2>4. calls[r][k].id # 0
      <3>1. calls[r][k].id \in futures
        BY <1>0, <2>1 DEF CallsFollowPhase
      <3>2. futures \subseteq 1 .. counter
        BY <1>0 DEF TypeOK
      <3>3. QED
        BY <3>1, <3>2
    <2>5. q.id = calls[r][k].id /\ q.of[1] = r /\ q.of[2] = k
      BY <2>1
    <2>6. Issued(q.id, q.of)'
      BY <2>1, <2>2, <2>3, <2>4, <2>5 DEF Issued, Fired, Handed
    <2>7. counter' = counter /\ Results' = Results /\ upstream' = upstream
      BY <1>11 DEF CallFires, loop, Results
    <2>8. QED
      BY <1>4, <2>1, <2>2, <2>3, <2>6, <2>7
  <1>12. ASSUME NEW r \in Runs, NEW kind \in {"ok", "error", "timeout"},
                phase[r] = "waiting", Settle(r, kind)
         PROVE  IdsAreOwned'
    <2>1. PICK k \in Handed(r), h \in Handles :
            /\ h.id = calls[r][k].id /\ h.state = kind /\ calls' = [calls EXCEPT ![r][k] = h]
      BY <1>0, <1>12, SettleFacts
    <2>2. /\ \A p \in Runs : DOMAIN calls'[p] = Handed(p)
          /\ calls'[r][k] = h
          /\ \A j \in Handed(r) \ {k} : calls'[r][j] = calls[r][j]
          /\ \A p \in Runs \ {r} : calls'[p] = calls[p]
      BY <1>0, <2>1, ChangedCallFacts
    <2>3. counter' = counter /\ UNCHANGED <<sends, upstream>> /\ Results' = Results
      BY <1>12 DEF Settle, traffic, loop, Results
    <2>4. QED
      BY <1>4, <2>1, <2>2, <2>3
  <1>13. ASSUME NEW q \in sends, Send(q) \/ SendFails(q) PROVE IdsAreOwned'
    <2>1. /\ UNCHANGED <<calls, counter>> /\ Results' = Results
          /\ sends' \cup upstream' \subseteq sends \cup upstream
      BY <1>13 DEF Send, SendFails, loop, progress, Results
    <2>2. QED
      BY <1>4, <2>1 DEF Handed
  <1>14. QED
    BY <1>6, <1>7, <1>8, <1>9, <1>10, <1>11, <1>12, <1>13, CallSteps

\* An answer on its way is of the call with its id, which is on the wire.
LEMMA ResultFacts ==
  ASSUME TypeOK, IdsAreOwned, NEW f \in Results
  PROVE  /\ f \in Frames /\ f.type = "result"
         /\ f.of \in Keys /\ f.of[1] \in Runs /\ f.ok \in BOOLEAN
         /\ f.of = <<f.of[1], f.of[2]>>
         /\ f.of[2] \in Handed(f.of[1]) /\ calls[f.of[1]][f.of[2]].id = f.id /\ f.id # 0
         /\ Fired(calls[f.of[1]][f.of[2]])
         /\ \A r \in Runs : \A k \in Handed(r) : calls[r][k].id = f.id => f.of = <<r, k>>
  <1>1. PICK i \in DOMAIN inbox : inbox[i] = f /\ f.type = "result"
    BY DEF Results
  <1>2. f \in Frames
    BY <1>1, ElementOfSeq, LenProperties DEF TypeOK
  <1>3. f.of \in Keys /\ f.of[1] \in Runs /\ f.of = <<f.of[1], f.of[2]>> /\ f.ok \in BOOLEAN
    BY <1>1, <1>2, FrameFacts DEF Keys
  <1>4. Issued(f.id, f.of)
    BY <1>1 DEF IdsAreOwned
  <1>5. f.of[2] \in Handed(f.of[1]) /\ calls[f.of[1]][f.of[2]].id = f.id /\ f.id # 0
        /\ Fired(calls[f.of[1]][f.of[2]])
    BY <1>4 DEF Issued, Fired
  <1>6. \A r \in Runs : \A k \in Handed(r) :
          calls[r][k].id = f.id => r = f.of[1] /\ k = f.of[2]
    BY <1>3, <1>5 DEF IdsAreOwned
  <1>7. QED
    BY <1>1, <1>2, <1>3, <1>5, <1>6

\* Only an answer gives a handle of the wire its value, and it is to its own call.
LEMMA ValuesStep == IInv /\ [Next]_vars => ValuesAreOwn'
  <1> SUFFICES ASSUME IInv, [Next]_vars PROVE ValuesAreOwn'
    OBVIOUS
  <1>0. TypeOK /\ CallsFollowPhase /\ IdsAreOwned
        /\ \A r \in Runs : \A k \in Handed(r) :
             calls[r][k].future # <<>> => calls[r][k].future = <<r, k>>
    BY DEF IInv, ValuesAreOwn
  <1>1. CASE UNCHANGED calls
    BY <1>0, <1>1 DEF ValuesAreOwn, Handed
  <1>2. CASE ReadResult
    <2>1. Head(inbox) \in Results /\ calls' = Resolved(Head(inbox))
      BY <1>0, <1>2, ReadResults DEF ReadResult
    <2>2. PICK f \in Results : calls' = Resolved(f)
      BY <2>1
    <2>3. ASSUME NEW r \in Runs, NEW k \in Handed(r), calls'[r][k].future # <<>>
          PROVE  calls'[r][k].future = <<r, k>>
      BY <1>0, <2>2, <2>3, ResultFacts, ResolvedFacts
    <2>4. \A r \in Runs : DOMAIN calls'[r] = Handed(r)
      BY <1>0, <2>2, ResultFacts, ResolvedFacts
    <2>5. QED
      BY <2>3, <2>4 DEF ValuesAreOwn, Handed
  <1>3. ASSUME NEW r \in Runs, NEW h \in Handles, calls' = [calls EXCEPT ![r] = Append(@, h)],
               h.future \in {<<>>, <<r, Len(calls[r]) + 1>>}
        PROVE  ValuesAreOwn'
    BY <1>0, <1>3, NewCallFacts DEF ValuesAreOwn, Handed
  <1>4. ASSUME NEW r \in Runs, NEW k \in Handed(r), NEW h \in Handles,
               h.future = calls[r][k].future, calls' = [calls EXCEPT ![r][k] = h]
        PROVE  ValuesAreOwn'
    BY <1>0, <1>4, ChangedCallFacts DEF ValuesAreOwn, Handed
  <1>5. ASSUME NEW r \in Runs, NEW fn \in Fns, CallStubbed(r, fn) PROVE ValuesAreOwn'
    <2>1. PICK h \in Handles : h.future = Key(r) /\ calls' = [calls EXCEPT ![r] = Append(@, h)]
      BY <1>0, <1>5, StubFacts
    <2>2. QED
      BY <1>3, <2>1 DEF Key
  <1>6. ASSUME NEW r \in Runs, NEW fn \in Fns, CallRegisters(r, fn) PROVE ValuesAreOwn'
    BY <1>0, <1>3, <1>6, RegisterFacts
  <1>7. ASSUME NEW r \in Runs, CallFires(r) PROVE ValuesAreOwn'
    <2>1. PICK k : k = Len(calls[r]) /\ k \in Handed(r)
      BY <1>0, <1>7, CallFiresFacts
    <2>2. PICK h \in Handles :
            h.future = calls[r][k].future /\ calls' = [calls EXCEPT ![r][k] = h]
      BY <1>0, <1>7, <2>1, CallFiresFacts
    <2>3. QED
      BY <1>4, <2>1, <2>2
  <1>8. ASSUME NEW r \in Runs, NEW kind \in {"ok", "error", "timeout"},
               phase[r] = "waiting", Settle(r, kind)
        PROVE  ValuesAreOwn'
    <2>1. PICK k \in Handed(r), h \in Handles :
            h.future = calls[r][k].future /\ calls' = [calls EXCEPT ![r][k] = h]
      BY <1>0, <1>8, SettleFacts
    <2>2. QED
      BY <1>4, <2>1
  <1>9. QED
    BY <1>1, <1>2, <1>5, <1>6, <1>7, <1>8, CallSteps
    DEF Quiet, AnswerCall, Send, SendFails, progress

\* What the steps do to the requests, where they are followed one by one.
Requests == sends \cup upstream

\* Nothing has come of request q.
IsFresh(q, wire, handles, results) ==
  /\ q \notin wire
  /\ handles[q.of[1]][q.of[2]].future = <<>>
  /\ \A f \in results : f.id # q.id

\* An answer on its way is seen among the results.
LEMMA AnsweredFacts ==
  /\ \A id : Answered(id) <=> \E f \in Results : f.id = id
  /\ \A id : Answered(id)' <=> \E f \in Results' : f.id = id
  BY DEF Answered, Results

\* No request is ahead of its sending, and no call ahead of its request.
LEMMA SendsStep == IInv /\ [Next]_vars => SendsComeFirst'
  <1> SUFFICES ASSUME IInv, [Next]_vars PROVE SendsComeFirst'
    OBVIOUS
  <1>0. /\ TypeOK /\ CallsFollowPhase /\ IdsAreOwned /\ IdsAreOwned'
        /\ \A q \in sends : IsFresh(q, upstream, calls, Results)
        /\ \A r \in Runs : \A k \in Handed(r) : calls[r][k].id \in unsent => Fired(calls[r][k])
    BY IdsStep, AnsweredFacts DEF IInv, SendsComeFirst, IsFresh
  <1>1. ASSUME \A q \in sends' : IsFresh(q, upstream', calls', Results'),
               \A r \in Runs : \A k \in DOMAIN calls'[r] :
                 calls'[r][k].id \in unsent' => Fired(calls'[r][k])
        PROVE  SendsComeFirst'
    BY <1>1, AnsweredFacts DEF SendsComeFirst, IsFresh, Handed, Fired
  \* Handles keep their ids and futures, or get the next id.
  <1>2. ASSUME \A q \in sends' : q \in sends \/ IsFresh(q, upstream', calls', Results'),
               upstream' = upstream, Results' = Results, unsent' = unsent,
               \A r \in Runs : Handed(r) \subseteq DOMAIN calls'[r],
               \A r \in Runs : \A k \in DOMAIN calls'[r] :
                 IF k \in Handed(r)
                 THEN /\ calls'[r][k].id = calls[r][k].id
                      /\ calls'[r][k].future = calls[r][k].future
                      /\ Fired(calls[r][k]) => Fired(calls'[r][k])
                 ELSE calls'[r][k].id \in {0, counter + 1}
        PROVE  SendsComeFirst'
    <2>1. \A q \in sends : q.of[1] \in Runs /\ q.of[2] \in Handed(q.of[1])
      BY <1>0, RequestFacts
    <2>2. 0 \notin unsent /\ counter + 1 \notin unsent
      <3>1. counter \in Nat /\ unsent \subseteq 1 .. counter
        BY <1>0 DEF TypeOK
      <3>2. QED
        BY <3>1
    <2>3. \A q \in sends' : IsFresh(q, upstream', calls', Results')
      BY <1>0, <1>2, <2>1 DEF IsFresh
    <2>4. \A r \in Runs : \A k \in DOMAIN calls'[r] :
            calls'[r][k].id \in unsent' => Fired(calls'[r][k])
      BY <1>0, <1>2, <2>2
    <2>5. QED
      BY <1>1, <2>3, <2>4
  <1>3. CASE Quiet
    BY <1>2, <1>3 DEF Quiet, Handed
  <1>4. ASSUME NEW q \in upstream, AnswerCall(q) PROVE SendsComeFirst'
    <2>1. PICK f : f.id = q.id /\ Results' = Results \cup {f}
      <3>1. PICK ok \in BOOLEAN :
              inbox' = Append(inbox, [type |-> "result", id |-> q.id, of |-> q.of, ok |-> ok])
        BY <1>4 DEF AnswerCall
      <3>2. [type |-> "result", id |-> q.id, of |-> q.of, ok |-> ok] \in Frames
        BY <1>0 DEF Frames, TypeOK
      <3>3. QED
        BY <1>0, <3>1, <3>2, SendResults
    <2>2. UNCHANGED <<calls, sends, unsent>> /\ upstream' \subseteq upstream
      BY <1>4 DEF AnswerCall, progress
    <2>3. ASSUME NEW p \in sends PROVE p.id # q.id
      <3>1. p # q
        BY <1>0 DEF IsFresh
      <3>2. /\ p.of[1] \in Runs /\ p.of[2] \in Handed(p.of[1]) /\ p = [id |-> p.id, of |-> p.of]
            /\ p.of = <<p.of[1], p.of[2]>> /\ calls[p.of[1]][p.of[2]].id = p.id
        BY <1>0, RequestFacts
      <3>3. /\ q = [id |-> q.id, of |-> q.of] /\ q.of = <<q.of[1], q.of[2]>>
            /\ \A r \in Runs : \A k \in Handed(r) :
                 calls[r][k].id = q.id => r = q.of[1] /\ k = q.of[2]
        BY <1>0, RequestFacts
      <3>4. p.id = q.id => p.of[1] = q.of[1] /\ p.of[2] = q.of[2]
        BY <3>2, <3>3
      <3>5. QED
        BY <3>1, <3>2, <3>3, <3>4
    <2>4. \A p \in sends' : IsFresh(p, upstream', calls', Results')
      BY <1>0, <2>1, <2>2, <2>3 DEF IsFresh
    <2>5. QED
      BY <1>0, <1>1, <2>2, <2>4 DEF Handed
  <1>5. CASE ReadResult
    <2>1. Head(inbox) \in Results
      BY <1>0, <1>5, ReadResults DEF ReadResult
    <2>2. PICK f \in Results : calls' = Resolved(f)
      BY <1>5, <2>1 DEF ReadResult
    <2>3. UNCHANGED <<sends, unsent, upstream>> /\ Results' \subseteq Results
      BY <1>0, <1>5, ReadResults DEF ReadResult
    <2>4. \A r \in Runs : /\ DOMAIN calls'[r] = Handed(r)
                          /\ \A k \in Handed(r) :
                               /\ calls'[r][k].id = calls[r][k].id
                               /\ calls'[r][k].state = calls[r][k].state
                               /\ calls[r][k].id # f.id => calls'[r][k] = calls[r][k]
      BY <1>0, <2>2, ResultFacts, ResolvedFacts
    <2>5. \A p \in sends : /\ p.of[1] \in Runs /\ p.of[2] \in Handed(p.of[1])
                           /\ calls[p.of[1]][p.of[2]].id = p.id
      BY <1>0, RequestFacts
    <2>6. \A p \in sends' : IsFresh(p, upstream', calls', Results')
      BY <1>0, <2>2, <2>3, <2>4, <2>5 DEF IsFresh
    <2>7. \A r \in Runs : \A k \in DOMAIN calls'[r] :
            calls'[r][k].id \in unsent' => Fired(calls'[r][k])
      BY <1>0, <2>3, <2>4 DEF Fired
    <2>8. QED
      BY <1>1, <2>6, <2>7
  <1>6. ASSUME NEW r \in Runs, NEW h \in Handles, calls' = [calls EXCEPT ![r] = Append(@, h)],
               h.id \in {0, counter + 1}, UNCHANGED <<inbox, sends, unsent, upstream>>
        PROVE  SendsComeFirst'
    <2>1. /\ DOMAIN calls'[r] = Handed(r) \cup {Len(calls[r]) + 1}
          /\ calls'[r][Len(calls[r]) + 1] = h
          /\ Len(calls[r]) + 1 \notin Handed(r)
          /\ \A k \in Handed(r) : calls'[r][k] = calls[r][k]
          /\ \A q \in Runs \ {r} : calls'[q] = calls[q]
      BY <1>0, <1>6, NewCallFacts
    <2>2. \A q \in Runs : Handed(q) \subseteq DOMAIN calls'[q]
      BY <2>1 DEF Handed
    <2>3. \A q \in Runs : \A k \in DOMAIN calls'[q] :
            IF k \in Handed(q) THEN calls'[q][k] = calls[q][k] ELSE calls'[q][k] = h
      BY <2>1 DEF Handed
    <2>4. QED
      BY <1>2, <1>6, <2>2, <2>3 DEF Results
  <1>7. ASSUME NEW r \in Runs, NEW fn \in Fns, CallStubbed(r, fn) PROVE SendsComeFirst'
    <2>1. PICK h \in Handles : h.id = 0 /\ calls' = [calls EXCEPT ![r] = Append(@, h)]
      BY <1>0, <1>7, StubFacts
    <2>2. QED
      BY <1>6, <1>7, <2>1 DEF CallStubbed, traffic, loop
  <1>8. ASSUME NEW r \in Runs, NEW fn \in Fns, CallRegisters(r, fn) PROVE SendsComeFirst'
    <2>1. PICK h \in Handles : h.id = counter + 1 /\ calls' = [calls EXCEPT ![r] = Append(@, h)]
      BY <1>0, <1>8, RegisterFacts
    <2>2. QED
      BY <1>6, <1>8, <2>1 DEF CallRegisters, loop
  <1>9. ASSUME NEW r \in Runs, NEW k \in Handed(r), NEW h \in Handles,
               h.id = calls[r][k].id, h.future = calls[r][k].future, h.state # "registered",
               calls' = [calls EXCEPT ![r][k] = h]
        PROVE  \A q \in Runs :
                 /\ DOMAIN calls'[q] = Handed(q)
                 /\ \A j \in Handed(q) : /\ calls'[q][j].id = calls[q][j].id
                                         /\ calls'[q][j].future = calls[q][j].future
                                         /\ Fired(calls[q][j]) => Fired(calls'[q][j])
    <2>1. \A q \in Runs : /\ DOMAIN calls'[q] = Handed(q)
                          /\ \A j \in Handed(q) :
                               calls'[q][j] = IF q = r /\ j = k THEN h ELSE calls[q][j]
      BY <1>0, <1>9, ChangedCallFacts
    <2>2. QED
      BY <1>9, <2>1 DEF Fired
  <1>10. ASSUME NEW r \in Runs, CallFires(r) PROVE SendsComeFirst'
    <2>1. PICK k, q : /\ k = Len(calls[r]) /\ k \in Handed(r) /\ calls[r][k].state = "registered"
                      /\ q = [id |-> calls[r][k].id, of |-> <<r, k>>] /\ sends' = sends \cup {q}
      BY <1>0, <1>10, CallFiresFacts
    <2>2. PICK h \in Handles : /\ h.id = calls[r][k].id /\ h.future = calls[r][k].future
                               /\ h.state = "fired" /\ calls' = [calls EXCEPT ![r][k] = h]
      BY <1>0, <1>10, <2>1, CallFiresFacts
    <2>3. UNCHANGED <<unsent, upstream>> /\ Results' = Results
      BY <1>10 DEF CallFires, loop, Results
    <2>4. \A p \in Runs : /\ DOMAIN calls'[p] = Handed(p)
                          /\ \A j \in Handed(p) : /\ calls'[p][j].id = calls[p][j].id
                                                  /\ calls'[p][j].future = calls[p][j].future
                                                  /\ Fired(calls[p][j]) => Fired(calls'[p][j])
      BY <1>9, <2>1, <2>2
    <2>5. q.of[1] = r /\ q.of[2] = k /\ q.id = calls[r][k].id
      BY <2>1
    <2>6. q \notin upstream /\ \A f \in Results : f.id # q.id
      <3>1. ~ Fired(calls[r][k])
        BY <2>1 DEF Fired
      <3>2. q \notin upstream
        BY <1>0, <2>5, <3>1, RequestFacts
      <3>3. \A f \in Results : f.id # q.id
        BY <1>0, <2>1, <2>5, <3>1, ResultFacts
      <3>4. QED
        BY <3>2, <3>3
    <2>7. IsFresh(q, upstream', calls', Results')
      <3>1. calls'[r][k].future = <<>>
        BY <1>0, <2>1, <2>4 DEF CallsFollowPhase
      <3>2. QED
        BY <2>3, <2>5, <2>6, <3>1 DEF IsFresh
    <2>8. QED
      BY <1>2, <2>1, <2>3, <2>4, <2>7
  <1>11. ASSUME NEW r \in Runs, NEW kind \in {"ok", "error", "timeout"},
                phase[r] = "waiting", Settle(r, kind)
         PROVE  SendsComeFirst'
    <2>1. PICK k \in Handed(r), h \in Handles :
            /\ h.id = calls[r][k].id /\ h.future = calls[r][k].future /\ h.state = kind
            /\ calls' = [calls EXCEPT ![r][k] = h]
      BY <1>0, <1>11, SettleFacts
    <2>2. UNCHANGED <<sends, unsent, upstream>> /\ Results' = Results
      BY <1>11 DEF Settle, traffic, loop, Results
    <2>3. QED
      BY <1>2, <1>9, <2>1, <2>2
  <1>12. ASSUME NEW q \in sends, Send(q) \/ SendFails(q) PROVE SendsComeFirst'
    <2>1. /\ UNCHANGED calls /\ Results' = Results /\ sends' = sends \ {q}
          /\ upstream' \subseteq upstream \cup {q} /\ unsent' \subseteq unsent \cup {q.id}
      BY <1>12 DEF Send, SendFails, loop, progress, Results
    <2>2. \A r \in Runs : \A k \in Handed(r) : calls[r][k].id = q.id => Fired(calls[r][k])
      BY <1>0, RequestFacts
    <2>3. \A p \in sends' : IsFresh(p, upstream', calls', Results')
      BY <1>0, <2>1 DEF IsFresh
    <2>4. QED
      BY <1>0, <1>1, <2>1, <2>2, <2>3 DEF Handed
  <1>13. QED
    BY <1>3, <1>4, <1>5, <1>7, <1>8, <1>10, <1>11, <1>12, CallSteps

\* How call k of run r is served, and that it is lost when its sending failed.
IsServed(h, r, k, ids, requests, failures, results) ==
  LET q == [id |-> h.id, of |-> <<r, k>>] IN
    /\ (Fired(h) /\ h.future = <<>>) =>
         h.id \in ids /\ (h.id \in failures \/ q \in requests \/ \E f \in results : f.id = h.id)
    /\ h.id \in failures =>
         h.future = <<>> /\ q \notin requests /\ \A f \in results : f.id # h.id

\* An unresolved call that is fired keeps its future, and its request or answer, unless
\* its sending failed.
LEMMA ServedStep == IInv /\ [Next]_vars => CallsStayServed'
  <1> SUFFICES ASSUME IInv, [Next]_vars PROVE CallsStayServed'
    OBVIOUS
  <1>0. /\ TypeOK /\ CallsFollowPhase /\ IdsAreOwned /\ SendsComeFirst /\ FuturesAreOpen
        /\ unsent \subseteq 1 .. counter /\ counter \in Nat
        /\ \A r \in Runs : \A k \in Handed(r) :
             IsServed(calls[r][k], r, k, futures, Requests, unsent, Results)
    BY AnsweredFacts DEF IInv, CallsStayServed, Requests, IsServed, TypeOK
  <1>1. ASSUME \A r \in Runs : \A k \in DOMAIN calls'[r] :
                 IsServed(calls'[r][k], r, k, futures', Requests', unsent', Results')
        PROVE  CallsStayServed'
    BY <1>1, AnsweredFacts DEF CallsStayServed, Requests, Handed, IsServed, Fired
  <1>2. CASE Quiet
    BY <1>0, <1>1, <1>2 DEF Quiet, Handed, Requests
  <1>3. ASSUME NEW q \in upstream, AnswerCall(q) PROVE CallsStayServed'
    <2>1. PICK f : f.id = q.id /\ Results' = Results \cup {f}
      <3>1. PICK ok \in BOOLEAN :
              inbox' = Append(inbox, [type |-> "result", id |-> q.id, of |-> q.of, ok |-> ok])
        BY <1>3 DEF AnswerCall
      <3>2. [type |-> "result", id |-> q.id, of |-> q.of, ok |-> ok] \in Frames
        BY <1>0 DEF Frames, TypeOK
      <3>3. QED
        BY <1>0, <3>1, <3>2, SendResults
    <2>2. UNCHANGED <<calls, futures, unsent>> /\ Requests' \subseteq Requests
          /\ \A p \in Requests : p \in Requests' \/ p = q
      BY <1>3 DEF AnswerCall, progress, Requests
    <2>3. /\ q.of = <<q.of[1], q.of[2]>> /\ q = [id |-> q.id, of |-> q.of] /\ q \in Requests
          /\ \A r \in Runs : \A k \in Handed(r) :
               calls[r][k].id = q.id => r = q.of[1] /\ k = q.of[2]
      BY <1>0, RequestFacts DEF Requests
    <2>4. ASSUME NEW r \in Runs, NEW k \in Handed(r)
          PROVE  IsServed(calls[r][k], r, k, futures, Requests', unsent, Results')
      <3>1. calls[r][k].id = q.id => [id |-> calls[r][k].id, of |-> <<r, k>>] = q
        BY <2>3
      <3>2. IsServed(calls[r][k], r, k, futures, Requests, unsent, Results)
        BY <1>0
      <3>3. calls[r][k].id \in unsent => calls[r][k].id # q.id
        BY <2>3, <3>1, <3>2 DEF IsServed
      <3>4. [id |-> calls[r][k].id, of |-> <<r, k>>] = q => calls[r][k].id = q.id
        OBVIOUS
      <3>5. QED
        BY <2>1, <2>2, <3>2, <3>3, <3>4 DEF IsServed
    <2>5. QED
      BY <1>1, <2>2, <2>4 DEF Handed
  <1>4. CASE ReadResult
    <2>1. Head(inbox) \in Results
      BY <1>0, <1>4, ReadResults DEF ReadResult
    <2>2. PICK f \in Results : /\ calls' = Resolved(f) /\ futures' = futures \ {f.id}
                               /\ \A g \in Results : g \in Results' \/ g = f
                               /\ Results' \subseteq Results
      BY <1>0, <1>4, <2>1, ReadResults DEF ReadResult
    <2>3. Requests' = Requests /\ unsent' = unsent /\ f.of # <<>>
      BY <1>0, <1>4, ResultFacts DEF ReadResult, Keys, Requests
    <2>4. ASSUME NEW r \in Runs, NEW k \in Handed(r)
          PROVE  IsServed(calls'[r][k], r, k, futures', Requests', unsent', Results')
      <3> DEFINE h == calls[r][k]
                 g == calls'[r][k]
      <3>1. g.id = h.id /\ g.state = h.state
            /\ IF h.id = f.id /\ f.id \in futures THEN g.future = f.of ELSE g = h
        BY <1>0, <2>2, ResultFacts, ResolvedFacts
      <3>2. IsServed(h, r, k, futures, Requests, unsent, Results)
        BY <1>0
      <3> HIDE DEF h, g
      <3>3. h.id \in unsent => h.id # f.id
        BY <2>2, <3>2 DEF IsServed
      <3>4. ASSUME Fired(g), g.future = <<>> PROVE g = h /\ h.id # f.id
        <4>1. g = h
          BY <2>3, <3>1, <3>4
        <4>2. h.id \in futures
          BY <3>2, <3>4, <4>1 DEF IsServed
        <4>3. QED
          BY <2>3, <3>1, <3>4, <4>1, <4>2
      <3>5. ASSUME h.id \in unsent PROVE g = h
        BY <3>1, <3>3, <3>5
      <3>6. h.id # f.id => IsServed(h, r, k, futures', Requests', unsent', Results')
        BY <2>2, <2>3, <3>2 DEF IsServed
      <3>7. CASE g = h /\ h.id # f.id
        BY <3>6, <3>7 DEF g
      <3>8. CASE ~ (g = h /\ h.id # f.id)
        <4>1. ~ (Fired(g) /\ g.future = <<>>)
          BY <3>4, <3>8
        <4>2. g.id \notin unsent'
          BY <2>3, <3>1, <3>3, <3>5, <3>8
        <4>3. QED
          BY <4>1, <4>2 DEF IsServed, g
      <3>9. QED
        BY <3>7, <3>8
    <2>5. \A r \in Runs : DOMAIN calls'[r] = Handed(r)
      BY <1>0, <2>2, ResultFacts, ResolvedFacts
    <2>6. QED
      BY <1>1, <2>4, <2>5
  <1>5. ASSUME NEW r \in Runs, NEW h \in Handles, calls' = [calls EXCEPT ![r] = Append(@, h)],
               ~ Fired(h), h.id \in {0, counter + 1},
               UNCHANGED <<inbox, sends, unsent, upstream>>, futures \subseteq futures'
        PROVE  CallsStayServed'
    <2>1. \A q \in Runs : \A k \in DOMAIN calls'[q] :
            calls'[q][k] = h \/ (k \in Handed(q) /\ calls'[q][k] = calls[q][k])
      BY <1>0, <1>5, NewCallFacts DEF Handed
    <2>2. h.id \notin unsent
      BY <1>0, <1>5
    <2>3. Results' = Results /\ Requests' = Requests /\ unsent' = unsent
      BY <1>5 DEF Results, Requests
    <2>4. \A q, k : IsServed(h, q, k, futures', Requests, unsent, Results)
      BY <1>5, <2>2 DEF IsServed
    <2>5. \A q, k, g : IsServed(g, q, k, futures, Requests, unsent, Results)
                         => IsServed(g, q, k, futures', Requests, unsent, Results)
      BY <1>5 DEF IsServed
    <2>6. QED
      BY <1>0, <1>1, <2>1, <2>3, <2>4, <2>5
  <1>6. ASSUME NEW r \in Runs, NEW fn \in Fns, CallStubbed(r, fn) PROVE CallsStayServed'
    <2>1. PICK h \in Handles : h.id = 0 /\ calls' = [calls EXCEPT ![r] = Append(@, h)]
      BY <1>0, <1>6, StubFacts
    <2>2. QED
      BY <1>5, <1>6, <2>1 DEF Fired, CallStubbed, traffic, loop
  <1>7. ASSUME NEW r \in Runs, NEW fn \in Fns, CallRegisters(r, fn) PROVE CallsStayServed'
    <2>1. PICK h \in Handles : /\ h.state = "registered" /\ h.id = counter + 1
                               /\ calls' = [calls EXCEPT ![r] = Append(@, h)]
      BY <1>0, <1>7, RegisterFacts
    <2>2. QED
      BY <1>5, <1>7, <2>1 DEF Fired, CallRegisters, loop
  <1>8. ASSUME NEW r \in Runs, NEW k \in Handed(r), NEW h \in Handles,
               h.id = calls[r][k].id, h.future = calls[r][k].future,
               calls' = [calls EXCEPT ![r][k] = h],
               \/ calls[r][k].state = "fired" /\ Requests' = Requests
               \/ /\ h.id \in futures /\ h.id \notin unsent
                  /\ Requests' = Requests \cup {[id |-> h.id, of |-> <<r, k>>]},
               Results' = Results, UNCHANGED <<futures, unsent>>
        PROVE  CallsStayServed'
    <2>1. \A q \in Runs : /\ DOMAIN calls'[q] = Handed(q)
                          /\ \A j \in Handed(q) :
                               calls'[q][j] = IF q = r /\ j = k THEN h ELSE calls[q][j]
      BY <1>0, <1>8, ChangedCallFacts
    <2>2. IsServed(calls[r][k], r, k, futures, Requests, unsent, Results)
      BY <1>0
    <2>3. IsServed(h, r, k, futures', Requests', unsent', Results')
      BY <1>8, <2>2 DEF Fired, IsServed
    <2>4. ASSUME NEW q \in Runs, NEW j \in Handed(q), ~ (q = r /\ j = k)
          PROVE  IsServed(calls[q][j], q, j, futures', Requests', unsent', Results')
      <3>1. IsServed(calls[q][j], q, j, futures, Requests, unsent, Results)
        BY <1>0
      <3>2. [id |-> calls[q][j].id, of |-> <<q, j>>] # [id |-> h.id, of |-> <<r, k>>]
        BY <2>4
      <3>3. QED
        BY <1>8, <3>1, <3>2 DEF IsServed
    <2>5. QED
      BY <1>1, <2>1, <2>3, <2>4
  <1>9. ASSUME NEW r \in Runs, CallFires(r) PROVE CallsStayServed'
    <2>1. PICK k : /\ k = Len(calls[r]) /\ k \in Handed(r) /\ calls[r][k].state = "registered"
                   /\ sends' = sends \cup {[id |-> calls[r][k].id, of |-> <<r, k>>]}
      BY <1>0, <1>9, CallFiresFacts
    <2>2. PICK h \in Handles : /\ h.id = calls[r][k].id /\ h.future = calls[r][k].future
                               /\ calls' = [calls EXCEPT ![r][k] = h]
      BY <1>0, <1>9, <2>1, CallFiresFacts
    <2>3. Results' = Results /\ UNCHANGED <<futures, unsent, upstream>>
      BY <1>9 DEF CallFires, loop, Results
    <2>4. h.id \in futures
      BY <1>0, <2>1, <2>2 DEF CallsFollowPhase
    <2>5. h.id \notin unsent
      BY <1>0, <2>1, <2>2 DEF SendsComeFirst, Fired
    <2>6. Requests' = Requests \cup {[id |-> h.id, of |-> <<r, k>>]}
      BY <2>1, <2>2, <2>3 DEF Requests
    <2>7. QED
      BY <1>8, <2>1, <2>2, <2>3, <2>4, <2>5, <2>6
  <1>10. ASSUME NEW r \in Runs, NEW kind \in {"ok", "error", "timeout"},
               phase[r] = "waiting", Settle(r, kind)
        PROVE  CallsStayServed'
    <2>1. PICK k \in Handed(r), h \in Handles :
            /\ calls[r][k].state = "fired" /\ h.id = calls[r][k].id
            /\ h.future = calls[r][k].future /\ calls' = [calls EXCEPT ![r][k] = h]
      BY <1>0, <1>10, SettleFacts
    <2>2. Results' = Results /\ UNCHANGED <<futures, unsent>> /\ Requests' = Requests
      BY <1>10 DEF Settle, traffic, loop, Results, Requests
    <2>3. QED
      BY <1>8, <2>1, <2>2
  <1>11. ASSUME NEW q \in sends, Send(q) PROVE CallsStayServed'
    <2>1. UNCHANGED <<calls, futures, unsent>> /\ Results' = Results /\ Requests' = Requests
      BY <1>11 DEF Send, loop, progress, Results, Requests
    <2>2. QED
      BY <1>0, <1>1, <2>1 DEF Handed
  <1>12. ASSUME NEW q \in sends, SendFails(q) PROVE CallsStayServed'
    <2>1. UNCHANGED <<calls, futures>> /\ Results' = Results /\ unsent' = unsent \cup {q.id}
          /\ Requests' \subseteq Requests /\ \A p \in Requests : p \in Requests' \/ p = q
      BY <1>12 DEF SendFails, loop, progress, Results, Requests
    <2>2. /\ q \notin Requests' /\ calls[q.of[1]][q.of[2]].future = <<>>
          /\ \A f \in Results : f.id # q.id
      BY <1>0, <1>12, AnsweredFacts DEF SendFails, SendsComeFirst, Requests
    <2>3. /\ q.of = <<q.of[1], q.of[2]>> /\ q = [id |-> q.id, of |-> q.of]
          /\ \A r \in Runs : \A k \in Handed(r) :
               calls[r][k].id = q.id => r = q.of[1] /\ k = q.of[2]
      BY <1>0, RequestFacts
    <2>4. ASSUME NEW r \in Runs, NEW k \in Handed(r)
          PROVE  IsServed(calls[r][k], r, k, futures, Requests', unsent', Results)
      <3>1. IsServed(calls[r][k], r, k, futures, Requests, unsent, Results)
        BY <1>0
      <3>2. CASE calls[r][k].id = q.id
        <4>1. [id |-> calls[r][k].id, of |-> <<r, k>>] = q /\ calls[r][k].future = <<>>
          BY <2>2, <2>3, <3>2
        <4>2. QED
          BY <2>1, <2>2, <3>1, <3>2, <4>1 DEF IsServed
      <3>3. CASE calls[r][k].id # q.id
        <4>1. [id |-> calls[r][k].id, of |-> <<r, k>>] # q
          BY <3>3
        <4>2. QED
          BY <2>1, <3>1, <3>3, <4>1 DEF IsServed
      <3>4. QED
        BY <3>2, <3>3
    <2>5. QED
      BY <1>1, <2>1, <2>4 DEF Handed
  <1>13. QED
    BY <1>2, <1>3, <1>4, <1>6, <1>7, <1>9, <1>10, <1>11, <1>12, CallSteps

\* An answer resolves the future it removes, and a call registers a new one.
LEMMA FuturesStep == IInv /\ [Next]_vars => FuturesAreOpen'
  <1> SUFFICES ASSUME IInv, [Next]_vars PROVE FuturesAreOpen'
    OBVIOUS
  <1> DEFINE Open(h, ids) == /\ h.id \in ids => h.future = <<>>
                             /\ h.stub => h.id = 0 /\ h.state = "ok"
  <1>0. TypeOK /\ CallsFollowPhase /\ IdsAreOwned
        /\ \A r \in Runs : \A k \in Handed(r) : Open(calls[r][k], futures)
    BY DEF IInv, FuturesAreOpen
  <1>1. ASSUME \A r \in Runs : \A k \in DOMAIN calls'[r] : Open(calls'[r][k], futures')
        PROVE  FuturesAreOpen'
    BY <1>1 DEF FuturesAreOpen, Handed
  <1>2. CASE UNCHANGED <<calls, futures>>
    BY <1>0, <1>1, <1>2 DEF Handed
  <1>3. CASE ReadResult
    <2>1. Head(inbox) \in Results /\ calls' = Resolved(Head(inbox))
          /\ futures' = futures \ {Head(inbox).id}
      BY <1>0, <1>3, ReadResults DEF ReadResult
    <2>2. PICK f \in Results : calls' = Resolved(f) /\ futures' = futures \ {f.id}
      BY <2>1
    <2>3. \A r \in Runs : DOMAIN calls'[r] = Handed(r)
      BY <1>0, <2>2, ResultFacts, ResolvedFacts
    <2>4. ASSUME NEW r \in Runs, NEW k \in Handed(r) PROVE Open(calls'[r][k], futures')
      <3>1. /\ calls'[r][k].id = calls[r][k].id /\ calls'[r][k].stub = calls[r][k].stub
            /\ calls'[r][k].state = calls[r][k].state
            /\ calls[r][k].id # f.id => calls'[r][k] = calls[r][k]
        BY <1>0, <2>2, ResultFacts, ResolvedFacts
      <3>2. QED
        BY <1>0, <2>2, <3>1
    <2>5. QED
      BY <1>1, <2>3, <2>4
  <1>4. ASSUME NEW r \in Runs, NEW h \in Handles, calls' = [calls EXCEPT ![r] = Append(@, h)],
               Open(h, futures'), futures' \subseteq futures \cup {counter + 1}
        PROVE  FuturesAreOpen'
    <2>1. \A q \in Runs : \A k \in Handed(q) : calls[q][k].id # counter + 1
      <3>1. \A q \in Runs : \A k \in Handed(q) : calls[q][k].id \in Nat /\ calls[q][k].id <= counter
        BY <1>0, HandleFacts DEF IdsAreOwned
      <3>2. counter \in Nat
        BY <1>0 DEF TypeOK
      <3>3. QED
        BY <3>1, <3>2
    <2>2. \A q \in Runs : \A k \in DOMAIN calls'[q] :
            calls'[q][k] = h \/ (k \in Handed(q) /\ calls'[q][k] = calls[q][k])
      BY <1>0, <1>4, NewCallFacts DEF Handed
    <2>3. QED
      BY <1>0, <1>1, <1>4, <2>1, <2>2
  <1>5. ASSUME NEW r \in Runs, NEW k \in Handed(r), NEW h \in Handles,
               h.id = calls[r][k].id, h.future = calls[r][k].future, ~ h.stub,
               calls' = [calls EXCEPT ![r][k] = h], futures' = futures
        PROVE  FuturesAreOpen'
    <2>1. \A q \in Runs : \A j \in DOMAIN calls'[q] :
            \/ q = r /\ j = k /\ calls'[q][j] = h
            \/ j \in Handed(q) /\ calls'[q][j] = calls[q][j]
      BY <1>0, <1>5, ChangedCallFacts DEF Handed
    <2>2. QED
      BY <1>0, <1>1, <1>5, <2>1
  <1>6. ASSUME NEW r \in Runs, NEW fn \in Fns, CallStubbed(r, fn) PROVE FuturesAreOpen'
    <2>1. PICK h \in Handles : /\ h.id = 0 /\ h.state = "ok"
                               /\ calls' = [calls EXCEPT ![r] = Append(@, h)]
      BY <1>0, <1>6, StubFacts
    <2>2. futures' = futures /\ 0 \notin futures
      BY <1>0, <1>6 DEF CallStubbed, traffic, TypeOK
    <2>3. QED
      BY <1>4, <2>1, <2>2
  <1>7. ASSUME NEW r \in Runs, NEW fn \in Fns, CallRegisters(r, fn) PROVE FuturesAreOpen'
    <2>1. PICK h \in Handles : /\ h.future = <<>> /\ ~ h.stub
                               /\ calls' = [calls EXCEPT ![r] = Append(@, h)]
      BY <1>0, <1>7, RegisterFacts
    <2>2. futures' = futures \cup {counter + 1}
      BY <1>7 DEF CallRegisters
    <2>3. QED
      BY <1>4, <2>1, <2>2
  <1>8. ASSUME NEW r \in Runs, CallFires(r) PROVE FuturesAreOpen'
    <2> DEFINE k == Len(calls[r])
    <2>1. k \in Handed(r) /\ calls[r][k].state = "registered"
      BY <1>0, <1>8, CallFiresFacts
    <2>2. PICK h \in Handles : /\ h.id = calls[r][k].id /\ h.future = calls[r][k].future
                               /\ h.stub = calls[r][k].stub
                               /\ calls' = [calls EXCEPT ![r][k] = h]
      BY <1>0, <1>8, <2>1, CallFiresFacts
    <2>3. futures' = futures /\ ~ h.stub
      BY <1>0, <1>8, <2>1, <2>2 DEF CallFires
    <2>4. QED
      BY <1>5, <2>1, <2>2, <2>3
  <1>9. ASSUME NEW r \in Runs, NEW kind \in {"ok", "error", "timeout"},
               phase[r] = "waiting", Settle(r, kind)
        PROVE  FuturesAreOpen'
    <2>1. PICK k \in Handed(r), h \in Handles :
            /\ calls[r][k].state = "fired" /\ h.id = calls[r][k].id
            /\ h.future = calls[r][k].future /\ h.stub = calls[r][k].stub
            /\ calls' = [calls EXCEPT ![r][k] = h]
      BY <1>0, <1>9, SettleFacts
    <2>2. futures' = futures /\ ~ h.stub
      BY <1>0, <1>9, <2>1 DEF Settle, traffic
    <2>3. QED
      BY <1>5, <2>1, <2>2
  <1>10. QED
    BY <1>2, <1>3, <1>6, <1>7, <1>8, <1>9, CallSteps
    DEF Quiet, AnswerCall, Send, SendFails, progress

-----------------------------------------------------------------------------
(* Runs and jobs.                                                          *)

\* The run whose frame is at the head of the inbox is sent, and not read before.
LEMMA ReadRunFacts ==
  ASSUME TypeOK, RunsAreBehind, ReadRun
  PROVE  \E r \in Runs : /\ Head(inbox).run = r /\ phase[r] = "sent"
                         /\ phase' = [phase EXCEPT ![r] = "spawned"]
  BY ReadFacts, FrameFacts DEF ReadRun, RunsAreBehind

\* A run that leaves the pool's queue was queued.
LEMMA TakesFacts ==
  ASSUME TypeOK, JobsAreSingle, NEW job, Takes(job)
  PROVE  /\ job \in Runs => phase[job] = "queued"
         /\ job = "reload" => readLoop = "queued"
         /\ \A i \in DOMAIN jobs' :
              i \in Nat /\ i + 1 \in DOMAIN jobs /\ jobs'[i] = jobs[i + 1] /\ jobs'[i] # job
         /\ \A i, j \in DOMAIN jobs' : jobs'[i] = jobs'[j] => i = j
         /\ \A i \in DOMAIN jobs' : jobs'[i] \in Runs \cup {"reload"}
  <1>1. jobs \in Seq(Runs \cup {"reload"}) /\ jobs # <<>> /\ jobs' = Tail(jobs) /\ Head(jobs) = job
    BY DEF Takes, TypeOK
  <1>2. /\ 1 \in DOMAIN jobs /\ jobs[1] = job
        /\ \A i \in DOMAIN jobs' : i \in Nat /\ i + 1 \in DOMAIN jobs /\ i + 1 # 1
                                   /\ jobs'[i] = jobs[i + 1]
    BY <1>1, TailFacts
  <1>3. jobs' \in Seq(Runs \cup {"reload"})
    BY <1>1, TailFacts
  <1>4. \A i \in DOMAIN jobs' : jobs'[i] \in Runs \cup {"reload"}
    BY <1>3, ElementOfSeq, LenProperties
  <1>5. \A i, j \in DOMAIN jobs : jobs[i] = jobs[j] => i = j
    BY DEF JobsAreSingle, IsInjective
  <1>6. \A i \in DOMAIN jobs' : jobs'[i] # job
    BY <1>2, <1>5
  <1>7. \A i, j \in DOMAIN jobs' : jobs'[i] = jobs'[j] => i = j
    BY <1>2, <1>5
  <1>8. (job \in Runs => phase[job] = "queued") /\ (job = "reload" => readLoop = "queued")
    BY <1>2, ParametersTyped DEF JobsAreSingle
  <1>9. QED
    BY <1>2, <1>4, <1>6, <1>7, <1>8

\* A job joins the pool's queue once, and leaves it when a thread takes it.
LEMMA JobsStep == IInv /\ [Next]_vars => JobsAreSingle'
  <1> SUFFICES ASSUME IInv, [Next]_vars PROVE JobsAreSingle'
    OBVIOUS
  <1>0. TypeOK /\ RunsAreBehind /\ JobsAreSingle
        /\ jobs \in Seq(Runs \cup {"reload"})
        /\ \A i \in DOMAIN jobs : jobs[i] \in Runs \cup {"reload"}
    <2>1. TypeOK /\ RunsAreBehind /\ JobsAreSingle /\ jobs \in Seq(Runs \cup {"reload"})
      BY DEF IInv, TypeOK
    <2>2. QED
      BY <2>1, ElementOfSeq, LenProperties
  <1>1. /\ \A i \in DOMAIN jobs : jobs[i] = "reload" => readLoop = "queued"
        /\ \A i \in DOMAIN jobs : jobs[i] # "reload" => phase[jobs[i]] = "queued"
        /\ \A i, j \in DOMAIN jobs : jobs[i] = jobs[j] => i = j
    BY <1>0 DEF JobsAreSingle, IsInjective
  <1>2. ASSUME \A i \in DOMAIN jobs' : jobs'[i] = "reload" => readLoop' = "queued",
               \A i \in DOMAIN jobs' : jobs'[i] # "reload" => phase'[jobs'[i]] = "queued",
               \A i, j \in DOMAIN jobs' : jobs'[i] = jobs'[j] => i = j
        PROVE  JobsAreSingle'
    BY <1>2 DEF JobsAreSingle, IsInjective
  <1>3. ASSUME jobs' = jobs, readLoop = "queued" => readLoop' = "queued",
               \A r \in Runs : phase[r] = "queued" => phase'[r] = "queued"
        PROVE  JobsAreSingle'
    BY <1>0, <1>1, <1>2, <1>3
  <1>4. ASSUME NEW job, job \in Runs \cup {"reload"}, jobs' = Append(jobs, job),
               job = "reload" => readLoop' = "queued" /\ readLoop # "queued",
               job # "reload" => phase'[job] = "queued" /\ phase[job] # "queued",
               readLoop = "queued" => readLoop' = "queued",
               \A r \in Runs : phase[r] = "queued" => phase'[r] = "queued"
        PROVE  JobsAreSingle'
    <2> DEFINE n == Len(jobs) + 1
    <2>1. /\ DOMAIN jobs' = DOMAIN jobs \cup {n} /\ n \notin DOMAIN jobs
          /\ \A i \in DOMAIN jobs : jobs'[i] = jobs[i]
          /\ jobs'[n] = job
      BY <1>0, <1>4, AppendFacts
    <2> HIDE DEF n
    <2>2. \A i \in DOMAIN jobs : jobs[i] # job
      BY <1>1, <1>4
    <2>3. \A i \in DOMAIN jobs' : jobs'[i] = "reload" => readLoop' = "queued"
      BY <1>1, <1>4, <2>1
    <2>4. \A i \in DOMAIN jobs' : jobs'[i] # "reload" => phase'[jobs'[i]] = "queued"
      BY <1>0, <1>1, <1>4, <2>1
    <2>5. \A i, j \in DOMAIN jobs' : jobs'[i] = jobs'[j] => i = j
      BY <1>1, <2>1, <2>2
    <2>6. QED
      BY <1>2, <2>3, <2>4, <2>5
  <1>5. phase \in [Runs -> {"idle", "sent", "spawned", "queued", "begun", "injected", "running",
                            "calling", "waiting", "answered", "dropped"}]
    BY <1>0 DEF TypeOK
  <1> USE DEF loop, progress
  <1>6. ASSUME NEW r \in Runs, SendRun(r) PROVE JobsAreSingle'
    BY <1>3, <1>5, <1>6 DEF SendRun
  <1>7. CASE WriteSdk \/ SendReload \/ SendShapes
    BY <1>3, <1>7 DEF WriteSdk, SendReload, SendShapes
  <1>8. ASSUME NEW q \in upstream, AnswerCall(q) PROVE JobsAreSingle'
    BY <1>3, <1>8 DEF AnswerCall
  <1>9. CASE ReadRun
    <2>1. PICK r \in Runs : phase[r] = "sent" /\ phase' = [phase EXCEPT ![r] = "spawned"]
      BY <1>0, <1>9, ReadRunFacts
    <2>2. QED
      BY <1>3, <1>5, <1>9, <2>1 DEF ReadRun
  <1>10. CASE ReadReload
    BY <1>4, <1>10 DEF ReadReload, Reads, LoopFree
  <1>11. CASE ReadShapes \/ ReadResult
    BY <1>3, <1>11 DEF ReadShapes, ReadResult
  <1>12. ASSUME NEW r \in Runs, Submit(r) PROVE JobsAreSingle'
    BY <1>4, <1>5, <1>12, ParametersTyped DEF Submit
  <1>13. CASE StartReload
    <2>1. readLoop' = "loading" /\ phase' = phase /\ Takes("reload")
      BY <1>13 DEF StartReload
    <2>2. QED
      BY <1>0, <1>1, <1>2, <2>1, TakesFacts
  <1>14. CASE LoadHeader \/ LoadFunctions \/ ReloadFails
    BY <1>3, <1>14 DEF LoadHeader, LoadFunctions, ReloadFails
  <1>15. ASSUME NEW r \in Runs, NEW how, Takes(r), phase' = [phase EXCEPT ![r] = how],
                readLoop' = readLoop
         PROVE  JobsAreSingle'
    BY <1>0, <1>1, <1>2, <1>5, <1>15, TakesFacts
  <1>16. ASSUME NEW r \in Runs, Reject(r) \/ Begin(r) PROVE JobsAreSingle'
    BY <1>15, <1>16 DEF Reject, Begin
  <1>17. ASSUME NEW r \in Runs, Inject(r) \/ Wire(r) \/ Exit(r) PROVE JobsAreSingle'
    BY <1>3, <1>5, <1>17 DEF Inject, Wire, Exit
  <1>18. ASSUME NEW r \in Runs, Finish(r) \/ FinishUnsent(r) \/ CallPlaceholder(r)
         PROVE  JobsAreSingle'
    BY <1>3, <1>5, <1>18, LeaveFacts DEF Leaves
  <1>19. ASSUME NEW r \in Runs, NEW fn \in Fns, CallStubbed(r, fn) \/ CallRegisters(r, fn)
         PROVE  JobsAreSingle'
    BY <1>3, <1>5, <1>19 DEF CallStubbed, CallRegisters, CanCall
  <1>20. ASSUME NEW r \in Runs, CallFires(r) \/ \E k \in 1 .. MaxCalls : Read(r, k)
         PROVE  JobsAreSingle'
    BY <1>3, <1>5, <1>20 DEF CallFires, Read
  <1>21. ASSUME NEW r \in Runs, Resume(r) \/ CallTimesOut(r) PROVE JobsAreSingle'
    BY <1>3, <1>5, <1>21 DEF Resume, CallTimesOut, Settle
  <1>22. CASE UNCHANGED vars
    BY <1>3, <1>22 DEF vars
  <1>23. ASSUME NEW q \in sends, Send(q) \/ SendFails(q) PROVE JobsAreSingle'
    BY <1>3, <1>23 DEF Send, SendFails
  <1>24. QED
    BY <1>6, <1>7, <1>8, <1>9, <1>10, <1>11, <1>12, <1>13, <1>14, <1>16, <1>17, <1>18, <1>19,
       <1>20, <1>21, <1>22, <1>23
    DEF Next, Gateway, ReadLoop, Reload, Execute, Program

\* What CallsFollowPhase says of one run.
FollowsPhase(r) ==
  /\ phase[r] \in {"idle", "sent", "spawned", "queued", "begun", "injected"} => calls[r] = <<>>
  /\ Len(calls[r]) <= MaxCalls
  /\ \A k \in Handed(r) :
       IF calls[r][k].state = "registered"
       THEN /\ phase[r] = "calling" /\ k = Len(calls[r])
            /\ calls[r][k].id \in futures /\ calls[r][k].future = <<>>
       ELSE calls[r][k].sink \in Runs
  /\ phase[r] = "calling" => calls[r] # <<>> /\ calls[r][Len(calls[r])].state = "registered"
  /\ phase[r] = "waiting" => /\ waitingFor[r] \in Handed(r)
                             /\ calls[r][waitingFor[r]].state = "fired"
  /\ Executing(r) => ctx.sink \in Runs

\* The handles of a run are as far as the run is.
LEMMA PhaseStep == IInv /\ [Next]_vars => CallsFollowPhase'
  <1> SUFFICES ASSUME IInv, [Next]_vars PROVE CallsFollowPhase'
    OBVIOUS
  <1>0. TypeOK /\ CallsFollowPhase /\ IdsAreOwned /\ JobsAreSingle /\ RunsAreBehind
    BY DEF IInv
  <1>1. phase \in [Runs -> {"idle", "sent", "spawned", "queued", "begun", "injected", "running",
                            "calling", "waiting", "answered", "dropped"}]
        /\ waitingFor \in [Runs -> 0 .. MaxCalls]
        /\ futures \subseteq 1 .. counter
        /\ ctx.sink \in Runs \cup {None}
    BY <1>0 DEF TypeOK
  <1>2. \A r \in Runs : FollowsPhase(r)
    BY <1>0 DEF CallsFollowPhase, FollowsPhase
  <1>3. ASSUME \A r \in Runs : FollowsPhase(r)' PROVE CallsFollowPhase'
    BY <1>3 DEF CallsFollowPhase, FollowsPhase
  \* A run that does not take the step.
  <1>4. ASSUME NEW r \in Runs, phase'[r] = phase[r], calls'[r] = calls[r],
               waitingFor'[r] = waitingFor[r], futures \subseteq futures',
               ctx' = ctx \/ ctx'.sink \in Runs
        PROVE  FollowsPhase(r)'
    BY <1>2, <1>4 DEF FollowsPhase, Handed, Executing
  \* A run that goes on with the handles it has, none of them half made.
  <1>5. ASSUME NEW r \in Runs,
               NEW to \in {"sent", "spawned", "queued", "begun", "injected", "running", "answered", "dropped"},
               phase' = [phase EXCEPT ![r] = to],
               \/ to \in {"running", "answered", "dropped"} /\ phase[r] # "calling"
               \/ phase[r] \in {"idle", "sent", "spawned", "queued", "begun", "injected"},
               to \in {"begun", "injected", "running"} => ctx'.sink \in Runs,
               calls' = calls, futures' = futures, ctx' = ctx \/ ctx'.sink \in Runs,
               \A q \in Runs \ {r} : waitingFor'[q] = waitingFor[q]
        PROVE  CallsFollowPhase'
    <2>1. phase'[r] = to /\ \A q \in Runs \ {r} : phase'[q] = phase[q]
      BY <1>1, <1>5
    <2>2. FollowsPhase(r)'
      BY <1>2, <1>5, <2>1 DEF FollowsPhase, Handed, Executing
    <2>3. \A q \in Runs \ {r} : FollowsPhase(q)'
      BY <1>4, <1>5, <2>1
    <2>4. QED
      BY <1>3, <2>2, <2>3
  <1>6. CASE UNCHANGED <<progress, futures, ctx>>
    BY <1>3, <1>4, <1>6 DEF progress
  <1> USE DEF loop, progress, traffic
  <1>7. ASSUME NEW r \in Runs, SendRun(r) PROVE CallsFollowPhase'
    <2>1. phase[r] = "idle" /\ phase' = [phase EXCEPT ![r] = "sent"]
          /\ UNCHANGED <<calls, waitingFor, futures, ctx>>
      BY <1>7 DEF SendRun
    <2>2. QED
      BY <1>5, <2>1
  <1>8. CASE WriteSdk \/ SendReload \/ SendShapes
    BY <1>6, <1>8 DEF WriteSdk, SendReload, SendShapes
  <1>9. ASSUME NEW q \in upstream, AnswerCall(q) PROVE CallsFollowPhase'
    BY <1>6, <1>9 DEF AnswerCall
  <1>10. CASE ReadRun
    <2>1. PICK r \in Runs : phase[r] = "sent" /\ phase' = [phase EXCEPT ![r] = "spawned"]
      BY <1>0, <1>10, ReadRunFacts
    <2>2. QED
      BY <1>5, <1>10, <2>1 DEF ReadRun
  <1>11. CASE ReadReload \/ ReadShapes \/ Reload
    BY <1>6, <1>11 DEF ReadReload, ReadShapes, Reload, StartReload, LoadHeader, LoadFunctions,
                       ReloadFails
  <1>12. CASE ReadResult
    <2>1. Head(inbox) \in Results
      BY <1>0, <1>12, ReadResults DEF ReadResult
    <2>2. PICK f \in Results : calls' = Resolved(f) /\ futures' = futures \ {f.id}
      BY <1>12, <2>1 DEF ReadResult
    <2>3. phase' = phase /\ waitingFor' = waitingFor /\ ctx' = ctx
      BY <1>12 DEF ReadResult
    <2>4. ASSUME NEW r \in Runs
          PROVE  /\ DOMAIN calls'[r] = Handed(r) /\ Len(calls'[r]) = Len(calls[r])
                 /\ calls'[r] \in Seq(Handles) /\ calls[r] \in Seq(Handles)
                 /\ \A k \in Handed(r) :
                      /\ calls'[r][k].state = calls[r][k].state
                      /\ calls'[r][k].sink = calls[r][k].sink
                      /\ calls[r][k].id # f.id => calls'[r][k] = calls[r][k]
      BY <1>0, <2>2, ResultFacts, ResolvedFacts, HandleFacts
    <2>5. ASSUME NEW r \in Runs, NEW k \in Handed(r), calls[r][k].id = f.id
          PROVE  calls[r][k].state # "registered"
      <3>1. PICK i \in DOMAIN inbox : inbox[i] = f /\ inbox[i].type = "result"
        BY DEF Results
      <3>2. Issued(f.id, f.of) /\ f.of = <<r, k>>
        BY <1>0, <2>5, <3>1, ResultFacts DEF IdsAreOwned
      <3>3. QED
        BY <3>2 DEF Issued, Fired
    <2>6. ASSUME NEW r \in Runs PROVE FollowsPhase(r)'
      <3>1. calls'[r] = <<>> <=> calls[r] = <<>>
        BY <2>4, EmptySeq
      <3>2. \A k \in Handed(r) :
              calls[r][k].state = "registered" => calls'[r][k] = calls[r][k]
                                                  /\ calls[r][k].id \in futures'
        BY <1>2, <2>2, <2>4, <2>5 DEF FollowsPhase
      <3>3. QED
        <4>1. Executing(r)' => ctx'.sink \in Runs
          BY <1>2, <2>3 DEF FollowsPhase, Executing
        <4>2. phase'[r] = "waiting" => /\ waitingFor'[r] \in DOMAIN calls'[r]
                                       /\ calls'[r][waitingFor'[r]].state = "fired"
          BY <1>2, <2>3, <2>4 DEF FollowsPhase
        <4>3. \A k \in DOMAIN calls'[r] :
                IF calls'[r][k].state = "registered"
                THEN /\ phase'[r] = "calling" /\ k = Len(calls'[r])
                     /\ calls'[r][k].id \in futures' /\ calls'[r][k].future = <<>>
                ELSE calls'[r][k].sink \in Runs
          BY <1>2, <2>3, <2>4, <3>2 DEF FollowsPhase
        <4>4. phase'[r] = "calling" => /\ calls'[r] # <<>>
                                       /\ calls'[r][Len(calls'[r])].state = "registered"
          <5>1. calls[r] # <<>> => Len(calls[r]) \in Handed(r)
            BY <1>0, HandleFacts, EmptySeq
          <5>2. QED
            BY <1>2, <2>3, <2>4, <3>1, <5>1 DEF FollowsPhase
        <4>5. QED
          BY <1>2, <2>3, <2>4, <3>1, <4>1, <4>2, <4>3, <4>4 DEF FollowsPhase, Handed
    <2>7. QED
      BY <1>3, <2>6
  <1>13. ASSUME NEW r \in Runs, Submit(r) PROVE CallsFollowPhase'
    <2>1. phase[r] = "spawned" /\ phase' = [phase EXCEPT ![r] = "queued"]
          /\ UNCHANGED <<calls, waitingFor, futures, ctx>>
      BY <1>13 DEF Submit
    <2>2. QED
      BY <1>5, <2>1
  <1>14. ASSUME NEW r \in Runs, Reject(r) PROVE CallsFollowPhase'
    <2>1. phase[r] = "queued"
      BY <1>0, <1>14, TakesFacts DEF Reject
    <2>2. phase' = [phase EXCEPT ![r] = "answered"] /\ UNCHANGED <<calls, waitingFor, futures, ctx>>
      BY <1>14 DEF Reject
    <2>3. QED
      BY <1>5, <2>1, <2>2
  <1>15. ASSUME NEW r \in Runs, Begin(r) PROVE CallsFollowPhase'
    <2>1. phase[r] = "queued" /\ ctx'.sink = r
      BY <1>0, <1>15, TakesFacts DEF Begin
    <2>2. phase' = [phase EXCEPT ![r] = "begun"] /\ UNCHANGED <<calls, waitingFor, futures>>
      BY <1>15 DEF Begin
    <2>3. QED
      BY <1>5, <2>1, <2>2
  <1>16. ASSUME NEW r \in Runs, Inject(r) \/ Wire(r) PROVE CallsFollowPhase'
    <2>1. phase[r] \in {"begun", "injected"} /\ ctx' = ctx
      BY <1>16 DEF Inject, Wire
    <2>2. ctx'.sink \in Runs
      BY <1>2, <2>1 DEF FollowsPhase, Executing
    <2>3. QED
      BY <1>5, <1>16, <2>1, <2>2 DEF Inject, Wire
  <1>17. ASSUME NEW r \in Runs, Exit(r) PROVE CallsFollowPhase'
    BY <1>6, <1>17 DEF Exit
  <1>18. ASSUME NEW r \in Runs, Finish(r) \/ FinishUnsent(r) \/ CallPlaceholder(r)
         PROVE  CallsFollowPhase'
    <2>1. PICK how \in {"answered", "dropped"} : Leaves(r, how) /\ phase[r] = "running"
      BY <1>18, LeaveFacts
    <2>2. \A q \in Runs \ {r} : waitingFor'[q] = waitingFor[q]
      BY <1>1, <2>1 DEF Leaves
    <2>3. QED
      BY <1>5, <2>1, <2>2 DEF Leaves, setup
  \* A new handle.
  <1>19. ASSUME NEW r \in Runs, NEW h \in Handles, calls' = [calls EXCEPT ![r] = Append(@, h)],
                CanCall(r), waitingFor' = waitingFor, ctx' = ctx, futures \subseteq futures',
                \/ h.state = "ok" /\ h.sink \in Runs /\ phase' = phase
                \/ /\ h.state = "registered" /\ h.id \in futures' /\ h.future = <<>>
                   /\ phase' = [phase EXCEPT ![r] = "calling"]
         PROVE  CallsFollowPhase'
    <2>1. /\ Len(calls'[r]) = Len(calls[r]) + 1
          /\ DOMAIN calls'[r] = Handed(r) \cup {Len(calls[r]) + 1}
          /\ calls'[r][Len(calls[r]) + 1] = h
          /\ \A k \in Handed(r) : calls'[r][k] = calls[r][k]
          /\ \A q \in Runs \ {r} : calls'[q] = calls[q]
          /\ calls' \in [Runs -> Seq(Handles)]
      BY <1>0, <1>19, NewCallFacts
    <2>2. /\ Len(calls[r]) + 1 \in Nat /\ Len(calls[r]) + 1 <= MaxCalls
          /\ phase[r] = "running" /\ ctx.sink \in Runs
          /\ \A k \in Handed(r) : calls[r][k].state # "registered" /\ calls[r][k].sink \in Runs
      BY <1>0, <1>2, <1>19, HandleFacts, ParametersTyped DEF CanCall, FollowsPhase, Executing
    <2>3. calls'[r] # <<>>
      BY <2>1, EmptySeq
    <2>4. phase'[r] \in {"running", "calling"} /\ \A q \in Runs \ {r} : phase'[q] = phase[q]
      BY <1>1, <1>19, <2>2
    <2>5. FollowsPhase(r)'
      <3>1. CASE phase' = phase /\ h.state = "ok" /\ h.sink \in Runs
        BY <1>19, <2>1, <2>2, <2>3, <3>1 DEF FollowsPhase, Handed, Executing
      <3>2. CASE /\ h.state = "registered" /\ h.id \in futures' /\ h.future = <<>>
                 /\ phase' = [phase EXCEPT ![r] = "calling"]
        BY <1>1, <1>19, <2>1, <2>2, <2>3, <3>2 DEF FollowsPhase, Handed, Executing
      <3>3. QED
        BY <1>19, <3>1, <3>2
    <2>6. \A q \in Runs \ {r} : FollowsPhase(q)'
      BY <1>4, <1>19, <2>1, <2>4
    <2>7. QED
      BY <1>3, <2>5, <2>6
  <1>20. ASSUME NEW r \in Runs, NEW fn \in Fns, CallStubbed(r, fn) PROVE CallsFollowPhase'
    <2>1. PICK h \in Handles : /\ h.state = "ok" /\ h.sink \in Runs
                               /\ calls' = [calls EXCEPT ![r] = Append(@, h)]
      BY <1>0, <1>20, StubFacts
    <2>2. QED
      BY <1>19, <1>20, <2>1 DEF CallStubbed
  <1>21. ASSUME NEW r \in Runs, NEW fn \in Fns, CallRegisters(r, fn) PROVE CallsFollowPhase'
    <2>1. PICK h \in Handles : /\ h.state = "registered" /\ h.id = counter + 1 /\ h.future = <<>>
                               /\ calls' = [calls EXCEPT ![r] = Append(@, h)]
      BY <1>0, <1>21, RegisterFacts
    <2>2. QED
      BY <1>19, <1>21, <2>1 DEF CallRegisters
  \* A handle moves on.
  <1>22. ASSUME NEW r \in Runs, NEW k \in Handed(r), NEW h \in Handles,
                calls' = [calls EXCEPT ![r][k] = h],
                h.state # "registered", h.sink \in Runs, ctx' = ctx, futures' = futures,
                \/ phase[r] = "calling" /\ k = Len(calls[r])
                \/ phase[r] = "waiting",
                phase' = [phase EXCEPT ![r] = "running"],
                \A q \in Runs \ {r} : waitingFor'[q] = waitingFor[q]
         PROVE  CallsFollowPhase'
    <2>1. /\ \A q \in Runs : DOMAIN calls'[q] = Handed(q) /\ Len(calls'[q]) = Len(calls[q])
          /\ calls'[r][k] = h
          /\ \A j \in Handed(r) \ {k} : calls'[r][j] = calls[r][j]
          /\ \A q \in Runs \ {r} : calls'[q] = calls[q]
      BY <1>0, <1>22, ChangedCallFacts
    <2>2. phase'[r] = "running" /\ \A q \in Runs \ {r} : phase'[q] = phase[q]
      BY <1>1, <1>22
    <2>3. \A j \in Handed(r) \ {k} : calls[r][j].state # "registered" /\ calls[r][j].sink \in Runs
      BY <1>2, <1>22 DEF FollowsPhase
    <2>4. FollowsPhase(r)'
      BY <1>2, <1>22, <2>1, <2>2, <2>3 DEF FollowsPhase, Handed, Executing
    <2>5. \A q \in Runs \ {r} : FollowsPhase(q)'
      BY <1>4, <1>22, <2>1, <2>2
    <2>6. QED
      BY <1>3, <2>4, <2>5
  <1>23. ASSUME NEW r \in Runs, CallFires(r) PROVE CallsFollowPhase'
    <2>1. PICK k : k = Len(calls[r]) /\ k \in Handed(r)
      BY <1>0, <1>23, CallFiresFacts
    <2>2. PICK h \in Handles : /\ h.state = "fired" /\ h.sink \in Runs
                               /\ calls' = [calls EXCEPT ![r][k] = h]
      BY <1>0, <1>23, <2>1, CallFiresFacts
    <2>3. QED
      BY <1>22, <1>23, <2>1, <2>2 DEF CallFires
  <1>24. ASSUME NEW r \in Runs, NEW k \in 1 .. MaxCalls, Read(r, k) PROVE CallsFollowPhase'
    <2>1. phase[r] = "running" /\ phase'[r] = "waiting" /\ waitingFor'[r] = k /\ calls' = calls
          /\ ctx' = ctx /\ futures' = futures /\ k \in Handed(r) /\ calls[r][k].state = "fired"
          /\ \A q \in Runs \ {r} : phase'[q] = phase[q] /\ waitingFor'[q] = waitingFor[q]
      BY <1>1, <1>24 DEF Read, Handed
    <2>2. FollowsPhase(r)'
      BY <1>2, <2>1 DEF FollowsPhase, Handed, Executing
    <2>3. \A q \in Runs \ {r} : FollowsPhase(q)'
      BY <1>4, <2>1
    <2>4. QED
      BY <1>3, <2>2, <2>3
  <1>25. ASSUME NEW r \in Runs, NEW kind \in {"ok", "error", "timeout"},
                phase[r] = "waiting", Settle(r, kind)
         PROVE  CallsFollowPhase'
    <2>1. PICK k \in Handed(r), h \in Handles :
            h.state = kind /\ h.sink \in Runs /\ calls' = [calls EXCEPT ![r][k] = h]
      BY <1>0, <1>25, SettleFacts
    <2>2. \A q \in Runs \ {r} : waitingFor'[q] = waitingFor[q]
      BY <1>1, <1>25 DEF Settle
    <2>3. QED
      BY <1>22, <1>25, <2>1, <2>2 DEF Settle
  <1>26. ASSUME NEW r \in Runs, Resume(r) \/ CallTimesOut(r) PROVE CallsFollowPhase'
    BY <1>25, <1>26 DEF Resume, CallTimesOut
  <1>27. CASE UNCHANGED vars
    BY <1>6, <1>27 DEF vars
  <1>28. ASSUME NEW q \in sends, Send(q) \/ SendFails(q) PROVE CallsFollowPhase'
    BY <1>6, <1>28 DEF Send, SendFails
  <1>29. QED
    BY <1>7, <1>8, <1>9, <1>10, <1>11, <1>12, <1>13, <1>14, <1>15, <1>16, <1>17, <1>18, <1>20,
       <1>21, <1>23, <1>24, <1>26, <1>27, <1>28
    DEF Next, Gateway, ReadLoop, Execute, Program

-----------------------------------------------------------------------------
(* Traces.                                                                 *)

\* A record names a run and a place among its handles.
LEMMA TraceFacts ==
  ASSUME TypeOK, NEW q \in Runs
  PROVE  /\ trace[q] \in Seq(Records)
         /\ \A i \in DOMAIN trace[q] :
              LET of == trace[q][i].of IN of \in Keys /\ of[1] \in Runs /\ of = <<of[1], of[2]>>
  <1>1. trace[q] \in Seq(Records)
    BY DEF TypeOK
  <1>2. \A i \in DOMAIN trace[q] : trace[q][i] \in Records
    BY <1>1, ElementOfSeq, LenProperties
  <1>3. \A i \in DOMAIN trace[q] : trace[q][i].of \in Keys
    BY <1>2 DEF Records
  <1>4. \A of \in Keys : of[1] \in Runs /\ of = <<of[1], of[2]>>
    BY DEF Keys
  <1>5. QED
    BY <1>1, <1>3, <1>4

\* The k-th call of run r is settled, and recorded as e in the sink of run s.
NewlySettled(r, k, s, e) ==
  /\ e.of = <<r, k>>
  /\ trace' = [trace EXCEPT ![s] = Append(@, e)]
  /\ k \in Handed(r) => ~ Settled(calls[r][k])
  /\ k \in DOMAIN calls'[r] /\ Settled(calls'[r][k])
  /\ \A q \in Runs : \A j \in Handed(q) : q # r \/ j # k =>
       j \in DOMAIN calls'[q] /\ calls'[q][j] = calls[q][j]
  /\ \A q \in Runs : \A j \in DOMAIN calls'[q] : q # r \/ j # k => j \in Handed(q)

\* A call is recorded when it is settled, and then only.
LEMMA RecordsStep == IInv /\ [Next]_vars => RecordsFollowCalls'
  <1> SUFFICES ASSUME IInv, [Next]_vars PROVE RecordsFollowCalls'
    OBVIOUS
  <1>0. TypeOK /\ CallsFollowPhase /\ IdsAreOwned
    BY DEF IInv
  <1>1. /\ \A q \in Runs : \A i \in DOMAIN trace[q] :
             LET of == trace[q][i].of IN of[2] \in Handed(of[1]) /\ Settled(calls[of[1]][of[2]])
        /\ \A q, p \in Runs : \A i \in DOMAIN trace[q], j \in DOMAIN trace[p] :
             trace[q][i].of = trace[p][j].of => q = p /\ i = j
        /\ \A r \in Runs : \A k \in Handed(r) : Settled(calls[r][k]) =>
             \E q \in Runs : \E i \in DOMAIN trace[q] : trace[q][i].of = <<r, k>>
    BY DEF IInv, RecordsFollowCalls
  <1>2. \A q \in Runs : \A i \in DOMAIN trace[q] :
          trace[q][i].of[1] \in Runs /\ trace[q][i].of = <<trace[q][i].of[1], trace[q][i].of[2]>>
    BY <1>0, TraceFacts
  \* Nothing is settled.
  <1>3. ASSUME trace' = trace,
               \A r \in Runs : Handed(r) \subseteq DOMAIN calls'[r],
               \A r \in Runs : \A k \in Handed(r) :
                 Settled(calls'[r][k]) <=> Settled(calls[r][k]),
               \A r \in Runs : \A k \in DOMAIN calls'[r] :
                 Settled(calls'[r][k]) => k \in Handed(r)
        PROVE  RecordsFollowCalls'
    <2>1. \A q \in Runs : \A i \in DOMAIN trace'[q] :
             LET of == trace'[q][i].of IN of[2] \in DOMAIN calls'[of[1]]
                                          /\ Settled(calls'[of[1]][of[2]])
      BY <1>1, <1>2, <1>3
    <2>2. ASSUME NEW r \in Runs, NEW k \in DOMAIN calls'[r], Settled(calls'[r][k])
          PROVE  \E q \in Runs : \E i \in DOMAIN trace'[q] : trace'[q][i].of = <<r, k>>
      <3>1. k \in Handed(r) /\ Settled(calls[r][k])
        BY <1>3, <2>2
      <3>2. QED
        BY <1>1, <1>3, <3>1
    <2>3. \A q, p \in Runs : \A i \in DOMAIN trace'[q], j \in DOMAIN trace'[p] :
             trace'[q][i].of = trace'[p][j].of => q = p /\ i = j
      BY <1>1, <1>3
    <2>4. QED
      BY <2>1, <2>2, <2>3 DEF RecordsFollowCalls, Handed, Settled
  \* One call is settled, and recorded.
  <1>4. ASSUME NEW r \in Runs, NEW k, NEW s \in Runs, NEW e \in Records, NewlySettled(r, k, s, e)
        PROVE  RecordsFollowCalls'
    <2>0. /\ e.of = <<r, k>>
          /\ trace' = [trace EXCEPT ![s] = Append(@, e)]
          /\ k \in Handed(r) => ~ Settled(calls[r][k])
          /\ k \in DOMAIN calls'[r] /\ Settled(calls'[r][k])
          /\ \A q \in Runs : \A j \in Handed(q) : q # r \/ j # k =>
               j \in DOMAIN calls'[q] /\ calls'[q][j] = calls[q][j]
          /\ \A q \in Runs : \A j \in DOMAIN calls'[q] : q # r \/ j # k => j \in Handed(q)
      BY <1>4 DEF NewlySettled
    <2> DEFINE n == Len(trace[s]) + 1
    <2>1. /\ DOMAIN trace'[s] = DOMAIN trace[s] \cup {n} /\ n \notin DOMAIN trace[s]
          /\ trace'[s][n] = e
          /\ \A i \in DOMAIN trace[s] : trace'[s][i] = trace[s][i]
          /\ \A p \in Runs \ {s} : trace'[p] = trace[p]
      BY <1>0, <2>0, RecordFacts
    <2> HIDE DEF n
    <2>2. \A q \in Runs : \A i \in DOMAIN trace'[q] :
            \/ q = s /\ i = n /\ trace'[q][i].of = <<r, k>>
            \/ i \in DOMAIN trace[q] /\ trace'[q][i] = trace[q][i]
      BY <2>0, <2>1
    <2>3. \A q \in Runs : \A i \in DOMAIN trace[q] : trace[q][i].of # <<r, k>>
      BY <1>1, <2>0
    <2>4. ASSUME NEW q \in Runs, NEW i \in DOMAIN trace'[q]
          PROVE  LET of == trace'[q][i].of IN of[2] \in DOMAIN calls'[of[1]]
                                              /\ Settled(calls'[of[1]][of[2]])
      <3>1. CASE trace'[q][i].of = <<r, k>>
        BY <2>0, <3>1
      <3>2. CASE i \in DOMAIN trace[q] /\ trace'[q][i] = trace[q][i]
        <4>1. PICK a, b : /\ a \in Runs
                          /\ trace[q][i].of = <<a, b>> /\ b \in Handed(a) /\ Settled(calls[a][b])
          BY <1>1, <1>2, <3>2
        <4>2. a # r \/ b # k
          BY <2>3, <3>2, <4>1
        <4>3. QED
          BY <2>0, <3>2, <4>1, <4>2
      <3>3. QED
        BY <2>2, <3>1, <3>2
    <2>5. ASSUME NEW q \in Runs, NEW p \in Runs, NEW i \in DOMAIN trace'[q], NEW j \in DOMAIN trace'[p],
                 trace'[q][i].of = trace'[p][j].of
          PROVE  q = p /\ i = j
      BY <1>1, <2>2, <2>3, <2>5
    <2>6. ASSUME NEW q \in Runs, NEW j \in DOMAIN calls'[q], Settled(calls'[q][j])
          PROVE  \E p \in Runs : \E i \in DOMAIN trace'[p] : trace'[p][i].of = <<q, j>>
      <3>1. CASE q = r /\ j = k
        BY <2>0, <2>1, <3>1
      <3>2. CASE q # r \/ j # k
        <4>1. j \in Handed(q) /\ Settled(calls[q][j])
          BY <2>0, <2>6, <3>2
        <4>2. PICK p \in Runs : \E i \in DOMAIN trace[p] : trace[p][i].of = <<q, j>>
          BY <1>1, <4>1
        <4>3. PICK i \in DOMAIN trace[p] : trace[p][i].of = <<q, j>>
          BY <4>2
        <4>4. i \in DOMAIN trace'[p] /\ trace'[p][i] = trace[p][i]
          BY <2>1
        <4>5. QED
          BY <4>3, <4>4
      <3>3. QED
        BY <3>1, <3>2
    <2>7. QED
      BY <2>4, <2>5, <2>6 DEF RecordsFollowCalls, Handed, Settled
  <1>5. CASE UNCHANGED <<calls, trace>>
    BY <1>3, <1>5 DEF Handed
  <1>6. CASE ReadResult
    <2>1. Head(inbox) \in Results
      BY <1>0, <1>6, ReadResults DEF ReadResult
    <2>2. PICK f \in Results : calls' = Resolved(f) /\ trace' = trace
      BY <1>6, <2>1 DEF ReadResult, traces
    <2>3. \A r \in Runs : /\ DOMAIN calls'[r] = Handed(r)
                          /\ \A k \in Handed(r) : calls'[r][k].state = calls[r][k].state
      BY <1>0, <2>2, ResultFacts, ResolvedFacts
    <2>4. QED
      BY <1>3, <2>2, <2>3 DEF Settled
  <1>7. ASSUME NEW r \in Runs, NEW fn \in Fns, CallStubbed(r, fn) PROVE RecordsFollowCalls'
    <2>1. PICK h \in Handles :
            /\ h.state = "ok" /\ calls' = [calls EXCEPT ![r] = Append(@, h)] /\ ctx.sink \in Runs
            /\ [of |-> Key(r), kind |-> "dry_run"] \in Records
            /\ trace' = [trace EXCEPT ![ctx.sink] =
                                      Append(@, [of |-> Key(r), kind |-> "dry_run"])]
      BY <1>0, <1>7, StubFacts
    <2>2. PICK k : k = Len(calls[r]) + 1
      OBVIOUS
    <2>8. PICK e \in Records : e.of = <<r, k>> /\ trace' = [trace EXCEPT ![ctx.sink] = Append(@, e)]
      BY <2>1, <2>2 DEF Key
    <2>3. /\ DOMAIN calls'[r] = Handed(r) \cup {k} /\ k \notin Handed(r) /\ calls'[r][k] = h
          /\ \A j \in Handed(r) : calls'[r][j] = calls[r][j]
          /\ \A q \in Runs \ {r} : calls'[q] = calls[q]
      BY <1>0, <2>1, <2>2, NewCallFacts
    <2>4. \A q \in Runs : \A j \in DOMAIN calls'[q] : q # r \/ j # k => j \in Handed(q)
      BY <2>3 DEF Handed
    <2>5. \A q \in Runs : \A j \in Handed(q) : q # r \/ j # k =>
            j \in DOMAIN calls'[q] /\ calls'[q][j] = calls[q][j]
      BY <2>3 DEF Handed
    <2>6. k \in DOMAIN calls'[r] /\ Settled(calls'[r][k])
      BY <2>1, <2>3 DEF Settled
    <2>7. QED
      <3>1. k \in Handed(r) => ~ Settled(calls[r][k])
        BY <2>3
      <3>2. ctx.sink \in Runs
        BY <2>1
      <3>3. NewlySettled(r, k, ctx.sink, e)
        BY <2>4, <2>5, <2>6, <2>8, <3>1 DEF NewlySettled
      <3>4. QED
        BY <1>4, <3>2, <3>3
  <1>8. ASSUME NEW r \in Runs, NEW fn \in Fns, CallRegisters(r, fn) PROVE RecordsFollowCalls'
    <2>1. PICK h \in Handles : h.state = "registered" /\ calls' = [calls EXCEPT ![r] = Append(@, h)]
      BY <1>0, <1>8, RegisterFacts
    <2>2. /\ DOMAIN calls'[r] = Handed(r) \cup {Len(calls[r]) + 1}
          /\ calls'[r][Len(calls[r]) + 1] = h
          /\ \A k \in Handed(r) : calls'[r][k] = calls[r][k]
          /\ \A q \in Runs \ {r} : calls'[q] = calls[q]
      BY <1>0, <2>1, NewCallFacts
    <2>3. \A q \in Runs : \A k \in Handed(q) : k \in DOMAIN calls'[q] /\ calls'[q][k] = calls[q][k]
      BY <2>2 DEF Handed
    <2>4. \A q \in Runs : \A k \in DOMAIN calls'[q] : Settled(calls'[q][k]) => k \in Handed(q)
      BY <2>1, <2>2 DEF Settled, Handed
    <2>5. trace' = trace
      BY <1>8 DEF CallRegisters, traces
    <2>6. QED
      BY <1>3, <2>3, <2>4, <2>5
  <1>9. ASSUME NEW r \in Runs, CallFires(r) PROVE RecordsFollowCalls'
    <2>1. PICK k : k = Len(calls[r]) /\ k \in Handed(r) /\ calls[r][k].state = "registered"
      BY <1>0, <1>9, CallFiresFacts
    <2>2. PICK h \in Handles : h.state = "fired" /\ calls' = [calls EXCEPT ![r][k] = h]
      BY <1>0, <1>9, <2>1, CallFiresFacts
    <2>3. \A q \in Runs : /\ DOMAIN calls'[q] = Handed(q)
                          /\ \A j \in Handed(q) :
                               calls'[q][j] = IF q = r /\ j = k THEN h ELSE calls[q][j]
      BY <1>0, <2>1, <2>2, ChangedCallFacts
    <2>4. trace' = trace
      BY <1>9 DEF CallFires, traces
    <2>5. QED
      BY <1>3, <2>1, <2>2, <2>3, <2>4 DEF Settled
  <1>10. ASSUME NEW r \in Runs, NEW kind \in {"ok", "error", "timeout"},
                phase[r] = "waiting", Settle(r, kind)
         PROVE  RecordsFollowCalls'
    <2>1. PICK k \in Handed(r), s \in Runs, h \in Handles, e \in Records :
            /\ k = waitingFor[r] /\ s = calls[r][k].sink /\ calls[r][k].state = "fired"
            /\ h.fn = calls[r][k].fn /\ h.id = calls[r][k].id /\ h.sink = s
            /\ h.future = calls[r][k].future /\ h.state = kind
            /\ e.of = <<r, k>>
            /\ calls' = [calls EXCEPT ![r][k] = h]
            /\ trace' = [trace EXCEPT ![s] = Append(@, e)]
      BY <1>0, <1>10, SettleFacts
    <2>2. \A q \in Runs : /\ DOMAIN calls'[q] = Handed(q)
                          /\ \A j \in Handed(q) :
                               calls'[q][j] = IF q = r /\ j = k THEN h ELSE calls[q][j]
      BY <1>0, <2>1, ChangedCallFacts
    <2>3. ~ Settled(calls[r][k]) /\ k \in DOMAIN calls'[r] /\ Settled(calls'[r][k])
      BY <2>1, <2>2 DEF Settled
    <2>4. /\ \A q \in Runs : \A j \in Handed(q) : q # r \/ j # k =>
               j \in DOMAIN calls'[q] /\ calls'[q][j] = calls[q][j]
          /\ \A q \in Runs : \A j \in DOMAIN calls'[q] : q # r \/ j # k => j \in Handed(q)
      BY <2>2
    <2>5. QED
      <3>1. e.of = <<r, k>> /\ trace' = [trace EXCEPT ![s] = Append(@, e)]
        BY <2>1
      <3>2. NewlySettled(r, k, s, e)
        BY <2>3, <2>4, <3>1 DEF NewlySettled
      <3>3. QED
        BY <1>4, <3>2
  <1>11. QED
    BY <1>5, <1>6, <1>7, <1>8, <1>9, <1>10, CallSteps
    DEF Quiet, AnswerCall, Send, SendFails, progress, traces

\* What leaves the context, the reports and who executes as they are.
Steady ==
  /\ UNCHANGED <<ctx, overlapped, report>>
  /\ \A r \in Runs : /\ phase'[r] = "answered" <=> phase[r] = "answered"
                     /\ Executing(r)' => Executing(r)

\* The steps that begin and answer runs.
LEMMA RunSteps ==
  ASSUME IInv, [Next]_vars
  PROVE  /\ dry' = dry
         /\ \/ Steady
            \/ \E r \in Runs : Begin(r) \/ Reject(r)
            \/ \E r \in Runs : /\ Leaves(r, "answered") /\ phase[r] = "running"
                               /\ report' = [report EXCEPT ![r] = trace[r]]
                               /\ UNCHANGED <<ctx, overlapped>>
  <1>0. TypeOK /\ RunsAreBehind
        /\ phase \in [Runs -> {"idle", "sent", "spawned", "queued", "begun", "injected", "running",
                               "calling", "waiting", "answered", "dropped"}]
    BY DEF IInv, TypeOK
  <1> USE DEF setup, traces, history, progress
  <1>1. ASSUME NEW r \in Runs,
               NEW to \in {"sent", "spawned", "queued", "begun", "injected", "running",
                           "calling", "waiting", "answered", "dropped"},
               phase' = [phase EXCEPT ![r] = to], phase[r] # "answered", to # "answered",
               to \in {"begun", "injected", "running", "calling", "waiting"} => Executing(r),
               UNCHANGED <<ctx, overlapped, report>>
        PROVE  Steady
    BY <1>0, <1>1 DEF Steady, Executing
  <1>2. ASSUME UNCHANGED <<phase, ctx, overlapped, report, dry>> PROVE Steady /\ dry' = dry
    BY <1>2 DEF Steady, Executing
  <1>3. ASSUME NEW r \in Runs, SendRun(r) \/ Submit(r) PROVE Steady /\ dry' = dry
    <2>1. PICK to \in {"sent", "queued"} :
            /\ phase' = [phase EXCEPT ![r] = to] /\ phase[r] # "answered"
            /\ UNCHANGED <<ctx, overlapped, report, dry>>
      BY <1>3 DEF SendRun, Submit
    <2>2. QED
      BY <1>1, <2>1
  <1>4. CASE \/ WriteSdk \/ SendReload \/ SendShapes
             \/ ReadReload \/ ReadShapes \/ ReadResult \/ Reload
    <2>1. UNCHANGED <<phase, ctx, overlapped, report, dry>>
      BY <1>4 DEF WriteSdk, SendReload, SendShapes, ReadReload, ReadShapes, ReadResult, Reload,
                  StartReload, LoadHeader, LoadFunctions, ReloadFails
    <2>2. QED
      BY <1>2, <2>1
  <1>5. ASSUME NEW q \in upstream, AnswerCall(q) PROVE Steady /\ dry' = dry
    BY <1>2, <1>5 DEF AnswerCall
  <1>6. CASE ReadRun
    <2>1. PICK r \in Runs : phase[r] = "sent" /\ phase' = [phase EXCEPT ![r] = "spawned"]
      BY <1>0, <1>6, ReadRunFacts
    <2>2. UNCHANGED <<ctx, overlapped, report, dry>>
      BY <1>6 DEF ReadRun
    <2>3. QED
      BY <1>1, <2>1, <2>2
  <1>7. ASSUME NEW r \in Runs, Begin(r) \/ Reject(r) PROVE dry' = dry
    BY <1>7 DEF Begin, Reject
  <1>8. ASSUME NEW r \in Runs, Inject(r) \/ Wire(r) PROVE Steady /\ dry' = dry
    <2>1. PICK to \in {"injected", "running"} :
            /\ phase' = [phase EXCEPT ![r] = to] /\ phase[r] \in {"begun", "injected"}
            /\ UNCHANGED <<ctx, overlapped, report, dry>>
      BY <1>8 DEF Inject, Wire
    <2>2. QED
      BY <1>1, <2>1 DEF Executing
  <1>9. ASSUME NEW r \in Runs, Exit(r) PROVE Steady /\ dry' = dry
    <2>1. UNCHANGED <<phase, ctx, overlapped, report, dry>>
      BY <1>9 DEF Exit
    <2>2. QED
      BY <1>2, <2>1
  <1>10. ASSUME NEW r \in Runs, Finish(r) \/ FinishUnsent(r) \/ CallPlaceholder(r)
         PROVE  /\ dry' = dry
                /\ \/ Steady
                   \/ /\ Leaves(r, "answered") /\ phase[r] = "running"
                      /\ report' = [report EXCEPT ![r] = trace[r]]
                      /\ UNCHANGED <<ctx, overlapped>>
    <2>1. PICK how \in {"answered", "dropped"} :
            /\ Leaves(r, how) /\ phase[r] = "running"
            /\ report' = IF how = "answered" THEN [report EXCEPT ![r] = trace[r]] ELSE report
      BY <1>10, LeaveFacts
    <2>2. phase' = [phase EXCEPT ![r] = how] /\ UNCHANGED <<ctx, overlapped, dry>>
      BY <2>1 DEF Leaves
    <2>3. CASE how = "answered"
      BY <2>1, <2>2, <2>3
    <2>4. CASE how = "dropped"
      BY <1>1, <2>1, <2>2, <2>4
    <2>5. QED
      BY <2>3, <2>4
  <1>11. ASSUME NEW r \in Runs, NEW fn \in Fns, CallStubbed(r, fn) PROVE Steady /\ dry' = dry
    <2>1. UNCHANGED <<phase, ctx, overlapped, report, dry>>
      BY <1>11 DEF CallStubbed
    <2>2. QED
      BY <1>2, <2>1
  <1>12. ASSUME NEW r \in Runs, NEW fn \in Fns, CallRegisters(r, fn) PROVE Steady /\ dry' = dry
    <2>1. /\ phase' = [phase EXCEPT ![r] = "calling"] /\ phase[r] = "running"
          /\ UNCHANGED <<ctx, overlapped, report, dry>>
      BY <1>12 DEF CallRegisters, CanCall
    <2>2. QED
      BY <1>1, <2>1 DEF Executing
  <1>13. ASSUME NEW r \in Runs, NEW k \in 1 .. MaxCalls, Read(r, k) PROVE Steady /\ dry' = dry
    <2>1. /\ phase' = [phase EXCEPT ![r] = "waiting"] /\ phase[r] = "running"
          /\ UNCHANGED <<ctx, overlapped, report, dry>>
      BY <1>13 DEF Read
    <2>2. QED
      BY <1>1, <2>1 DEF Executing
  <1>14. ASSUME NEW r \in Runs, CallFires(r) \/ Resume(r) \/ CallTimesOut(r)
         PROVE  Steady /\ dry' = dry
    <2>1. /\ phase' = [phase EXCEPT ![r] = "running"] /\ phase[r] \in {"calling", "waiting"}
          /\ UNCHANGED <<ctx, overlapped, report, dry>>
      BY <1>14 DEF CallFires, Resume, CallTimesOut, Settle
    <2>2. QED
      BY <1>1, <2>1 DEF Executing
  <1>15. CASE UNCHANGED vars
    BY <1>2, <1>15 DEF vars
  <1>16. ASSUME NEW q \in sends, Send(q) \/ SendFails(q) PROVE Steady /\ dry' = dry
    BY <1>2, <1>16 DEF Send, SendFails
  <1>17. QED
    BY <1>3, <1>4, <1>5, <1>6, <1>7, <1>8, <1>9, <1>10, <1>11, <1>12, <1>13, <1>14, <1>15, <1>16
    DEF Next, Gateway, ReadLoop, Execute, Program

\* A run that begins while others execute overlaps with them.
LEMMA BeginFacts ==
  ASSUME TypeOK, JobsAreSingle, NEW r \in Runs, Begin(r)
  PROVE  /\ phase[r] = "queued" /\ phase' = [phase EXCEPT ![r] = "begun"] /\ ~ Executing(r)
         /\ ctx' = [sink |-> r, dry |-> dry[r], mutations |-> module.mutations]
         /\ overlapped \subseteq overlapped' /\ reloaded \subseteq reloaded'
         /\ \A q \in Runs : Executing(q) => {q, r} \subseteq overlapped'
         /\ readLoop \in {"loading", "defining"} => r \in reloaded'
         /\ UNCHANGED <<readLoop, module, text, calls, trace, report, dry, seen>>
  <1>1. phase[r] = "queued" /\ phase' = [phase EXCEPT ![r] = "begun"]
    BY TakesFacts DEF Begin
  <1> DEFINE others == {q \in Runs : Executing(q)}
  <1>2. /\ overlapped' = IF others = {} THEN overlapped ELSE overlapped \cup others \cup {r}
        /\ reloaded' = IF readLoop \in {"loading", "defining"} THEN reloaded \cup {r} ELSE reloaded
        /\ ctx' = [sink |-> r, dry |-> dry[r], mutations |-> module.mutations]
        /\ UNCHANGED <<readLoop, module, text, calls, trace, report, dry, seen>>
    BY DEF Begin, shared, source, setup, traces
  <1>3. \A q \in Runs : Executing(q) => q \in others
    OBVIOUS
  <1> HIDE DEF others
  <1>4. QED
    BY <1>1, <1>2, <1>3 DEF Executing

\* The sink a call records in is its run's, or a run's that overlapped with it.
LEMMA SinksStep == IInv /\ [Next]_vars => SinksAreShared'
  <1> SUFFICES ASSUME IInv, [Next]_vars PROVE SinksAreShared'
    OBVIOUS
  <1> DEFINE Own(r, s, o) == s = r \/ {r, s} \subseteq o
  <1>0. TypeOK /\ CallsFollowPhase /\ IdsAreOwned /\ JobsAreSingle
        /\ phase \in [Runs -> {"idle", "sent", "spawned", "queued", "begun", "injected", "running",
                               "calling", "waiting", "answered", "dropped"}]
    BY DEF IInv, TypeOK
  <1>1. /\ \A r \in Runs : Executing(r) => Own(r, ctx.sink, overlapped)
        /\ \A r \in Runs : \A k \in Handed(r) : calls[r][k].state # "registered" =>
             Own(r, calls[r][k].sink, overlapped)
        /\ \A q \in Runs : \A i \in DOMAIN trace[q] : Own(trace[q][i].of[1], q, overlapped)
        /\ \A r \in Runs : phase[r] # "answered" => report[r] = <<>>
    BY DEF IInv, SinksAreShared
  <1>2. overlapped \subseteq overlapped'
        /\ \A r, s : Own(r, s, overlapped) => Own(r, s, overlapped')
    <2>1. overlapped \subseteq overlapped'
      <3>1. ASSUME NEW r \in Runs, Reject(r) PROVE overlapped' = overlapped
        BY <3>1 DEF Reject, history
      <3>2. QED
        BY <1>0, <3>1, RunSteps, BeginFacts DEF Steady
    <2>2. QED
      BY <2>1
  <1>3. ASSUME NEW r \in Runs, Executing(r)' PROVE Own(r, ctx'.sink, overlapped')
    <2>1. CASE Steady
      BY <1>1, <1>2, <1>3, <2>1 DEF Steady
    <2>2. ASSUME NEW q \in Runs, Begin(q) PROVE Own(r, ctx'.sink, overlapped')
      <3>1. r = q \/ Executing(r)
        BY <1>0, <1>3, <2>2, BeginFacts DEF Executing
      <3>2. QED
        BY <1>0, <2>2, <3>1, BeginFacts
    <2>3. ASSUME NEW q \in Runs, Reject(q) PROVE Own(r, ctx'.sink, overlapped')
      <3>1. phase' = [phase EXCEPT ![q] = "answered"] /\ ctx' = ctx
        BY <2>3 DEF Reject
      <3>2. Executing(r)
        BY <1>0, <1>3, <3>1 DEF Executing
      <3>3. QED
        BY <1>1, <1>2, <3>1, <3>2
    <2>4. ASSUME NEW q \in Runs, Leaves(q, "answered"), UNCHANGED ctx
          PROVE  Own(r, ctx'.sink, overlapped')
      <3>1. Executing(r)
        BY <1>0, <1>3, <2>4 DEF Leaves, Executing
      <3>2. QED
        BY <1>1, <1>2, <2>4, <3>1
    <2>5. QED
      BY <2>1, <2>2, <2>3, <2>4, RunSteps
  <1>4. ASSUME NEW r \in Runs, phase'[r] # "answered" PROVE report'[r] = <<>>
    <2>1. CASE Steady
      BY <1>1, <1>4, <2>1 DEF Steady
    <2>2. ASSUME NEW q \in Runs, Begin(q) PROVE report'[r] = <<>>
      BY <1>0, <1>1, <1>4, <2>2, BeginFacts
    <2>3. ASSUME NEW q \in Runs, Reject(q) PROVE report'[r] = <<>>
      BY <1>0, <1>1, <1>4, <2>3 DEF Reject, traces
    <2>4. ASSUME NEW q \in Runs, Leaves(q, "answered"), report' = [report EXCEPT ![q] = trace[q]]
          PROVE  report'[r] = <<>>
      BY <1>0, <1>1, <1>4, <2>4 DEF Leaves
    <2>5. QED
      BY <2>1, <2>2, <2>3, <2>4, RunSteps
  <1>5. ASSUME \A r \in Runs : \A k \in DOMAIN calls'[r] : calls'[r][k].state # "registered" =>
                 Own(r, calls'[r][k].sink, overlapped'),
               \A q \in Runs : \A i \in DOMAIN trace'[q] :
                 Own(trace'[q][i].of[1], q, overlapped')
        PROVE  SinksAreShared'
    BY <1>3, <1>4, <1>5 DEF SinksAreShared, Handed
  <1>6. ASSUME trace' = trace,
               \A r \in Runs : DOMAIN calls'[r] = Handed(r),
               \A r \in Runs : \A k \in Handed(r) : /\ calls'[r][k].state = calls[r][k].state
                                                    /\ calls'[r][k].sink = calls[r][k].sink
        PROVE  SinksAreShared'
    <2> HIDE DEF Own
    <2>1. QED
      BY <1>1, <1>2, <1>5, <1>6
  \* One handle is new or changed.
  <1>7. ASSUME NEW r \in Runs, NEW k, NEW h,
               \A q \in Runs : \A j \in DOMAIN calls'[q] :
                 \/ q = r /\ j = k /\ calls'[q][j] = h
                 \/ j \in Handed(q) /\ calls'[q][j] = calls[q][j],
               h.state # "registered" => Own(r, h.sink, overlapped)
        PROVE  \A q \in Runs : \A j \in DOMAIN calls'[q] : calls'[q][j].state # "registered" =>
                 Own(q, calls'[q][j].sink, overlapped')
    <2> HIDE DEF Own
    <2>1. QED
      BY <1>1, <1>2, <1>7
  \* One record is new.
  <1>8. ASSUME NEW r \in Runs, NEW s \in Runs, NEW e \in Records, e.of[1] = r,
               trace' = [trace EXCEPT ![s] = Append(@, e)], Own(r, s, overlapped)
        PROVE  \A q \in Runs : \A i \in DOMAIN trace'[q] : Own(trace'[q][i].of[1], q, overlapped')
    <2> HIDE DEF Own
    <2>1. \A q \in Runs : \A i \in DOMAIN trace'[q] :
            \/ q = s /\ trace'[q][i] = e
            \/ i \in DOMAIN trace[q] /\ trace'[q][i] = trace[q][i]
      BY <1>0, <1>8, RecordFacts
    <2>2. QED
      BY <1>1, <1>2, <1>8, <2>1
  <1>9. CASE UNCHANGED <<calls, trace>>
    BY <1>6, <1>9 DEF Handed
  <1>10. CASE ReadResult
    <2>1. Head(inbox) \in Results
      BY <1>0, <1>10, ReadResults DEF ReadResult
    <2>2. PICK f \in Results : calls' = Resolved(f) /\ trace' = trace
      BY <1>10, <2>1 DEF ReadResult, traces
    <2>3. \A r \in Runs : /\ DOMAIN calls'[r] = Handed(r)
                          /\ \A k \in Handed(r) : /\ calls'[r][k].state = calls[r][k].state
                                                  /\ calls'[r][k].sink = calls[r][k].sink
      BY <1>0, <2>2, ResultFacts, ResolvedFacts
    <2>4. QED
      BY <1>6, <2>2, <2>3
  <1>11. ASSUME NEW r \in Runs, NEW fn \in Fns, CallStubbed(r, fn) PROVE SinksAreShared'
    <2>1. PICK h \in Handles :
            /\ h.sink = ctx.sink /\ calls' = [calls EXCEPT ![r] = Append(@, h)] /\ ctx.sink \in Runs
            /\ [of |-> Key(r), kind |-> "dry_run"] \in Records
            /\ trace' = [trace EXCEPT ![ctx.sink] =
                                      Append(@, [of |-> Key(r), kind |-> "dry_run"])]
      BY <1>0, <1>11, StubFacts
    <2>2. PICK e \in Records : e.of = Key(r) /\ trace' = [trace EXCEPT ![ctx.sink] = Append(@, e)]
      BY <2>1
    <2>3. e.of[1] = r
      BY <2>2 DEF Key
    <2>4. Own(r, ctx.sink, overlapped)
      BY <1>1, <1>11 DEF CallStubbed, CanCall, Executing
    <2>5. PICK k : k = Len(calls[r]) + 1
      OBVIOUS
    <2>6. \A q \in Runs : \A j \in DOMAIN calls'[q] :
                 \/ q = r /\ j = k /\ calls'[q][j] = h
                 \/ j \in Handed(q) /\ calls'[q][j] = calls[q][j]
      BY <1>0, <2>1, <2>5, NewCallFacts DEF Handed
    <2> HIDE DEF Own
    <2>7. \A q \in Runs : \A j \in DOMAIN calls'[q] : calls'[q][j].state # "registered" =>
            Own(q, calls'[q][j].sink, overlapped')
      <3>1. Own(r, h.sink, overlapped)
        BY <2>1, <2>4
      <3>2. QED
        BY <1>7, <2>6, <3>1
    <2>8. \A q \in Runs : \A i \in DOMAIN trace'[q] : Own(trace'[q][i].of[1], q, overlapped')
      BY <1>8, <2>1, <2>2, <2>3, <2>4
    <2>9. QED
      BY <1>5, <2>7, <2>8
  <1>12. ASSUME NEW r \in Runs, NEW fn \in Fns, CallRegisters(r, fn) PROVE SinksAreShared'
    <2>1. PICK h \in Handles : h.state = "registered" /\ calls' = [calls EXCEPT ![r] = Append(@, h)]
      BY <1>0, <1>12, RegisterFacts
    <2>2. trace' = trace
      BY <1>12 DEF CallRegisters, traces
    <2>3. PICK k : k = Len(calls[r]) + 1
      OBVIOUS
    <2>4. \A q \in Runs : \A j \in DOMAIN calls'[q] :
                 \/ q = r /\ j = k /\ calls'[q][j] = h
                 \/ j \in Handed(q) /\ calls'[q][j] = calls[q][j]
      BY <1>0, <2>1, <2>3, NewCallFacts DEF Handed
    <2> HIDE DEF Own
    <2>5. QED
      BY <1>1, <1>2, <1>5, <1>7, <2>1, <2>2, <2>4
  <1>13. ASSUME NEW r \in Runs, CallFires(r) PROVE SinksAreShared'
    <2>1. PICK k : k = Len(calls[r]) /\ k \in Handed(r)
      BY <1>0, <1>13, CallFiresFacts
    <2>2. PICK h \in Handles : h.sink = ctx.sink /\ calls' = [calls EXCEPT ![r][k] = h]
      BY <1>0, <1>13, <2>1, CallFiresFacts
    <2>3. trace' = trace /\ Own(r, ctx.sink, overlapped)
      BY <1>1, <1>13 DEF CallFires, traces, Executing
    <2>4. \A q \in Runs : \A j \in DOMAIN calls'[q] :
                 \/ q = r /\ j = k /\ calls'[q][j] = h
                 \/ j \in Handed(q) /\ calls'[q][j] = calls[q][j]
      BY <1>0, <2>1, <2>2, ChangedCallFacts
    <2> HIDE DEF Own
    <2>5. QED
      BY <1>1, <1>2, <1>5, <1>7, <2>2, <2>3, <2>4
  <1>14. ASSUME NEW r \in Runs, NEW kind \in {"ok", "error", "timeout"},
                phase[r] = "waiting", Settle(r, kind)
         PROVE  SinksAreShared'
    <2>1. PICK k \in Handed(r), s \in Runs, h \in Handles, e \in Records :
            /\ k = waitingFor[r] /\ s = calls[r][k].sink /\ calls[r][k].state = "fired"
            /\ h.fn = calls[r][k].fn /\ h.id = calls[r][k].id /\ h.sink = s
            /\ h.future = calls[r][k].future /\ h.state = kind
            /\ e.of = <<r, k>>
            /\ calls' = [calls EXCEPT ![r][k] = h]
            /\ trace' = [trace EXCEPT ![s] = Append(@, e)]
      BY <1>0, <1>14, SettleFacts
    <2>2. Own(r, s, overlapped) /\ e.of[1] = r
      BY <1>1, <2>1
    <2>3. \A q \in Runs : \A j \in DOMAIN calls'[q] :
                 \/ q = r /\ j = k /\ calls'[q][j] = h
                 \/ j \in Handed(q) /\ calls'[q][j] = calls[q][j]
      BY <1>0, <2>1, ChangedCallFacts
    <2> HIDE DEF Own
    <2>4. \A q \in Runs : \A j \in DOMAIN calls'[q] : calls'[q][j].state # "registered" =>
            Own(q, calls'[q][j].sink, overlapped')
      <3>1. Own(r, h.sink, overlapped)
        BY <2>1, <2>2
      <3>2. QED
        BY <1>7, <2>3, <3>1
    <2>5. \A q \in Runs : \A i \in DOMAIN trace'[q] : Own(trace'[q][i].of[1], q, overlapped')
      BY <1>8, <2>1, <2>2
    <2>6. QED
      BY <1>5, <2>4, <2>5
  <1>15. QED
    <2>1. (\E q \in upstream : AnswerCall(q)) => UNCHANGED <<calls, trace>>
      BY DEF AnswerCall, progress, traces
    <2>2. Quiet => UNCHANGED <<calls, trace>>
      BY DEF Quiet
    <2>3. (\E q \in sends : Send(q) \/ SendFails(q)) => UNCHANGED <<calls, trace>>
      BY DEF Send, SendFails, progress, traces
    <2>4. QED
      BY <1>9, <1>10, <1>11, <1>12, <1>13, <1>14, <2>1, <2>2, <2>3, CallSteps

\* The report of a lone run is complete when it is made, and its calls stay as they are.
LEMMA ReportsStep == IInv /\ [Next]_vars => LoneReportsAreExact'
  <1> SUFFICES ASSUME IInv, [Next]_vars, NEW r \in Runs, phase'[r] = "answered", r \notin overlapped'
               PROVE  {report'[r][i].of : i \in DOMAIN report'[r]}
                        = {<<r, k>> : k \in {j \in DOMAIN calls'[r] : Settled(calls'[r][j])}}
    BY DEF LoneReportsAreExact, Handed, Settled
  <1>0. TypeOK /\ CallsFollowPhase /\ IdsAreOwned /\ JobsAreSingle /\ LoneReportsAreExact
        /\ RecordsFollowCalls /\ SinksAreShared
        /\ phase \in [Runs -> {"idle", "sent", "spawned", "queued", "begun", "injected", "running",
                               "calling", "waiting", "answered", "dropped"}]
    BY DEF IInv, TypeOK
  <1>1. ASSUME phase[r] = "answered", report'[r] = report[r], r \notin overlapped,
               DOMAIN calls'[r] = Handed(r),
               \A k \in Handed(r) : calls'[r][k].state = calls[r][k].state
        PROVE  {report'[r][i].of : i \in DOMAIN report'[r]}
                 = {<<r, k>> : k \in {j \in DOMAIN calls'[r] : Settled(calls'[r][j])}}
    <2>1. {j \in DOMAIN calls'[r] : Settled(calls'[r][j])} = {j \in Handed(r) : Settled(calls[r][j])}
      BY <1>1 DEF Settled
    <2>2. QED
      BY <1>0, <1>1, <2>1 DEF LoneReportsAreExact
  <1>2. ASSUME phase[r] = "answered"
        PROVE  /\ DOMAIN calls'[r] = Handed(r)
               /\ \A k \in Handed(r) : calls'[r][k].state = calls[r][k].state
    <2>1. CASE UNCHANGED calls
      BY <2>1 DEF Handed
    <2>2. CASE ReadResult
      <3>1. Head(inbox) \in Results
        BY <1>0, <2>2, ReadResults DEF ReadResult
      <3>2. PICK f \in Results : calls' = Resolved(f)
        BY <2>2, <3>1 DEF ReadResult
      <3>3. QED
        BY <1>0, <3>2, ResultFacts, ResolvedFacts
    <2>3. ASSUME NEW q \in Runs, NEW fn \in Fns, CallStubbed(q, fn) \/ CallRegisters(q, fn)
          PROVE  calls'[r] = calls[r]
      BY <1>0, <1>2, <2>3 DEF CallStubbed, CallRegisters, CanCall, TypeOK
    <2>4. ASSUME NEW q \in Runs, CallFires(q) PROVE calls'[r] = calls[r]
      BY <1>0, <1>2, <2>4 DEF CallFires, TypeOK
    <2>5. ASSUME NEW q \in Runs, NEW kind, phase[q] = "waiting", Settle(q, kind)
          PROVE  calls'[r] = calls[r]
      BY <1>0, <1>2, <2>5 DEF Settle, TypeOK
    <2>6. QED
      BY <2>1, <2>2, <2>3, <2>4, <2>5, CallSteps
        DEF Quiet, AnswerCall, Send, SendFails, progress, Handed
  <1>3. CASE Steady
    BY <1>1, <1>2, <1>3 DEF Steady
  <1>4. ASSUME NEW q \in Runs, Begin(q)
        PROVE  {report'[r][i].of : i \in DOMAIN report'[r]}
                 = {<<r, k>> : k \in {j \in DOMAIN calls'[r] : Settled(calls'[r][j])}}
    <2>1. phase[r] = "answered" /\ report' = report /\ r \notin overlapped
      BY <1>0, <1>4, BeginFacts
    <2>2. QED
      BY <1>1, <1>2, <2>1
  <1>5. ASSUME NEW q \in Runs, Reject(q)
        PROVE  {report'[r][i].of : i \in DOMAIN report'[r]}
                 = {<<r, k>> : k \in {j \in DOMAIN calls'[r] : Settled(calls'[r][j])}}
    <2>1. phase[q] = "queued" /\ phase' = [phase EXCEPT ![q] = "answered"]
          /\ report' = report /\ calls' = calls /\ overlapped' = overlapped
      BY <1>0, <1>5, TakesFacts DEF Reject, traces, history
    <2>2. CASE r = q
      <3>1. report'[r] = <<>> /\ calls'[r] = <<>>
        BY <1>0, <2>1, <2>2 DEF SinksAreShared, CallsFollowPhase
      <3>2. QED
        BY <3>1
    <2>3. CASE r # q
      BY <1>0, <1>1, <1>2, <2>1, <2>3
    <2>4. QED
      BY <2>2, <2>3
  <1>6. ASSUME NEW q \in Runs, Leaves(q, "answered"), phase[q] = "running",
               report' = [report EXCEPT ![q] = trace[q]], UNCHANGED <<ctx, overlapped>>
        PROVE  {report'[r][i].of : i \in DOMAIN report'[r]}
                 = {<<r, k>> : k \in {j \in DOMAIN calls'[r] : Settled(calls'[r][j])}}
    <2>1. CASE r # q
      BY <1>0, <1>1, <1>2, <1>6, <2>1 DEF Leaves, TypeOK
    <2>2. CASE r = q
      <3>1. report'[r] = trace[r] /\ calls' = calls
        BY <1>0, <1>6, <2>2 DEF Leaves, TypeOK
      <3>2. ASSUME NEW i \in DOMAIN trace[r]
            PROVE  \E k \in Handed(r) : Settled(calls[r][k]) /\ trace[r][i].of = <<r, k>>
        <4>1. trace[r][i].of[1] = r
          BY <1>0, <1>6 DEF SinksAreShared
        <4>2. QED
          BY <1>0, <4>1, TraceFacts DEF RecordsFollowCalls
      <3>3. ASSUME NEW k \in Handed(r), Settled(calls[r][k])
            PROVE  \E i \in DOMAIN trace[r] : trace[r][i].of = <<r, k>>
        <4>1. PICK p \in Runs : \E i \in DOMAIN trace[p] : trace[p][i].of = <<r, k>>
          BY <1>0, <3>3 DEF RecordsFollowCalls
        <4>2. PICK i \in DOMAIN trace[p] : trace[p][i].of = <<r, k>>
          BY <4>1
        <4>3. trace[p][i].of[1] = r
          BY <4>2
        <4>4. p = r
          BY <1>0, <1>6, <4>3 DEF SinksAreShared
        <4>5. QED
          BY <4>2, <4>4
      <3> DEFINE J == {j \in DOMAIN calls[r] : Settled(calls[r][j])}
      <3>4. \A i \in DOMAIN trace[r] : trace[r][i].of \in {<<r, k>> : k \in J}
        BY <3>2 DEF Handed
      <3>5. \A k \in J : <<r, k>> \in {trace[r][i].of : i \in DOMAIN trace[r]}
        BY <3>3 DEF Handed
      <3>6. {trace[r][i].of : i \in DOMAIN trace[r]} = {<<r, k>> : k \in J}
        <4> HIDE DEF J
        <4>1. QED
          BY <3>4, <3>5
      <3>7. QED
        BY <3>1, <3>6
    <2>3. QED
      BY <2>1, <2>2
  <1>7. QED
    BY <1>3, <1>4, <1>5, <1>6, RunSteps

-----------------------------------------------------------------------------
(* Pushes, and the runs behind them.                                       *)

\* A frame of a push has a version.
LEMMA PushFacts ==
  ASSUME TypeOK, NEW type \in {"reload", "set_shapes"}
  PROVE  \A i \in DOMAIN inbox : i \in Nat /\ (inbox[i].type = type => inbox[i].version \in Nat)
  <1>1. inbox \in Seq(Frames)
    BY DEF TypeOK
  <1>2. \A i \in DOMAIN inbox : i \in Nat /\ inbox[i] \in Frames
    BY <1>1, ElementOfSeq, LenProperties
  <1>3. QED
    BY <1>2, FrameFacts

\* What a version reaches, it reaches when a frame is sent behind it...
LEMMA ReachesSent ==
  ASSUME TypeOK, NEW f \in Frames, inbox' = Append(inbox, f), NEW type, NEW a, NEW v, NEW i,
         Reaches(type, a, v, i)
  PROVE  Reaches(type, a, v, i)'
  <1>1. DOMAIN inbox \subseteq DOMAIN inbox' /\ \A j \in DOMAIN inbox : inbox'[j] = inbox[j]
    BY SendFacts
  <1>2. QED
    BY <1>1 DEF Reaches

\* ... and when the frame in front is read and handled.
LEMMA ReachesRead ==
  ASSUME TypeOK, NEW read, Reads(read), NEW type, NEW a \in Nat, NEW c \in Nat, a <= c,
         NEW v \in Nat, NEW i \in Nat,
         read = type => Head(inbox).version <= c,
         Reaches(type, a, v, i + 1)
  PROVE  Reaches(type, c, v, i)'
  <1>1. inbox \in Seq(Frames) /\ inbox # <<>> /\ inbox' = Tail(inbox)
        /\ Head(inbox) = inbox[1] /\ inbox[1].type = read
    BY ReadFacts
  <1>2. \A j \in DOMAIN inbox : j \in Nat /\ (j # 1 => j - 1 \in DOMAIN inbox' /\ inbox'[j - 1] = inbox[j])
    BY <1>1, TailFacts
  <1>3. CASE v <= a
    BY <1>3 DEF Reaches
  <1>4. CASE ~ (v <= a)
    <2>1. PICK j \in DOMAIN inbox : j < i + 1 /\ inbox[j].type = type /\ inbox[j].version = v
      BY <1>4 DEF Reaches
    <2>2. CASE j = 1
      BY <1>1, <2>1, <2>2 DEF Reaches
    <2>3. CASE j # 1
      <3>1. j - 1 \in DOMAIN inbox' /\ inbox'[j - 1] = inbox[j] /\ j - 1 < i
        BY <1>2, <2>1, <2>3
      <3>2. QED
        BY <2>1, <3>1 DEF Reaches
    <2>4. QED
      BY <2>2, <2>3
  <1>5. QED
    BY <1>3, <1>4

\* Pushes ascend when another frame is sent...
LEMMA AscendingSent ==
  ASSUME TypeOK, NEW f \in Frames, inbox' = Append(inbox, f),
         NEW type \in {"reload", "set_shapes"}, NEW a \in Nat, NEW b \in Nat, NEW c \in Nat,
         Ascending(type, a, b),
         \/ f.type # type /\ c = b
         \/ f.type = type /\ f.version = c /\ c = b + 1
  PROVE  Ascending(type, a, c)'
  <1> DEFINE n == Len(inbox) + 1
  <1>1. /\ DOMAIN inbox' = DOMAIN inbox \cup {n} /\ n \notin DOMAIN inbox
        /\ inbox'[n] = f /\ Len(inbox') = n /\ n \in Nat
        /\ \A i \in DOMAIN inbox : i \in Nat /\ i < n /\ inbox'[i] = inbox[i]
    BY SendFacts
  <1>2. /\ a <= b /\ Reaches(type, a, b, n)
        /\ \A i \in DOMAIN inbox : inbox[i].type = type =>
             /\ a < inbox[i].version /\ inbox[i].version <= b
             /\ Reaches(type, a, inbox[i].version - 1, i)
             /\ \A j \in DOMAIN inbox :
                  j < i /\ inbox[j].type = type => inbox[j].version < inbox[i].version
    BY DEF Ascending
  <1>3. \A i \in DOMAIN inbox : inbox[i].type = type => inbox[i].version \in Nat
    BY PushFacts
  <1>4. PICK m : m = n
    OBVIOUS
  <1> HIDE DEF n
  <1>5. a <= c /\ b <= c
    BY <1>2
  <1>6. Reaches(type, a, b, m)'
    BY <1>2, <1>4, ReachesSent
  <1>7. Reaches(type, a, c, m + 1)'
    <2>1. CASE c = b
      BY <1>1, <1>4, <1>6, <2>1 DEF Reaches
    <2>2. CASE f.type = type /\ f.version = c
      BY <1>1, <1>4, <2>2 DEF Reaches
    <2>3. QED
      BY <2>1, <2>2
  <1>8. ASSUME NEW i \in DOMAIN inbox', inbox'[i].type = type
        PROVE  /\ a < inbox'[i].version /\ inbox'[i].version <= c
               /\ Reaches(type, a, inbox[i].version - 1, i)'
               /\ \A j \in DOMAIN inbox' :
                    j < i /\ inbox'[j].type = type => inbox'[j].version < inbox'[i].version
    <2>1. CASE i \in DOMAIN inbox
      <3>1. inbox'[i] = inbox[i] /\ inbox[i].version \in Nat /\ i < n /\ i \in Nat
        BY <1>1, <1>3, <1>8, <2>1
      <3>2. PICK v : v = inbox[i].version - 1 /\ Reaches(type, a, v, i)
        BY <1>2, <1>8, <2>1, <3>1
      <3>3. Reaches(type, a, v, i)'
        BY <3>2, ReachesSent
      <3>4. \A j \in DOMAIN inbox' : j < i => j \in DOMAIN inbox /\ inbox'[j] = inbox[j]
        BY <1>1, <3>1
      <3>5. QED
        BY <1>2, <1>5, <1>8, <2>1, <3>1, <3>2, <3>3, <3>4 DEF Reaches
    <2>2. CASE i = n
      <3>1. inbox'[i] = f /\ f.type = type /\ f.version = c /\ c = b + 1
        BY <1>1, <1>8, <2>2
      <3>2. b = inbox'[i].version - 1
        BY <3>1
      <3>3. \A j \in DOMAIN inbox' : j < i => j \in DOMAIN inbox /\ inbox'[j] = inbox[j]
        BY <1>1, <2>2
      <3>4. QED
        BY <1>2, <1>3, <1>4, <1>6, <2>2, <3>1, <3>2, <3>3 DEF Reaches
    <2>3. QED
      BY <1>1, <2>1, <2>2
  <1>9. QED
    BY <1>1, <1>4, <1>5, <1>7, <1>8 DEF Ascending

\* ... and when the frame in front is read: a push in front is the next one.
LEMMA AscendingRead ==
  ASSUME TypeOK, NEW read, Reads(read),
         NEW type \in {"reload", "set_shapes"}, NEW a \in Nat, NEW b \in Nat, NEW c \in Nat,
         Ascending(type, a, b),
         \/ read # type /\ c = a
         \/ read = type /\ (c = Head(inbox).version \/ c = a + 1)
  PROVE  /\ Ascending(type, c, b)'
         /\ read = type => Head(inbox).version = a + 1 /\ c = a + 1
  <1>1. /\ inbox \in Seq(Frames) /\ inbox # <<>> /\ inbox' = Tail(inbox)
        /\ Head(inbox) = inbox[1] /\ inbox[1].type = read /\ 1 \in DOMAIN inbox
    BY ReadFacts
  <1>2. /\ \A i \in DOMAIN inbox' : i \in Nat /\ i + 1 \in DOMAIN inbox /\ i + 1 # 1
                                    /\ inbox'[i] = inbox[i + 1]
        /\ Len(inbox') + 1 = Len(inbox) /\ Len(inbox') \in Nat
    BY <1>1, TailFacts, LenProperties
  <1>3. /\ a <= b /\ Reaches(type, a, b, Len(inbox) + 1)
        /\ \A i \in DOMAIN inbox : inbox[i].type = type =>
             /\ a < inbox[i].version /\ inbox[i].version <= b
             /\ Reaches(type, a, inbox[i].version - 1, i)
             /\ \A j \in DOMAIN inbox :
                  j < i /\ inbox[j].type = type => inbox[j].version < inbox[i].version
    BY DEF Ascending
  <1>4. \A i \in DOMAIN inbox : i \in Nat /\ (inbox[i].type = type => inbox[i].version \in Nat)
    BY PushFacts
  <1>5. \A i \in DOMAIN inbox : ~ (i < 1)
    BY <1>1, LenProperties
  <1>6. read = type => inbox[1].version = a + 1 /\ c = a + 1 /\ inbox[1].version = c
    <2>1. SUFFICES ASSUME read = type PROVE inbox[1].version = a + 1
      BY <1>1
    <2>2. a < inbox[1].version /\ Reaches(type, a, inbox[1].version - 1, 1) /\ inbox[1].version \in Nat
      BY <1>1, <1>3, <1>4, <2>1
    <2>3. inbox[1].version - 1 <= a
      BY <1>5, <2>2 DEF Reaches
    <2>4. QED
      BY <2>2, <2>3
  <1>7. a <= c /\ c <= b /\ (read = type => Head(inbox).version <= c)
    BY <1>1, <1>3, <1>6
  <1>8. PICK n \in Nat : n = Len(inbox') + 1
    BY <1>2
  <1>9. Reaches(type, c, b, n)'
    BY <1>2, <1>3, <1>7, <1>8, ReachesRead
  <1>10. ASSUME NEW i \in DOMAIN inbox', inbox'[i].type = type
         PROVE  /\ c < inbox'[i].version /\ inbox'[i].version <= b
                /\ Reaches(type, c, inbox[i].version - 1, i)'
                /\ \A j \in DOMAIN inbox' :
                     j < i /\ inbox'[j].type = type => inbox'[j].version < inbox'[i].version
    <2>1. i \in Nat /\ i + 1 \in DOMAIN inbox /\ inbox'[i] = inbox[i + 1] /\ 1 < i + 1
          /\ inbox[i + 1].version \in Nat /\ a < inbox[i + 1].version
      BY <1>2, <1>3, <1>4, <1>5, <1>10
    <2>2. c < inbox[i + 1].version
      <3>1. CASE read # type
        BY <2>1, <3>1
      <3>2. CASE read = type
        <4>1. inbox[1].version < inbox[i + 1].version
          BY <1>1, <1>3, <1>10, <2>1, <3>2
        <4>2. QED
          BY <1>6, <3>2, <4>1
      <3>3. QED
        BY <3>1, <3>2
    <2>3. PICK v \in Nat : v = inbox[i + 1].version - 1 /\ Reaches(type, a, v, i + 1)
      BY <1>3, <1>10, <2>1
    <2>4. Reaches(type, c, v, i)'
      BY <1>7, <2>1, <2>3, ReachesRead
    <2>5. \A j \in DOMAIN inbox' : j < i /\ inbox'[j].type = type =>
            inbox'[j].version < inbox'[i].version
      BY <1>2, <1>3, <1>10, <2>1, SMTT(30)
    <2>6. QED
      BY <1>3, <1>10, <2>1, <2>2, <2>3, <2>4, <2>5 DEF Reaches
  <1>11. QED
    BY <1>1, <1>6, <1>7, <1>8, <1>9, <1>10 DEF Ascending

\* Versions are numbers.
LEMMA VersionFacts ==
  ASSUME TypeOK
  PROVE  /\ keysets \in Nat /\ taken \in Nat /\ written \in Nat /\ module.version \in Nat
         /\ pushed.sdk \in Nat /\ pushed.shapes \in Nat
         /\ \A r \in Runs : before[r].sdk \in Nat /\ before[r].shapes \in Nat
  <1>1. keysets \in Nat /\ pushed.shapes \in Nat
        /\ module.version \in DOMAIN Sdks /\ pushed.sdk \in DOMAIN Sdks
        /\ taken \in DOMAIN Sdks /\ written \in DOMAIN Sdks
    BY DEF TypeOK
  <1>2. module.version \in Nat /\ pushed.sdk \in Nat /\ taken \in Nat /\ written \in Nat
    BY <1>1, SdkFacts
  <1>3. \A r \in Runs : before[r].sdk \in Nat /\ before[r].shapes \in Nat
    BY DEF TypeOK
  <1>4. QED
    BY <1>1, <1>2, <1>3

\* A run goes on, and notes the versions it finds.
GoesOn(r) ==
  \/ phase'[r] = phase[r] /\ keys'[r] = keys[r] /\ seen'[r] = seen[r]
  \/ /\ phase[r] = "spawned" /\ phase'[r] = "queued"
     /\ keys'[r] = keysets /\ seen'[r] = seen[r]
  \/ /\ phase[r] = "queued" /\ phase'[r] \in {"begun", "answered"}
     /\ keys'[r] = keys[r] /\ seen'[r] = seen[r]
  \/ /\ phase[r] = "begun" /\ phase'[r] = "injected"
     /\ keys'[r] = keys[r] /\ seen'[r] = module.version
  \/ /\ phase[r] \in {"injected", "running", "calling", "waiting"}
     /\ phase'[r] \in {"running", "calling", "waiting", "answered", "dropped"}
     /\ keys'[r] = keys[r] /\ seen'[r] = seen[r]

\* Runs go on, a reload too, and no frame is sent or read.
RunsGoOn ==
  /\ UNCHANGED <<inbox, before, keysets, pushed, taken>>
  /\ module'.version \in Nat /\ module.version <= module'.version
  /\ failed \subseteq failed'
  /\ \A r \in Runs : GoesOn(r)

\* Steps send a frame, read one, or let runs go on.
LEMMA FrameSteps ==
  ASSUME IInv, [Next]_vars
  PROVE  \/ RunsGoOn
         \/ \E r \in Runs : SendRun(r)
         \/ SendReload \/ SendShapes \/ \E q \in upstream : AnswerCall(q)
         \/ ReadLoop
  <1>0. TypeOK /\ JobsAreSingle /\ module.version \in Nat
        /\ (readLoop = "defining" => text \in Nat /\ module.version <= text)
        /\ phase \in [Runs -> {"idle", "sent", "spawned", "queued", "begun", "injected", "running",
                               "calling", "waiting", "answered", "dropped"}]
        /\ keys \in [Runs -> Nat] /\ seen \in [Runs -> Nat]
    <2>1. TypeOK /\ JobsAreSingle
      BY DEF IInv
    <2>2. module.version \in Nat
      <3>1. module.version \in DOMAIN Sdks
        BY <2>1 DEF TypeOK
      <3>2. QED
        BY <3>1, SdkFacts
    <2>3. phase \in [Runs -> {"idle", "sent", "spawned", "queued", "begun", "injected", "running",
                              "calling", "waiting", "answered", "dropped"}]
          /\ keys \in [Runs -> Nat] /\ seen \in [Runs -> Nat]
      BY <2>1 DEF TypeOK
    <2>4. readLoop = "defining" => text \in Nat /\ module.version <= text
      <3>1. taken \in Nat /\ written \in Nat
        BY <2>1, VersionFacts
      <3>2. readLoop = "defining" => text \in module.version .. Newest
        BY DEF IInv, VersionsAscend
      <3>3. QED
        BY <2>2, <3>1, <3>2 DEF Newest
    <2>5. QED
      BY <2>1, <2>2, <2>3, <2>4
  <1> USE DEF loop, gateway, shared, source, setup
  <1>1. ASSUME UNCHANGED <<inbox, before, keysets, pushed, module, taken, failed>>,
               \A r \in Runs : GoesOn(r)
        PROVE  RunsGoOn
    BY <1>0, <1>1 DEF RunsGoOn
  <1>2. ASSUME NEW r \in Runs, NEW to, phase' = [phase EXCEPT ![r] = to],
               UNCHANGED <<inbox, before, keysets, pushed, keys, seen, taken, failed>>,
               UNCHANGED module \/ (phase[r] = "injected" /\ module'.version = module.version),
               \/ phase[r] = "queued" /\ to \in {"begun", "answered"}
               \/ /\ phase[r] \in {"injected", "running", "calling", "waiting"}
                  /\ to \in {"running", "calling", "waiting", "answered", "dropped"}
        PROVE  RunsGoOn
    <2>1. \A q \in Runs : GoesOn(q)
      BY <1>0, <1>2 DEF GoesOn
    <2>2. QED
      BY <1>0, <1>2, <2>1 DEF RunsGoOn
  <1>3. ASSUME UNCHANGED <<inbox, before, keysets, pushed, phase, keys, seen, taken>>,
               failed \subseteq failed',
               module'.version \in Nat, module.version <= module'.version
        PROVE  RunsGoOn
    BY <1>3 DEF RunsGoOn, GoesOn
  <1>4. CASE WriteSdk \/ StartReload \/ ReloadFails
    <2>1. UNCHANGED <<inbox, before, keysets, pushed, phase, keys, seen, taken, module>>
          /\ failed \subseteq failed'
      BY <1>4 DEF WriteSdk, StartReload, ReloadFails, progress
    <2>2. QED
      BY <1>0, <1>3, <2>1
  <1>5. CASE LoadHeader
    <2>1. UNCHANGED <<inbox, before, keysets, pushed, phase, keys, seen, taken>>
          /\ failed \subseteq failed'
      BY <1>5 DEF LoadHeader, progress
    <2>2. module'.version = module.version
      BY <1>0, <1>5 DEF LoadHeader, TypeOK
    <2>3. QED
      BY <1>0, <1>3, <2>1, <2>2
  <1>6. CASE LoadFunctions
    <2>1. UNCHANGED <<inbox, before, keysets, pushed, phase, keys, seen, taken, failed>>
          /\ readLoop = "defining"
      BY <1>6 DEF LoadFunctions, progress
    <2>2. module'.version = text
      BY <1>0, <1>6 DEF LoadFunctions, TypeOK
    <2>3. QED
      BY <1>0, <1>3, <2>1, <2>2
  <1>7. ASSUME NEW r \in Runs, Submit(r) PROVE RunsGoOn
    <2>1. UNCHANGED <<inbox, before, keysets, pushed, module, taken, failed, seen>>
          /\ phase[r] = "spawned" /\ phase' = [phase EXCEPT ![r] = "queued"]
          /\ keys' = [keys EXCEPT ![r] = keysets]
      BY <1>7 DEF Submit
    <2>2. \A q \in Runs : GoesOn(q)
      BY <1>0, <2>1 DEF GoesOn
    <2>3. QED
      BY <1>1, <2>1, <2>2
  <1>8. ASSUME NEW r \in Runs, Begin(r) \/ Reject(r) PROVE RunsGoOn
    <2>1. phase[r] = "queued"
      BY <1>0, <1>8, TakesFacts DEF Begin, Reject
    <2>2. UNCHANGED <<inbox, before, keysets, pushed, keys, seen, module, taken, failed>>
          /\ \E to \in {"begun", "answered"} : phase' = [phase EXCEPT ![r] = to]
      BY <1>8 DEF Begin, Reject
    <2>3. QED
      BY <1>2, <2>1, <2>2
  <1>9. ASSUME NEW r \in Runs, Inject(r) PROVE RunsGoOn
    <2>1. UNCHANGED <<inbox, before, keysets, pushed, module, taken, failed, keys>>
          /\ phase[r] = "begun" /\ phase' = [phase EXCEPT ![r] = "injected"]
          /\ seen' = [seen EXCEPT ![r] = module.version]
      BY <1>9 DEF Inject
    <2>2. \A q \in Runs : GoesOn(q)
      BY <1>0, <2>1 DEF GoesOn
    <2>3. QED
      BY <1>1, <2>1, <2>2
  <1>10. ASSUME NEW r \in Runs, Wire(r) PROVE RunsGoOn
    <2>1. UNCHANGED <<inbox, before, keysets, pushed, keys, seen, taken, failed>>
          /\ phase[r] = "injected" /\ phase' = [phase EXCEPT ![r] = "running"]
      BY <1>10 DEF Wire
    <2>2. module'.version = module.version
      BY <1>0, <1>10 DEF Wire, TypeOK
    <2>3. QED
      BY <1>2, <2>1, <2>2
  <1>11. ASSUME NEW r \in Runs, Exit(r) PROVE RunsGoOn
    <2>1. UNCHANGED <<inbox, before, keysets, pushed, module, phase, keys, seen, taken, failed>>
      BY <1>11 DEF Exit, progress
    <2>2. QED
      BY <1>0, <1>3, <2>1
  <1>12. ASSUME NEW r \in Runs, Finish(r) \/ FinishUnsent(r) \/ CallPlaceholder(r) PROVE RunsGoOn
    <2>1. PICK how \in {"answered", "dropped"} : Leaves(r, how) /\ phase[r] = "running"
      BY <1>12, LeaveFacts
    <2>2. UNCHANGED <<inbox, before, keysets, pushed, keys, seen, module, taken, failed>>
          /\ phase' = [phase EXCEPT ![r] = how]
      BY <2>1 DEF Leaves
    <2>3. QED
      BY <1>2, <2>1, <2>2
  <1>13. ASSUME NEW r \in Runs, NEW fn \in Fns, CallStubbed(r, fn) PROVE RunsGoOn
    <2>1. UNCHANGED <<inbox, before, keysets, pushed, module, phase, keys, seen, taken, failed>>
      BY <1>13 DEF CallStubbed
    <2>2. QED
      BY <1>0, <1>3, <2>1
  <1>14. ASSUME NEW r \in Runs,
                (\E fn \in Fns : CallRegisters(r, fn)) \/ (\E k \in 1 .. MaxCalls : Read(r, k))
         PROVE  RunsGoOn
    <2>1. UNCHANGED <<inbox, before, keysets, pushed, keys, seen, module, taken, failed>>
          /\ phase[r] = "running"
          /\ \E to \in {"calling", "waiting"} : phase' = [phase EXCEPT ![r] = to]
      BY <1>14 DEF CallRegisters, CanCall, Read
    <2>2. QED
      BY <1>2, <2>1
  <1>15. ASSUME NEW r \in Runs, CallFires(r) \/ Resume(r) \/ CallTimesOut(r) PROVE RunsGoOn
    <2>1. UNCHANGED <<inbox, before, keysets, pushed, keys, seen, module, taken, failed>>
          /\ phase[r] \in {"calling", "waiting"} /\ phase' = [phase EXCEPT ![r] = "running"]
      BY <1>15 DEF CallFires, Resume, CallTimesOut, Settle
    <2>2. QED
      BY <1>2, <2>1
  <1>16. CASE UNCHANGED vars
    <2>1. UNCHANGED <<inbox, before, keysets, pushed, module, phase, keys, seen, taken, failed>>
      BY <1>16 DEF vars, progress
    <2>2. QED
      BY <1>0, <1>3, <2>1
  <1>17. ASSUME NEW q \in sends, Send(q) \/ SendFails(q) PROVE RunsGoOn
    <2>1. UNCHANGED <<inbox, before, keysets, pushed, module, phase, keys, seen, taken, failed>>
      BY <1>17 DEF Send, SendFails, progress
    <2>2. QED
      BY <1>0, <1>3, <2>1
  <1>18. QED
    BY <1>4, <1>5, <1>6, <1>7, <1>8, <1>9, <1>10, <1>11, <1>12, <1>13, <1>14, <1>15, <1>16, <1>17
    DEF Next, Gateway, Reload, Execute, Program

\* The pushes on their way go on ascending.
LEMMA PushesStep == IInv /\ [Next]_vars => PushesAreInOrder'
  <1> SUFFICES ASSUME IInv, [Next]_vars PROVE PushesAreInOrder'
    OBVIOUS
  <1>0. TypeOK /\ Ascending("set_shapes", keysets, pushed.shapes)
        /\ Ascending("reload", taken, pushed.sdk)
    BY DEF IInv, PushesAreInOrder
  <1>1. PICK a \in Nat, b \in Nat, v \in Nat, w \in Nat :
          /\ a = keysets /\ b = pushed.shapes /\ v = taken /\ w = pushed.sdk
    BY <1>0, VersionFacts
  <1>2. Ascending("set_shapes", a, b) /\ Ascending("reload", v, w)
    BY <1>0, <1>1 DEF Ascending, Reaches
  <1>3. ASSUME NEW a1, NEW b1, NEW v1, NEW w1,
               Ascending("set_shapes", a1, b1)', Ascending("reload", v1, w1)',
               keysets' = a1, pushed'.shapes = b1, taken' = v1, pushed'.sdk = w1
        PROVE  PushesAreInOrder'
    BY <1>3 DEF PushesAreInOrder, Ascending, Reaches
  <1>4. ASSUME UNCHANGED <<inbox, keysets, pushed, taken>> PROVE PushesAreInOrder'
    BY <1>0, <1>4 DEF PushesAreInOrder, Ascending, Reaches
  <1> USE DEF loop, gateway, shared, source
  <1>5. ASSUME NEW f \in Frames, f.type \in {"run", "result"}, inbox' = Append(inbox, f),
               UNCHANGED <<keysets, pushed, taken>>
        PROVE  PushesAreInOrder'
    <2>1. Ascending("set_shapes", a, b)' /\ Ascending("reload", v, w)'
      BY <1>0, <1>2, <1>5, AscendingSent
    <2>2. QED
      BY <1>1, <1>3, <1>5, <2>1
  <1>6. ASSUME NEW read, Reads(read), read \notin {"reload", "set_shapes"},
               UNCHANGED <<keysets, pushed, taken>>
        PROVE  PushesAreInOrder'
    <2>1. Ascending("set_shapes", a, b)' /\ Ascending("reload", v, w)'
      BY <1>0, <1>2, <1>6, AscendingRead
    <2>2. QED
      BY <1>1, <1>3, <1>6, <2>1
  <1>7. ASSUME NEW r \in Runs, SendRun(r) PROVE PushesAreInOrder'
    <2>1. [type |-> "run", run |-> r] \in Frames
      BY DEF Frames
    <2>2. UNCHANGED <<keysets, pushed, taken>>
      BY <1>7 DEF SendRun
    <2>3. QED
      BY <1>5, <1>7, <2>1, <2>2 DEF SendRun
  <1>8. CASE SendReload
    <2>1. PICK f \in Frames : inbox' = Append(inbox, f) /\ f.type = "reload" /\ f.version = w + 1
      BY <1>1, <1>8 DEF SendReload, Frames
    <2>2. UNCHANGED <<keysets, taken>>
      BY <1>8 DEF SendReload
    <2>3. pushed'.sdk = w + 1 /\ pushed'.shapes = b
      BY <1>0, <1>1, <1>8 DEF SendReload, TypeOK
    <2>4. Ascending("set_shapes", a, b)' /\ Ascending("reload", v, w + 1)'
      BY <1>0, <1>2, <2>1, AscendingSent
    <2>5. QED
      BY <1>1, <1>3, <2>2, <2>3, <2>4
  <1>9. CASE SendShapes
    <2>1. PICK f \in Frames : inbox' = Append(inbox, f) /\ f.type = "set_shapes" /\ f.version = b + 1
      BY <1>1, <1>9 DEF SendShapes, Frames
    <2>2. UNCHANGED <<keysets, taken>>
      BY <1>9 DEF SendShapes
    <2>3. pushed'.sdk = w /\ pushed'.shapes = b + 1
      BY <1>0, <1>1, <1>9 DEF SendShapes, TypeOK
    <2>4. Ascending("set_shapes", a, b + 1)' /\ Ascending("reload", v, w)'
      BY <1>0, <1>2, <2>1, AscendingSent
    <2>5. QED
      BY <1>1, <1>3, <2>2, <2>3, <2>4
  <1>10. ASSUME NEW q \in upstream, AnswerCall(q) PROVE PushesAreInOrder'
    <2>1. PICK ok \in BOOLEAN :
            inbox' = Append(inbox, [type |-> "result", id |-> q.id, of |-> q.of, ok |-> ok])
      BY <1>10 DEF AnswerCall
    <2>2. [type |-> "result", id |-> q.id, of |-> q.of, ok |-> ok] \in Frames
      BY <1>0 DEF Frames, TypeOK
    <2>3. UNCHANGED <<keysets, pushed, taken>>
      BY <1>10 DEF AnswerCall
    <2>4. QED
      BY <1>5, <2>1, <2>2, <2>3
  <1>11. CASE ReadRun \/ ReadResult
    <2>1. UNCHANGED <<keysets, pushed, taken>> /\ (Reads("run") \/ Reads("result"))
      BY <1>11 DEF ReadRun, ReadResult
    <2>2. QED
      BY <1>6, <2>1
  <1>12. CASE ReadReload
    <2>1. Reads("reload") /\ keysets' = keysets /\ pushed' = pushed /\ taken' = Head(inbox).version
      BY <1>12 DEF ReadReload
    <2>2. PICK c \in Nat : c = Head(inbox).version
      BY <1>0, <2>1, ReadFacts, FrameFacts
    <2>3. Ascending("set_shapes", a, b)' /\ Ascending("reload", c, w)'
      BY <1>0, <1>2, <2>1, <2>2, AscendingRead
    <2>4. QED
      BY <1>1, <1>3, <2>1, <2>2, <2>3
  <1>13. CASE ReadShapes
    <2>1. Reads("set_shapes") /\ keysets' = Head(inbox).version /\ pushed' = pushed /\ taken' = taken
      BY <1>13 DEF ReadShapes
    <2>2. PICK c \in Nat : c = Head(inbox).version
      BY <1>0, <2>1, ReadFacts, FrameFacts
    <2>3. Ascending("set_shapes", c, b)' /\ Ascending("reload", v, w)'
      BY <1>0, <1>2, <2>1, <2>2, AscendingRead
    <2>4. QED
      BY <1>1, <1>3, <2>1, <2>2, <2>3
  <1>14. QED
    BY <1>4, <1>7, <1>8, <1>9, <1>10, <1>11, <1>12, <1>13, FrameSteps DEF RunsGoOn, ReadLoop

\* What a run has seen of the pushes in front of it.
SeesPushes(r) ==
  /\ phase[r] \notin {"idle", "sent"} =>
       before[r].shapes <= keysets /\ \A v \in 1 .. before[r].sdk : Tried(v)
  /\ phase[r] \in {"idle", "sent", "spawned", "queued"} => seen[r] = 0
  /\ phase[r] \in {"queued", "begun", "injected", "running", "calling", "waiting"} =>
       keys[r] >= before[r].shapes
  /\ seen[r] # 0 => \A v \in 1 .. before[r].sdk : v \in failed \/ v <= seen[r]

\* A run goes behind what was pushed before it, and finds it handled.
LEMMA BehindStep == IInv /\ [Next]_vars => RunsAreBehind' /\ RunsSeeEarlierPushes'
  <1> SUFFICES ASSUME IInv, [Next]_vars PROVE RunsAreBehind' /\ RunsSeeEarlierPushes'
    OBVIOUS
  <1>0. TypeOK /\ TypeOK' /\ RunsAreBehind
        /\ Ascending("set_shapes", keysets, pushed.shapes) /\ Ascending("reload", taken, pushed.sdk)
        /\ phase \in [Runs -> {"idle", "sent", "spawned", "queued", "begun", "injected", "running",
                               "calling", "waiting", "answered", "dropped"}]
        /\ before \in [Runs -> [sdk : Nat, shapes : Nat]]
        /\ (readLoop = "reading" => \A v \in 1 .. taken : Tried(v))
    <2>1. TypeOK /\ TypeOK' /\ RunsAreBehind /\ PushesAreInOrder /\ VersionsAscend
      BY TypeStep DEF IInv
    <2>2. QED
      BY <2>1 DEF PushesAreInOrder, VersionsAscend, TypeOK
  <1>1. \A r \in Runs : SeesPushes(r)
    BY DEF IInv, RunsAreBehind, RunsSeeEarlierPushes, SeesPushes
  <1>2. \A i \in DOMAIN inbox : inbox[i].type = "run" =>
          /\ inbox[i].run \in Runs /\ phase[inbox[i].run] = "sent"
          /\ Reaches("set_shapes", keysets, before[inbox[i].run].shapes, i)
          /\ Reaches("reload", taken, before[inbox[i].run].sdk, i)
          /\ \A j \in DOMAIN inbox : inbox[j] = inbox[i] => i = j
    <2>1. \A i \in DOMAIN inbox : inbox[i] \in Frames
      BY <1>0, ElementOfSeq, LenProperties DEF TypeOK
    <2>2. QED
      BY <1>0, <2>1, FrameFacts DEF RunsAreBehind
  <1>3. /\ keysets \in Nat /\ taken \in Nat /\ module.version \in Nat
        /\ pushed.sdk \in Nat /\ pushed.shapes \in Nat
        /\ \A r \in Runs : before[r].sdk \in Nat /\ before[r].shapes \in Nat
    BY <1>0, VersionFacts
  <1>4. keysets' \in Nat /\ module'.version \in Nat /\ taken' \in Nat
    <2>1. keysets' \in Nat /\ module'.version \in DOMAIN Sdks /\ taken' \in DOMAIN Sdks
      BY <1>0 DEF TypeOK
    <2>2. module'.version \in Nat /\ taken' \in Nat
      BY <2>1, SdkFacts
    <2>3. QED
      BY <2>1, <2>2 
  <1>5. ASSUME \A i \in DOMAIN inbox' : inbox'[i].type = "run" =>
                 LET r == inbox'[i].run IN
                   /\ phase'[r] = "sent"
                   /\ Reaches("set_shapes", keysets, before[inbox[i].run].shapes, i)'
                   /\ Reaches("reload", taken, before[inbox[i].run].sdk, i)'
                   /\ \A j \in DOMAIN inbox' : inbox'[j] = inbox'[i] => i = j,
               \A r \in Runs : SeesPushes(r)'
        PROVE  RunsAreBehind' /\ RunsSeeEarlierPushes'
    BY <1>5 DEF RunsAreBehind, RunsSeeEarlierPushes, SeesPushes
  <1> USE DEF loop, gateway, shared, source, setup
  \* A frame that is no run is sent.
  <1>6. ASSUME NEW f \in Frames, f.type # "run", inbox' = Append(inbox, f),
               UNCHANGED <<before, keysets, module, taken, failed, phase, keys, seen>>
        PROVE  RunsAreBehind' /\ RunsSeeEarlierPushes'
    <2>1. \A r \in Runs : SeesPushes(r)'
      BY <1>1, <1>6 DEF SeesPushes, Tried
    <2> DEFINE n == Len(inbox) + 1
    <2>2. /\ DOMAIN inbox' = DOMAIN inbox \cup {n} /\ inbox'[n] = f
          /\ \A i \in DOMAIN inbox : inbox'[i] = inbox[i]
      BY <1>0, <1>6, SendFacts
    <2> HIDE DEF n
    <2>3. ASSUME NEW i \in DOMAIN inbox', inbox'[i].type = "run"
          PROVE  LET r == inbox'[i].run IN
                   /\ phase'[r] = "sent"
                   /\ Reaches("set_shapes", keysets, before[inbox[i].run].shapes, i)'
                   /\ Reaches("reload", taken, before[inbox[i].run].sdk, i)'
                   /\ \A j \in DOMAIN inbox' : inbox'[j] = inbox'[i] => i = j
      <3>1. i \in DOMAIN inbox /\ inbox'[i] = inbox[i] /\ inbox[i].type = "run"
        BY <1>6, <2>2, <2>3
      <3>2. PICK r, a, v, b, w : /\ r = inbox[i].run /\ r \in Runs
                                 /\ a = keysets /\ v = before[r].shapes
                                 /\ b = taken /\ w = before[r].sdk
                                 /\ Reaches("set_shapes", a, v, i) /\ Reaches("reload", b, w, i)
        BY <1>2, <3>1
      <3>3. Reaches("set_shapes", a, v, i)' /\ Reaches("reload", b, w, i)'
        BY <1>0, <1>6, <3>2, ReachesSent
      <3>4. \A j \in DOMAIN inbox' : inbox'[j] = inbox'[i] => i = j
        BY <1>2, <1>6, <2>2, <3>1
      <3>5. QED
        BY <1>2, <1>6, <3>1, <3>2, <3>3, <3>4 DEF Reaches
    <2>4. QED
      BY <1>5, <2>1, <2>3
  \* A frame is read; its run, if it is one, is spawned.
  <1>7. ASSUME NEW read, Reads(read), keysets <= keysets', taken <= taken',
               read = "set_shapes" => keysets' = Head(inbox).version,
               read = "reload" => Head(inbox).version <= taken',
               UNCHANGED <<before, module, failed, keys, seen>>,
               IF read = "run" THEN phase' = [phase EXCEPT ![Head(inbox).run] = "spawned"]
                               ELSE phase' = phase
        PROVE  RunsAreBehind' /\ RunsSeeEarlierPushes'
    <2>1. /\ inbox \in Seq(Frames) /\ inbox # <<>> /\ inbox' = Tail(inbox)
          /\ Head(inbox) = inbox[1] /\ inbox[1].type = read /\ 1 \in DOMAIN inbox
      BY <1>0, <1>7, ReadFacts
    <2>2. \A i \in DOMAIN inbox' : i \in Nat /\ i + 1 \in DOMAIN inbox /\ i + 1 # 1
                                   /\ inbox'[i] = inbox[i + 1]
      BY <2>1, TailFacts
    <2>3. read = "run" =>
            /\ inbox[1].run \in Runs /\ phase[inbox[1].run] = "sent"
            /\ before[inbox[1].run].shapes <= keysets /\ before[inbox[1].run].sdk <= taken
      <3>1. \A i \in DOMAIN inbox : ~ (i < 1)
        BY <2>1, LenProperties
      <3>2. QED
        BY <1>2, <2>1, <3>1 DEF Reaches
    <2>4. read = "run" => \A v \in 1 .. before[inbox[1].run].sdk : Tried(v)
      BY <1>0, <1>3, <1>7, <2>3 DEF Reads, LoopFree
    <2>5. ASSUME NEW r \in Runs PROVE SeesPushes(r)'
      <3>1. \/ phase'[r] = phase[r]
            \/ /\ phase[r] = "sent" /\ phase'[r] = "spawned"
               /\ before[r].shapes <= keysets /\ \A v \in 1 .. before[r].sdk : Tried(v)
        BY <1>0, <1>7, <2>1, <2>3, <2>4
      <3>2. QED
        BY <1>1, <1>3, <1>4, <1>7, <3>1 DEF SeesPushes, Tried
    <2>6. ASSUME NEW i \in DOMAIN inbox', inbox'[i].type = "run"
          PROVE  LET r == inbox'[i].run IN
                   /\ phase'[r] = "sent"
                   /\ Reaches("set_shapes", keysets, before[inbox[i].run].shapes, i)'
                   /\ Reaches("reload", taken, before[inbox[i].run].sdk, i)'
                   /\ \A j \in DOMAIN inbox' : inbox'[j] = inbox'[i] => i = j
      <3>1. i \in Nat /\ i + 1 \in DOMAIN inbox /\ i + 1 # 1
            /\ inbox'[i] = inbox[i + 1] /\ inbox[i + 1].type = "run"
        BY <2>2, <2>6
      <3>0. PICK r \in Runs : r = inbox[i + 1].run
        BY <1>2, <3>1
      <3>2. PICK a \in Nat, c \in Nat, b \in Nat, d \in Nat, v \in Nat, w \in Nat :
              /\ a = keysets /\ c = keysets' /\ b = taken /\ d = taken'
              /\ v = before[r].shapes /\ w = before[r].sdk
        BY <1>3, <1>4
      <3>3. /\ phase[r] = "sent"
            /\ Reaches("set_shapes", a, v, i + 1) /\ Reaches("reload", b, w, i + 1)
        BY <1>2, <3>0, <3>1, <3>2
      <3>4. (read = "set_shapes" => Head(inbox).version <= c)
            /\ (read = "reload" => Head(inbox).version <= d) /\ a <= c /\ b <= d
        BY <1>4, <1>7, <3>2
      <3>5. Reaches("set_shapes", c, v, i)' /\ Reaches("reload", d, w, i)'
        BY <1>0, <1>7, <3>1, <3>3, <3>4, ReachesRead
      <3>6. \A j \in DOMAIN inbox' : inbox'[j] = inbox'[i] => i = j
        BY <1>2, <2>2, <3>1
      <3>7. inbox[1] # inbox[i + 1]
        BY <1>2, <2>1, <3>1
      <3>8. read = "run" => inbox[1].run # r
        <4>1. ASSUME read = "run", inbox[1].run = r PROVE FALSE
          <5>1. inbox[1] \in Frames /\ inbox[i + 1] \in Frames
            BY <2>1, <3>1, ElementOfSeq, LenProperties
          <5>2. \A f, g \in Frames : f.type = "run" /\ g.type = "run" /\ f.run = g.run => f = g
            BY DEF Frames
          <5>3. QED
            BY <2>1, <3>0, <3>1, <3>7, <4>1, <5>1, <5>2
        <4>2. QED
          BY <4>1
      <3>9. phase'[r] = "sent"
        BY <1>0, <1>7, <2>1, <3>3, <3>8
      <3>10. QED
        BY <1>7, <3>0, <3>1, <3>2, <3>5, <3>6, <3>9 DEF Reaches
    <2>7. QED
      BY <1>5, <2>5, <2>6
  <1>8. CASE RunsGoOn
    <2>1. ASSUME NEW r \in Runs PROVE SeesPushes(r)'
      <3>1. GoesOn(r) /\ before' = before /\ keysets' = keysets /\ module.version <= module'.version
            /\ module'.version \in Nat /\ failed \subseteq failed'
        BY <1>8 DEF RunsGoOn
      <3>2. before[r].sdk \in Nat /\ before[r].shapes \in Nat /\ module.version \in Nat /\ keysets \in Nat
        BY <1>3
      <3>3. SeesPushes(r)
        BY <1>1
      <3>4. QED
        BY <3>1, <3>2, <3>3 DEF SeesPushes, GoesOn, Tried
    <2>2. \A r \in Runs : phase[r] = "sent" => phase'[r] = "sent"
      BY <1>8 DEF RunsGoOn, GoesOn
    <2>3. UNCHANGED <<inbox, before, keysets, taken>>
      BY <1>8 DEF RunsGoOn
    <2>4. QED
      BY <1>2, <1>5, <2>1, <2>2, <2>3 DEF Reaches
  <1>9. ASSUME NEW r \in Runs, SendRun(r) PROVE RunsAreBehind' /\ RunsSeeEarlierPushes'
    <2>1. /\ phase[r] = "idle" /\ phase' = [phase EXCEPT ![r] = "sent"]
          /\ before' = [before EXCEPT ![r] = pushed]
          /\ inbox' = Append(inbox, [type |-> "run", run |-> r])
          /\ UNCHANGED <<keysets, module, taken, failed, keys, seen>>
      BY <1>9 DEF SendRun
    <2>2. PICK f \in Frames : f = [type |-> "run", run |-> r] /\ inbox' = Append(inbox, f)
      BY <2>1 DEF Frames
    <2>3. PICK n \in Nat : n = Len(inbox) + 1
      BY <1>0, LenProperties DEF TypeOK
    <2>4. /\ DOMAIN inbox' = DOMAIN inbox \cup {n} /\ inbox'[n] = f /\ n \notin DOMAIN inbox
          /\ \A i \in DOMAIN inbox : inbox'[i] = inbox[i]
      BY <1>0, <2>2, <2>3, SendFacts
    <2>5. before'[r] = pushed /\ phase'[r] = "sent"
          /\ \A q \in Runs \ {r} : before'[q] = before[q] /\ phase'[q] = phase[q]
      BY <1>0, <2>1
    <2>6. ASSUME NEW q \in Runs PROVE SeesPushes(q)'
      BY <1>1, <2>1, <2>5 DEF SeesPushes, Tried
    <2>7. ASSUME NEW i \in DOMAIN inbox', inbox'[i].type = "run"
          PROVE  LET q == inbox'[i].run IN
                   /\ phase'[q] = "sent"
                   /\ Reaches("set_shapes", keysets, before[inbox[i].run].shapes, i)'
                   /\ Reaches("reload", taken, before[inbox[i].run].sdk, i)'
                   /\ \A j \in DOMAIN inbox' : inbox'[j] = inbox'[i] => i = j
      <3>1. \A j \in DOMAIN inbox : inbox[j] # f
        BY <1>2, <2>1, <2>2
      <3>2. CASE i \in DOMAIN inbox
        <4>1. PICK q, a, v, b, w : /\ q = inbox[i].run /\ q \in Runs /\ phase[q] = "sent"
                                   /\ a = keysets /\ v = before[q].shapes
                                   /\ b = taken /\ w = before[q].sdk
                                   /\ Reaches("set_shapes", a, v, i) /\ Reaches("reload", b, w, i)
          BY <1>2, <2>4, <2>7, <3>2
        <4>2. Reaches("set_shapes", a, v, i)' /\ Reaches("reload", b, w, i)'
          BY <1>0, <2>2, <4>1, ReachesSent
        <4>3. \A j \in DOMAIN inbox' : inbox'[j] = inbox'[i] => i = j
          BY <1>2, <2>4, <2>7, <3>1, <3>2
        <4>4. q # r /\ before'[q] = before[q] /\ phase'[q] = "sent"
          BY <2>1, <2>5, <4>1
        <4>5. QED
          BY <2>1, <2>4, <3>2, <4>1, <4>2, <4>3, <4>4 DEF Reaches
      <3>3. CASE i = n
        <4>1. PICK a, v, b, w : /\ a = keysets /\ v = pushed.shapes /\ b = taken /\ w = pushed.sdk
                                /\ Reaches("set_shapes", a, v, n) /\ Reaches("reload", b, w, n)
          BY <1>0, <2>3 DEF Ascending
        <4>2. Reaches("set_shapes", a, v, n)' /\ Reaches("reload", b, w, n)'
          BY <1>0, <2>2, <4>1, ReachesSent
        <4>3. \A j \in DOMAIN inbox' : inbox'[j] = inbox'[i] => i = j
          BY <2>4, <3>1, <3>3
        <4>4. QED
          BY <2>1, <2>2, <2>4, <2>5, <3>3, <4>1, <4>2, <4>3 DEF Reaches
      <3>4. QED
        BY <2>4, <3>2, <3>3
    <2>8. QED
      BY <1>5, <2>6, <2>7
  <1>10. CASE SendReload
    <2>1. PICK f \in Frames : inbox' = Append(inbox, f) /\ f.type = "reload"
      BY <1>3, <1>10 DEF SendReload, Frames
    <2>2. UNCHANGED <<before, keysets, module, taken, failed, phase, keys, seen>>
      BY <1>10 DEF SendReload, progress
    <2>3. QED
      BY <1>6, <2>1, <2>2
  <1>11. CASE SendShapes
    <2>1. PICK f \in Frames : inbox' = Append(inbox, f) /\ f.type = "set_shapes"
      BY <1>3, <1>11 DEF SendShapes, Frames
    <2>2. UNCHANGED <<before, keysets, module, taken, failed, phase, keys, seen>>
      BY <1>11 DEF SendShapes, progress
    <2>3. QED
      BY <1>6, <2>1, <2>2
  <1>12. ASSUME NEW q \in upstream, AnswerCall(q) PROVE RunsAreBehind' /\ RunsSeeEarlierPushes'
    <2>1. PICK ok \in BOOLEAN :
            inbox' = Append(inbox, [type |-> "result", id |-> q.id, of |-> q.of, ok |-> ok])
      BY <1>12 DEF AnswerCall
    <2>2. [type |-> "result", id |-> q.id, of |-> q.of, ok |-> ok] \in Frames
      BY <1>0 DEF Frames, TypeOK
    <2>3. UNCHANGED <<before, keysets, module, taken, failed, phase, keys, seen>>
      BY <1>12 DEF AnswerCall, progress
    <2>4. QED
      BY <1>6, <2>1, <2>2, <2>3
  <1>13. CASE ReadRun
    <2>1. Reads("run") /\ phase' = [phase EXCEPT ![Head(inbox).run] = "spawned"]
          /\ UNCHANGED <<before, keysets, module, taken, failed, keys, seen>>
      BY <1>13 DEF ReadRun
    <2>2. QED
      BY <1>3, <1>7, <2>1
  <1>14. CASE ReadResult
    <2>1. Reads("result")
          /\ UNCHANGED <<before, keysets, module, taken, failed, phase, keys, seen>>
      BY <1>14 DEF ReadResult
    <2>2. QED
      BY <1>3, <1>7, <2>1
  <1>15. CASE ReadReload
    <2>1. Reads("reload") /\ UNCHANGED <<before, keysets, module, failed, phase, keys, seen>>
      BY <1>15 DEF ReadReload, progress
    <2>2. taken' = Head(inbox).version
      BY <1>15 DEF ReadReload
    <2>3. Head(inbox).version = taken + 1
      <3>1. PICK a \in Nat, b \in Nat, c \in Nat : a = taken /\ b = pushed.sdk /\ c = a + 1
        BY <1>3
      <3>2. Ascending("reload", a, b)
        BY <1>0, <3>1 DEF Ascending
      <3>3. QED
        BY <1>0, <2>1, <3>1, <3>2, AscendingRead
    <2>4. QED
      BY <1>3, <1>7, <2>1, <2>2, <2>3
  <1>16. CASE ReadShapes
    <2>1. Reads("set_shapes") /\ keysets' = Head(inbox).version
          /\ UNCHANGED <<before, module, taken, failed, phase, keys, seen>>
      BY <1>16 DEF ReadShapes, progress
    <2>2. Head(inbox).version = keysets + 1
      <3>1. PICK a \in Nat, b \in Nat, c \in Nat : a = keysets /\ b = pushed.shapes /\ c = a + 1
        BY <1>3
      <3>2. Ascending("set_shapes", a, b)
        BY <1>0, <3>1 DEF Ascending
      <3>3. QED
        BY <1>0, <2>1, <3>1, <3>2, AscendingRead
    <2>3. QED
      BY <1>3, <1>7, <2>1, <2>2
  <1>17. QED
    BY <1>8, <1>9, <1>10, <1>11, <1>12, <1>13, <1>14, <1>15, <1>16, FrameSteps DEF ReadLoop

\* What a step that reads no reload and loads nothing leaves of the versions.
VersionsKept ==
  /\ UNCHANGED <<module.version, taken, text>> /\ written <= written' /\ failed \subseteq failed'
  /\ readLoop' = "defining" <=> readLoop = "defining"
  /\ readLoop' = "reading" => readLoop = "reading" \/ taken \in failed'

\* A load finds a text that is no older than the last, and what is taken is tried.
LEMMA VersionsStep == IInv /\ [Next]_vars => VersionsAscend'
  <1> SUFFICES ASSUME IInv, [Next]_vars PROVE VersionsAscend'
    OBVIOUS
  <1>0. TypeOK /\ TypeOK' /\ JobsAreSingle /\ VersionsAscend
        /\ Ascending("reload", taken, pushed.sdk)
    BY TypeStep DEF IInv, PushesAreInOrder
  <1>1. /\ taken \in Nat /\ written \in Nat /\ module.version \in Nat /\ pushed.sdk \in Nat
        /\ taken' \in Nat /\ written' \in Nat /\ module'.version \in Nat
    <2>1. taken' \in DOMAIN Sdks /\ written' \in DOMAIN Sdks /\ module'.version \in DOMAIN Sdks
      BY <1>0 DEF TypeOK
    <2>2. QED
      BY <1>0, <2>1, VersionFacts, SdkFacts
  <1> USE DEF loop, shared, source
  <1>2. CASE VersionsKept
    BY <1>0, <1>1, <1>2 DEF VersionsKept, VersionsAscend, Newest, Tried
  <1>3. CASE ReadReload
    <2>1. Reads("reload") /\ taken' = Head(inbox).version
          /\ readLoop = "reading" /\ readLoop' = "queued"
          /\ UNCHANGED <<module, written, text, failed>>
      BY <1>3 DEF ReadReload, Reads, LoopFree
    <2>2. Head(inbox).version = taken + 1
      <3>1. PICK a \in Nat, b \in Nat, c \in Nat : a = taken /\ b = pushed.sdk /\ c = a + 1
        BY <1>1
      <3>2. Ascending("reload", a, b)
        BY <1>0, <3>1 DEF Ascending
      <3>3. QED
        BY <1>0, <2>1, <3>1, <3>2, AscendingRead
    <2>3. QED
      BY <1>0, <1>1, <2>1, <2>2 DEF VersionsAscend, Newest, Tried
  <1>4. CASE LoadHeader
    <2>1. /\ text' \in Texts /\ UNCHANGED <<written, taken>>
          /\ failed' = IF text' < taken THEN failed \cup {taken} ELSE failed
          /\ readLoop = "loading" /\ readLoop' = "defining"
      BY <1>4 DEF LoadHeader
    <2>2. module'.version = module.version
      BY <1>0, <1>4 DEF LoadHeader, TypeOK
    <2>3. QED
      BY <1>0, <1>1, <2>1, <2>2 DEF VersionsAscend, Newest, Tried, Texts
  <1>5. CASE LoadFunctions
    <2>1. /\ UNCHANGED <<written, taken, failed>>
          /\ readLoop = "defining" /\ readLoop' = "reading"
      BY <1>5 DEF LoadFunctions
    <2>2. module'.version = text
      BY <1>0, <1>5 DEF LoadFunctions, TypeOK
    <2>3. QED
      BY <1>0, <1>1, <2>1, <2>2 DEF VersionsAscend, Newest, Tried
  <1>6. ASSUME UNCHANGED <<module, source, readLoop>> PROVE VersionsKept
    BY <1>1, <1>6 DEF VersionsKept
  <1>7. CASE WriteSdk \/ StartReload \/ ReloadFails
    <2>1. StartReload => readLoop = "queued"
      BY <1>0, TakesFacts DEF StartReload
    <2>2. VersionsKept
      BY <1>1, <1>7, <2>1 DEF WriteSdk, StartReload, ReloadFails, VersionsKept
    <2>3. QED
      BY <1>2, <2>2
  <1>8. ASSUME NEW r \in Runs, Wire(r) PROVE VersionsKept
    <2>1. module' = [module EXCEPT !.dispatch = "call_tool"] /\ UNCHANGED <<source, readLoop>>
      BY <1>8 DEF Wire
    <2>2. QED
      BY <1>0, <1>1, <2>1 DEF VersionsKept, TypeOK
  <1>9. ASSUME NEW r \in Runs, Finish(r) \/ FinishUnsent(r) \/ CallPlaceholder(r) PROVE VersionsKept
    <2>1. PICK how \in {"answered", "dropped"} : Leaves(r, how)
      BY <1>9, LeaveFacts
    <2>2. QED
      BY <1>6, <2>1 DEF Leaves
  <1>10. ASSUME NEW r \in Runs,
                \/ SendRun(r) \/ Submit(r) \/ Reject(r) \/ Begin(r) \/ Inject(r) \/ Exit(r)
                \/ CallFires(r) \/ Resume(r) \/ CallTimesOut(r)
                \/ \E fn \in Fns : CallStubbed(r, fn) \/ CallRegisters(r, fn)
                \/ \E k \in 1 .. MaxCalls : Read(r, k)
         PROVE  VersionsKept
    BY <1>6, <1>10
    DEF SendRun, Submit, Reject, Begin, Inject, Exit, CallFires, Resume, CallTimesOut, Settle,
        CallStubbed, CallRegisters, Read
  <1>11. CASE SendReload \/ SendShapes \/ ReadRun \/ ReadShapes \/ ReadResult \/ UNCHANGED vars
    BY <1>2, <1>6, <1>11 DEF SendReload, SendShapes, ReadRun, ReadShapes, ReadResult, vars
  <1>12. \/ \E q \in upstream : AnswerCall(q)
         \/ \E q \in sends : Send(q) \/ SendFails(q)
         => VersionsKept
    BY <1>6 DEF AnswerCall, Send, SendFails
  <1>13. QED
    BY <1>2, <1>3, <1>4, <1>5, <1>7, <1>8, <1>9, <1>10, <1>11, <1>12
    DEF Next, Gateway, ReadLoop, Reload, Execute, Program

\* What leaves the context, the SDK and what the runs were given as they are.
Undisturbed ==
  /\ UNCHANGED <<ctx, seen, overlapped, reloaded>>
  /\ module'.version = module.version /\ module'.mutations = module.mutations
  /\ readLoop' = "defining" <=> readLoop = "defining"
  /\ text' = text
  /\ \A r \in Runs : Executing(r)' => Executing(r) /\ (phase[r] = "begun" => phase'[r] = "begun")

\* The steps that disturb it.
LEMMA DisturbingSteps ==
  ASSUME IInv, [Next]_vars
  PROVE  Undisturbed \/ LoadHeader \/ LoadFunctions \/ \E r \in Runs : Begin(r) \/ Inject(r)
  <1>0. TypeOK /\ RunsAreBehind
        /\ phase \in [Runs -> {"idle", "sent", "spawned", "queued", "begun", "injected", "running",
                               "calling", "waiting", "answered", "dropped"}]
    BY DEF IInv, TypeOK
  <1> USE DEF loop, shared, source, setup, history, progress, gateway
  <1>1. ASSUME NEW r \in Runs,
               NEW to \in {"sent", "spawned", "queued", "running", "calling", "waiting",
                           "answered", "dropped"},
               phase' = [phase EXCEPT ![r] = to], phase[r] # "begun",
               to \in {"running", "calling", "waiting"} => Executing(r),
               UNCHANGED <<ctx, seen, overlapped, reloaded, readLoop, text>>,
               module'.version = module.version, module'.mutations = module.mutations
        PROVE  Undisturbed
    BY <1>0, <1>1 DEF Undisturbed, Executing
  <1>2. ASSUME UNCHANGED <<phase, ctx, seen, overlapped, reloaded, module, text>>,
               readLoop' = "defining" <=> readLoop = "defining"
        PROVE  Undisturbed
    BY <1>2 DEF Undisturbed, Executing
  <1>3. ASSUME NEW r \in Runs, SendRun(r) \/ Submit(r) PROVE Undisturbed
    <2>1. PICK to \in {"sent", "queued"} :
            /\ phase' = [phase EXCEPT ![r] = to] /\ phase[r] # "begun"
            /\ UNCHANGED <<ctx, seen, overlapped, reloaded, module, readLoop, text>>
      BY <1>3 DEF SendRun, Submit
    <2>2. QED
      BY <1>1, <2>1
  <1>4. CASE \/ WriteSdk \/ SendReload \/ SendShapes \/ ReadReload \/ ReadShapes \/ ReadResult
             \/ StartReload \/ ReloadFails
    <2>1. /\ UNCHANGED <<phase, ctx, seen, overlapped, reloaded, module, text>>
          /\ readLoop' = "defining" <=> readLoop = "defining"
      BY <1>0, <1>4, TakesFacts
      DEF WriteSdk, SendReload, SendShapes, ReadReload, ReadShapes, ReadResult, StartReload,
          ReloadFails, Reads, LoopFree, IInv
    <2>2. QED
      BY <1>2, <2>1
  <1>5. ASSUME NEW q \in upstream, AnswerCall(q) PROVE Undisturbed
    BY <1>2, <1>5 DEF AnswerCall
  <1>6. CASE ReadRun
    <2>1. PICK r \in Runs : phase[r] = "sent" /\ phase' = [phase EXCEPT ![r] = "spawned"]
      BY <1>0, <1>6, ReadRunFacts
    <2>2. UNCHANGED <<ctx, seen, overlapped, reloaded, module, readLoop, text>>
      BY <1>6 DEF ReadRun
    <2>3. QED
      BY <1>1, <2>1, <2>2
  <1>7. ASSUME NEW r \in Runs, Reject(r) PROVE Undisturbed
    <2>1. phase[r] # "begun"
      BY <1>7, TakesFacts DEF Reject, IInv
    <2>2. /\ phase' = [phase EXCEPT ![r] = "answered"]
          /\ UNCHANGED <<ctx, seen, overlapped, reloaded, module, readLoop, text>>
      BY <1>7 DEF Reject
    <2>3. QED
      BY <1>1, <2>1, <2>2
  <1>8. ASSUME NEW r \in Runs, Wire(r) PROVE Undisturbed
    <2>1. /\ phase' = [phase EXCEPT ![r] = "running"] /\ phase[r] = "injected"
          /\ module' = [module EXCEPT !.dispatch = "call_tool"]
          /\ UNCHANGED <<ctx, seen, overlapped, reloaded, readLoop, text>>
      BY <1>8 DEF Wire
    <2>2. module'.version = module.version /\ module'.mutations = module.mutations
      BY <1>0, <2>1 DEF TypeOK
    <2>3. QED
      BY <1>1, <2>1, <2>2 DEF Executing
  <1>9. ASSUME NEW r \in Runs, Exit(r) PROVE Undisturbed
    <2>1. UNCHANGED <<phase, ctx, seen, overlapped, reloaded, module, readLoop, text>>
      BY <1>9 DEF Exit
    <2>2. QED
      BY <1>2, <2>1
  <1>10. ASSUME NEW r \in Runs, Finish(r) \/ FinishUnsent(r) \/ CallPlaceholder(r) PROVE Undisturbed
    <2>1. PICK how \in {"answered", "dropped"} : Leaves(r, how) /\ phase[r] = "running"
      BY <1>10, LeaveFacts
    <2>2. /\ phase' = [phase EXCEPT ![r] = how]
          /\ UNCHANGED <<ctx, seen, overlapped, reloaded, module, readLoop, text>>
      BY <2>1 DEF Leaves
    <2>3. QED
      BY <1>1, <2>1, <2>2
  <1>11. ASSUME NEW r \in Runs, NEW fn \in Fns, CallStubbed(r, fn) PROVE Undisturbed
    <2>1. UNCHANGED <<phase, ctx, seen, overlapped, reloaded, module, readLoop, text>>
      BY <1>11 DEF CallStubbed
    <2>2. QED
      BY <1>2, <2>1
  <1>12. ASSUME NEW r \in Runs, NEW fn \in Fns, CallRegisters(r, fn) PROVE Undisturbed
    <2>1. /\ phase' = [phase EXCEPT ![r] = "calling"] /\ phase[r] = "running"
          /\ UNCHANGED <<ctx, seen, overlapped, reloaded, module, readLoop, text>>
      BY <1>12 DEF CallRegisters, CanCall
    <2>2. QED
      BY <1>1, <2>1 DEF Executing
  <1>13. ASSUME NEW r \in Runs, NEW k \in 1 .. MaxCalls, Read(r, k) PROVE Undisturbed
    <2>1. /\ phase' = [phase EXCEPT ![r] = "waiting"] /\ phase[r] = "running"
          /\ UNCHANGED <<ctx, seen, overlapped, reloaded, module, readLoop, text>>
      BY <1>13 DEF Read
    <2>2. QED
      BY <1>1, <2>1 DEF Executing
  <1>14. ASSUME NEW r \in Runs, CallFires(r) \/ Resume(r) \/ CallTimesOut(r) PROVE Undisturbed
    <2>1. /\ phase' = [phase EXCEPT ![r] = "running"] /\ phase[r] \in {"calling", "waiting"}
          /\ UNCHANGED <<ctx, seen, overlapped, reloaded, module, readLoop, text>>
      BY <1>14 DEF CallFires, Resume, CallTimesOut, Settle
    <2>2. QED
      BY <1>1, <2>1 DEF Executing
  <1>15. CASE UNCHANGED vars
    BY <1>2, <1>15 DEF vars
  <1>16. ASSUME NEW q \in sends, Send(q) \/ SendFails(q) PROVE Undisturbed
    BY <1>2, <1>16 DEF Send, SendFails
  <1>17. QED
    BY <1>3, <1>4, <1>5, <1>6, <1>7, <1>8, <1>9, <1>10, <1>11, <1>12, <1>13, <1>14, <1>15, <1>16
    DEF Next, Gateway, ReadLoop, Reload, Execute, Program

\* A handle keeps its function and its id; the new one of a step is a stub's, without an
\* id, or is registered.
LEMMA CallsAreKept ==
  ASSUME IInv, [Next]_vars, NEW r \in Runs, NEW k \in DOMAIN calls'[r]
  PROVE  \/ /\ k \in Handed(r)
            /\ calls'[r][k].fn = calls[r][k].fn /\ calls'[r][k].id = calls[r][k].id
         \/ calls'[r][k].id = 0
         \/ CallRegisters(r, calls'[r][k].fn)
  <1>0. TypeOK /\ CallsFollowPhase /\ IdsAreOwned
    BY DEF IInv
  <1> DEFINE Kept == /\ k \in Handed(r)
                     /\ calls'[r][k].fn = calls[r][k].fn /\ calls'[r][k].id = calls[r][k].id
  <1>1. CASE calls' = calls
    BY <1>1 DEF Handed
  <1>2. CASE ReadResult
    <2>1. Head(inbox) \in Results
      BY <1>0, <1>2, ReadResults DEF ReadResult
    <2>2. PICK f \in Results : calls' = Resolved(f)
      BY <1>2, <2>1 DEF ReadResult
    <2>3. Kept
      BY <1>0, <2>2, ResultFacts, ResolvedFacts
    <2>4. QED
      BY <2>3
  <1>3. ASSUME NEW q \in Runs, NEW fn \in Fns, CallStubbed(q, fn) PROVE Kept \/ calls'[r][k].id = 0
    <2>1. PICK h \in Handles : h.id = 0 /\ calls' = [calls EXCEPT ![q] = Append(@, h)]
      BY <1>0, <1>3, StubFacts, ZenonT(60)
    <2>2. QED
      BY <1>0, <2>1, NewCallFacts DEF Handed
  <1>4. ASSUME NEW q \in Runs, NEW fn \in Fns, CallRegisters(q, fn)
        PROVE  Kept \/ CallRegisters(r, calls'[r][k].fn)
    <2>1. PICK h \in Handles : h.fn = fn /\ calls' = [calls EXCEPT ![q] = Append(@, h)]
      BY <1>0, <1>4, RegisterFacts
    <2>2. Kept \/ (r = q /\ calls'[r][k] = h)
      BY <1>0, <2>1, NewCallFacts DEF Handed
    <2>3. QED
      BY <1>4, <2>1, <2>2
  <1>5. ASSUME NEW q \in Runs, CallFires(q) PROVE Kept
    <2>1. PICK j : j = Len(calls[q]) /\ j \in Handed(q)
      BY <1>0, <1>5, CallFiresFacts
    <2>2. PICK h \in Handles : /\ h.fn = calls[q][j].fn /\ h.id = calls[q][j].id
                               /\ calls' = [calls EXCEPT ![q][j] = h]
      BY <1>0, <1>5, <2>1, CallFiresFacts
    <2>3. QED
      BY <1>0, <2>1, <2>2, ChangedCallFacts DEF Handed
  <1>6. ASSUME NEW q \in Runs, NEW kind \in {"ok", "error", "timeout"},
               phase[q] = "waiting", Settle(q, kind)
        PROVE  Kept
    <2>1. PICK j \in Handed(q), h \in Handles :
            /\ h.fn = calls[q][j].fn /\ h.id = calls[q][j].id
            /\ calls' = [calls EXCEPT ![q][j] = h]
      BY <1>0, <1>6, SettleFacts
    <2>2. QED
      BY <1>0, <2>1, ChangedCallFacts DEF Handed
  <1>7. QED
    <2>1. (\E q \in upstream : AnswerCall(q)) => calls' = calls
      BY DEF AnswerCall, progress
    <2>2. Quiet => calls' = calls
      BY DEF Quiet
    <2>3. (\E q \in sends : Send(q) \/ SendFails(q)) => calls' = calls
      BY DEF Send, SendFails, progress
    <2>4. QED
      BY <1>1, <1>2, <1>3, <1>4, <1>5, <1>6, <2>1, <2>2, <2>3, CallSteps

\* A run that neither overlaps another nor a reload keeps its context and its SDK.
LEMMA LoneStep == IInv /\ [Next]_vars => LoneContexts'
  <1> SUFFICES ASSUME IInv, [Next]_vars PROVE LoneContexts'
    OBVIOUS
  <1>0. TypeOK /\ CallsFollowPhase /\ JobsAreSingle /\ RunsAreBehind
        /\ phase \in [Runs -> {"idle", "sent", "spawned", "queued", "begun", "injected", "running",
                               "calling", "waiting", "answered", "dropped"}]
    BY DEF IInv, TypeOK
  <1> DEFINE Loaded == IF readLoop = "defining" THEN text ELSE module.version
             Lone(r) == r \notin overlapped \cup reloaded
             Given(r) == /\ ctx.dry = dry[r] /\ ctx.mutations = Sdks[module.version].mutations
                         /\ readLoop # "defining"
                         /\ phase[r] # "begun" => seen[r] = module.version
  <1>1. /\ module.mutations = Sdks[Loaded].mutations
        /\ \A r \in Runs : Executing(r) /\ Lone(r) => Given(r)
        /\ \A r \in Runs : dry[r] /\ Lone(r) =>
             \A k \in Handed(r) : calls[r][k].id # 0 => calls[r][k].fn \notin Sdks[seen[r]].mutations
    BY DEF IInv, LoneContexts
  <1>2. dry' = dry
    BY RunSteps
  <1>3. ASSUME LoadHeader \/ LoadFunctions
        PROVE  /\ module'.mutations = Sdks[Loaded'].mutations
               /\ UNCHANGED <<phase, calls, ctx, dry, seen, overlapped>> /\ reloaded \subseteq reloaded'
               /\ \A r \in Runs : Executing(r) => r \in reloaded'
    <2>1. /\ UNCHANGED <<phase, calls, ctx, dry, seen, overlapped>>
          /\ reloaded' = reloaded \cup {r \in Runs : Executing(r)}
      BY <1>3 DEF LoadHeader, LoadFunctions, progress, setup
    <2>2. CASE LoadHeader
      <3>1. /\ readLoop' = "defining"
            /\ module'.version = module.version
            /\ module'.mutations = Sdks[text'].mutations
        BY <1>0, <2>2 DEF LoadHeader, TypeOK
      <3>2. QED
        BY <2>1, <3>1
    <2>3. CASE LoadFunctions
      <3>1. /\ readLoop = "defining" /\ readLoop' = "reading"
            /\ module'.version = text
            /\ module'.mutations = module.mutations
        BY <1>0, <2>3 DEF LoadFunctions, TypeOK
      <3>2. QED
        BY <1>1, <2>1, <3>1
    <2>4. QED
      BY <1>3, <2>2, <2>3
  <1>4. ASSUME NEW r \in Runs, Inject(r)
        PROVE  /\ phase[r] = "begun" /\ phase' = [phase EXCEPT ![r] = "injected"]
               /\ seen' = [seen EXCEPT ![r] = module.version] /\ seen'[r] = module.version
               /\ calls[r] = <<>>
               /\ UNCHANGED <<calls, ctx, dry, overlapped, reloaded, module, readLoop, text>>
    BY <1>0, <1>4 DEF Inject, TypeOK, CallsFollowPhase, shared, source, history, loop
  <1>5. ASSUME NEW r \in Runs, Lone(r)' PROVE Lone(r)
    BY <1>0, <1>3, <1>4, <1>5, DisturbingSteps, BeginFacts DEF Undisturbed
  <1>6. module'.mutations = Sdks[Loaded'].mutations
    <2>1. CASE Undisturbed
      BY <1>1, <2>1 DEF Undisturbed
    <2>2. ASSUME NEW r \in Runs, Begin(r) \/ Inject(r) PROVE UNCHANGED <<module, readLoop, text>>
      BY <1>0, <1>4, <2>2, BeginFacts
    <2>3. QED
      BY <1>1, <1>3, <2>1, <2>2, DisturbingSteps
  <1>7. ASSUME NEW r \in Runs, Executing(r)', Lone(r)' PROVE Given(r)'
    <2>1. CASE Undisturbed
      BY <1>1, <1>2, <1>5, <1>7, <2>1 DEF Undisturbed
    <2>2. ASSUME LoadHeader \/ LoadFunctions PROVE FALSE
      <3>1. Executing(r)
        BY <1>3, <1>7, <2>2 DEF Executing
      <3>2. QED
        BY <1>3, <1>7, <2>2, <3>1
    <2>3. ASSUME NEW q \in Runs, Begin(q) PROVE Given(r)'
      <3>1. r = q
        <4>1. ~ Executing(r)
          BY <1>0, <1>7, <2>3, BeginFacts
        <4>2. QED
          BY <1>0, <1>7, <2>3, <4>1, BeginFacts DEF Executing
      <3>2. ctx'.dry = dry[r] /\ ctx'.mutations = module.mutations /\ phase'[r] = "begun"
            /\ readLoop \notin {"loading", "defining"} /\ UNCHANGED <<module, readLoop>>
        BY <1>0, <1>7, <2>3, <3>1, BeginFacts
      <3>3. QED
        BY <1>1, <1>2, <3>2
    <2>4. ASSUME NEW q \in Runs, Inject(q) PROVE Given(r)'
      <3>1. Executing(r)
        BY <1>0, <1>4, <1>7, <2>4 DEF Executing
      <3>2. Given(r)
        BY <1>1, <1>5, <1>7, <3>1
      <3>3. CASE r = q
        BY <1>4, <2>4, <3>2, <3>3
      <3>4. CASE r # q
        BY <1>0, <1>4, <2>4, <3>2, <3>4 DEF TypeOK
      <3>5. QED
        BY <3>3, <3>4
    <2>5. QED
      BY <2>1, <2>2, <2>3, <2>4, DisturbingSteps
  <1>8. ASSUME NEW r \in Runs, dry'[r], Lone(r)', NEW k \in DOMAIN calls'[r], calls'[r][k].id # 0
        PROVE  calls'[r][k].fn \notin Sdks[seen'[r]].mutations
    <2>1. Lone(r) /\ dry[r]
      BY <1>2, <1>5, <1>8
    <2>2. seen'[r] = seen[r] \/ (calls[r] = <<>> /\ calls' = calls)
      <3>1. ASSUME NEW q \in Runs, Inject(q)
            PROVE  seen'[r] = seen[r] \/ (calls[r] = <<>> /\ calls' = calls)
        BY <1>0, <1>4, <3>1 DEF TypeOK
      <3>2. QED
        BY <1>0, <1>3, <3>1, DisturbingSteps, BeginFacts DEF Undisturbed
    <2>3. CASE /\ k \in Handed(r)
               /\ calls'[r][k].fn = calls[r][k].fn /\ calls'[r][k].id = calls[r][k].id
      <3>1. calls[r] # <<>>
        BY <2>3 DEF Handed
      <3>2. QED
        BY <1>1, <1>8, <2>1, <2>2, <2>3, <3>1
    <2>4. CASE CallRegisters(r, calls'[r][k].fn)
      <3>1. /\ phase[r] = "running" /\ ~ (ctx.dry /\ calls'[r][k].fn \in ctx.mutations)
            /\ seen' = seen
        BY <2>4 DEF CallRegisters, CanCall, setup
      <3>2. Given(r)
        BY <1>1, <2>1, <3>1 DEF Executing
      <3>3. QED
        BY <2>1, <3>1, <3>2
    <2>5. QED
      BY <1>8, <2>3, <2>4, CallsAreKept
  <1>9. QED
    BY <1>6, <1>7, <1>8 DEF LoneContexts, Handed

-----------------------------------------------------------------------------
(* The invariant, and what it says of the worker.                          *)

\* A worker that has been sent nothing satisfies it.
LEMMA InitIInv == Init => IInv
  <1> SUFFICES ASSUME Init PROVE IInv
    OBVIOUS
  <1>1. TypeOK
    BY InitTypeOK
  <1>2. /\ \A r \in Runs : calls[r] = <<>> /\ trace[r] = <<>> /\ report[r] = <<>>
        /\ inbox = <<>> /\ jobs = <<>> /\ keysets = 0 /\ readLoop = "reading"
        /\ sends = {} /\ unsent = {} /\ upstream = {}
        /\ pushed.sdk = 1 /\ pushed.shapes = 0 /\ module.version = 1
        /\ taken = 1 /\ written = 1
        /\ module.mutations = Sdks[1].mutations
        /\ \A r \in Runs : phase[r] = "idle" /\ seen[r] = 0
    BY DEF Init
  <1>3. /\ \A r \in Runs : Handed(r) = {} /\ DOMAIN trace[r] = {} /\ DOMAIN report[r] = {}
        /\ DOMAIN inbox = {} /\ DOMAIN jobs = {}
    BY <1>2 DEF Handed
  <1>4. \A r \in Runs : Len(calls[r]) <= MaxCalls
    <2>1. \A r \in Runs : Len(calls[r]) \in Nat /\ Handed(r) = 1 .. Len(calls[r])
      BY <1>1, HandleFacts
    <2>2. \A r \in Runs : Len(calls[r]) = 0
      BY <1>3, <2>1
    <2>3. QED
      BY <2>2, ParametersTyped
  <1>5. \A r \in Runs : ~ Executing(r)
    BY <1>2 DEF Executing
  <1>6. /\ IdsAreOwned /\ ValuesAreOwn /\ SendsComeFirst /\ CallsStayServed
        /\ CallsFollowPhase /\ RecordsFollowCalls
    BY <1>2, <1>3, <1>4, <1>5
    DEF IdsAreOwned, ValuesAreOwn, SendsComeFirst, CallsStayServed, CallsFollowPhase,
        RecordsFollowCalls
  <1>7. PushesAreInOrder /\ VersionsAscend
    BY <1>2, <1>3 DEF PushesAreInOrder, Ascending, Reaches, VersionsAscend, Newest, Tried
  <1>8. RunsAreBehind /\ RunsSeeEarlierPushes /\ JobsAreSingle
    BY <1>2, <1>3 DEF RunsAreBehind, RunsSeeEarlierPushes, JobsAreSingle, IsInjective
  <1>9. SinksAreShared /\ LoneReportsAreExact
    BY <1>2, <1>3, <1>5 DEF SinksAreShared, LoneReportsAreExact
  <1>10. LoneContexts
    BY <1>2, <1>3, <1>5 DEF LoneContexts
  <1>11. FuturesAreOpen
    BY <1>3 DEF FuturesAreOpen
  <1>12. QED
    BY <1>1, <1>6, <1>7, <1>8, <1>9, <1>10, <1>11 DEF IInv

\* Every step keeps it.
LEMMA StepIInv == IInv /\ [Next]_vars => IInv'
  BY TypeStep, IdsStep, ValuesStep, PhaseStep, SendsStep, ServedStep, RecordsStep, PushesStep,
     VersionsStep, BehindStep, JobsStep, SinksStep, ReportsStep, LoneStep, FuturesStep
  DEF IInv

\* The invariant holds in every state of the worker: ids, futures, records, pushes and the
\* contexts of runs stay in step, whatever runs, reloads, answers and failed sendings do.
THEOREM Inductive == Spec => []IInv
  BY InitIInv, StepIInv, PTL DEF Spec

\* The worker's state stays of its types, whatever the runs, the SDKs and the bounds.
THEOREM WorkerTyped == Spec => []TypeOK
  <1>1. IInv => TypeOK
    BY DEF IInv
  <1>2. QED
    BY <1>1, Inductive, PTL

\* A Pending reads the answer to its own call, however many runs share the Dispatcher.
THEOREM OwnValues == Spec => []ValuesAreOwn
  <1>1. IInv => ValuesAreOwn
    BY DEF IInv
  <1>2. QED
    BY <1>1, Inductive, PTL

\* A call that was made has its future until it is answered, and its request is scheduled or
\* on the wire or its answer on the way, unless its sending failed: then nothing answers it.
THEOREM ServedCalls == Spec => []CallsStayServed
  <1>1. IInv => CallsStayServed
    BY DEF IInv
  <1>2. QED
    BY <1>1, Inductive, PTL

\* The records of a call are one when it is settled, and none before.
LEMMA RecordsAreSingle == IInv => SettledCallsAreRecordedOnce
  <1> SUFFICES ASSUME IInv, NEW r \in Runs, NEW k \in Handed(r)
               PROVE  Cardinality(RecordsOf(r, k)) = IF Settled(calls[r][k]) THEN 1 ELSE 0
    BY DEF SettledCallsAreRecordedOnce
  <1>1. RecordsFollowCalls
    BY DEF IInv
  <1>2. \A x : x \in RecordsOf(r, k) <=>
          \E q \in Runs : \E i \in DOMAIN trace[q] : x = <<q, i>> /\ trace[q][i].of = <<r, k>>
    BY DEF RecordsOf
  <1>3. CASE Settled(calls[r][k])
    <2>1. PICK q \in Runs : \E i \in DOMAIN trace[q] : trace[q][i].of = <<r, k>>
      BY <1>1, <1>3 DEF RecordsFollowCalls
    <2>2. PICK i \in DOMAIN trace[q] : trace[q][i].of = <<r, k>>
      BY <2>1
    <2>3. \A p \in Runs : \A j \in DOMAIN trace[p] :
            trace[p][j].of = <<r, k>> => p = q /\ j = i
      BY <1>1, <2>2 DEF RecordsFollowCalls
    <2>4. RecordsOf(r, k) = {<<q, i>>}
      BY <1>2, <2>2, <2>3
    <2>5. QED
      BY <1>3, <2>4, FS_Singleton
  <1>4. CASE ~ Settled(calls[r][k])
    <2>1. \A q \in Runs : \A i \in DOMAIN trace[q] : trace[q][i].of # <<r, k>>
      <3>1. ASSUME NEW q \in Runs, NEW i \in DOMAIN trace[q], trace[q][i].of = <<r, k>> PROVE FALSE
        <4>1. Settled(calls[r][k])
          BY <1>1, <3>1 DEF RecordsFollowCalls
        <4>2. QED
          BY <1>4, <4>1
      <3>2. QED
        BY <3>1
    <2>2. RecordsOf(r, k) = {}
      BY <1>2, <2>1
    <2>3. QED
      BY <1>4, <2>2, FS_EmptySet
  <1>5. QED
    BY <1>3, <1>4

\* A call is recorded exactly once, when its outcome is settled, whichever of a timeout and
\* a late answer wins and however often its handle is read.
THEOREM SingleRecords == Spec => []SettledCallsAreRecordedOnce
  BY RecordsAreSingle, Inductive, PTL

\* A run goes on with the SDK and the shapes pushed before it, or later ones; the reloads
\* that left it with an older SDK are those that failed or loaded an old text.
THEOREM EarlierPushes == Spec => []RunsSeeEarlierPushes
  <1>1. IInv => RunsSeeEarlierPushes
    BY DEF IInv
  <1>2. QED
    BY <1>1, Inductive, PTL

\* The trace a lone run returns is that of its own settled calls.
THEOREM ExactReports == Spec => []LoneReportsAreExact
  <1>1. IInv => LoneReportsAreExact
    BY DEF IInv
  <1>2. QED
    BY <1>1, Inductive, PTL

\* A lone dry run sends nothing that its SDK classifies as mutating.
THEOREM LoneDryRuns == Spec => []LoneDryRunsWriteNothing
  <1>1. IInv => LoneDryRunsWriteNothing
    BY DEF IInv, LoneContexts, LoneDryRunsWriteNothing, Fired
  <1>2. QED
    BY <1>1, Inductive, PTL
-----------------------------------------------------------------------------
(* The promise: what a worker's step is to the programs, one action of     *)
(* RunPromise or none.                                                     *)

MadeRecords == [fn : Fns, answer : {"none", "ok", "error"},
                outcome : {"open", "dry_run", "ok", "error", "timeout"}]

\* The calls of a sequence of handles, one for one.
LEMMA MadeSequence ==
  ASSUME NEW hs \in Seq(Handles)
  PROVE  LET ms == [k \in DOMAIN hs |-> Made(hs[k])] IN
         /\ ms \in Seq(MadeRecords) /\ Len(ms) = Len(hs) /\ DOMAIN ms = DOMAIN hs
         /\ \A k \in DOMAIN hs : ms[k] = Made(hs[k])
  <1> DEFINE ms == [k \in DOMAIN hs |-> Made(hs[k])]
  <1>1. Len(hs) \in Nat /\ DOMAIN hs = 1 .. Len(hs) /\ \A k \in DOMAIN hs : hs[k] \in Handles
    BY LenProperties, ElementOfSeq
  <1>2. \A h \in Handles : Made(h) \in MadeRecords
    BY DEF Handles, Made, MadeRecords, Settled
  <1>3. ms \in [1 .. Len(hs) -> MadeRecords]
    BY <1>1, <1>2
  <1>4. ms \in Seq(MadeRecords) /\ DOMAIN ms = 1 .. Len(hs)
    BY <1>1, <1>3, SeqDef
  <1>5. \A k \in DOMAIN hs : ms[k] = Made(hs[k])
    OBVIOUS
  <1> HIDE DEF ms
  <1>6. Len(ms) = Len(hs)
    BY <1>1, <1>4, LenProperties
  <1>7. QED
    BY <1>1, <1>4, <1>5, <1>6 DEF ms

\* The calls made are the handles, one for one.
LEMMA MadeFacts ==
  ASSUME TypeOK, NEW r \in Runs
  PROVE  /\ CallsMade[r] \in Seq(MadeRecords)
         /\ Len(CallsMade[r]) = Len(calls[r]) /\ DOMAIN CallsMade[r] = Handed(r)
         /\ \A k \in Handed(r) : CallsMade[r][k] = Made(calls[r][k])
  <1>1. calls[r] \in Seq(Handles)
    BY DEF TypeOK
  <1>2. CallsMade[r] = [k \in DOMAIN calls[r] |-> Made(calls[r][k])]
    BY DEF CallsMade, Handed
  <1>3. QED
    BY <1>1, <1>2, MadeSequence DEF Handed

\* A new handle is a call made.
LEMMA MadeAppended ==
  ASSUME TypeOK, TypeOK', NEW r \in Runs, NEW h \in Handles,
         calls' = [calls EXCEPT ![r] = Append(@, h)]
  PROVE  CallsMade' = [CallsMade EXCEPT ![r] = Append(@, Made(h))]
  <1> DEFINE s == CallsMade'[r]
             t == Append(CallsMade[r], Made(h))
  <1>1. /\ DOMAIN calls'[r] = Handed(r) \cup {Len(calls[r]) + 1}
        /\ Len(calls'[r]) = Len(calls[r]) + 1 /\ calls'[r][Len(calls[r]) + 1] = h
        /\ \A k \in Handed(r) : calls'[r][k] = calls[r][k]
        /\ \A q \in Runs \ {r} : calls'[q] = calls[q]
    BY NewCallFacts
  <1>2. /\ s \in Seq(MadeRecords) /\ Len(s) = Len(calls'[r])
        /\ \A k \in DOMAIN calls'[r] : s[k] = Made(calls'[r][k])
    <2>1. calls'[r] \in Seq(Handles)
      BY DEF TypeOK
    <2>2. s = [k \in DOMAIN calls'[r] |-> Made(calls'[r][k])]
      BY DEF CallsMade, Handed
    <2>3. QED
      BY <2>1, <2>2, MadeSequence
  <1>3. Made(h) \in MadeRecords
    BY DEF Handles, Made, MadeRecords, Settled
  <1>4. /\ t \in Seq(MadeRecords) /\ Len(t) = Len(calls[r]) + 1
        /\ \A k \in Handed(r) : t[k] = Made(calls[r][k])
        /\ t[Len(calls[r]) + 1] = Made(h)
    BY <1>3, MadeFacts, AppendFacts
  <1>5. s = t
    <2>1. Len(s) = Len(t)
      BY <1>1, <1>2, <1>4
    <2>2. \A k \in DOMAIN calls'[r] : s[k] = t[k]
      BY <1>1, <1>2, <1>4
    <2>3. DOMAIN calls'[r] = 1 .. Len(s)
      BY <1>1, <1>2, HandleFacts
    <2> HIDE DEF s, t
    <2>4. QED
      BY <1>2, <1>4, <2>1, <2>2, <2>3, SeqEqual
  <1>6. \A q \in Runs \ {r} : CallsMade'[q] = CallsMade[q]
    BY <1>1 DEF CallsMade, Handed
  <1>7. QED
    BY <1>5, <1>6 DEF CallsMade

\* A handle that changes is a call that does.
LEMMA MadeChanged ==
  ASSUME TypeOK, NEW r \in Runs, NEW k \in Handed(r),
         \A q \in Runs : DOMAIN calls'[q] = Handed(q),
         \A q \in Runs : \A j \in Handed(q) : q # r \/ j # k => Made(calls'[q][j]) = Made(calls[q][j])
  PROVE  CallsMade' = [CallsMade EXCEPT ![r][k] = Made(calls'[r][k])]
  <1>1. CallsMade' = [q \in Runs |-> [j \in Handed(q) |-> Made(calls'[q][j])]]
    BY DEF CallsMade, Handed
  <1>2. CallsMade = [q \in Runs |-> [j \in Handed(q) |-> Made(calls[q][j])]]
    BY DEF CallsMade
  <1>3. QED
    BY <1>1, <1>2

\* Programs the worker was not sent have done nothing.
LEMMA InitPromise == Init => Promise!Init
  <1> SUFFICES ASSUME Init PROVE Promise!Init
    OBVIOUS
  <1>1. TypeOK
    BY InitTypeOK
  <1>2. /\ \A r \in Runs : phase[r] = "idle" /\ seen[r] = 0 /\ calls[r] = <<>>
        /\ trace = [r \in Runs |-> <<>>] /\ report = [r \in Runs |-> <<>>]
        /\ overlapped = {} /\ reloaded = {}
    BY DEF Init
  <1>3. CallsMade = [r \in Runs |-> <<>>]
    <2>1. ASSUME NEW r \in Runs PROVE CallsMade[r] = <<>>
      <3>1. calls[r] = <<>> /\ Len(calls[r]) = 0
        BY <1>2
      <3>2. CallsMade[r] \in Seq(MadeRecords) /\ Len(CallsMade[r]) = 0
        BY <1>1, <3>1, MadeFacts
      <3>3. QED
        BY <3>2, EmptySeq
    <2>2. QED
      BY <2>1 DEF CallsMade
  <1>4. Stages = [r \in Runs |-> "waiting"] /\ Writers = [r \in Runs |-> {}] /\ Disturbed = {}
    BY <1>2 DEF Stages, Stage, Writers, Disturbed
  <1>5. dry \in [Runs -> BOOLEAN]
    BY <1>1 DEF TypeOK
  <1>6. QED
    BY <1>2, <1>3, <1>4, <1>5 DEF Promise!Init

\* What no program notices.
Unnoticed == UNCHANGED <<Stages, dry, Writers, CallsMade, trace, report, Disturbed>>

\* Runs get ahead unnoticed until they have functions, and between their calls.
LEMMA StagesKept ==
  ASSUME TypeOK, NEW r \in Runs, NEW to,
         phase' = [phase EXCEPT ![r] = to],
         \/ {phase[r], to} \subseteq {"idle", "sent", "spawned", "queued", "begun"}
         \/ {phase[r], to} \subseteq {"injected", "running", "calling", "waiting"}
  PROVE  Stages' = Stages
  BY DEF Stages, Stage, TypeOK

\* A run that enters another stage does so alone.
LEMMA StageChanged ==
  ASSUME TypeOK, NEW r \in Runs, NEW to \in {"injected", "answered", "dropped"},
         phase' = [phase EXCEPT ![r] = to]
  PROVE  /\ Stages' = [Stages EXCEPT ![r] = IF to = "injected" THEN "executing" ELSE to]
         /\ Stages[r] = Stage(r)
  BY DEF Stages, Stage, TypeOK

\* The steps between the read loop, the pool and the gateway, and those in the middle of
\* a call: none of them is an action of the promise.
LEMMA UnnoticedSteps ==
  ASSUME IInv, [Next]_vars
  PROVE  \/ Unnoticed
         \/ ReadResult \/ LoadHeader \/ LoadFunctions
         \/ \E r \in Runs : \/ Reject(r) \/ Begin(r) \/ Inject(r)
                            \/ Finish(r) \/ FinishUnsent(r) \/ CallPlaceholder(r)
                            \/ CallFires(r) \/ Resume(r) \/ CallTimesOut(r)
                            \/ \E fn \in Fns : CallStubbed(r, fn) \/ CallRegisters(r, fn)
  <1>0. TypeOK /\ RunsAreBehind
    BY DEF IInv
  <1> USE DEF loop, shared, setup, traces, history, progress, gateway, outputs
  <1>1. ASSUME UNCHANGED <<phase, dry, seen, calls, trace, report, overlapped, reloaded>>
        PROVE  Unnoticed
    BY <1>1 DEF Unnoticed, Stages, Stage, Writers, CallsMade, Handed, Disturbed
  <1>2. ASSUME Stages' = Stages, UNCHANGED <<dry, seen, calls, trace, report, overlapped, reloaded>>
        PROVE  Unnoticed
    BY <1>2 DEF Unnoticed, Writers, CallsMade, Handed, Disturbed
  <1>3. ASSUME NEW r \in Runs, SendRun(r) \/ Submit(r) PROVE Unnoticed
    <2>1. PICK to \in {"sent", "queued"} :
            /\ phase' = [phase EXCEPT ![r] = to] /\ phase[r] \in {"idle", "spawned"}
            /\ UNCHANGED <<dry, seen, calls, trace, report, overlapped, reloaded>>
      BY <1>3 DEF SendRun, Submit
    <2>2. QED
      BY <1>0, <1>2, <2>1, StagesKept
  <1>4. CASE \/ WriteSdk \/ SendReload \/ SendShapes
             \/ ReadReload \/ ReadShapes \/ StartReload \/ ReloadFails
    BY <1>1, <1>4
    DEF WriteSdk, SendReload, SendShapes, ReadReload, ReadShapes, StartReload, ReloadFails
  <1>5. ASSUME NEW q \in upstream, AnswerCall(q) PROVE Unnoticed
    BY <1>1, <1>5 DEF AnswerCall
  <1>6. CASE ReadRun
    <2>1. PICK r \in Runs : phase[r] = "sent" /\ phase' = [phase EXCEPT ![r] = "spawned"]
      BY <1>0, <1>6, ReadRunFacts
    <2>2. UNCHANGED <<dry, seen, calls, trace, report, overlapped, reloaded>>
      BY <1>6 DEF ReadRun
    <2>3. QED
      BY <1>0, <1>2, <2>1, <2>2, StagesKept
  <1>7. ASSUME NEW r \in Runs, Wire(r) PROVE Unnoticed
    <2>1. /\ phase' = [phase EXCEPT ![r] = "running"] /\ phase[r] = "injected"
          /\ UNCHANGED <<dry, seen, calls, trace, report, overlapped, reloaded>>
      BY <1>7 DEF Wire
    <2>2. QED
      BY <1>0, <1>2, <2>1, StagesKept
  <1>8. ASSUME NEW r \in Runs, NEW k \in 1 .. MaxCalls, Read(r, k) PROVE Unnoticed
    <2>1. /\ phase' = [phase EXCEPT ![r] = "waiting"] /\ phase[r] = "running"
          /\ UNCHANGED <<dry, seen, calls, trace, report, overlapped, reloaded>>
      BY <1>8 DEF Read
    <2>2. QED
      BY <1>0, <1>2, <2>1, StagesKept
  <1>9. ASSUME NEW r \in Runs, Exit(r) PROVE Unnoticed
    BY <1>1, <1>9 DEF Exit
  <1>10. CASE UNCHANGED vars
    BY <1>1, <1>10 DEF vars
  <1>11. ASSUME NEW q \in sends, Send(q) \/ SendFails(q) PROVE Unnoticed
    BY <1>1, <1>11 DEF Send, SendFails
  <1>12. QED
    BY <1>3, <1>4, <1>5, <1>6, <1>7, <1>8, <1>9, <1>10, <1>11
    DEF Next, Gateway, ReadLoop, Reload, Execute, Program

\* The sink of the context, and that of a call on the wire, is the run's own or that of one
\* it is mixed up with; a lone run's context is its own.
LEMMA LoneFacts ==
  ASSUME IInv, NEW r \in Runs
  PROVE  /\ Disturbed \subseteq Runs
         /\ phase[r] = "running" => ctx.sink \in Runs /\ (ctx.sink = r \/ {r, ctx.sink} \subseteq Disturbed)
         /\ \A k \in Handed(r) : calls[r][k].state # "registered" =>
              calls[r][k].sink = r \/ {r, calls[r][k].sink} \subseteq Disturbed
         /\ phase[r] = "running" /\ r \notin Disturbed =>
              \A fn : Promise!Stubs(r, fn) <=> ctx.dry /\ fn \in ctx.mutations
  <1>0. /\ TypeOK /\ SinksAreShared /\ CallsFollowPhase /\ LoneContexts
        /\ phase[r] = "running" => Executing(r)
    BY DEF IInv, Executing
  <1>1. /\ Disturbed \subseteq Runs
        /\ phase[r] = "running" => ctx.sink \in Runs /\ (ctx.sink = r \/ {r, ctx.sink} \subseteq Disturbed)
    BY <1>0 DEF TypeOK, CallsFollowPhase, SinksAreShared, Disturbed
  <1>2. \A k \in Handed(r) : calls[r][k].state # "registered" =>
          calls[r][k].sink = r \/ {r, calls[r][k].sink} \subseteq Disturbed
    BY <1>0 DEF SinksAreShared, Disturbed
  <1>3. ASSUME phase[r] = "running", r \notin Disturbed, NEW fn
        PROVE  Promise!Stubs(r, fn) <=> ctx.dry /\ fn \in ctx.mutations
    <2>1. ctx.dry = dry[r] /\ ctx.mutations = Sdks[module.version].mutations
          /\ seen[r] = module.version
      BY <1>0, <1>3 DEF LoneContexts, Disturbed
    <2>2. module.version # 0
      BY <1>0, SdkFacts DEF TypeOK
    <2>3. Writers[r] = ctx.mutations
      BY <2>1, <2>2 DEF Writers
    <2>4. QED
      BY <2>1, <2>3 DEF Promise!Stubs
  <1>4. QED
    BY <1>1, <1>2, <1>3

\* What a settled read is to the program: one of the outcomes its call may have.
LEMMA SettlePromised ==
  ASSUME IInv, NEW r \in Runs, phase[r] = "waiting",
         NEW kind \in {"ok", "error", "timeout"}, Settle(r, kind),
         kind \in {CallsMade[r][waitingFor[r]].answer, "timeout"} \ {"none"}
  PROVE  \E k \in DOMAIN CallsMade[r] : Promise!Settle(r, k, kind)
  <1>0. TypeOK /\ CallsFollowPhase /\ FuturesAreOpen
    BY DEF IInv
  <1>1. PICK k \in Handed(r), s \in Runs, h \in Handles, e \in Records :
          /\ k = waitingFor[r] /\ s = calls[r][k].sink /\ calls[r][k].state = "fired"
          /\ h.fn = calls[r][k].fn /\ h.future = calls[r][k].future /\ h.state = kind
          /\ h.stub = calls[r][k].stub /\ h.good = calls[r][k].good
          /\ calls' = [calls EXCEPT ![r][k] = h]
          /\ e = [of |-> <<r, k>>, kind |-> kind]
          /\ trace' = [trace EXCEPT ![s] = Append(@, e)]
    BY <1>0, SettleFacts
  <1>2. ~ calls[r][k].stub
    BY <1>0, <1>1 DEF FuturesAreOpen
  <1>3. /\ Made(calls[r][k]).outcome = "open"
        /\ Made(h) = [Made(calls[r][k]) EXCEPT !.outcome = kind]
    BY <1>1, <1>2 DEF Made, Settled
  <1>4. /\ DOMAIN CallsMade[r] = Handed(r) /\ CallsMade[r][k] = Made(calls[r][k])
    BY <1>0, MadeFacts
  <1>5. CallsMade' = [CallsMade EXCEPT ![r][k].outcome = kind]
    <2>1. /\ \A q \in Runs : DOMAIN calls'[q] = Handed(q)
          /\ \A q \in Runs : \A j \in Handed(q) : q # r \/ j # k => calls'[q][j] = calls[q][j]
          /\ calls'[r][k] = h
      <3>1. calls' = [calls EXCEPT ![r][k] = h]
        BY <1>1
      <3>2. QED
        BY <1>0, <3>1, ChangedCallFacts
    <2>2. CallsMade' = [CallsMade EXCEPT ![r][k] = Made(h)]
      BY <1>0, <2>1, MadeChanged
    <2>3. QED
      BY <1>3, <1>4, <2>2
  <1>6. /\ phase' = [phase EXCEPT ![r] = "running"]
        /\ UNCHANGED <<dry, seen, report, overlapped, reloaded>>
    BY DEF Settle, setup, history
  <1>7. Stages' = Stages
    BY <1>0, <1>6, StagesKept
  <1>8. Promise!Records(r, k, kind)
    <2>1. s = r \/ {r, s} \subseteq Disturbed
      BY <1>1, LoneFacts
    <2>2. QED
      BY <1>1, <2>1 DEF Promise!Records
  <1>9. UNCHANGED <<Stages, dry, Writers, report, Disturbed>>
    BY <1>6, <1>7 DEF Writers, Disturbed
  <1>10. Stages[r] = "executing"
    BY DEF Stages, Stage
  <1>11. Promise!Settle(r, k, kind)
    BY <1>1, <1>3, <1>4, <1>5, <1>8, <1>9, <1>10 DEF Promise!Settle
  <1>12. QED
    BY <1>4, <1>11

\* An answer that is read is the answer to a call, or is ignored.
LEMMA AnswerPromised ==
  ASSUME IInv, ReadResult
  PROVE  \/ Unnoticed
         \/ \E r \in Runs : \E k \in DOMAIN CallsMade[r], answer \in {"ok", "error"} :
              Promise!Answer(r, k, answer)
  <1>0. TypeOK /\ IdsAreOwned /\ FuturesAreOpen
    BY DEF IInv
  <1>1. Head(inbox) \in Results /\ calls' = Resolved(Head(inbox))
    BY <1>0, ReadResults DEF ReadResult
  <1>2. PICK f \in Results : calls' = Resolved(f)
    BY <1>1
  <1>3. PICK r \in Runs : \E k \in Handed(r) :
          /\ f.of = <<r, k>> /\ f.of \in Keys /\ f.ok \in BOOLEAN
          /\ calls[r][k].id = f.id /\ f.id # 0
          /\ \A q \in Runs : \A j \in Handed(q) : calls[q][j].id = f.id => q = r /\ j = k
    <2>1. /\ f.of \in Keys /\ f.of[1] \in Runs /\ f.ok \in BOOLEAN
          /\ f.of = <<f.of[1], f.of[2]>>
          /\ f.of[2] \in Handed(f.of[1]) /\ calls[f.of[1]][f.of[2]].id = f.id /\ f.id # 0
          /\ \A q \in Runs : \A j \in Handed(q) : calls[q][j].id = f.id => f.of = <<q, j>>
      BY <1>0, ResultFacts
    <2>2. \A q \in Runs : \A j \in Handed(q) :
            calls[q][j].id = f.id => q = f.of[1] /\ j = f.of[2]
      BY <2>1
    <2>3. QED
      BY <2>1, <2>2
  <1>4. PICK k \in Handed(r) :
          /\ f.of = <<r, k>> /\ f.of \in Keys /\ f.ok \in BOOLEAN
          /\ calls[r][k].id = f.id /\ f.id # 0
          /\ \A q \in Runs : \A j \in Handed(q) : calls[q][j].id = f.id => q = r /\ j = k
    BY <1>3
  <1>5. /\ \A q \in Runs : DOMAIN calls'[q] = Handed(q)
        /\ \A q \in Runs : \A j \in Handed(q) : q # r \/ j # k => calls'[q][j] = calls[q][j]
        /\ calls'[r][k].fn = calls[r][k].fn /\ calls'[r][k].stub = calls[r][k].stub
        /\ calls'[r][k].state = calls[r][k].state
        /\ IF f.id \in futures THEN calls'[r][k].future = f.of /\ calls'[r][k].good = f.ok
                               ELSE calls'[r][k] = calls[r][k]
    BY <1>0, <1>2, <1>4, ResolvedFacts
  <1>6. UNCHANGED <<phase, dry, seen, trace, report, overlapped, reloaded>>
    BY DEF ReadResult, setup, traces, history
  <1>7. UNCHANGED <<Stages, dry, Writers, trace, report, Disturbed>>
    BY <1>6 DEF Stages, Stage, Writers, Disturbed
  <1>8. CASE f.id \notin futures
    <2>1. CallsMade' = CallsMade
      BY <1>5, <1>8 DEF CallsMade, Handed
    <2>2. QED
      BY <1>7, <2>1 DEF Unnoticed
  <1>9. CASE f.id \in futures
    <2>1. ~ calls[r][k].stub /\ calls[r][k].future = <<>>
      BY <1>0, <1>4, <1>9 DEF FuturesAreOpen
    <2> DEFINE answer == IF f.ok THEN "ok" ELSE "error"
    <2>2. /\ DOMAIN CallsMade[r] = Handed(r) /\ CallsMade[r][k] = Made(calls[r][k])
          /\ CallsMade[r][k].answer = "none" /\ CallsMade[r][k].outcome # "dry_run"
      <3>1. DOMAIN CallsMade[r] = Handed(r) /\ CallsMade[r][k] = Made(calls[r][k])
        BY <1>0, MadeFacts
      <3>2. QED
        BY <2>1, <3>1 DEF Made, Settled
    <2>3. Made(calls'[r][k]) = [Made(calls[r][k]) EXCEPT !.answer = answer]
      <3>1. f.of # <<>>
        BY <1>4
      <3>2. QED
        BY <1>5, <1>9, <2>1, <3>1 DEF Made, Settled
    <2>4. CallsMade' = [CallsMade EXCEPT ![r][k].answer = answer]
      <3>1. CallsMade' = [CallsMade EXCEPT ![r][k] = Made(calls'[r][k])]
        BY <1>0, <1>5, MadeChanged
      <3>2. QED
        BY <2>2, <2>3, <3>1
    <2>5. Promise!Answer(r, k, answer)
      BY <1>7, <2>2, <2>4 DEF Promise!Answer
    <2>6. QED
      BY <2>2, <2>5
  <1>10. QED
    BY <1>8, <1>9

\* Every step of the worker is one of the promise's actions, or none.
LEMMA StepPromise == IInv /\ IInv' /\ [Next]_vars => [Promise!Next]_(Promise!promiseVars)
  <1> SUFFICES ASSUME IInv, IInv', [Next]_vars PROVE Promise!Next \/ Unnoticed
    BY DEF Promise!promiseVars, Unnoticed
  <1>0. TypeOK /\ TypeOK' /\ CallsFollowPhase /\ FuturesAreOpen /\ JobsAreSingle
    BY DEF IInv
  <1> USE DEF loop, shared, setup, traces, history, progress, gateway, outputs
  <1>1. ASSUME overlapped \subseteq overlapped', reloaded \subseteq reloaded', Stages' = Stages,
               UNCHANGED <<dry, seen, calls, trace, report>>
        PROVE  Promise!Next
    <2>1. Disturbed' \in SUBSET Runs /\ Disturbed \subseteq Disturbed'
      BY <1>0, <1>1 DEF Disturbed, TypeOK
    <2>2. UNCHANGED <<Stages, dry, Writers, CallsMade, trace, report>>
      BY <1>1 DEF Writers, CallsMade, Handed
    <2>3. Promise!Mix
      BY <2>1, <2>2 DEF Promise!Mix
    <2>4. QED
      BY <2>3 DEF Promise!Next
  <1>2. CASE LoadHeader \/ LoadFunctions
    <2>1. /\ UNCHANGED <<phase, dry, seen, calls, trace, report, overlapped>>
          /\ reloaded \subseteq reloaded'
      BY <1>2 DEF LoadHeader, LoadFunctions
    <2>2. Stages' = Stages
      BY <2>1 DEF Stages, Stage
    <2>3. QED
      BY <1>1, <2>1, <2>2
  <1>3. ASSUME NEW r \in Runs, Begin(r) PROVE Promise!Next
    <2>1. /\ phase[r] = "queued" /\ phase' = [phase EXCEPT ![r] = "begun"]
          /\ overlapped \subseteq overlapped' /\ reloaded \subseteq reloaded'
          /\ UNCHANGED <<dry, seen, calls, trace, report>>
      BY <1>0, <1>3, BeginFacts
    <2>2. Stages' = Stages
      BY <1>0, <2>1, StagesKept
    <2>3. QED
      BY <1>1, <2>1, <2>2
  <1>4. ASSUME NEW r \in Runs, Reject(r) PROVE Promise!Next
    <2>1. /\ phase[r] = "queued" /\ phase' = [phase EXCEPT ![r] = "answered"]
          /\ UNCHANGED <<dry, seen, calls, trace, report, overlapped, reloaded>>
      BY <1>0, <1>4, TakesFacts DEF Reject
    <2>2. Stages[r] = "waiting" /\ Stages' = [Stages EXCEPT ![r] = "answered"]
      BY <1>0, <2>1, StageChanged DEF Stage
    <2>3. UNCHANGED <<dry, Writers, CallsMade, trace, report, Disturbed>>
      BY <2>1 DEF Writers, CallsMade, Handed, Disturbed
    <2>4. Promise!Refuse(r)
      BY <2>2, <2>3 DEF Promise!Refuse
    <2>5. QED
      BY <2>4 DEF Promise!Next
  <1>5. ASSUME NEW r \in Runs, Inject(r) PROVE Promise!Next
    <2>1. /\ phase[r] = "begun" /\ phase' = [phase EXCEPT ![r] = "injected"]
          /\ seen' = [seen EXCEPT ![r] = module.version]
          /\ UNCHANGED <<dry, calls, trace, report, overlapped, reloaded>>
      BY <1>5 DEF Inject
    <2>2. Stages[r] = "waiting" /\ Stages' = [Stages EXCEPT ![r] = "executing"]
      BY <1>0, <2>1, StageChanged DEF Stage
    <2> DEFINE w == Sdks[module.version].mutations
    <2>3. w \in SUBSET Fns /\ module.version # 0
      <3>1. module.version \in DOMAIN Sdks
        BY <1>0 DEF TypeOK
      <3>2. QED
        BY <3>1, SdkFacts
    <2>4. Writers' = [Writers EXCEPT ![r] = w]
      BY <1>0, <2>1, <2>3 DEF Writers, TypeOK
    <2>5. UNCHANGED <<dry, CallsMade, trace, report, Disturbed>>
      BY <2>1 DEF CallsMade, Handed, Disturbed
    <2> HIDE DEF w
    <2>6. Promise!Start(r)
      BY <2>2, <2>3, <2>4, <2>5 DEF Promise!Start
    <2>7. QED
      BY <2>6 DEF Promise!Next
  <1>6. ASSUME NEW r \in Runs, Finish(r) \/ CallPlaceholder(r) PROVE Promise!Next
    <2>1. /\ phase[r] = "running" /\ phase' = [phase EXCEPT ![r] = "answered"]
          /\ report' = [report EXCEPT ![r] = trace[r]]
          /\ UNCHANGED <<dry, seen, calls, trace, overlapped, reloaded>>
      BY <1>6 DEF Finish, CallPlaceholder, CanCall, Ended, Leaves
    <2>2. Stages[r] = "executing" /\ Stages' = [Stages EXCEPT ![r] = "answered"]
      BY <1>0, <2>1, StageChanged DEF Stage
    <2>3. UNCHANGED <<dry, Writers, CallsMade, trace, Disturbed>>
      BY <2>1 DEF Writers, CallsMade, Handed, Disturbed
    <2>4. Promise!End(r)
      BY <2>1, <2>2, <2>3 DEF Promise!End
    <2>5. QED
      BY <2>4 DEF Promise!Next
  <1>7. ASSUME NEW r \in Runs, FinishUnsent(r) PROVE Promise!Next
    <2>1. /\ phase[r] = "running" /\ phase' = [phase EXCEPT ![r] = "dropped"]
          /\ UNCHANGED <<dry, seen, calls, trace, report, overlapped, reloaded>>
      BY <1>7 DEF FinishUnsent, Leaves
    <2>2. Stages[r] = "executing" /\ Stages' = [Stages EXCEPT ![r] = "dropped"]
      BY <1>0, <2>1, StageChanged DEF Stage
    <2>3. UNCHANGED <<dry, Writers, CallsMade, trace, report, Disturbed>>
      BY <2>1 DEF Writers, CallsMade, Handed, Disturbed
    <2>4. PICK k \in Handed(r) : calls[r][k].state \in {"error", "timeout"}
      BY <1>7 DEF FinishUnsent, Handed
    <2>5. k \in DOMAIN CallsMade[r] /\ CallsMade[r][k].outcome \in {"error", "timeout"}
      <3>1. k \in DOMAIN CallsMade[r] /\ CallsMade[r][k] = Made(calls[r][k])
        BY <1>0, MadeFacts
      <3>2. ~ calls[r][k].stub
        BY <1>0, <2>4 DEF FuturesAreOpen
      <3>3. QED
        BY <2>4, <3>1, <3>2 DEF Made, Settled
    <2>6. Promise!Vanish(r)
      BY <2>2, <2>3, <2>5 DEF Promise!Vanish
    <2>7. QED
      BY <2>6 DEF Promise!Next
  <1>8. ASSUME NEW r \in Runs, NEW fn \in Fns, CallStubbed(r, fn) PROVE Promise!Next
    <2>1. PICK h \in Handles :
            /\ h.fn = fn /\ h.stub
            /\ calls' = [calls EXCEPT ![r] = Append(@, h)]
            /\ ctx.sink \in Runs
            /\ trace' = [trace EXCEPT ![ctx.sink] = Append(@, [of |-> Key(r), kind |-> "dry_run"])]
      BY <1>0, <1>8, StubFacts
    <2>2. /\ phase[r] = "running" /\ ctx.dry /\ fn \in ctx.mutations
          /\ UNCHANGED <<phase, dry, seen, report, overlapped, reloaded>>
      BY <1>8 DEF CallStubbed, CanCall
    <2>3. Made(h) = [fn |-> fn, answer |-> "none", outcome |-> "dry_run"]
      BY <2>1 DEF Made
    <2>4. Promise!Makes(r, fn, "dry_run")
      <3>1. CallsMade' = [CallsMade EXCEPT ![r] = Append(@, Made(h))]
        BY <1>0, <2>1, MadeAppended
      <3>2. Stages[r] = "executing"
        BY <2>2 DEF Stages, Stage
      <3>3. QED
        BY <2>3, <3>1, <3>2 DEF Promise!Makes
    <2>5. Promise!Records(r, Len(CallsMade[r]) + 1, "dry_run")
      <3>1. ctx.sink = r \/ {r, ctx.sink} \subseteq Disturbed
        BY <2>2, LoneFacts
      <3>2. Key(r) = <<r, Len(CallsMade[r]) + 1>>
        BY <1>0, MadeFacts DEF Key
      <3>3. QED
        BY <2>1, <3>1, <3>2 DEF Promise!Records
    <2>6. r \in Disturbed \/ Promise!Stubs(r, fn)
      BY <2>2, LoneFacts
    <2>7. UNCHANGED <<Stages, dry, Writers, report, Disturbed>>
      BY <2>2 DEF Stages, Stage, Writers, Disturbed
    <2>8. Promise!Stub(r, fn)
      BY <2>4, <2>5, <2>6, <2>7 DEF Promise!Stub
    <2>9. QED
      BY <2>8 DEF Promise!Next
  <1>9. ASSUME NEW r \in Runs, NEW fn \in Fns, CallRegisters(r, fn) PROVE Promise!Next
    <2>1. PICK h \in Handles :
            /\ h.fn = fn /\ ~ h.stub /\ h.future = <<>> /\ h.state = "registered"
            /\ calls' = [calls EXCEPT ![r] = Append(@, h)]
      BY <1>0, <1>9, RegisterFacts
    <2>2. /\ phase[r] = "running" /\ phase' = [phase EXCEPT ![r] = "calling"]
          /\ ~ (ctx.dry /\ fn \in ctx.mutations)
          /\ UNCHANGED <<dry, seen, trace, report, overlapped, reloaded>>
      BY <1>9 DEF CallRegisters, CanCall
    <2>3. Made(h) = [fn |-> fn, answer |-> "none", outcome |-> "open"]
      BY <2>1 DEF Made, Settled
    <2>4. Promise!Makes(r, fn, "open")
      <3>1. CallsMade' = [CallsMade EXCEPT ![r] = Append(@, Made(h))]
        BY <1>0, <2>1, MadeAppended
      <3>2. Stages[r] = "executing"
        BY <2>2 DEF Stages, Stage
      <3>3. QED
        BY <2>3, <3>1, <3>2 DEF Promise!Makes
    <2>5. r \in Disturbed \/ ~ Promise!Stubs(r, fn)
      BY <2>2, LoneFacts
    <2>6. UNCHANGED <<Stages, dry, Writers, trace, report, Disturbed>>
      <3>1. Stages' = Stages
        BY <1>0, <2>2, StagesKept
      <3>2. QED
        BY <2>2, <3>1 DEF Writers, Disturbed
    <2>7. Promise!Call(r, fn)
      BY <2>4, <2>5, <2>6 DEF Promise!Call
    <2>8. QED
      BY <2>7 DEF Promise!Next
  <1>10. ASSUME NEW r \in Runs, CallFires(r) PROVE Unnoticed
    <2> DEFINE k == Len(calls[r])
    <2>1. k \in Handed(r) /\ calls[r][k].state = "registered"
      BY <1>0, <1>10, CallFiresFacts
    <2>2. PICK h \in Handles :
            /\ h.fn = calls[r][k].fn /\ h.future = calls[r][k].future /\ h.state = "fired"
            /\ h.stub = calls[r][k].stub /\ h.good = calls[r][k].good
            /\ calls' = [calls EXCEPT ![r][k] = h]
      BY <1>0, <1>10, <2>1, CallFiresFacts
    <2> HIDE DEF k
    <2>3. /\ \A q \in Runs : DOMAIN calls'[q] = Handed(q)
          /\ \A q \in Runs : \A j \in Handed(q) : q # r \/ j # k => calls'[q][j] = calls[q][j]
          /\ calls'[r][k] = h
      BY <1>0, <2>1, <2>2, ChangedCallFacts, ZenonT(60)
    <2>4. Made(h) = Made(calls[r][k])
      BY <2>1, <2>2 DEF Made, Settled
    <2>5. CallsMade' = CallsMade
      <3>1. \A q \in Runs : \A j \in Handed(q) : Made(calls'[q][j]) = Made(calls[q][j])
        BY <2>3, <2>4
      <3>2. QED
        BY <2>3, <3>1 DEF CallsMade, Handed
    <2>6. /\ phase[r] = "calling" /\ phase' = [phase EXCEPT ![r] = "running"]
          /\ UNCHANGED <<dry, seen, trace, report, overlapped, reloaded>>
      BY <1>10 DEF CallFires
    <2>7. Stages' = Stages
      BY <1>0, <2>6, StagesKept
    <2>8. QED
      BY <2>5, <2>6, <2>7 DEF Unnoticed, Writers, Disturbed
  <1>11. ASSUME NEW r \in Runs, Resume(r) \/ CallTimesOut(r) PROVE Promise!Next
    <2>1. PICK kind \in {"ok", "error", "timeout"} :
            /\ phase[r] = "waiting" /\ Settle(r, kind)
            /\ \/ kind = "timeout"
               \/ /\ calls[r][waitingFor[r]].future # <<>>
                  /\ kind = IF calls[r][waitingFor[r]].good THEN "ok" ELSE "error"
      BY <1>11 DEF Resume, CallTimesOut
    <2>2. kind \in {CallsMade[r][waitingFor[r]].answer, "timeout"} \ {"none"}
      <3> DEFINE k == waitingFor[r]
      <3>1. k \in Handed(r) /\ calls[r][k].state = "fired"
        BY <1>0, <2>1 DEF CallsFollowPhase
      <3>2. ~ calls[r][k].stub /\ CallsMade[r][k] = Made(calls[r][k])
        BY <1>0, <3>1, MadeFacts DEF FuturesAreOpen
      <3>3. QED
        BY <2>1, <3>2 DEF Made
    <2>3. \E k \in DOMAIN CallsMade[r] : Promise!Settle(r, k, kind)
      BY <2>1, <2>2, SettlePromised
    <2>4. QED
      BY <2>3 DEF Promise!Next
  <1>12. CASE ReadResult
    <2>1. CASE \E r \in Runs : \E k \in DOMAIN CallsMade[r], answer \in {"ok", "error"} :
                 Promise!Answer(r, k, answer)
      BY <2>1 DEF Promise!Next
    <2>2. QED
      BY <1>12, <2>1, AnswerPromised
  <1>13. QED
    BY <1>2, <1>3, <1>4, <1>5, <1>6, <1>7, <1>8, <1>9, <1>10, <1>11, <1>12, UnnoticedSteps

\* The worker keeps the promise RunPromise states, for any programs, SDKs and bounds: each
\* program that is not mixed up with another or with a reload is run as if alone, and
\* even those that are have each call answered, settled and recorded once.
THEOREM KeepsPromise == Spec => PromiseKept
  <1>1. Spec => []IInv
    BY Inductive
  <1>2. Init => Promise!Init
    BY InitPromise
  <1>3. IInv /\ IInv' /\ [Next]_vars => [Promise!Next]_(Promise!promiseVars)
    BY StepPromise
  <1>4. QED
    BY <1>1, <1>2, <1>3, PTL DEF Spec, PromiseKept, Promise!Spec
================================================================================
