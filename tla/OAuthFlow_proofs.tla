---------------------------- MODULE OAuthFlow_proofs ----------------------------
(***************************************************************************)
(* Theorems about OAuthFlow, for any requests to any servers: each flow    *)
(* has one owner, a flow that was removed saves no tokens, and a verdict   *)
(* fits the server it is about.  IInv says whose a flow is and what is     *)
(* known of a server at each step.                                         *)
(***************************************************************************)
EXTENDS OAuthFlow, TLAPS

\* The kinds are those of the requests, and None is no flow.
LEMMA RequestFacts ==
  ASSUME TypeOK
  PROVE  /\ request \in [Tasks -> [kind : Kinds, server : Servers]]
         /\ \A t \in Tasks : Kind(t) \in Kinds /\ Server(t) \in Servers
         /\ Flows \subseteq Tasks /\ None \notin Flows
  BY AskedTyped DEF TypeOK, Kind, Server, Flows

\* Stopping servers keeps their type, and opens none.
LEMMA StoppedFacts ==
  ASSUME TypeOK, NEW fs
  PROVE  /\ Stopped(fs) \in [Flows -> {"none", "open", "stopping"}]
         /\ \A f \in Flows : Stopped(fs)[f] = "open" <=> listener[f] = "open" /\ f \notin fs
         /\ \A f \in Flows : listener[f] = "none" => Stopped(fs)[f] = "none"
  BY DEF TypeOK, Stopped

LEMMA InitIInv == Init => IInv
  <1> SUFFICES ASSUME Init PROVE IInv
    OBVIOUS
  <1> USE AskedTyped DEF Init
  <1>1. TypeOK
    <2>1. nature \in [Servers -> Natures]
      BY DEF Natures
    <2>2. /\ tokens \in [Servers -> Tokens \cup {None}]
          /\ connected \in [Servers -> Tokens \cup {None, "plain"}]
          /\ creds \in [Tasks -> Tokens \cup {None}]
      BY DEF Tokens
    <2>3. outcome \in [Tasks -> [via : Tokens \cup {None, "plain"}, status : Statuses]]
      BY DEF NoOutcome, Statuses
    <2>4. pc \in [Tasks -> Stages] /\ asked \in [Tasks -> SUBSET Flows]
      BY DEF Stages
    <2>5. /\ listener \in [Flows -> {"none", "open", "stopping"}]
          /\ heard \in [Flows -> {"none", "code", "error"}]
          /\ pending \in [Servers -> Flows \cup {None}]
          /\ holding \in [Tasks -> Flows \cup {None}]
          /\ request \in Requests /\ fixed \in SUBSET Servers
          /\ faulty \in SUBSET Tasks /\ revoked \in SUBSET Flows /\ overlap \in BOOLEAN
      OBVIOUS
    <2> HIDE DEF Init
    <2>6. QED
      BY <2>1, <2>2, <2>3, <2>4, <2>5 DEF TypeOK
  <1>2. StagesFitKinds /\ HandlesAreSingle
    BY DEF StagesFitKinds, Began, HandlesAreSingle
  <1>3. ListenersAreHeld /\ RevokedAreGone
    BY DEF ListenersAreHeld, RevokedAreGone
  <1>4. AttemptsFitServers /\ VerdictsFitServers
    BY DEF AttemptsFitServers, VerdictsFitServers
  <1>5. QED
    BY <1>1, <1>2, <1>3, <1>4 DEF IInv

\* What is asked for and what the servers are stays.
LEMMA ConfigStays ==
  ASSUME [Next]_vars
  PROVE  /\ request' = request /\ nature' = nature /\ fixed' = fixed
         /\ Flows' = Flows /\ Tokens' = Tokens
  <1>1. \A t \in Tasks : Start(t) \/ Finish(t) => UNCHANGED config
    BY DEF Start, Bind, Authorize, Publish, Finish, Take, Hear, Timeout, Exchange
  <1>2. \A t \in Tasks : Open(t) \/ LogOut(t) => UNCHANGED config
    BY DEF Open, Enable, Probe, Load, Connect, Plain, Ask, Record, Elsewhere,
           LogOut, Cancel, Remove, Disconnect
  <1>3. /\ \A f \in Flows : Browser(f) => UNCHANGED config
        /\ \A s \in Servers : Refresh(s) => UNCHANGED config
    BY DEF Browser, Redirect, Refused, Close, Refresh
  <1>4. vars' = vars => UNCHANGED config
    BY DEF vars
  <1>5. UNCHANGED config
    BY <1>1, <1>2, <1>3, <1>4 DEF Next
  <1>6. QED
    BY <1>5 DEF config, Flows, Tokens, Kind

-----------------------------------------------------------------------------
\* The types, in three parts.
PcTyped == pc \in [Tasks -> Stages]

FlowsTyped ==
  /\ pending \in [Servers -> Flows \cup {None}]
  /\ holding \in [Tasks -> Flows \cup {None}]
  /\ listener \in [Flows -> {"none", "open", "stopping"}]
  /\ heard \in [Flows -> {"none", "code", "error"}]
  /\ revoked \in SUBSET Flows
  /\ asked \in [Tasks -> SUBSET Flows]
  /\ overlap \in BOOLEAN

AttemptsTyped ==
  /\ tokens \in [Servers -> Tokens \cup {None}]
  /\ connected \in [Servers -> Tokens \cup {None, "plain"}]
  /\ creds \in [Tasks -> Tokens \cup {None}]
  /\ outcome \in [Tasks -> [via : Tokens \cup {None, "plain"}, status : Statuses]]
  /\ faulty \in SUBSET Tasks

\* A request goes from stage to stage.
LEMMA PcStep == IInv /\ [Next]_vars => PcTyped'
  <1> SUFFICES ASSUME IInv, [Next]_vars PROVE PcTyped'
    OBVIOUS
  <1> USE AskedTyped DEF PcTyped, Goto, Ends, Stages, flow, stored, attempt, history
  <1>0. PcTyped
    BY DEF IInv, TypeOK, PcTyped
  <1>1. ASSUME NEW t \in Tasks, Start(t) PROVE PcTyped'
    BY <1>0, <1>1
    DEF Start, Arrive, Bind, Authorize, Publish
  <1>2. ASSUME NEW t \in Tasks, Finish(t) PROVE PcTyped'
    <2>1. CASE Take(t)
      BY <1>0, <2>1 DEF Arrive, Take
    <2>2. CASE Hear(t)
      BY <1>0, <2>2 DEF Drop, Hear
    <2>3. CASE Timeout(t)
      BY <1>0, <2>3 DEF Drop, Timeout
    <2>4. CASE Exchange(t)
      BY <1>0, <2>4 DEF Drop, Exchange
    <2>5. QED
      BY <1>2, <2>1, <2>2, <2>3, <2>4 DEF Finish
  <1>3. ASSUME NEW t \in Tasks, Open(t) PROVE PcTyped'
    <2>1. CASE Enable(t)
      BY <1>0, <2>1 DEF Arrive, Elsewhere, Enable
    <2>2. CASE Probe(t)
      BY <1>0, <2>2 DEF Elsewhere, Probe
    <2>3. CASE Load(t)
      BY <1>0, <2>3 DEF Elsewhere, Ends, Unreached, Load
    <2>4. CASE Connect(t)
      BY <1>0, <2>4 DEF Elsewhere, Ends, Unreached, Connect
    <2>5. CASE Plain(t)
      BY <1>0, <2>5 DEF Elsewhere, Ends, Unreached, Plain
    <2>6. CASE Ask(t)
      BY <1>0, <2>6 DEF Elsewhere, Ends, Unreached, Ask
    <2>7. CASE Record(t)
      BY <1>0, <2>7 DEF Elsewhere, Record
    <2>8. QED
      BY <1>3, <2>1, <2>2, <2>3, <2>4, <2>5, <2>6, <2>7 DEF Open
  <1>4. ASSUME NEW t \in Tasks, LogOut(t) PROVE PcTyped'
    BY <1>0, <1>4
    DEF LogOut, Arrive, Cancelled, Cancel, Remove, Disconnect
  <1>5. ASSUME NEW f \in Flows, Browser(f) PROVE PcTyped'
    BY <1>0, <1>5 DEF Browser, Redirect, Refused, Close
  <1>6. ASSUME NEW s \in Servers, Refresh(s) PROVE PcTyped'
    BY <1>0, <1>6 DEF Refresh
  <1>7. CASE UNCHANGED vars
    BY <1>0, <1>7 DEF vars
  <1>8. QED
    BY <1>1, <1>2, <1>3, <1>4, <1>5, <1>6, <1>7 DEF Next

\* Handles and servers are those of flows.
LEMMA FlowsStep == IInv /\ [Next]_vars => FlowsTyped'
  <1> SUFFICES ASSUME IInv, [Next]_vars PROVE FlowsTyped'
    OBVIOUS
  <1> USE AskedTyped DEF FlowsTyped, Goto, flow, history
  <1>0. TypeOK /\ FlowsTyped
    BY DEF IInv, TypeOK, FlowsTyped
  <1>a. /\ Flows' = Flows /\ Flows \subseteq Tasks
        /\ \A t \in Tasks : Server(t) \in Servers /\ (Kind(t) = "start" => t \in Flows)
    BY <1>0, ConfigStays, RequestFacts DEF Flows
  <1>1. ASSUME NEW t \in Tasks, Start(t) PROVE FlowsTyped'
    <2>1. CASE Bind(t)
      BY <1>0, <1>a, <2>1 DEF Arrive, Bind
    <2>2. CASE Authorize(t)
      BY <1>0, <1>a, <2>2 DEF Authorize
    <2>3. CASE Publish(t)
      <3>1. t \in Flows
        BY <1>a, <2>3 DEF Publish, IInv, StagesFitKinds, Began
      <3>2. QED
        BY <1>0, <1>a, <3>1, StoppedFacts, <2>3 DEF Publish
    <2>4. QED
      BY <1>1, <2>1, <2>2, <2>3 DEF Start
  <1>2. ASSUME NEW t \in Tasks, Finish(t) PROVE FlowsTyped'
    <2>1. CASE Take(t)
      BY <1>0, <1>a, <2>1 DEF Arrive, Take
    <2>2. CASE Hear(t)
      BY <1>0, <1>a, StoppedFacts, <2>2 DEF Drop, Hear
    <2>3. CASE Timeout(t)
      BY <1>0, <1>a, StoppedFacts, <2>3 DEF Drop, Timeout
    <2>4. CASE Exchange(t)
      BY <1>0, <1>a, StoppedFacts, <2>4 DEF Drop, Exchange
    <2>5. QED
      BY <1>2, <2>1, <2>2, <2>3, <2>4 DEF Finish
  <1>3. ASSUME NEW t \in Tasks, Open(t) PROVE FlowsTyped'
    BY <1>0, <1>a, <1>3
    DEF Open, Arrive, Elsewhere, Enable, Probe, Ends, Unreached, Load, Connect, Plain, Ask,
        Record
  <1>4. ASSUME NEW t \in Tasks, LogOut(t) PROVE FlowsTyped'
    <2>1. CASE Cancel(t)
      <3>1. Some(pending[Server(t)]) \subseteq Flows
        BY <1>0, <1>a DEF Some
      <3>2. QED
        BY <1>0, <1>a, <3>1, StoppedFacts, <2>1 DEF Arrive, Cancelled, Cancel
    <2>2. CASE Remove(t)
      BY <1>0, <1>a, <2>2 DEF Remove
    <2>3. CASE Disconnect(t)
      BY <1>0, <1>a, <2>3 DEF Disconnect
    <2>4. QED
      BY <1>4, <2>1, <2>2, <2>3 DEF LogOut
  <1>5. ASSUME NEW f \in Flows, Browser(f) PROVE FlowsTyped'
    BY <1>0, <1>a, <1>5 DEF Browser, Redirect, Refused, Close
  <1>6. ASSUME NEW s \in Servers, Refresh(s) PROVE FlowsTyped'
    BY <1>0, <1>a, <1>6 DEF Refresh
  <1>7. CASE UNCHANGED vars
    BY <1>0, <1>a, <1>7 DEF vars
  <1>8. QED
    BY <1>1, <1>2, <1>3, <1>4, <1>5, <1>6, <1>7 DEF Next

\* What an attempt loads and ends with is tokens, or none.
LEMMA AttemptsStep == IInv /\ [Next]_vars => AttemptsTyped'
  <1> SUFFICES ASSUME IInv, [Next]_vars PROVE AttemptsTyped'
    OBVIOUS
  <1> USE AskedTyped DEF AttemptsTyped, Statuses, stored, attempt
  <1>0. AttemptsTyped
    BY DEF IInv, TypeOK, AttemptsTyped
  <1>a. /\ Tokens' = Tokens /\ Flows \subseteq Tokens
        /\ \A t \in Tasks : Server(t) \in Servers /\ (holding[t] = None \/ holding[t] \in Tokens)
    BY ConfigStays, RequestFacts DEF IInv, TypeOK, Tokens
  <1>1. ASSUME NEW t \in Tasks, Start(t) PROVE AttemptsTyped'
    BY <1>0, <1>a, <1>1
    DEF Start, Arrive, Bind, Authorize, Publish
  <1>2. ASSUME NEW t \in Tasks, Finish(t) PROVE AttemptsTyped'
    <2>1. CASE Take(t)
      BY <1>0, <1>a, <2>1 DEF Arrive, Take
    <2>2. CASE Hear(t)
      BY <1>0, <1>a, <2>2 DEF Drop, Hear
    <2>3. CASE Timeout(t)
      BY <1>0, <1>a, <2>3 DEF Drop, Timeout
    <2>4. CASE Exchange(t)
      BY <1>0, <1>a, <2>4 DEF Drop, Exchange
    <2>5. QED
      BY <1>2, <2>1, <2>2, <2>3, <2>4 DEF Finish
  <1>3. ASSUME NEW t \in Tasks, Open(t) PROVE AttemptsTyped'
    <2>1. CASE Enable(t)
      BY <1>0, <1>a, <2>1 DEF Arrive, Elsewhere, Enable
    <2>2. CASE Probe(t)
      BY <1>0, <1>a, <2>2 DEF Elsewhere, Probe
    <2>3. CASE Load(t)
      BY <1>0, <1>a, <2>3 DEF Elsewhere, Ends, Unreached, Load
    <2>4. CASE Connect(t)
      BY <1>0, <1>a, <2>4 DEF Elsewhere, Ends, Unreached, Connect
    <2>5. CASE Plain(t)
      BY <1>0, <1>a, <2>5 DEF Elsewhere, Ends, Unreached, Plain
    <2>6. CASE Ask(t)
      BY <1>0, <1>a, <2>6 DEF Elsewhere, Ends, Unreached, Ask
    <2>7. CASE Record(t)
      <3>1. outcome[t].via # None => outcome[t].via \in Tokens \cup {"plain"}
        BY <1>0
      <3>2. NoOutcome \in [via : Tokens \cup {None, "plain"}, status : Statuses]
        BY DEF NoOutcome
      <3>3. connected' \in [Servers -> Tokens \cup {None, "plain"}]
        BY <1>0, <1>a, <3>1, <2>7 DEF Record
      <3>4. QED
        BY <1>0, <1>a, <3>2, <3>3, <2>7 DEF Elsewhere, Record
    <2>8. QED
      BY <1>3, <2>1, <2>2, <2>3, <2>4, <2>5, <2>6, <2>7 DEF Open
  <1>4. ASSUME NEW t \in Tasks, LogOut(t) PROVE AttemptsTyped'
    <2>1. CASE Cancel(t)
      BY <1>0, <1>a, <2>1 DEF Arrive, Cancelled, Cancel
    <2>2. CASE Remove(t)
      BY <1>0, <1>a, <2>2 DEF Remove
    <2>3. CASE Disconnect(t)
      BY <1>0, <1>a, <2>3 DEF Disconnect
    <2>4. QED
      BY <1>4, <2>1, <2>2, <2>3 DEF LogOut
  <1>5. ASSUME NEW f \in Flows, Browser(f) PROVE AttemptsTyped'
    BY <1>0, <1>a, <1>5 DEF Browser, Redirect, Refused, Close
  <1>6. ASSUME NEW s \in Servers, Refresh(s) PROVE AttemptsTyped'
    BY <1>0, <1>a, <1>6 DEF Refresh
  <1>7. CASE UNCHANGED vars
    BY <1>0, <1>a, <1>7 DEF vars
  <1>8. QED
    BY <1>1, <1>2, <1>3, <1>4, <1>5, <1>6, <1>7 DEF Next

\* Every step keeps the types.
LEMMA TypeStep == IInv /\ [Next]_vars => TypeOK'
  <1> SUFFICES ASSUME IInv, [Next]_vars PROVE TypeOK'
    OBVIOUS
  <1>1. request' \in Requests /\ fixed' \in SUBSET Servers /\ nature' \in [Servers -> Natures]
    BY ConfigStays DEF IInv, TypeOK
  <1>2. QED
    BY <1>1, PcStep, FlowsStep, AttemptsStep DEF TypeOK, PcTyped, FlowsTyped, AttemptsTyped

-----------------------------------------------------------------------------

\* Every request goes through the steps of its kind.
LEMMA StageStep == IInv /\ [Next]_vars => StagesFitKinds'
  <1> SUFFICES ASSUME IInv, [Next]_vars PROVE StagesFitKinds'
    OBVIOUS
  <1> USE AskedTyped DEF PcTyped, FlowsTyped, StagesFitKinds, Began, Goto, Ends, flow, history
  <1>0. PcTyped /\ FlowsTyped /\ StagesFitKinds
    BY DEF IInv, TypeOK, PcTyped, FlowsTyped, AttemptsTyped
  <1>a. /\ None \notin Flows
        /\ \A t \in Tasks : Kind(t)' = Kind(t) /\ Server(t)' = Server(t) /\ Server(t) \in Servers
    BY <1>0, ConfigStays, RequestFacts DEF IInv, Kind, Server
  <1>1. ASSUME NEW t \in Tasks, Start(t) PROVE StagesFitKinds'
    <2>1. CASE Bind(t)
      BY <1>0, <1>a, <2>1 DEF Arrive, Bind
    <2>2. CASE Authorize(t)
      BY <1>0, <1>a, <2>2 DEF Authorize
    <2>3. CASE Publish(t)
      BY <1>0, <1>a, StoppedFacts, <2>3 DEF Publish
    <2>4. QED
      BY <1>1, <2>1, <2>2, <2>3 DEF Start
  <1>2. ASSUME NEW t \in Tasks, Finish(t) PROVE StagesFitKinds'
    <2>1. CASE Take(t)
      BY <1>0, <1>a, <2>1 DEF Arrive, Take
    <2>2. CASE Hear(t)
      BY <1>0, <1>a, StoppedFacts, <2>2 DEF Drop, Hear
    <2>3. CASE Timeout(t)
      BY <1>0, <1>a, StoppedFacts, <2>3 DEF Drop, Timeout
    <2>4. CASE Exchange(t)
      BY <1>0, <1>a, StoppedFacts, <2>4 DEF Drop, Exchange
    <2>5. QED
      BY <1>2, <2>1, <2>2, <2>3, <2>4 DEF Finish
  <1>3. ASSUME NEW t \in Tasks, Open(t) PROVE StagesFitKinds'
    <2>1. CASE Enable(t)
      BY <1>0, <1>a, <2>1 DEF Arrive, Elsewhere, Enable
    <2>2. CASE Probe(t)
      BY <1>0, <1>a, <2>2 DEF Elsewhere, Probe
    <2>3. CASE Load(t)
      BY <1>0, <1>a, <2>3 DEF Elsewhere, Ends, Unreached, Load
    <2>4. CASE Connect(t)
      BY <1>0, <1>a, <2>4 DEF Elsewhere, Ends, Unreached, Connect
    <2>5. CASE Plain(t)
      BY <1>0, <1>a, <2>5 DEF Elsewhere, Ends, Unreached, Plain
    <2>6. CASE Ask(t)
      BY <1>0, <1>a, <2>6 DEF Elsewhere, Ends, Unreached, Ask
    <2>7. CASE Record(t)
      BY <1>0, <1>a, <2>7 DEF Elsewhere, Record
    <2>8. QED
      BY <1>3, <2>1, <2>2, <2>3, <2>4, <2>5, <2>6, <2>7 DEF Open
  <1>4. ASSUME NEW t \in Tasks, LogOut(t) PROVE StagesFitKinds'
    BY <1>0, <1>a, StoppedFacts, <1>4
    DEF LogOut, Arrive, Cancelled, Cancel, Remove, Disconnect
  <1>5. ASSUME NEW f \in Flows, Browser(f) PROVE StagesFitKinds'
    BY <1>0, <1>a, <1>5 DEF Browser, Redirect, Refused, Close
  <1>6. ASSUME NEW s \in Servers, Refresh(s) PROVE StagesFitKinds'
    BY <1>0, <1>a, <1>6 DEF Refresh
  <1>7. CASE UNCHANGED vars
    BY <1>0, <1>a, <1>7 DEF vars
  <1>8. QED
    BY <1>1, <1>2, <1>3, <1>4, <1>5, <1>6, <1>7 DEF Next

\* A handle moves from its auth_start to the handles to one auth_finish.
LEMMA HandleStep == IInv /\ [Next]_vars => HandlesAreSingle'
  <1> SUFFICES ASSUME IInv, [Next]_vars PROVE HandlesAreSingle'
    OBVIOUS
  <1> USE AskedTyped
      DEF PcTyped, FlowsTyped, StagesFitKinds, HandlesAreSingle, Began, Goto, Ends, flow,
          history
  <1>0. PcTyped /\ FlowsTyped /\ StagesFitKinds /\ HandlesAreSingle
    BY DEF IInv, TypeOK, PcTyped, FlowsTyped, AttemptsTyped
  <1>a. /\ None \notin Flows /\ Flows \subseteq Tasks
        /\ \A t \in Tasks : Kind(t)' = Kind(t) /\ Server(t)' = Server(t) /\ Server(t) \in Servers
    BY <1>0, ConfigStays, RequestFacts DEF IInv, Kind, Server
  <1>1. ASSUME NEW t \in Tasks, Start(t) PROVE HandlesAreSingle'
    <2>1. CASE Bind(t)
      BY <1>0, <1>a, <2>1 DEF Arrive, Bind
    <2>2. CASE Authorize(t)
      BY <1>0, <1>a, <2>2 DEF Authorize
    <2>3. CASE Publish(t)
      BY <1>0, <1>a, StoppedFacts, <2>3 DEF Publish
    <2>4. QED
      BY <1>1, <2>1, <2>2, <2>3 DEF Start
  <1>2. ASSUME NEW t \in Tasks, Finish(t) PROVE HandlesAreSingle'
    <2>1. CASE Take(t)
      BY <1>0, <1>a, <2>1 DEF Arrive, Take
    <2>2. CASE Hear(t)
      BY <1>0, <1>a, StoppedFacts, <2>2 DEF Drop, Hear
    <2>3. CASE Timeout(t)
      BY <1>0, <1>a, StoppedFacts, <2>3 DEF Drop, Timeout
    <2>4. CASE Exchange(t)
      BY <1>0, <1>a, StoppedFacts, <2>4 DEF Drop, Exchange
    <2>5. QED
      BY <1>2, <2>1, <2>2, <2>3, <2>4 DEF Finish
  <1>3. ASSUME NEW t \in Tasks, Open(t) PROVE HandlesAreSingle'
    BY <1>0, <1>a, <1>3
    DEF Open, Arrive, Elsewhere, Enable, Probe, Ends, Unreached, Load, Connect, Plain, Ask,
        Record
  <1>4. ASSUME NEW t \in Tasks, LogOut(t) PROVE HandlesAreSingle'
    <2>1. CASE Cancel(t)
      BY <1>0, <1>a, StoppedFacts, <2>1 DEF Arrive, Cancelled, Cancel
    <2>2. CASE Remove(t)
      BY <1>0, <1>a, <2>2 DEF Remove
    <2>3. CASE Disconnect(t)
      BY <1>0, <1>a, <2>3 DEF Disconnect
    <2>4. QED
      BY <1>4, <2>1, <2>2, <2>3 DEF LogOut
  <1>5. ASSUME NEW f \in Flows, Browser(f) PROVE HandlesAreSingle'
    BY <1>0, <1>a, <1>5 DEF Browser, Redirect, Refused, Close
  <1>6. ASSUME NEW s \in Servers, Refresh(s) PROVE HandlesAreSingle'
    BY <1>0, <1>a, <1>6 DEF Refresh
  <1>7. CASE UNCHANGED vars
    BY <1>0, <1>a, <1>7 DEF vars
  <1>8. QED
    BY <1>1, <1>2, <1>3, <1>4, <1>5, <1>6, <1>7 DEF Next

\* A callback server is opened by the flow's auth_start, and stops with its handle.
LEMMA ListenerStep == IInv /\ [Next]_vars => ListenersAreHeld'
  <1> SUFFICES ASSUME IInv, [Next]_vars PROVE ListenersAreHeld'
    OBVIOUS
  <1> USE AskedTyped
      DEF PcTyped, FlowsTyped, StagesFitKinds, HandlesAreSingle, ListenersAreHeld, Began,
          Goto, Ends, Some, flow, history
  <1>0. TypeOK /\ PcTyped /\ FlowsTyped /\ StagesFitKinds /\ HandlesAreSingle /\ ListenersAreHeld
    BY DEF IInv, TypeOK, PcTyped, FlowsTyped, AttemptsTyped
  <1>a. /\ Flows' = Flows /\ None \notin Flows /\ Flows \subseteq Tasks
        /\ \A t \in Tasks : Kind(t)' = Kind(t) /\ Server(t)' = Server(t) /\ Server(t) \in Servers
    BY <1>0, ConfigStays, RequestFacts DEF IInv, Kind, Server
  <1>1. ASSUME NEW t \in Tasks, Start(t) PROVE ListenersAreHeld'
    <2>1. CASE Bind(t)
      BY <1>0, <1>a, <2>1 DEF Arrive, Bind
    <2>2. CASE Authorize(t)
      BY <1>0, <1>a, <2>2 DEF Authorize
    <2>3. CASE Publish(t)
      BY <1>0, <1>a, StoppedFacts, <2>3 DEF Publish
    <2>4. QED
      BY <1>1, <2>1, <2>2, <2>3 DEF Start
  <1>2. ASSUME NEW t \in Tasks, Finish(t) PROVE ListenersAreHeld'
    <2>1. CASE Take(t)
      BY <1>0, <1>a, <2>1 DEF Arrive, Take
    <2>2. CASE Hear(t)
      BY <1>0, <1>a, StoppedFacts, <2>2 DEF Drop, Hear
    <2>3. CASE Timeout(t)
      BY <1>0, <1>a, StoppedFacts, <2>3 DEF Drop, Timeout
    <2>4. CASE Exchange(t)
      BY <1>0, <1>a, StoppedFacts, <2>4 DEF Drop, Exchange
    <2>5. QED
      BY <1>2, <2>1, <2>2, <2>3, <2>4 DEF Finish
  <1>3. ASSUME NEW t \in Tasks, Open(t) PROVE ListenersAreHeld'
    BY <1>0, <1>a, <1>3
    DEF Open, Arrive, Elsewhere, Enable, Probe, Ends, Unreached, Load, Connect, Plain, Ask,
        Record
  <1>4. ASSUME NEW t \in Tasks, LogOut(t) PROVE ListenersAreHeld'
    <2>1. CASE Cancel(t)
      BY <1>0, <1>a, StoppedFacts, <2>1 DEF Arrive, Cancelled, Cancel
    <2>2. CASE Remove(t)
      BY <1>0, <1>a, <2>2 DEF Remove
    <2>3. CASE Disconnect(t)
      BY <1>0, <1>a, <2>3 DEF Disconnect
    <2>4. QED
      BY <1>4, <2>1, <2>2, <2>3 DEF LogOut
  <1>5. ASSUME NEW f \in Flows, Browser(f) PROVE ListenersAreHeld'
    BY <1>0, <1>a, <1>5 DEF Browser, Redirect, Refused, Close
  <1>6. ASSUME NEW s \in Servers, Refresh(s) PROVE ListenersAreHeld'
    BY <1>0, <1>a, <1>6 DEF Refresh
  <1>7. CASE UNCHANGED vars
    BY <1>0, <1>a, <1>7 DEF vars
  <1>8. QED
    BY <1>1, <1>2, <1>3, <1>4, <1>5, <1>6, <1>7 DEF Next

\* A removal takes the handle out of the only place it is in.
LEMMA RevokedStep == IInv /\ [Next]_vars => RevokedAreGone'
  <1> SUFFICES ASSUME IInv, [Next]_vars PROVE RevokedAreGone'
    OBVIOUS
  <1> USE AskedTyped
      DEF PcTyped, FlowsTyped, StagesFitKinds, HandlesAreSingle, RevokedAreGone, Began,
          Goto, Ends, Some, flow, history
  <1>0. PcTyped /\ FlowsTyped /\ StagesFitKinds /\ HandlesAreSingle /\ RevokedAreGone
    BY DEF IInv, TypeOK, PcTyped, FlowsTyped, AttemptsTyped
  <1>a. /\ None \notin Flows /\ Flows \subseteq Tasks
        /\ \A t \in Tasks : Kind(t)' = Kind(t) /\ Server(t)' = Server(t) /\ Server(t) \in Servers
    BY <1>0, ConfigStays, RequestFacts DEF IInv, Kind, Server
  <1>1. ASSUME NEW t \in Tasks, Start(t) PROVE RevokedAreGone'
    BY <1>0, <1>a, <1>1
    DEF Start, Arrive, Bind, Authorize, Publish
  <1>2. ASSUME NEW t \in Tasks, Finish(t) PROVE RevokedAreGone'
    <2>1. CASE Take(t)
      BY <1>0, <1>a, <2>1 DEF Arrive, Take
    <2>2. CASE Hear(t)
      BY <1>0, <1>a, <2>2 DEF Drop, Hear
    <2>3. CASE Timeout(t)
      BY <1>0, <1>a, <2>3 DEF Drop, Timeout
    <2>4. CASE Exchange(t)
      BY <1>0, <1>a, <2>4 DEF Drop, Exchange
    <2>5. QED
      BY <1>2, <2>1, <2>2, <2>3, <2>4 DEF Finish
  <1>3. ASSUME NEW t \in Tasks, Open(t) PROVE RevokedAreGone'
    BY <1>0, <1>a, <1>3
    DEF Open, Arrive, Elsewhere, Enable, Probe, Ends, Unreached, Load, Connect, Plain, Ask,
        Record
  <1>4. ASSUME NEW t \in Tasks, LogOut(t) PROVE RevokedAreGone'
    <2>1. CASE Cancel(t)
      BY <1>0, <1>a, <2>1 DEF Arrive, Cancelled, Cancel
    <2>2. CASE Remove(t)
      BY <1>0, <1>a, <2>2 DEF Remove
    <2>3. CASE Disconnect(t)
      BY <1>0, <1>a, <2>3 DEF Disconnect
    <2>4. QED
      BY <1>4, <2>1, <2>2, <2>3 DEF LogOut
  <1>5. ASSUME NEW f \in Flows, Browser(f) PROVE RevokedAreGone'
    BY <1>0, <1>a, <1>5 DEF Browser, Redirect, Refused, Close
  <1>6. ASSUME NEW s \in Servers, Refresh(s) PROVE RevokedAreGone'
    BY <1>0, <1>a, <1>6 DEF Refresh
  <1>7. CASE UNCHANGED vars
    BY <1>0, <1>a, <1>7 DEF vars
  <1>8. QED
    BY <1>1, <1>2, <1>3, <1>4, <1>5, <1>6, <1>7 DEF Next

\* Tokens are tried only with a server that offers OAuth, and one is asked for it
\* only when it let nobody in.
LEMMA AttemptStep == IInv /\ [Next]_vars => AttemptsFitServers'
  <1> SUFFICES ASSUME IInv, [Next]_vars PROVE AttemptsFitServers'
    OBVIOUS
  <1> USE AskedTyped DEF PcTyped, AttemptsTyped, AttemptsFitServers, Goto, attempt
  <1>0. PcTyped /\ AttemptsTyped /\ AttemptsFitServers
    BY DEF IInv, TypeOK, PcTyped, FlowsTyped, AttemptsTyped
  <1>a. /\ Tokens' = Tokens
        /\ \A t \in Tasks : Nature(t)' = Nature(t) /\ Server(t) \in Servers
    BY <1>0, ConfigStays, RequestFacts DEF IInv, Nature, Server
  <1>1. ASSUME NEW t \in Tasks, Start(t) PROVE AttemptsFitServers'
    BY <1>0, <1>a, <1>1
    DEF Start, Arrive, Bind, Authorize, Publish
  <1>2. ASSUME NEW t \in Tasks, Finish(t) PROVE AttemptsFitServers'
    BY <1>0, <1>a, <1>2
    DEF Finish, Arrive, Take, Drop, Hear, Timeout, Exchange
  <1>3. ASSUME NEW t \in Tasks, Open(t) PROVE AttemptsFitServers'
    <2>1. CASE Enable(t)
      BY <1>0, <1>a, <2>1 DEF Arrive, Elsewhere, Enable
    <2>2. CASE Probe(t)
      BY <1>0, <1>a, <2>2 DEF Elsewhere, Probe
    <2>3. CASE Load(t)
      BY <1>0, <1>a, <2>3 DEF Elsewhere, Ends, Unreached, Load
    <2>4. CASE Connect(t)
      BY <1>0, <1>a, <2>4 DEF Elsewhere, Ends, Unreached, Connect
    <2>5. CASE Plain(t)
      BY <1>0, <1>a, <2>5 DEF Elsewhere, Ends, Unreached, Plain
    <2>6. CASE Ask(t)
      BY <1>0, <1>a, <2>6 DEF Elsewhere, Ends, Unreached, Ask
    <2>7. CASE Record(t)
      BY <1>0, <1>a, <2>7 DEF Elsewhere, Record
    <2>8. QED
      BY <1>3, <2>1, <2>2, <2>3, <2>4, <2>5, <2>6, <2>7 DEF Open
  <1>4. ASSUME NEW t \in Tasks, LogOut(t) PROVE AttemptsFitServers'
    BY <1>0, <1>a, <1>4
    DEF LogOut, Arrive, Cancelled, Cancel, Remove, Disconnect
  <1>5. ASSUME NEW f \in Flows, Browser(f) PROVE AttemptsFitServers'
    BY <1>0, <1>a, <1>5 DEF Browser, Redirect, Refused, Close
  <1>6. ASSUME NEW s \in Servers, Refresh(s) PROVE AttemptsFitServers'
    BY <1>0, <1>a, <1>6 DEF Refresh
  <1>7. CASE UNCHANGED vars
    BY <1>0, <1>a, <1>7 DEF vars
  <1>8. QED
    BY <1>1, <1>2, <1>3, <1>4, <1>5, <1>6, <1>7 DEF Next

\* Each way to end an attempt fits what is known by then.
LEMMA VerdictStep == IInv /\ [Next]_vars => VerdictsFitServers'
  <1> SUFFICES ASSUME IInv, [Next]_vars PROVE VerdictsFitServers'
    OBVIOUS
  <1> USE AskedTyped
      DEF PcTyped, AttemptsTyped, AttemptsFitServers, VerdictsFitServers, Goto, attempt
  <1>0. PcTyped /\ AttemptsTyped /\ AttemptsFitServers /\ VerdictsFitServers
    BY DEF IInv, TypeOK, PcTyped, FlowsTyped, AttemptsTyped
  <1>a. /\ Tokens' = Tokens
        /\ \A t \in Tasks : Nature(t)' = Nature(t) /\ Server(t) \in Servers
    BY <1>0, ConfigStays, RequestFacts DEF IInv, Nature, Server
  <1>1. ASSUME NEW t \in Tasks, Start(t) PROVE VerdictsFitServers'
    BY <1>0, <1>a, <1>1
    DEF Start, Arrive, Bind, Authorize, Publish
  <1>2. ASSUME NEW t \in Tasks, Finish(t) PROVE VerdictsFitServers'
    BY <1>0, <1>a, <1>2
    DEF Finish, Arrive, Take, Drop, Hear, Timeout, Exchange
  <1>3. ASSUME NEW t \in Tasks, Open(t) PROVE VerdictsFitServers'
    <2>1. CASE Enable(t)
      BY <1>0, <1>a, <2>1 DEF Arrive, Elsewhere, Enable
    <2>2. CASE Probe(t)
      BY <1>0, <1>a, <2>2 DEF Elsewhere, Probe
    <2>3. CASE Load(t)
      BY <1>0, <1>a, <2>3 DEF Elsewhere, Ends, Unreached, Load
    <2>4. CASE Connect(t)
      BY <1>0, <1>a, <2>4 DEF Elsewhere, Ends, Unreached, Connect
    <2>5. CASE Plain(t)
      BY <1>0, <1>a, <2>5 DEF Elsewhere, Ends, Unreached, Plain
    <2>6. CASE Ask(t)
      <3>1. Nature(t).guarded \/ t \in faulty
        BY <1>0, <2>6 DEF Ask
      <3>2. ASSUME NEW u \in Tasks, u # t
            PROVE  pc'[u] = pc[u] /\ outcome'[u] = outcome[u] /\ (u \in faulty' <=> u \in faulty)
        BY <1>0, <3>2, <2>6 DEF Elsewhere, Ends, Unreached, Ask
      <3>3. CASE /\ outcome'[t].status = (IF Nature(t).oauth THEN "needs_auth" ELSE "not_oauth")
                 /\ UNCHANGED faulty
        BY <1>0, <1>a, <3>1, <3>2, <3>3
      <3>4. CASE t \in faulty'
        BY <1>0, <1>a, <3>2, <3>4
      <3>5. \/ /\ outcome'[t].status = IF Nature(t).oauth THEN "needs_auth" ELSE "not_oauth"
               /\ UNCHANGED faulty
            \/ t \in faulty'
        BY <1>0, <2>6 DEF Ends, Unreached, Ask
      <3>6. QED
        BY <3>3, <3>4, <3>5
    <2>7. CASE Record(t)
      BY <1>0, <1>a, <2>7 DEF Elsewhere, Record
    <2>8. QED
      BY <1>3, <2>1, <2>2, <2>3, <2>4, <2>5, <2>6, <2>7 DEF Open
  <1>4. ASSUME NEW t \in Tasks, LogOut(t) PROVE VerdictsFitServers'
    BY <1>0, <1>a, <1>4
    DEF LogOut, Arrive, Cancelled, Cancel, Remove, Disconnect
  <1>5. ASSUME NEW f \in Flows, Browser(f) PROVE VerdictsFitServers'
    BY <1>0, <1>a, <1>5 DEF Browser, Redirect, Refused, Close
  <1>6. ASSUME NEW s \in Servers, Refresh(s) PROVE VerdictsFitServers'
    BY <1>0, <1>a, <1>6 DEF Refresh
  <1>7. CASE UNCHANGED vars
    BY <1>0, <1>a, <1>7 DEF vars
  <1>8. QED
    BY <1>1, <1>2, <1>3, <1>4, <1>5, <1>6, <1>7 DEF Next


LEMMA InvStep == IInv /\ [Next]_vars => IInv'
  BY TypeStep, StageStep, HandleStep, ListenerStep, RevokedStep, AttemptStep, VerdictStep
  DEF IInv

-----------------------------------------------------------------------------
(* The theorems.                                                           *)

\* Whose a flow is and what is known of a server, for any requests that overlap.
THEOREM Inductive == Spec => []IInv
  BY InitIInv, InvStep, PTL DEF Spec

\* Every flow has one owner, and every end of it stops its callback server
\* (auth_start, auth_finish, auth_remove).
THEOREM OwnerTheorem == Spec => []FlowsHaveOneOwner
  <1>1. IInv => FlowsHaveOneOwner
    <2> SUFFICES ASSUME IInv PROVE FlowsHaveOneOwner
      OBVIOUS
    <2>0. /\ TypeOK /\ StagesFitKinds /\ HandlesAreSingle /\ ListenersAreHeld
          /\ None \notin Flows /\ Flows \subseteq Tasks /\ \A t \in Tasks : Server(t) \in Servers
      BY RequestFacts DEF IInv
    <2>1. ASSUME NEW f \in Flows, NEW x \in Owners(f), NEW y \in Owners(f) PROVE x = y
      <3>1. CASE Began(f)
        <4>1. \A t \in Tasks : holding[t] # f
          BY <2>0, <3>1 DEF HandlesAreSingle, Began
        <4>2. \A s \in Servers : pending[s] # f
          BY <2>0, <3>1 DEF HandlesAreSingle, Began
        <4>3. QED
          BY <4>1, <4>2 DEF Owners
      <3>2. CASE \E t \in Tasks : holding[t] = f
        <4>1. PICK t \in Tasks : holding[t] = f
          BY <3>2
        <4>2. /\ \A s \in Servers : pending[s] # f
              /\ \A u \in Tasks : holding[u] = f => u = t
              /\ ~ Began(f)
          BY <2>0, <4>1 DEF HandlesAreSingle, Began
        <4>3. QED
          BY <4>2 DEF Owners, Began
      <3>3. CASE ~ Began(f) /\ \A t \in Tasks : holding[t] # f
        <4>1. \A s \in Servers : pending[s] = f => Server(f) = s
          BY <2>0 DEF HandlesAreSingle
        <4>2. QED
          BY <3>3, <4>1 DEF Owners, Began
      <3>4. QED
        BY <3>1, <3>2, <3>3
    <2>2. ASSUME NEW f \in Flows, listener[f] = "open" PROVE Owners(f) # {}
      BY <2>0, <2>2 DEF ListenersAreHeld, Owners, Began
    <2>3. QED
      BY <2>1, <2>2 DEF FlowsHaveOneOwner
  <1>2. QED
    BY <1>1, Inductive, PTL

\* A verdict fits the server that answered (connect_one), whatever the token file
\* holds.
THEOREM VerdictTheorem == Spec => []VerdictsFitServers
  <1>1. IInv => VerdictsFitServers
    BY DEF IInv
  <1>2. QED
    BY <1>1, Inductive, PTL

\* A flow that auth_remove found pending never saves tokens.
THEOREM RevokedTheorem == Spec => RevokedFlowsSaveNothing
  <1>1. IInv => \A t \in Tasks : holding[t] \notin revoked
    BY DEF IInv, RevokedAreGone
  <1>2. IInv =>
          [\A t \in Tasks : pc[t] = "exchanging" /\ pc'[t] = "probing" => holding[t] \notin revoked]_vars
    BY <1>1
  <1>3. QED
    BY <1>2, Inductive, PTL DEF RevokedFlowsSaveNothing
===============================================================================
