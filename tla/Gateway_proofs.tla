---------------------------- MODULE Gateway_proofs ----------------------------
(***************************************************************************)
(* Theorems about Gateway and AdminClients, for any pids, any choice of    *)
(* executors and any number of starts and commands.  The inductive         *)
(* invariant IInv says what a process has at each step of its life, and    *)
(* CIInv what a command has yet to see; their parts are proved to be       *)
(* preserved one lemma each.                                               *)
(***************************************************************************)
EXTENDS AdminClients, TLAPS

LEMMA InitIInv == Init => IInv
  <1> SUFFICES ASSUME Init PROVE IInv
    OBVIOUS
  <1> USE GatewayAssumption DEF Init
  <1>1. TypeOK
    BY DEF TypeOK
  <1>2. ContainersByStage
    BY DEF ContainersByStage, WithDir, Started, Named, Closing, Removed
  <1>3. ProcessesByStage
    BY DEF ProcessesByStage, WithUp, Booting
  <1>4. EndOfInputLeavesNothing /\ BoundIsThere
    BY DEF EndOfInputLeavesNothing, BoundIsThere
  <1>5. QED
    BY <1>1, <1>2, <1>3, <1>4 DEF IInv

\* Every step keeps the types, whatever the program is at.
LEMMA TypeStep == IInv /\ [Next]_gvars => TypeOK'
  <1> SUFFICES ASSUME IInv, [Next]_gvars PROVE TypeOK'
    OBVIOUS
  <1> USE GatewayAssumption DEF IInv, Goto, TypeOK, Booting, Closing
  <1>1. ASSUME NEW p \in Pids, Start(p) PROVE TypeOK'
    BY <1>1 DEF Start
  <1>2. ASSUME NEW p \in Pids, Connect(p) PROVE TypeOK'
    BY <1>2 DEF Connect
  <1>3. ASSUME NEW p \in Pids, Prepare(p) PROVE TypeOK'
    BY <1>3 DEF Prepare
  <1>4. ASSUME NEW p \in Pids, WriteWorkdir(p) PROVE TypeOK'
    BY <1>4 DEF WriteWorkdir
  <1>5. ASSUME NEW p \in Pids, EnsureImage(p) PROVE TypeOK'
    BY <1>5 DEF EnsureImage
  <1>6. ASSUME NEW p \in Pids, Spawn(p) PROVE TypeOK'
    BY <1>6 DEF Spawn
  <1>7. ASSUME NEW p \in Pids, CreateFails(p) PROVE TypeOK'
    <2>1. PICK left \in {"none", "created"} : Die(p, "failed", left)
      BY <1>7 DEF CreateFails
    <2>2. /\ orphan' \in [Pids -> {"none", "created", "running"}]
          /\ dir' \in [Pids -> BOOLEAN] /\ refused' = refused
      BY <1>7, <2>1 DEF CreateFails, Die
    <2>3. QED
      BY <2>1, <2>2 DEF Die
  <1>8. ASSUME NEW p \in Pids, AssembleRuntime(p) PROVE TypeOK'
    BY <1>8 DEF AssembleRuntime
  <1>9. ASSUME NEW p \in Pids, BindPort(p) PROVE TypeOK'
    BY <1>9 DEF BindPort
  <1>10. ASSUME NEW p \in Pids, WorkerDials(p) PROVE TypeOK'
    BY <1>10 DEF WorkerDials
  <1>11. ASSUME NEW p \in Pids, AcceptTimesOut(p) PROVE TypeOK'
    <2>1. CASE p \in Docker
      <3>1. PICK refuses \in BOOLEAN :
              /\ refused' = [refused EXCEPT ![p] = refuses]
              /\ Die(p, "failed", IF refuses THEN Running(p) ELSE "none")
        BY <1>11, <2>1 DEF AcceptTimesOut
      <3>2. QED
        BY <1>11, <2>1, <3>1 DEF AcceptTimesOut, Die, Running
    <2>2. CASE p \notin Docker
      <3>1. UNCHANGED <<dir, refused>> /\ Leave(p, "failed")
        BY <1>11, <2>2 DEF AcceptTimesOut
      <3>2. QED
        BY <3>1 DEF Leave, Die, Running
    <2>3. QED
      BY <2>1, <2>2
  <1>12. ASSUME NEW p \in Pids, ClearSocket(p) PROVE TypeOK'
    BY <1>12 DEF ClearSocket, Path
  <1>13. ASSUME NEW p \in Pids, BindSocket(p) PROVE TypeOK'
    BY <1>13 DEF BindSocket, Path
  <1>14. ASSUME NEW p \in Pids, EndOfInput(p) PROVE TypeOK'
    BY <1>14 DEF EndOfInput
  <1>15. ASSUME NEW p \in Pids, RemoveContainer(p) PROVE TypeOK'
    BY <1>15 DEF RemoveContainer
  <1>16. ASSUME NEW p \in Pids, RemoveWorkdir(p) PROVE TypeOK'
    BY <1>16 DEF RemoveWorkdir
  <1>17. ASSUME NEW p \in Pids, DisconnectUpstreams(p) PROVE TypeOK'
    BY <1>17 DEF DisconnectUpstreams
  <1>18. ASSUME NEW p \in Pids, Exit(p) PROVE TypeOK'
    BY <1>18 DEF Exit, Leave, Die, Running
  <1>19. ASSUME NEW p \in Pids, Fail(p) PROVE TypeOK'
    BY <1>19 DEF Fail, Leave, Die, Running
  <1>20. ASSUME NEW p \in Pids, Kill(p) PROVE TypeOK'
    BY <1>20 DEF Kill, Die, Running
  <1>21. ASSUME NEW p \in Pids, WorkerDies(p) PROVE TypeOK'
    BY <1>21 DEF WorkerDies
  <1>22. ASSUME NEW p \in Pids, OrphanEnds(p) PROVE TypeOK'
    BY <1>22 DEF OrphanEnds
  <1>23. CASE UNCHANGED gvars
    BY <1>23 DEF gvars
  <1>24. QED
    BY <1>1, <1>2, <1>3, <1>4, <1>5, <1>6, <1>7, <1>8, <1>9, <1>10, <1>11, <1>12, <1>13,
       <1>14, <1>15, <1>16, <1>17, <1>18, <1>19, <1>20, <1>21, <1>22, <1>23
    DEF Next, Boot

\* A container has its workdir from before it is made until after it is gone.
LEMMA ContainerStep == IInv /\ [Next]_gvars => ContainersByStage'
  <1> SUFFICES ASSUME IInv, [Next]_gvars PROVE ContainersByStage'
    OBVIOUS
  <1> USE GatewayAssumption
      DEF IInv, Goto, TypeOK, ContainersByStage, Booting, Closing, Started, WithDir, WithUp,
          Named, Removed
  <1>1. ASSUME NEW p \in Pids, Start(p) PROVE ContainersByStage'
    BY <1>1 DEF Start
  <1>2. ASSUME NEW p \in Pids, Connect(p) PROVE ContainersByStage'
    BY <1>2 DEF Connect
  <1>3. ASSUME NEW p \in Pids, Prepare(p) PROVE ContainersByStage'
    BY <1>3 DEF Prepare
  <1>4. ASSUME NEW p \in Pids, WriteWorkdir(p) PROVE ContainersByStage'
    BY <1>4 DEF WriteWorkdir
  <1>5. ASSUME NEW p \in Pids, EnsureImage(p) PROVE ContainersByStage'
    BY <1>5 DEF EnsureImage
  <1>6. ASSUME NEW p \in Pids, Spawn(p) PROVE ContainersByStage'
    BY <1>6 DEF Spawn
  <1>7. ASSUME NEW p \in Pids, CreateFails(p) PROVE ContainersByStage'
    BY <1>7 DEF CreateFails, Leave, Die, Running
  <1>8. ASSUME NEW p \in Pids, AssembleRuntime(p) PROVE ContainersByStage'
    BY <1>8 DEF AssembleRuntime
  <1>9. ASSUME NEW p \in Pids, BindPort(p) PROVE ContainersByStage'
    BY <1>9 DEF BindPort
  <1>10. ASSUME NEW p \in Pids, WorkerDials(p) PROVE ContainersByStage'
    BY <1>10 DEF WorkerDials
  <1>11. ASSUME NEW p \in Pids, AcceptTimesOut(p) PROVE ContainersByStage'
    BY <1>11 DEF AcceptTimesOut, Leave, Die, Running
  <1>12. ASSUME NEW p \in Pids, ClearSocket(p) PROVE ContainersByStage'
    BY <1>12 DEF ClearSocket
  <1>13. ASSUME NEW p \in Pids, BindSocket(p) PROVE ContainersByStage'
    BY <1>13 DEF BindSocket
  <1>14. ASSUME NEW p \in Pids, EndOfInput(p) PROVE ContainersByStage'
    BY <1>14 DEF EndOfInput
  <1>15. ASSUME NEW p \in Pids, RemoveContainer(p) PROVE ContainersByStage'
    BY <1>15 DEF RemoveContainer
  <1>16. ASSUME NEW p \in Pids, RemoveWorkdir(p) PROVE ContainersByStage'
    BY <1>16 DEF RemoveWorkdir
  <1>17. ASSUME NEW p \in Pids, DisconnectUpstreams(p) PROVE ContainersByStage'
    BY <1>17 DEF DisconnectUpstreams
  <1>18. ASSUME NEW p \in Pids, Exit(p) PROVE ContainersByStage'
    BY <1>18 DEF Exit, Leave, Die, Running
  <1>19. ASSUME NEW p \in Pids, Fail(p) PROVE ContainersByStage'
    BY <1>19 DEF Fail, Leave, Die, Running
  <1>20. ASSUME NEW p \in Pids, Kill(p) PROVE ContainersByStage'
    BY <1>20 DEF Kill, Die, Running
  <1>21. ASSUME NEW p \in Pids, WorkerDies(p) PROVE ContainersByStage'
    BY <1>21 DEF WorkerDies
  <1>22. ASSUME NEW p \in Pids, OrphanEnds(p) PROVE ContainersByStage'
    BY <1>22 DEF OrphanEnds
  <1>23. CASE UNCHANGED gvars
    BY <1>23 DEF gvars
  <1>24. QED
    BY <1>1, <1>2, <1>3, <1>4, <1>5, <1>6, <1>7, <1>8, <1>9, <1>10, <1>11, <1>12, <1>13,
       <1>14, <1>15, <1>16, <1>17, <1>18, <1>19, <1>20, <1>21, <1>22, <1>23
    DEF Next, Boot

\* Upstreams and the port are held as long as a process is at the steps that need
\* them; only a process that is gone has ended.
LEMMA ProcessStep == IInv /\ [Next]_gvars => ProcessesByStage'
  <1> SUFFICES ASSUME IInv, [Next]_gvars PROVE ProcessesByStage'
    OBVIOUS
  <1> USE GatewayAssumption
      DEF IInv, Goto, TypeOK, ProcessesByStage, Booting, Closing, Started, WithDir, WithUp,
          Named, Removed
  <1>1. ASSUME NEW p \in Pids, Start(p) PROVE ProcessesByStage'
    BY <1>1 DEF Start
  <1>2. ASSUME NEW p \in Pids, Connect(p) PROVE ProcessesByStage'
    BY <1>2 DEF Connect
  <1>3. ASSUME NEW p \in Pids, Prepare(p) PROVE ProcessesByStage'
    BY <1>3 DEF Prepare
  <1>4. ASSUME NEW p \in Pids, WriteWorkdir(p) PROVE ProcessesByStage'
    BY <1>4 DEF WriteWorkdir
  <1>5. ASSUME NEW p \in Pids, EnsureImage(p) PROVE ProcessesByStage'
    BY <1>5 DEF EnsureImage
  <1>6. ASSUME NEW p \in Pids, Spawn(p) PROVE ProcessesByStage'
    BY <1>6 DEF Spawn
  <1>7. ASSUME NEW p \in Pids, CreateFails(p) PROVE ProcessesByStage'
    BY <1>7 DEF CreateFails, Leave, Die, Running
  <1>8. ASSUME NEW p \in Pids, AssembleRuntime(p) PROVE ProcessesByStage'
    BY <1>8 DEF AssembleRuntime
  <1>9. ASSUME NEW p \in Pids, BindPort(p) PROVE ProcessesByStage'
    BY <1>9 DEF BindPort
  <1>10. ASSUME NEW p \in Pids, WorkerDials(p) PROVE ProcessesByStage'
    BY <1>10 DEF WorkerDials
  <1>11. ASSUME NEW p \in Pids, AcceptTimesOut(p) PROVE ProcessesByStage'
    BY <1>11 DEF AcceptTimesOut, Leave, Die, Running
  <1>12. ASSUME NEW p \in Pids, ClearSocket(p) PROVE ProcessesByStage'
    BY <1>12 DEF ClearSocket
  <1>13. ASSUME NEW p \in Pids, BindSocket(p) PROVE ProcessesByStage'
    BY <1>13 DEF BindSocket
  <1>14. ASSUME NEW p \in Pids, EndOfInput(p) PROVE ProcessesByStage'
    BY <1>14 DEF EndOfInput
  <1>15. ASSUME NEW p \in Pids, RemoveContainer(p) PROVE ProcessesByStage'
    BY <1>15 DEF RemoveContainer
  <1>16. ASSUME NEW p \in Pids, RemoveWorkdir(p) PROVE ProcessesByStage'
    BY <1>16 DEF RemoveWorkdir
  <1>17. ASSUME NEW p \in Pids, DisconnectUpstreams(p) PROVE ProcessesByStage'
    BY <1>17 DEF DisconnectUpstreams
  <1>18. ASSUME NEW p \in Pids, Exit(p) PROVE ProcessesByStage'
    BY <1>18 DEF Exit, Leave, Die, Running
  <1>19. ASSUME NEW p \in Pids, Fail(p) PROVE ProcessesByStage'
    BY <1>19 DEF Fail, Leave, Die, Running
  <1>20. ASSUME NEW p \in Pids, Kill(p) PROVE ProcessesByStage'
    BY <1>20 DEF Kill, Die, Running
  <1>21. ASSUME NEW p \in Pids, WorkerDies(p) PROVE ProcessesByStage'
    BY <1>21 DEF WorkerDies
  <1>22. ASSUME NEW p \in Pids, OrphanEnds(p) PROVE ProcessesByStage'
    BY <1>22 DEF OrphanEnds
  <1>23. CASE UNCHANGED gvars
    BY <1>23 DEF gvars
  <1>24. QED
    BY <1>1, <1>2, <1>3, <1>4, <1>5, <1>6, <1>7, <1>8, <1>9, <1>10, <1>11, <1>12, <1>13,
       <1>14, <1>15, <1>16, <1>17, <1>18, <1>19, <1>20, <1>21, <1>22, <1>23
    DEF Next, Boot

\* A clean end is one behind RemoveContainer and RemoveWorkdir.
LEMMA EndStep == IInv /\ [Next]_gvars => EndOfInputLeavesNothing'
  <1> SUFFICES ASSUME IInv, [Next]_gvars PROVE EndOfInputLeavesNothing'
    OBVIOUS
  <1> USE GatewayAssumption
      DEF IInv, Goto, TypeOK, ContainersByStage, ProcessesByStage, EndOfInputLeavesNothing,
          Booting, Closing, Started, WithDir, WithUp, Named, Removed
  <1>1. ASSUME NEW p \in Pids, Start(p) PROVE EndOfInputLeavesNothing'
    BY <1>1 DEF Start
  <1>2. ASSUME NEW p \in Pids, Connect(p) PROVE EndOfInputLeavesNothing'
    BY <1>2 DEF Connect
  <1>3. ASSUME NEW p \in Pids, Prepare(p) PROVE EndOfInputLeavesNothing'
    BY <1>3 DEF Prepare
  <1>4. ASSUME NEW p \in Pids, WriteWorkdir(p) PROVE EndOfInputLeavesNothing'
    BY <1>4 DEF WriteWorkdir
  <1>5. ASSUME NEW p \in Pids, EnsureImage(p) PROVE EndOfInputLeavesNothing'
    BY <1>5 DEF EnsureImage
  <1>6. ASSUME NEW p \in Pids, Spawn(p) PROVE EndOfInputLeavesNothing'
    BY <1>6 DEF Spawn
  <1>7. ASSUME NEW p \in Pids, CreateFails(p) PROVE EndOfInputLeavesNothing'
    BY <1>7 DEF CreateFails, Leave, Die, Running
  <1>8. ASSUME NEW p \in Pids, AssembleRuntime(p) PROVE EndOfInputLeavesNothing'
    BY <1>8 DEF AssembleRuntime
  <1>9. ASSUME NEW p \in Pids, BindPort(p) PROVE EndOfInputLeavesNothing'
    BY <1>9 DEF BindPort
  <1>10. ASSUME NEW p \in Pids, WorkerDials(p) PROVE EndOfInputLeavesNothing'
    BY <1>10 DEF WorkerDials
  <1>11. ASSUME NEW p \in Pids, AcceptTimesOut(p) PROVE EndOfInputLeavesNothing'
    BY <1>11 DEF AcceptTimesOut, Leave, Die, Running
  <1>12. ASSUME NEW p \in Pids, ClearSocket(p) PROVE EndOfInputLeavesNothing'
    BY <1>12 DEF ClearSocket
  <1>13. ASSUME NEW p \in Pids, BindSocket(p) PROVE EndOfInputLeavesNothing'
    BY <1>13 DEF BindSocket
  <1>14. ASSUME NEW p \in Pids, EndOfInput(p) PROVE EndOfInputLeavesNothing'
    BY <1>14 DEF EndOfInput
  <1>15. ASSUME NEW p \in Pids, RemoveContainer(p) PROVE EndOfInputLeavesNothing'
    BY <1>15 DEF RemoveContainer
  <1>16. ASSUME NEW p \in Pids, RemoveWorkdir(p) PROVE EndOfInputLeavesNothing'
    BY <1>16 DEF RemoveWorkdir
  <1>17. ASSUME NEW p \in Pids, DisconnectUpstreams(p) PROVE EndOfInputLeavesNothing'
    BY <1>17 DEF DisconnectUpstreams
  <1>18. ASSUME NEW p \in Pids, Exit(p) PROVE EndOfInputLeavesNothing'
    BY <1>18 DEF Exit, Leave, Die, Running
  <1>19. ASSUME NEW p \in Pids, Fail(p) PROVE EndOfInputLeavesNothing'
    BY <1>19 DEF Fail, Leave, Die, Running
  <1>20. ASSUME NEW p \in Pids, Kill(p) PROVE EndOfInputLeavesNothing'
    BY <1>20 DEF Kill, Die, Running
  <1>21. ASSUME NEW p \in Pids, WorkerDies(p) PROVE EndOfInputLeavesNothing'
    BY <1>21 DEF WorkerDies
  <1>22. ASSUME NEW p \in Pids, OrphanEnds(p) PROVE EndOfInputLeavesNothing'
    BY <1>22 DEF OrphanEnds
  <1>23. CASE UNCHANGED gvars
    BY <1>23 DEF gvars
  <1>24. QED
    BY <1>1, <1>2, <1>3, <1>4, <1>5, <1>6, <1>7, <1>8, <1>9, <1>10, <1>11, <1>12, <1>13,
       <1>14, <1>15, <1>16, <1>17, <1>18, <1>19, <1>20, <1>21, <1>22, <1>23
    DEF Next, Boot

\* With a path for each process nobody takes another's away.
LEMMA BoundStep ==
  ASSUME ~Pinned, IInv, [Next]_gvars
  PROVE  BoundIsThere'
  <1> USE GatewayAssumption DEF IInv, Goto, TypeOK, BoundIsThere, Path
  <1>1. CASE UNCHANGED <<adm, sock>>
    BY <1>1
  <1>2. ASSUME NEW p \in Pids, ClearSocket(p) PROVE BoundIsThere'
    BY <1>2 DEF ClearSocket
  <1>3. ASSUME NEW p \in Pids, BindSocket(p) PROVE BoundIsThere'
    BY <1>3 DEF BindSocket
  <1>4. ASSUME NEW p \in Pids, adm' = [adm EXCEPT ![p] = "off"] \/ adm' = [adm EXCEPT ![p] = "clear"],
               UNCHANGED sock
        PROVE  BoundIsThere'
    BY <1>4
  <1>5. ASSUME NEW p \in Pids,
               CreateFails(p) \/ AcceptTimesOut(p) \/ Exit(p) \/ Fail(p) \/ Kill(p) \/ BindPort(p)
        PROVE  BoundIsThere'
    BY <1>4, <1>5 DEF CreateFails, AcceptTimesOut, Exit, Fail, Kill, BindPort, Leave, Die, Running
  <1>6. QED
    BY <1>1, <1>2, <1>3, <1>5
    DEF Next, Boot, gvars, Start, Connect, Prepare, WriteWorkdir, EnsureImage, Spawn, WorkerDials,
        AssembleRuntime, EndOfInput, RemoveContainer, RemoveWorkdir, DisconnectUpstreams,
        WorkerDies, OrphanEnds

LEMMA InvStep == IInv /\ [Next]_gvars => IInv'
  BY TypeStep, ContainerStep, ProcessStep, EndStep, BoundStep, GatewayAssumption DEF IInv, gvars

-----------------------------------------------------------------------------
(* The theorems.                                                           *)

\* What a process has at each step of its start and its end (run_gateway,
\* Runtime::shutdown), and what the processes before it with the same pid left.
THEOREM Inductive == Spec => []IInv
  BY InitIInv, InvStep, PTL DEF Spec

\* A container whose process lives has the directory it mounts and the upstreams its
\* programs call (DockerExecutor::start and shutdown), unless the daemon refused to
\* remove it, and shares neither with a container that an earlier process with the
\* same pid left.  Containers that outlive their process are not spoken of.
THEOREM NeedsTheorem == Spec => []ContainerHasItsNeeds
  <1>1. IInv => ContainerHasItsNeeds
    <2> SUFFICES ASSUME IInv, NEW p \in Docker, worker[p] # "none", ~refused[p]
                 PROVE  dir[p] /\ up[p] /\ orphan[p] # "running"
      BY DEF ContainerHasItsNeeds
    <2>1. p \in Pids
      BY GatewayAssumption
    <2>2. stage[p] \in (Started \ {"create"}) \cup Closing
      BY <2>1 DEF IInv, TypeOK, Booting, Closing, Started
    <2>3. stage[p] \notin Removed
      BY DEF IInv, ContainersByStage
    <2>4. stage[p] \in WithDir /\ stage[p] \in WithUp
      BY <2>2, <2>3 DEF Started, Closing, Removed, WithDir, WithUp, Booting
    <2>5. QED
      BY <2>1, <2>2, <2>4 DEF IInv, ContainersByStage, ProcessesByStage, Named
  <1>2. QED
    BY <1>1, Inductive, PTL

\* The end of stdio leaves neither container nor workdir (Runtime::shutdown),
\* whatever processes with the same pid left before.
THEOREM EndTheorem == Spec => []EndOfInputLeavesNothing
  <1>1. IInv => EndOfInputLeavesNothing
    BY DEF IInv
  <1>2. QED
    BY <1>1, Inductive, PTL

\* Each process that published an admin socket is the one reached at its path
\* (admin::serve), if the environment does not pin one path for all.
THEOREM OwnerTheorem ==
  ASSUME ~Pinned
  PROVE  Spec => []SocketReachesOwner
  <1>1. IInv => SocketReachesOwner
    BY DEF IInv, ProcessesByStage, BoundIsThere, SocketReachesOwner
  <1>2. QED
    BY <1>1, Inductive, PTL

-----------------------------------------------------------------------------
(* A command beside the gateways.                                          *)

\* Who is reachable, with a path for each process.
LEMMA LiveFacts ==
  ASSUME ~Pinned, TypeOK
  PROVE  /\ Live = {p \in Pids : sock[p] = p /\ adm[p] = "on"}
         /\ \A s : Answers(s) = Live \cap {s}
         /\ Live \subseteq Files /\ Files \subseteq DOMAIN sock
  <1>1. DOMAIN sock = Pids \cup {NoPid}
    BY DEF TypeOK
  <1>2. \A s : Answers(s) = {p \in Pids : sock[p] = p /\ adm[p] = "on"} \cap {s}
    BY DEF Answers, Path
  <1>3. Live = {p \in Pids : sock[p] = p /\ adm[p] = "on"}
    BY <1>1, <1>2 DEF Live
  <1>4. QED
    BY <1>1, <1>2, <1>3, GatewayAssumption DEF Files

\* A selection is the only gateway that matches, or a reason.
LEMMA PickFacts ==
  ASSUME NEW ps \in SUBSET Pids
  PROVE  /\ Pick(ps) \in Pids \cup {"nobody", "ambiguous"}
         /\ Pick(ps) \in Pids => ps = {Pick(ps)}
         /\ Pick(ps) = "nobody" => ps = {}
  BY ClientAssumption DEF Pick, NoChoice

LEMMA CInitInv == CInit => IInv /\ CIInv
  <1> SUFFICES ASSUME CInit PROVE IInv /\ CIInv
    OBVIOUS
  <1>1. IInv
    BY InitIInv DEF CInit
  <1>2. CTypeOK
    BY ClientAssumption DEF CInit, CTypeOK, Commands, NoChoice
  <1>3. ScanIsComplete /\ NoneIsPassedOver
    BY DEF CInit, ScanIsComplete, NoneIsPassedOver
  <1>4. QED
    BY <1>1, <1>2, <1>3 DEF CIInv

\* The gateways go on as they would without the command.
LEMMA CGatewayStep == IInv /\ [CNext]_vars => IInv'
  <1> SUFFICES ASSUME IInv, [CNext]_vars PROVE [Next]_gvars
    BY InvStep
  <1>1. CASE GatewayStep
    BY <1>1 DEF GatewayStep
  <1>2. CASE Ask \/ AskAgain \/ (\E s \in todo : Probe(s)) \/ Select \/ Request
    BY <1>2 DEF Ask, AskAgain, Probe, Select, Request
  <1>3. CASE UNCHANGED vars
    BY <1>3 DEF vars
  <1>4. QED
    BY <1>1, <1>2, <1>3 DEF CNext

\* A scan begins with every file there is, and the file of everybody reachable.
LEMMA ScanStep ==
  ASSUME ~Pinned, TypeOK, CIInv, Scan, UNCHANGED gvars, asks' \in 0 .. MaxAsks,
         command' \in Commands, want' \in SUBSET Pids
  PROVE  CIInv'
  <1>1. Live' = Live /\ DOMAIN sock' = DOMAIN sock
    BY DEF gvars, Live, Answers, Path
  <1>2. Live \subseteq Files /\ Files \subseteq DOMAIN sock /\ Live \subseteq Pids
    BY LiveFacts
  <1>3. CTypeOK'
    BY <1>1, <1>2 DEF Scan, CTypeOK, NoChoice
  <1>4. ScanIsComplete'
    BY <1>2 DEF Scan, ScanIsComplete, Path
  <1>5. NoneIsPassedOver'
    BY DEF Scan, NoneIsPassedOver
  <1>6. QED
    BY <1>3, <1>4, <1>5 DEF CIInv

LEMMA CommandStep ==
  ASSUME ~Pinned, IInv, CIInv, [CNext]_vars
  PROVE  CIInv'
  <1>0. TypeOK /\ TypeOK' /\ CTypeOK /\ ScanIsComplete /\ NoneIsPassedOver
    BY CGatewayStep DEF IInv, CIInv
  <1> USE ClientAssumption
  <1>1. CASE GatewayStep
    <2>1. steady' \subseteq steady /\ steady' \subseteq Live' /\ DOMAIN sock' = DOMAIN sock
      BY <1>0, <1>1 DEF GatewayStep, CTypeOK, TypeOK
    <2>2. phase = "done" => steady' = {}
      BY <1>1 DEF GatewayStep
    <2>3. CTypeOK'
      BY <1>0, <1>1, <2>1 DEF GatewayStep, CTypeOK
    <2>4. ScanIsComplete'
      BY <1>0, <1>1, <2>1 DEF GatewayStep, ScanIsComplete, Path
    <2>5. NoneIsPassedOver'
      BY <1>0, <1>1, <2>1, <2>2 DEF GatewayStep, NoneIsPassedOver
    <2>6. QED
      BY <2>3, <2>4, <2>5 DEF CIInv
  <1>2. CASE Ask
    <2>1. asks' \in 0 .. MaxAsks /\ command' \in Commands /\ want' \in SUBSET Pids
      BY <1>0, <1>2 DEF Ask, CTypeOK
    <2>2. QED
      BY <1>0, <1>2, <2>1, ScanStep DEF Ask
  <1>3. CASE AskAgain
    <2>1. asks' \in 0 .. MaxAsks /\ command' \in Commands /\ want' \in SUBSET Pids
      BY <1>0, <1>3 DEF AskAgain, CTypeOK, Commands
    <2>2. QED
      BY <1>0, <1>3, <2>1, ScanStep DEF AskAgain
  <1>4. ASSUME NEW s \in todo, Probe(s) PROVE CIInv'
    <2>1. Live' = Live /\ DOMAIN sock' = DOMAIN sock
      BY <1>4 DEF Probe, gvars, Live, Answers, Path
    <2>2. Answers(s) = Live \cap {s} /\ steady \subseteq Live /\ Answers(s) \subseteq Pids
      BY <1>0, LiveFacts DEF CTypeOK, Answers
    <2>3. CTypeOK'
      BY <1>0, <1>4, <2>1, <2>2 DEF Probe, CTypeOK
    <2>4. ScanIsComplete'
      BY <1>0, <1>4, <2>2 DEF Probe, ScanIsComplete, Path
    <2>5. NoneIsPassedOver'
      BY <1>0, <1>4 DEF Probe, NoneIsPassedOver
    <2>6. QED
      BY <2>3, <2>4, <2>5 DEF CIInv
  <1>5. CASE Select
    <2>1. Live' = Live /\ DOMAIN sock' = DOMAIN sock
      BY <1>5 DEF Select, gvars, Live, Answers, Path
    <2>2. steady \subseteq found /\ Matching \in SUBSET Pids
      BY <1>0, <1>5 DEF Select, ScanIsComplete, CTypeOK, Matching, Live, Answers
    <2>3. CASE command = "instances"
      <3>1. choice' = "none" /\ phase' = "done" /\ found' = found
        BY <1>5, <2>3 DEF Select, NoChoice
      <3>2. QED
        BY <1>0, <1>5, <2>1, <2>2, <3>1
        DEF Select, CIInv, CTypeOK, ScanIsComplete, NoneIsPassedOver, NoChoice
    <2>4. CASE command # "instances"
      <3>1. choice' = Pick(Matching)
        BY <1>5, <2>4 DEF Select
      <3>2. choice' \in Pids => choice' \in want
        BY <2>2, <3>1, PickFacts DEF Matching
      <3>3. choice' # "ambiguous" => steady \cap want \subseteq {choice'}
        BY <2>2, <3>1, PickFacts DEF Matching
      <3>4. choice' \in Pids \cup NoChoice
        BY <2>2, <3>1, PickFacts DEF NoChoice
      <3>5. /\ phase' \in {"send", "again", "done"} /\ (phase' = "send" => choice' \in Pids)
            /\ command' # "instances"
        BY <1>5, <2>4 DEF Select
      <3>6. CTypeOK'
        BY <1>0, <1>5, <2>1, <3>2, <3>4, <3>5 DEF Select, CTypeOK
      <3>7. ScanIsComplete' /\ NoneIsPassedOver'
        BY <1>0, <1>5, <2>4, <3>3, <3>5 DEF Select, ScanIsComplete, NoneIsPassedOver
      <3>8. QED
        BY <3>6, <3>7 DEF CIInv
    <2>5. QED
      BY <2>3, <2>4
  <1>6. CASE Request
    <2>1. Live' = Live /\ DOMAIN sock' = DOMAIN sock
      BY <1>6 DEF Request, gvars, Live, Answers, Path
    <2>2. choice \in want /\ want \subseteq Pids
      BY <1>0, <1>6 DEF Request, CTypeOK
    <2>3. reply' # NoPid => reply' = choice
      BY <1>0, <1>6, LiveFacts DEF Request, Path
    <2>4. reply' \in Pids \cup {NoPid}
      BY <2>2, <2>3
    <2>5. phase' \in {"again", "done"} /\ command' # "instances"
      BY <1>0, <1>6 DEF Request, CTypeOK
    <2>6. CTypeOK'
      BY <1>0, <1>6, <2>1, <2>4, <2>5 DEF Request, CTypeOK
    <2>7. ScanIsComplete' /\ NoneIsPassedOver'
      BY <1>0, <1>6, <2>2, <2>3, <2>5 DEF Request, ScanIsComplete, NoneIsPassedOver
    <2>8. QED
      BY <2>6, <2>7 DEF CIInv
  <1>7. CASE UNCHANGED vars
    BY <1>0, <1>7 DEF vars, gvars, cvars, CIInv, CTypeOK, ScanIsComplete, NoneIsPassedOver,
                      Live, Answers, Path
  <1>8. QED
    BY <1>1, <1>2, <1>3, <1>4, <1>5, <1>6, <1>7 DEF CNext

\* A command finds the gateway it names (live_instances, select_instance,
\* request_on), whatever gateways start, end and crash meanwhile.
THEOREM SelectionTheorem ==
  ASSUME ~Pinned
  PROVE  CSpec => []NoneIsPassedOver
  <1>1. IInv /\ CIInv /\ [CNext]_vars => IInv' /\ CIInv'
    BY CGatewayStep, CommandStep
  <1>2. CIInv => NoneIsPassedOver
    BY DEF CIInv
  <1>3. QED
    BY CInitInv, <1>1, <1>2, PTL DEF CSpec
===============================================================================
