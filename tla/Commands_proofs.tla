---------------------------- MODULE Commands_proofs ----------------------------
(***************************************************************************)
(* Theorems about the commands beside the gateway.                         *)
(*                                                                         *)
(* Setup, for any servers, any number of runs and any time: no server is   *)
(* lost, and a rewired harness has its servers.  The invariant behind them *)
(* says where else the servers are whenever a file is truncated.           *)
(*                                                                         *)
(* SelfUpdate, for any runs of the command, any releases and any number of *)
(* chunks: the binary stays whole unless two runs copy at once.  The       *)
(* invariant behind it says whose codemcp.new is.                          *)
(*                                                                         *)
(* TerminalUi, for any servers and tools: what a screen without an error   *)
(* shows is so, and a toggle turns over what it is pressed on.             *)
(***************************************************************************)
EXTENDS Setup, SelfUpdate, TerminalUi, TLAPS

-----------------------------------------------------------------------------
(* Setup.                                                                  *)

AllWrites == {"harness.bak", "own.bak", "own", "harness"}

\* The order of the writes.
LEMMA OrderOfWrites ==
  ASSUME todo \in Remaining, todo # <<>>
  PROVE  /\ Head(todo) \in AllWrites
         /\ Tail(todo) \in Remaining
         /\ Head(todo) = "harness.bak" => Tail(todo) # <<>> /\ Head(Tail(todo)) = "own.bak"
         /\ Head(todo) = "own.bak" => Tail(todo) # <<>> /\ Head(Tail(todo)) = "own"
         /\ Head(todo) = "own" => Tail(todo) # <<>> /\ Head(Tail(todo)) = "harness"
         /\ Head(todo) = "harness" => Tail(todo) = <<>>
  <1> USE DEF AllWrites, Remaining, Writes
  <1>1. CASE todo = <<"harness">>
    BY <1>1
  <1>2. CASE todo = <<"own", "harness">>
    BY <1>2
  <1>3. CASE todo = <<"own.bak", "own", "harness">>
    BY <1>3
  <1>4. CASE todo = Writes
    BY <1>4
  <1>5. QED
    BY <1>1, <1>2, <1>3, <1>4

\* The command begins with a backup.
LEMMA FirstWrite == Writes \in Remaining /\ Writes # <<>> /\ Head(Writes) = "harness.bak"
  BY DEF Writes, Remaining

\* Only a config names servers.
LEMMA ContentFacts ==
  /\ Absent \in Contents /\ Torn \in Contents
  /\ Torn.servers = {} /\ Torn.shape = "torn"
  /\ \A s \in SUBSET (Servers \cup {Self}) :
       Config(s) \in Contents /\ Config(s).servers = s /\ Config(s).shape = "config"
  /\ \A c \in Contents : /\ c.servers \subseteq Servers \cup {Self}
                         /\ c.shape = "absent" => c.servers = {}
  BY DEF Contents, Absent, Torn, Config

\* The files have different names.
LEMMA FileFacts ==
  /\ Harness \in Files /\ Own \in Files /\ Harness # Own
  /\ ~ Backup(Harness) /\ ~ Backup(Own)
  /\ NoFile \notin Files
  /\ \A f \in Files : ~ Backup(f) => f = Harness \/ f = Own
  BY SetupParameters DEF Files, Harness, Own, NoFile, Backup

\* Where a write goes.
LEMMA TargetFacts ==
  ASSUME SetupTypeOK
  PROVE  /\ Target("harness") = Harness
         /\ Target("own") = Own
         /\ Target("harness.bak") \in Files /\ Backup(Target("harness.bak"))
         /\ Target("harness.bak").file = "harness"
         /\ Target("own.bak") \in Files /\ Backup(Target("own.bak"))
         /\ Target("own.bak").file = "own"
  BY DEF SetupTypeOK, Target, Files, Backup

\* What a write writes is a content.
LEMMA WrittenFacts ==
  ASSUME SetupTypeOK, NEW write \in AllWrites
  PROVE  Written(write) \in Contents
  <1>1. Config(root.servers) \in Contents /\ Config({Self}) \in Contents
    BY ContentFacts DEF SetupTypeOK
  <1>2. files[Harness] \in Contents /\ files[Own] \in Contents
    BY FileFacts DEF SetupTypeOK
  <1>3. QED
    BY <1>1, <1>2 DEF Written, AllWrites
LEMMA SetupInitIInv == SetupInit => SetupIInv
  <1> SUFFICES ASSUME SetupInit PROVE SetupIInv
    OBVIOUS
  <1> USE SetupParameters DEF SetupInit
  <1>a. PICK servers \in SUBSET Servers,
             own \in {Absent, Torn} \cup {Config(s) : s \in SUBSET Servers} :
          \E config \in {Config(servers), Other} :
            /\ files = [f \in Files |-> CASE f = Harness -> config [] f = Own -> own [] OTHER -> Absent]
            /\ ever = config.servers \cup own.servers
    OBVIOUS
  <1>1. PICK config \in {Config(servers), Other} :
          /\ files = [f \in Files |-> CASE f = Harness -> config [] f = Own -> own [] OTHER -> Absent]
          /\ ever = config.servers \cup own.servers
    BY <1>a
  <1>2. /\ files[Harness] = config /\ files[Own] = own
        /\ \A f \in Files : Backup(f) => files[f] = Absent
    BY <1>1, FileFacts
  <1>3. /\ config \in Contents /\ config.servers \subseteq Servers
        /\ own \in Contents /\ own.servers \subseteq Servers
    BY ContentFacts DEF Contents, Other, Absent, Torn, Config
  <1>4. SetupTypeOK
    <2>1. files \in [Files -> Contents]
      BY <1>1, <1>3, ContentFacts
    <2>2. ever \in SUBSET Servers
      BY <1>1, <1>3
    <2>3. root \in Contents /\ todo \in Remaining
      BY ContentFacts DEF Remaining
    <2>4. clock \in 1 .. MaxClock + 1 /\ runs \in 0 .. MaxRuns
      OBVIOUS
    <2>5. into \in Files \cup {NoFile} /\ moving \in SUBSET Servers
      OBVIOUS
    <2>6. again \in BOOLEAN /\ collided \in BOOLEAN
      OBVIOUS
    <2> HIDE DEF SetupInit
    <2>7. QED
      BY <2>1, <2>2, <2>3, <2>4, <2>5, <2>6 DEF SetupTypeOK
  <1>5. OpenFileFits /\ NothingIsOnlyHere
    BY DEF OpenFileFits, NothingIsOnlyHere, Running, Due
  <1>6. WiredOnce
    BY <1>2, ContentFacts DEF WiredOnce, Running, Absent
  <1>7. ServersAreKept
    BY <1>1, <1>2, FileFacts DEF ServersAreKept
  <1>8. WiredHarnessHasServers
    BY <1>2, <1>3 DEF WiredHarnessHasServers
  <1>9. QED
    BY <1>4, <1>5, <1>6, <1>7, <1>8 DEF SetupIInv

-----------------------------------------------------------------------------
\* Every step keeps the types.
LEMMA SetupTypeStep == SetupIInv /\ [SetupNext]_setupVars => SetupTypeOK'
  <1> SUFFICES ASSUME SetupIInv, [SetupNext]_setupVars PROVE SetupTypeOK'
    OBVIOUS
  <1> USE SetupParameters DEF SetupTypeOK, setupHistory
  <1>0. SetupTypeOK /\ OpenFileFits
    BY DEF SetupIInv
  <1>1. CASE Read
    <2>1. files[Harness] \in Contents /\ runs' \in 0 .. MaxRuns
      BY <1>0, <1>1, FileFacts DEF Read
    <2>2. CASE /\ todo' = Writes
               /\ root' = files[Harness]
               /\ again' = (again \/ Self \in files[Harness].servers)
               /\ moving' = IF Self \in files[Harness].servers THEN moving ELSE files[Harness].servers
      BY <1>0, <1>1, <2>1, <2>2, FirstWrite, ContentFacts DEF Read
    <2>3. CASE UNCHANGED <<todo, root, again, moving>>
      BY <1>0, <1>1, <2>1, <2>3 DEF Read
    <2>4. QED
      BY <1>1, <2>2, <2>3 DEF Read
  <1>2. CASE Skip
    BY <1>0, <1>2, OrderOfWrites DEF Skip, Running
  <1>3. CASE OpenFile
    <2>1. Head(todo) \in AllWrites
      BY <1>0, <1>3, OrderOfWrites DEF OpenFile, Running
    <2>2. into' \in Files
      BY <1>0, <1>3, <2>1, TargetFacts, FileFacts DEF OpenFile, AllWrites
    <2>3. files' \in [Files -> Contents]
      BY <1>0, <1>3, ContentFacts DEF OpenFile
    <2>4. collided' \in BOOLEAN
      BY <1>0, <1>3 DEF OpenFile
    <2>5. QED
      BY <1>0, <1>3, <2>2, <2>3, <2>4 DEF OpenFile
  <1>4. CASE Fill
    <2>1. Written(Head(todo)) \in Contents /\ Tail(todo) \in Remaining
      BY <1>0, <1>4, OrderOfWrites, WrittenFacts DEF Fill, Running
    <2>2. QED
      BY <1>0, <1>4, <2>1 DEF Fill
  <1>5. CASE Stop
    BY <1>0, <1>5 DEF Stop, Remaining
  <1>6. CASE Restore
    BY <1>0, <1>6 DEF Restore
  <1>7. CASE ClockTicks
    BY <1>0, <1>7 DEF ClockTicks
  <1>8. CASE UNCHANGED setupVars
    BY <1>0, <1>8 DEF setupVars
  <1>9. QED
    BY <1>1, <1>2, <1>3, <1>4, <1>5, <1>6, <1>7, <1>8 DEF SetupNext

-----------------------------------------------------------------------------
\* Each write opens its own file.
LEMMA FitsStep == SetupIInv /\ [SetupNext]_setupVars => OpenFileFits'
  <1> SUFFICES ASSUME SetupIInv, [SetupNext]_setupVars PROVE OpenFileFits'
    OBVIOUS
  <1> USE DEF OpenFileFits, Running, Due
  <1>0. SetupTypeOK /\ OpenFileFits
    BY DEF SetupIInv
  <1>1. CASE Read
    BY <1>0, <1>1 DEF Read
  <1>2. CASE Skip
    BY <1>0, <1>2 DEF Skip
  <1>3. CASE OpenFile
    <2>1. Head(todo) \in AllWrites /\ into' = Target(Head(todo)) /\ UNCHANGED todo
      BY <1>0, <1>3, OrderOfWrites DEF OpenFile, SetupTypeOK
    <2>2. into' \in Files
      BY <1>0, <2>1, TargetFacts, FileFacts DEF AllWrites
    <2>3. files'[into'] = Torn
      BY <1>0, <1>3, <2>2 DEF OpenFile, SetupTypeOK
    <2>4. QED
      BY <1>0, <1>3, <2>1, <2>3, TargetFacts DEF OpenFile
  <1>4. CASE Fill
    BY <1>0, <1>4 DEF Fill
  <1>5. CASE Stop
    BY <1>0, <1>5 DEF Stop
  <1>6. CASE Restore
    BY <1>0, <1>6 DEF Restore
  <1>7. CASE ClockTicks
    BY <1>0, <1>7 DEF ClockTicks
  <1>8. CASE UNCHANGED setupVars
    BY <1>0, <1>8 DEF setupVars
  <1>9. QED
    BY <1>1, <1>2, <1>3, <1>4, <1>5, <1>6, <1>7, <1>8 DEF SetupNext

\* What is about to be overwritten was copied by the write before.
LEMMA ElsewhereStep == SetupIInv /\ [SetupNext]_setupVars => NothingIsOnlyHere'
  <1> SUFFICES ASSUME SetupIInv, [SetupNext]_setupVars PROVE NothingIsOnlyHere'
    OBVIOUS
  <1> USE DEF NothingIsOnlyHere, Running, Due
  <1>0. SetupTypeOK /\ OpenFileFits /\ NothingIsOnlyHere
    BY DEF SetupIInv
  <1>1. CASE Read
    <2>1. CASE todo' = Writes /\ root' = files[Harness]
      BY <1>1, <2>1, FirstWrite DEF Read
    <2>2. CASE UNCHANGED <<todo, root>>
      BY <1>0, <1>1, <2>2 DEF Read
    <2>3. QED
      BY <1>1, <2>1, <2>2 DEF Read
  <1>2. CASE Skip
    <2>1. todo' # <<>> /\ Head(todo') = "own"
      BY <1>0, <1>2, OrderOfWrites DEF Skip, SetupTypeOK
    <2>2. files[Own].servers = {}
      BY <1>0, <1>2, ContentFacts, FileFacts DEF Skip, Exists, SetupTypeOK
    <2>3. QED
      BY <1>0, <1>2, <2>1, <2>2 DEF Skip
  <1>3. CASE OpenFile
    <2>1. Head(todo) \in AllWrites /\ into' = Target(Head(todo))
      BY <1>0, <1>3, OrderOfWrites DEF OpenFile, SetupTypeOK
    <2>2. into' \in Files /\ into' # NoFile
      BY <1>0, <2>1, TargetFacts, FileFacts DEF AllWrites
    <2>3. \A f \in Files \ {into'} : files'[f] = files[f]
      BY <1>0, <1>3 DEF OpenFile, SetupTypeOK
    <2>4. into' # Harness => files'[Harness] = root'
      BY <1>0, <1>3, <2>3, FileFacts DEF OpenFile
    <2>5. Head(todo) = "harness" => files'[Own] = files[Own]
      BY <1>0, <2>1, <2>3, TargetFacts, FileFacts
    <2>6. QED
      BY <1>0, <1>3, <2>2, <2>4, <2>5 DEF OpenFile
  <1>4. CASE Fill
    <2>1. /\ Head(todo) \in AllWrites /\ into \in Files /\ into' = NoFile
          /\ files' = [files EXCEPT ![into] = Written(Head(todo))]
          /\ todo' = Tail(todo) /\ root' = root
      BY <1>0, <1>4, OrderOfWrites DEF Fill, SetupTypeOK
    <2>2. CASE Head(todo) = "harness"
      BY <1>0, <1>4, <2>1, <2>2, OrderOfWrites DEF Fill, SetupTypeOK
    <2>3. CASE Head(todo) = "own"
      <3>1. into = Own /\ Head(todo') = "harness"
        BY <1>0, <1>4, <2>1, <2>3, OrderOfWrites DEF OpenFileFits, Fill, SetupTypeOK
      <3>2. files'[Own] = Config(root.servers) /\ files'[Harness] = root
        BY <1>0, <1>4, <2>1, <2>3, <3>1, FileFacts DEF Written, Fill, SetupTypeOK
      <3>3. QED
        BY <2>1, <3>1, <3>2
    <2>4. CASE Head(todo) = "own.bak"
      <3>1. Backup(into) /\ Head(todo') = "own"
        BY <1>0, <1>4, <2>1, <2>4, OrderOfWrites DEF OpenFileFits, Fill, SetupTypeOK
      <3>2. files'[into] = files[Own] /\ files'[Own] = files[Own] /\ files'[Harness] = root
        BY <1>0, <1>4, <2>1, <2>4, <3>1, FileFacts DEF Written, Fill, SetupTypeOK
      <3>3. QED
        BY <2>1, <3>1, <3>2
    <2>5. CASE Head(todo) = "harness.bak"
      <3>1. Backup(into) /\ Head(todo') = "own.bak"
        BY <1>0, <1>4, <2>1, <2>5, OrderOfWrites DEF OpenFileFits, Fill, SetupTypeOK
      <3>2. files'[Harness] = root
        BY <1>0, <1>4, <2>1, <3>1, FileFacts DEF Fill, SetupTypeOK
      <3>3. QED
        BY <2>1, <3>1, <3>2
    <2>6. QED
      BY <2>1, <2>2, <2>3, <2>4, <2>5 DEF AllWrites
  <1>5. CASE Stop
    BY <1>5 DEF Stop
  <1>6. CASE Restore
    BY <1>6 DEF Restore
  <1>7. CASE ClockTicks
    BY <1>0, <1>7 DEF ClockTicks
  <1>8. CASE UNCHANGED setupVars
    BY <1>0, <1>8 DEF setupVars
  <1>9. QED
    BY <1>1, <1>2, <1>3, <1>4, <1>5, <1>6, <1>7, <1>8 DEF SetupNext

\* A harness without codemcp is what is backed up.
LEMMA WiredStep == SetupIInv /\ [SetupNext]_setupVars => WiredOnce'
  <1> SUFFICES ASSUME SetupIInv, [SetupNext]_setupVars, ~ again' PROVE WiredOnce'
    BY DEF WiredOnce
  <1> USE DEF WiredOnce, Running
  <1>0. SetupTypeOK /\ OpenFileFits /\ NothingIsOnlyHere /\ WiredOnce
    BY DEF SetupIInv
  <1>1. CASE Read
    <2>1. CASE UNCHANGED <<todo, root, again, moving>>
      BY <1>0, <1>1, <2>1 DEF Read
    <2>2. CASE /\ root' = files[Harness]
               /\ again' = (again \/ Self \in files[Harness].servers)
               /\ moving' = IF Self \in files[Harness].servers THEN moving ELSE files[Harness].servers
      BY <1>0, <1>1, <2>2 DEF Read
    <2>3. QED
      BY <1>1, <2>1, <2>2 DEF Read
  <1>2. CASE Skip
    BY <1>0, <1>2 DEF Skip, setupHistory
  <1>3. CASE OpenFile
    BY <1>0, <1>3, ContentFacts DEF OpenFile, SetupTypeOK
  <1>4. CASE Fill
    <2>1. /\ Head(todo) \in AllWrites /\ into \in Files
          /\ files' = [files EXCEPT ![into] = Written(Head(todo))]
          /\ UNCHANGED <<root, moving, again>>
      BY <1>0, <1>4, OrderOfWrites DEF Fill, SetupTypeOK, setupHistory
    <2>2. Head(todo) # "harness.bak" => ~ (Backup(into) /\ into.file = "harness")
      BY <1>0, <1>4, <2>1, FileFacts DEF OpenFileFits, Due, Fill, AllWrites
    <2>3. Head(todo) = "harness.bak" => Written(Head(todo)) = root
      BY <1>0, <1>4, FileFacts DEF Written, OpenFileFits, NothingIsOnlyHere, Due, Fill
    <2>4. QED
      BY <1>0, <1>4, <2>1, <2>2, <2>3 DEF Fill, SetupTypeOK
  <1>5. CASE Stop
    BY <1>0, <1>5 DEF Stop, setupHistory
  <1>6. CASE Restore
    BY <1>0, <1>6, FileFacts DEF Restore, SetupTypeOK, setupHistory
  <1>7. CASE ClockTicks
    BY <1>0, <1>7 DEF ClockTicks, setupHistory
  <1>8. CASE UNCHANGED setupVars
    BY <1>0, <1>8 DEF setupVars, setupHistory
  <1>9. QED
    BY <1>1, <1>2, <1>3, <1>4, <1>5, <1>6, <1>7, <1>8 DEF SetupNext

\* A file is truncated only when what it names is named elsewhere.
LEMMA KeptStep == SetupIInv /\ [SetupNext]_setupVars => ServersAreKept'
  <1> SUFFICES ASSUME SetupIInv, [SetupNext]_setupVars, ~ collided', NEW s \in ever'
               PROVE  \E f \in Files : s \in files'[f].servers
    BY DEF ServersAreKept
  <1>0. SetupTypeOK /\ OpenFileFits /\ NothingIsOnlyHere
    BY DEF SetupIInv
  <1>a. ~ collided /\ s \in ever
    BY <1>0 DEF SetupNext, setupVars, setupHistory, Read, Skip, OpenFile, Fill, Stop, Restore, ClockTicks,
                SetupTypeOK
  <1>b. PICK f \in Files : s \in files[f].servers
    BY <1>a DEF SetupIInv, ServersAreKept
  <1>1. CASE UNCHANGED files
    BY <1>b, <1>1
  <1>2. CASE Read \/ Skip \/ Stop \/ ClockTicks \/ UNCHANGED setupVars
    BY <1>1, <1>2 DEF Read, Skip, Stop, ClockTicks, setupVars
  <1>3. CASE OpenFile
    <2>1. /\ Head(todo) \in AllWrites /\ into' = Target(Head(todo)) /\ into' \in Files
          /\ Running /\ into = NoFile
      BY <1>0, <1>3, OrderOfWrites, TargetFacts, FileFacts DEF OpenFile, Running, SetupTypeOK, AllWrites
    <2>2. \A g \in Files \ {into'} : files'[g] = files[g]
      BY <1>0, <1>3 DEF OpenFile, SetupTypeOK
    <2>3. \E g \in Files \ {into'} : s \in files[g].servers
      <3>1. CASE f # into'
        BY <1>b, <3>1
      <3>2. CASE f = into' /\ Backup(into')
        <4>1. ~ Exists(into')
          BY <1>3, <3>2 DEF OpenFile, Backup
        <4>2. files[f].servers = {}
          BY <1>0, <3>2, <4>1, ContentFacts DEF Exists, SetupTypeOK
        <4>3. QED
          BY <1>b, <4>2
      <3>3. CASE f = into' /\ Head(todo) = "own"
        <4>1. f = Own
          BY <1>0, <2>1, <3>3, TargetFacts
        <4>2. PICK g \in Files : Backup(g) /\ s \in files[g].servers
          BY <1>0, <1>b, <2>1, <3>3, <4>1 DEF NothingIsOnlyHere, Due
        <4>3. QED
          BY <3>3, <4>1, <4>2, FileFacts
      <3>4. CASE f = into' /\ Head(todo) = "harness"
        <4>1. f = Harness /\ into # Harness
          BY <1>0, <2>1, <3>4, TargetFacts, FileFacts
        <4>2. files[Harness] = root /\ files[Own] = Config(root.servers)
          BY <1>0, <2>1, <3>4, <4>1 DEF NothingIsOnlyHere, Due
        <4>3. s \in files[Own].servers
          BY <1>b, <4>1, <4>2, ContentFacts, <1>0 DEF SetupTypeOK
        <4>4. QED
          BY <3>4, <4>1, <4>3, FileFacts
      <3>5. QED
        BY <1>0, <2>1, <3>1, <3>2, <3>3, <3>4, TargetFacts DEF AllWrites
    <2>4. QED
      BY <2>2, <2>3
  <1>4. CASE Fill
    <2>1. f # into
      BY <1>0, <1>b, <1>4, ContentFacts DEF OpenFileFits, Fill
    <2>2. QED
      BY <1>0, <1>b, <1>4, <2>1 DEF Fill, SetupTypeOK
  <1>5. CASE Restore
    <2>1. f # Harness
      BY <1>b, <1>5, ContentFacts DEF Restore
    <2>2. QED
      BY <1>0, <1>b, <1>5, <2>1 DEF Restore, SetupTypeOK
  <1>6. QED
    BY <1>2, <1>3, <1>4, <1>5 DEF SetupNext

\* The harness gets codemcp in one step, the last, and loses it with that file.
LEMMA HarnessStep == SetupIInv /\ [SetupNext]_setupVars => WiredHarnessHasServers'
  <1> SUFFICES ASSUME SetupIInv, [SetupNext]_setupVars, Self \in files'[Harness].servers, ~ again'
               PROVE  files'[Own].shape = "config" /\ moving' \subseteq files'[Own].servers
    BY DEF WiredHarnessHasServers
  <1>0. SetupTypeOK /\ OpenFileFits /\ NothingIsOnlyHere /\ WiredOnce /\ WiredHarnessHasServers
    BY DEF SetupIInv
  <1>a. ~ again
    BY <1>0 DEF SetupNext, setupVars, setupHistory, Read, Skip, OpenFile, Fill, Stop, Restore, ClockTicks,
                SetupTypeOK
  <1>b. Running => Self \notin files[Harness].servers
    <2>1. Running /\ into = Harness => files[Harness].servers = {}
      BY <1>0, ContentFacts, FileFacts DEF OpenFileFits
    <2>2. Running /\ into # Harness => files[Harness] = root
      BY <1>0 DEF NothingIsOnlyHere
    <2>3. QED
      BY <1>0, <1>a, <2>1, <2>2 DEF WiredOnce
  <1>1. CASE Read
    BY <1>0, <1>1 DEF Read, WiredHarnessHasServers
  <1>2. CASE Skip \/ Stop
    BY <1>b, <1>2 DEF Skip, Stop
  <1>3. CASE OpenFile
    BY <1>0, <1>b, <1>3, ContentFacts, FileFacts DEF OpenFile, SetupTypeOK
  <1>4. CASE Fill
    <2>1. Head(todo) \in AllWrites /\ Running /\ into # NoFile
          /\ files' = [files EXCEPT ![into] = Written(Head(todo))]
          /\ UNCHANGED <<root, moving>>
      BY <1>0, <1>4, OrderOfWrites DEF Fill, Running, SetupTypeOK, setupHistory
    <2>2. into = Harness
      BY <1>0, <1>b, <2>1, FileFacts DEF SetupTypeOK
    <2>3. Head(todo) = "harness"
      BY <1>0, <2>1, <2>2, FileFacts DEF OpenFileFits, Due, AllWrites
    <2>4. files[Own] = Config(root.servers) /\ moving = root.servers
      BY <1>0, <1>a, <2>1, <2>3 DEF NothingIsOnlyHere, Due, WiredOnce
    <2>5. files'[Own] = files[Own]
      BY <1>0, <2>1, <2>2, FileFacts DEF SetupTypeOK
    <2>6. root.servers \in SUBSET (Servers \cup {Self})
      BY <1>0, ContentFacts DEF SetupTypeOK
    <2>7. QED
      BY <2>1, <2>4, <2>5, <2>6, ContentFacts
  <1>5. CASE Restore
    <2>1. PICK f \in Files :
            /\ f.file = "harness" /\ files[f].shape = "config"
            /\ files' = [files EXCEPT ![Harness] = files[f]]
      BY <1>5 DEF Restore
    <2>2. f # Harness
      BY <1>5, <2>1, ContentFacts DEF Restore
    <2>3. Backup(f)
      BY <2>1, <2>2, FileFacts DEF Own
    <2>4. Self \notin files'[Harness].servers
      BY <1>0, <1>a, <2>1, <2>3, FileFacts DEF WiredOnce, SetupTypeOK
    <2>5. QED
      BY <2>4
  <1>6. CASE ClockTicks \/ UNCHANGED setupVars
    BY <1>0, <1>6 DEF ClockTicks, setupVars, setupHistory, WiredHarnessHasServers
  <1>7. QED
    BY <1>1, <1>2, <1>3, <1>4, <1>5, <1>6 DEF SetupNext

-----------------------------------------------------------------------------
(* The theorems.                                                           *)

\* Where else the servers are whenever a file is truncated, whatever is killed
\* and however often the command is run (setup_opencode).
THEOREM SetupInductive == SetupSpec => []SetupIInv
  <1>1. SetupIInv /\ [SetupNext]_setupVars => SetupIInv'
    BY SetupTypeStep, FitsStep, ElsewhereStep, WiredStep, KeptStep, HarnessStep DEF SetupIInv
  <1>2. QED
    BY SetupInitIInv, <1>1, PTL DEF SetupSpec

\* No server is lost, unless two backups have one name (backup_file).
THEOREM KeptTheorem == SetupSpec => []ServersAreKept
  <1>1. SetupIInv => ServersAreKept
    BY DEF SetupIInv
  <1>2. QED
    BY <1>1, SetupInductive, PTL

\* A harness that launches codemcp finds its servers there, unless the command
\* was run on a harness that was rewired already.
THEOREM WiredTheorem == SetupSpec => []WiredHarnessHasServers
  <1>1. SetupIInv => WiredHarnessHasServers
    BY DEF SetupIInv
  <1>2. QED
    BY <1>1, SetupInductive, PTL

-----------------------------------------------------------------------------
(* SelfUpdate.                                                             *)

\* What the type of a stage says of its two parts.
LEMMA StageFacts ==
  ASSUME UpdateTypeOK, NEW u \in Updaters
  PROVE  /\ stage[u][1] \in Stages \cup {"writing"}
         /\ stage[u][1] # "writing" => stage[u] = <<stage[u][1], 0>>
         /\ stage[u][1] = "writing" <=> stage[u] \in Writing
         /\ stage[u] \in Writing => stage[u] = <<"writing", stage[u][2]>> /\ stage[u][2] \in 1 .. Chunks
  BY DEF UpdateTypeOK, Stages, Writing

\* The same in terms of the operators on stages.
LEMMA StageOperators ==
  ASSUME UpdateTypeOK, NEW u \in Updaters
  PROVE  /\ Copying(u) <=> stage[u][1] \in {"writing", "renaming"}
         /\ \A x \in Stages : At(u, x) <=> stage[u][1] = x
  BY StageFacts DEF Copying, At, Stages, Writing

LEMMA UpdateInitIInv == UpdateInit => UpdateIInv
  <1> SUFFICES ASSUME UpdateInit PROVE UpdateIInv
    OBVIOUS
  <1> USE UpdateParameters DEF UpdateInit
  <1>1. \E v \in Versions :
          data = [i \in Inodes |-> IF i = Nothing THEN [c \in 1 .. Chunks |-> v] ELSE Empty]
    BY DEF Binary
  <1>2. UpdateTypeOK
    <2>1. data \in [Inodes -> [1 .. Chunks -> Versions \cup {<<>>}]]
      BY <1>1 DEF Inodes, Empty
    <2>2. QED
      BY <2>1 DEF UpdateTypeOK, Stages, Inodes
  <1>3. ReleasesAreChosen
    BY DEF ReleasesAreChosen, Chosen
  <1>4. InodesAreFresh
    BY DEF InodesAreFresh, Unopened
  <1>5. CopyIsMine
    BY DEF CopyIsMine, Copying, Writing
  <1>6. ExecutableIsWhole
    BY <1>1 DEF ExecutableIsWhole, Whole, Binary, Inodes
  <1>7. QED
    BY <1>2, <1>3, <1>4, <1>5, <1>6 DEF UpdateIInv

-----------------------------------------------------------------------------
\* Every step keeps the types.
LEMMA UpdateTypeStep == UpdateIInv /\ [UpdateNext]_updateVars => UpdateTypeOK'
  <1> SUFFICES ASSUME UpdateIInv, [UpdateNext]_updateVars PROVE UpdateTypeOK'
    OBVIOUS
  <1> USE UpdateParameters DEF UpdateTypeOK, Reach
  <1>0. UpdateTypeOK
    BY DEF UpdateIInv
  <1>1. ASSUME NEW u \in Updaters, Begin(u) PROVE UpdateTypeOK'
    <2>1. stage' = [stage EXCEPT ![u] = <<"fetching", 0>>] \/ stage' = [stage EXCEPT ![u] = <<"done", 0>>]
      BY <1>1 DEF Begin
    <2>2. release' \in [Updaters -> Versions \cup {<<>>}]
      BY <1>0, <1>1 DEF Begin
    <2>3. QED
      BY <1>0, <1>1, <2>1, <2>2 DEF Begin, Stages
  <1>2. ASSUME NEW u \in Updaters, Fetch(u) PROVE UpdateTypeOK'
    BY <1>0, <1>2 DEF Fetch, Stages
  <1>3. ASSUME NEW u \in Updaters, OpenNew(u) PROVE UpdateTypeOK'
    <2>1. <<"writing", 1>> \in Writing
      BY DEF Writing
    <2>2. data' \in [Inodes -> [1 .. Chunks -> Versions \cup {<<>>}]]
      BY <1>0, <1>3 DEF OpenNew, Inodes, Empty
    <2>3. new' \in Inodes /\ fd' \in [Updaters -> Inodes]
      BY <1>0, <1>3 DEF OpenNew, Inodes
    <2>4. shared' \in BOOLEAN
      BY <1>0, <1>3 DEF OpenNew
    <2>5. QED
      BY <1>0, <1>3, <2>1, <2>2, <2>3, <2>4 DEF OpenNew
  <1>4. ASSUME NEW u \in Updaters, WriteChunk(u) PROVE UpdateTypeOK'
    <2>1. stage[u][2] \in 1 .. Chunks
      BY <1>0, <1>4, StageFacts DEF WriteChunk
    <2>2. data' \in [Inodes -> [1 .. Chunks -> Versions \cup {<<>>}]]
      BY <1>0, <1>4, <2>1 DEF WriteChunk
    <2>3. stage' \in [Updaters -> {<<x, 0>> : x \in Stages} \cup Writing]
      <3>1. stage[u][2] # Chunks => <<"writing", stage[u][2] + 1>> \in Writing
        BY <2>1 DEF Writing
      <3>2. QED
        BY <1>0, <1>4, <2>1, <3>1 DEF WriteChunk, Stages
    <2>4. QED
      BY <1>0, <1>4, <2>2, <2>3 DEF WriteChunk
  <1>5. ASSUME NEW u \in Updaters, Rename(u) PROVE UpdateTypeOK'
    <2>1. exe' \in Inodes /\ new' \in Inodes
      BY <1>0, <1>5 DEF Rename, Inodes
    <2>2. stage' = [stage EXCEPT ![u] = <<"failed", 0>>] \/ stage' = [stage EXCEPT ![u] = <<"done", 0>>]
      BY <1>5 DEF Rename
    <2>3. QED
      BY <1>0, <1>5, <2>1, <2>2 DEF Rename, Stages
  <1>6. ASSUME NEW u \in Updaters, Abort(u) PROVE UpdateTypeOK'
    BY <1>0, <1>6 DEF Abort, Stages
  <1>7. CASE UNCHANGED updateVars
    BY <1>0, <1>7 DEF updateVars
  <1>8. QED
    BY <1>1, <1>2, <1>3, <1>4, <1>5, <1>6, <1>7 DEF UpdateNext
-----------------------------------------------------------------------------
\* A run has chosen its release before it opens codemcp.new.
LEMMA ReleasesStep == UpdateIInv /\ [UpdateNext]_updateVars => ReleasesAreChosen'
  <1> SUFFICES ASSUME UpdateIInv, [UpdateNext]_updateVars PROVE ReleasesAreChosen'
    OBVIOUS
  <1> USE UpdateParameters DEF UpdateIInv, UpdateTypeOK, ReleasesAreChosen, Chosen, Reach
  <1>1. ASSUME NEW u \in Updaters, Begin(u) PROVE ReleasesAreChosen'
    <2>1. CASE UNCHANGED release /\ stage' = [stage EXCEPT ![u] = <<"done", 0>>]
      BY <2>1
    <2>2. CASE \E latest \in Versions : /\ stage' = [stage EXCEPT ![u] = <<"fetching", 0>>]
                                       /\ release' = [release EXCEPT ![u] = latest]
      BY <2>2
    <2>3. QED
      BY <1>1, <2>1, <2>2 DEF Begin
  <1>2. ASSUME NEW u \in Updaters, Fetch(u) PROVE ReleasesAreChosen'
    BY <1>2 DEF Fetch, At
  <1>3. ASSUME NEW u \in Updaters, OpenNew(u) PROVE ReleasesAreChosen'
    BY <1>3 DEF OpenNew, At
  <1>4. ASSUME NEW u \in Updaters, WriteChunk(u) PROVE ReleasesAreChosen'
    <2>1. Chosen(u)
      BY <1>4, StageFacts DEF WriteChunk
    <2>2. QED
      BY <1>4, <2>1 DEF WriteChunk
  <1>5. ASSUME NEW u \in Updaters, Rename(u) PROVE ReleasesAreChosen'
    <2>1. UNCHANGED release
      BY <1>5 DEF Rename
    <2>2. CASE stage' = [stage EXCEPT ![u] = <<"failed", 0>>]
      BY <2>1, <2>2
    <2>3. CASE stage' = [stage EXCEPT ![u] = <<"done", 0>>]
      BY <2>1, <2>3
    <2>4. QED
      BY <1>5, <2>2, <2>3 DEF Rename
  <1>6. ASSUME NEW u \in Updaters, Abort(u) PROVE ReleasesAreChosen'
    BY <1>6 DEF Abort
  <1>7. CASE UNCHANGED updateVars
    BY <1>7 DEF updateVars
  <1>8. QED
    BY <1>1, <1>2, <1>3, <1>4, <1>5, <1>6, <1>7 DEF UpdateNext

\* A rename makes the inode of codemcp.new the binary, and the next run a new one.
LEMMA FreshStep == UpdateIInv /\ [UpdateNext]_updateVars => InodesAreFresh'
  <1> SUFFICES ASSUME UpdateIInv, [UpdateNext]_updateVars PROVE InodesAreFresh'
    OBVIOUS
  <1> USE UpdateParameters DEF UpdateIInv, UpdateTypeOK, InodesAreFresh, Unopened, Reach
  <1>1. ASSUME NEW u \in Updaters, Begin(u) PROVE InodesAreFresh'
    BY <1>1, SMTT(30) DEF Begin, At
  <1>2. ASSUME NEW u \in Updaters, Fetch(u) PROVE InodesAreFresh'
    BY <1>2 DEF Fetch, At
  <1>3. ASSUME NEW u \in Updaters, OpenNew(u) PROVE InodesAreFresh'
    BY <1>3 DEF OpenNew, At
  <1>4. ASSUME NEW u \in Updaters, WriteChunk(u) PROVE InodesAreFresh'
    BY <1>4 DEF WriteChunk
  <1>5. ASSUME NEW u \in Updaters, Rename(u) PROVE InodesAreFresh'
    BY <1>5 DEF Rename
  <1>6. ASSUME NEW u \in Updaters, Abort(u) PROVE InodesAreFresh'
    BY <1>6 DEF Abort
  <1>7. CASE UNCHANGED updateVars
    BY <1>7 DEF updateVars
  <1>8. QED
    BY <1>1, <1>2, <1>3, <1>4, <1>5, <1>6, <1>7 DEF UpdateNext

\* Whoever copies alone has codemcp.new, and what it wrote is there: another run
\* that opens it before the rename sets `shared`.
LEMMA CopyStep ==
  ASSUME UpdateIInv, [UpdateNext]_updateVars, ~ shared'
  PROVE  CopyIsMine'
  <1> USE UpdateParameters DEF Reach
  <1>0. UpdateTypeOK /\ CopyIsMine /\ ~ shared
    BY DEF UpdateIInv, UpdateNext, updateVars, Begin, Fetch, OpenNew, WriteChunk, Rename, Abort,
           UpdateTypeOK
  <1>1. UpdateTypeOK'
    BY UpdateTypeStep
  <1>2. \A u \in Updaters :
          Copying(u) <=> stage[u][1] \in {"writing", "renaming"}
    BY <1>0, StageOperators
  <1>3. \A u \in Updaters :
          Copying(u)' <=> stage'[u][1] \in {"writing", "renaming"}
    BY <1>1 DEF Copying, UpdateTypeOK, Stages, Writing
  <1>4. ASSUME NEW u \in Updaters, UNCHANGED <<data, new, fd>>, ~ Copying(u)',
               \A other \in Updaters \ {u} :
                 stage'[other] = stage[other] /\ release'[other] = release[other]
        PROVE  CopyIsMine'
    BY <1>0, <1>4 DEF CopyIsMine, Copying, WrittenBy, At
  <1>5. ASSUME NEW u \in Updaters, Begin(u) \/ Fetch(u) \/ Abort(u) PROVE CopyIsMine'
    <2>1. stage'[u][1] \notin {"writing", "renaming"}
      BY <1>0, <1>5 DEF Begin, Fetch, Abort, UpdateTypeOK
    <2>2. QED
      BY <1>0, <1>3, <1>4, <1>5, <2>1 DEF Begin, Fetch, Abort, UpdateTypeOK
  <1>6. ASSUME NEW u \in Updaters, OpenNew(u) PROVE CopyIsMine'
    <2>1. \A other \in Updaters \ {u} : ~ Copying(other) /\ stage'[other] = stage[other]
      BY <1>0, <1>6 DEF OpenNew, UpdateTypeOK
    <2>2. \A other \in Updaters \ {u} : ~ Copying(other)'
      BY <2>1 DEF Copying
    <2>3. WrittenBy(u)' = {}
      <3>1. stage'[u] = <<"writing", 1>>
        BY <1>0, <1>6 DEF OpenNew, UpdateTypeOK
      <3>2. QED
        BY <3>1 DEF WrittenBy, At
    <2>4. new' # Nothing /\ fd'[u] = new'
      BY <1>0, <1>6 DEF OpenNew, UpdateTypeOK
    <2>5. QED
      BY <2>2, <2>3, <2>4 DEF CopyIsMine
  <1>7. ASSUME NEW u \in Updaters, WriteChunk(u) PROVE CopyIsMine'
    <2> DEFINE c == stage[u][2]
    <2>1. stage[u] = <<"writing", c>> /\ c \in 1 .. Chunks /\ Copying(u)
      BY <1>0, <1>7, StageFacts DEF WriteChunk, Copying
    <2>2. \A other \in Updaters \ {u} : ~ Copying(other) /\ stage'[other] = stage[other]
      BY <1>0, <1>7, <2>1 DEF WriteChunk, UpdateTypeOK, CopyIsMine
    <2>3. \A other \in Updaters \ {u} : ~ Copying(other)'
      BY <2>2 DEF Copying
    <2>4. new # Nothing /\ fd[u] = new /\ UNCHANGED <<new, fd, release>>
      BY <1>0, <1>7, <2>1 DEF WriteChunk, CopyIsMine
    <2>5. WrittenBy(u) = {d \in 1 .. Chunks : d < c}
      BY <2>1 DEF WrittenBy, At
    <2>6. WrittenBy(u)' = {d \in 1 .. Chunks : d <= c}
      <3>1. CASE c = Chunks
        <4>1. stage'[u] = <<"renaming", 0>>
          BY <1>0, <1>7, <3>1 DEF WriteChunk, UpdateTypeOK
        <4>2. QED
          BY <2>1, <3>1, <4>1 DEF WrittenBy, At
      <3>2. CASE c # Chunks
        <4>1. stage'[u] = <<"writing", c + 1>>
          BY <1>0, <1>7, <3>2 DEF WriteChunk, UpdateTypeOK
        <4>2. QED
          BY <2>1, <4>1 DEF WrittenBy, At
      <3>3. QED
        BY <3>1, <3>2
    <2>7. \A d \in 1 .. Chunks :
            data'[new][d] = IF d = c THEN release[u] ELSE data[new][d]
      BY <1>0, <1>7, <2>4 DEF WriteChunk, UpdateTypeOK
    <2>8. \A d \in WrittenBy(u) : data[new][d] = release[u]
      BY <1>0, <2>1 DEF CopyIsMine
    <2>9. \A d \in WrittenBy(u)' : data'[new'][d] = release'[u]
      BY <2>1, <2>4, <2>5, <2>6, <2>7, <2>8
    <2>10. QED
      BY <2>3, <2>4, <2>9 DEF CopyIsMine
  <1>8. ASSUME NEW u \in Updaters, Rename(u) PROVE CopyIsMine'
    <2>1. Copying(u)
      BY <1>8 DEF Rename, Copying, At
    <2>2. \A other \in Updaters \ {u} : ~ Copying(other) /\ stage'[other] = stage[other]
      BY <1>0, <1>8, <2>1 DEF Rename, UpdateTypeOK, CopyIsMine
    <2>3. stage'[u][1] \notin {"writing", "renaming"}
      BY <1>0, <1>8 DEF Rename, UpdateTypeOK
    <2>4. \A other \in Updaters : ~ Copying(other)'
      BY <1>3, <2>2, <2>3 DEF Copying
    <2>5. QED
      BY <2>4 DEF CopyIsMine
  <1>9. CASE UNCHANGED updateVars
    BY <1>0, <1>9 DEF updateVars, CopyIsMine, Copying, WrittenBy, At
  <1>10. QED
    BY <1>5, <1>6, <1>7, <1>8, <1>9 DEF UpdateNext

\* Only a rename changes the binary, and a copy only codemcp.new.
LEMMA WholeStep == UpdateIInv /\ [UpdateNext]_updateVars => ExecutableIsWhole'
  <1> SUFFICES ASSUME UpdateIInv, [UpdateNext]_updateVars, ~ shared'
               PROVE  Whole(exe)'
    BY DEF ExecutableIsWhole
  <1> USE UpdateParameters DEF Reach
  <1>0. UpdateTypeOK /\ CopyIsMine /\ Whole(exe) /\ InodesAreFresh /\ ReleasesAreChosen
    BY DEF UpdateIInv, UpdateNext, updateVars, Begin, Fetch, OpenNew, WriteChunk, Rename, Abort,
           UpdateTypeOK, ExecutableIsWhole
  <1>1. CASE exe' = exe /\ data'[exe] = data[exe]
    BY <1>0, <1>1 DEF Whole
  <1>2. ASSUME NEW u \in Updaters, Begin(u) \/ Fetch(u) \/ Abort(u) PROVE Whole(exe)'
    BY <1>1, <1>2 DEF Begin, Fetch, Abort
  <1>3. ASSUME NEW u \in Updaters, OpenNew(u) PROVE Whole(exe)'
    <2>1. u # exe /\ new' # exe
      BY <1>0, <1>3 DEF OpenNew, At, InodesAreFresh, Unopened
    <2>2. QED
      BY <1>0, <1>1, <1>3, <2>1 DEF OpenNew, UpdateTypeOK
  <1>4. ASSUME NEW u \in Updaters, WriteChunk(u) PROVE Whole(exe)'
    <2>1. fd[u] # exe
      BY <1>0, <1>4 DEF WriteChunk, CopyIsMine, Copying, InodesAreFresh
    <2>2. QED
      BY <1>0, <1>1, <1>4, <2>1 DEF WriteChunk, UpdateTypeOK
  <1>5. ASSUME NEW u \in Updaters, Rename(u) PROVE Whole(exe)'
    <2>1. Copying(u) /\ At(u, "renaming") /\ Chosen(u)
      BY <1>5 DEF Rename, Copying, At, Chosen
    <2>2. new # Nothing /\ \A c \in 1 .. Chunks : data[new][c] = release[u]
      BY <1>0, <2>1 DEF CopyIsMine, WrittenBy
    <2>3. release[u] \in Versions
      BY <1>0, <2>1 DEF ReleasesAreChosen
    <2>4. data[new] = Binary(release[u])
      BY <1>0, <2>2 DEF UpdateTypeOK, Binary
    <2>5. exe' = new /\ data' = data
      BY <1>5, <2>2 DEF Rename
    <2>6. QED
      BY <2>3, <2>4, <2>5 DEF Whole, Binary
  <1>6. CASE UNCHANGED updateVars
    BY <1>1, <1>6 DEF updateVars
  <1>7. QED
    BY <1>2, <1>3, <1>4, <1>5, <1>6 DEF UpdateNext

-----------------------------------------------------------------------------
(* The theorems.                                                           *)

\* Whose codemcp.new is, whatever runs of the command do and wherever they are
\* killed (update).
THEOREM UpdateInductive == UpdateSpec => []UpdateIInv
  <1>1. UpdateIInv /\ [UpdateNext]_updateVars => UpdateIInv'
    BY UpdateTypeStep, ReleasesStep, FreshStep, CopyStep, WholeStep DEF UpdateIInv
  <1>2. QED
    BY UpdateInitIInv, <1>1, PTL DEF UpdateSpec

\* The binary is whole and of one release, unless two runs copied at once.
THEOREM WholeTheorem == UpdateSpec => []ExecutableIsWhole
  <1>1. UpdateIInv => ExecutableIsWhole
    BY DEF UpdateIInv
  <1>2. QED
    BY <1>1, UpdateInductive, PTL

-----------------------------------------------------------------------------
(* TerminalUi.                                                             *)

\* Nothing is vouched for before the first refresh.
LEMMA InitScreen == Init => ScreenIInv
  BY DEF Init, ScreenIInv, CleanScreensAreTrue, RefreshIsTrue, AsksTurnOver

\* The row under the cursor is a row of the screen.
LEMMA UnderFacts ==
  ASSUME NEW row \in Under
  PROVE  (\E i \in DOMAIN rows : row = rows[i]) \/ (\E i \in DOMAIN toolRows : row = toolRows[i])
  BY DEF Under, Selected, Nth, ToolsShown

\* A row of a true screen shows whether its item is on.
LEMMA RowFacts ==
  ASSUME ScreenIsTrue, NEW row \in Under
  PROVE  row.on = ItemOn(row.name)
  <1>1. ASSUME NEW names, NEW i \in DOMAIN Rows(names)
        PROVE  Rows(names)[i].on = ItemOn(Rows(names)[i].name)
    BY DEF Rows
  <1>2. CASE \E i \in DOMAIN rows : row = rows[i]
    BY <1>1, <1>2 DEF ScreenIsTrue, ServerRows
  <1>3. CASE \E i \in DOMAIN toolRows : row = toolRows[i]
    BY <1>1, <1>3 DEF ScreenIsTrue, ToolRows
  <1>4. QED
    BY <1>2, <1>3, UnderFacts

\* A request that the gateway has done turns its item as it asked.
LEMMA SwitchFacts ==
  ASSUME NEW item, NEW to \in BOOLEAN, NEW keep, Switch(item, to, keep)
  PROVE  ItemOn(item)' = to
  BY DEF Switch, SwitchTool, SwitchServer, Connect, Disconnect, ItemOn, ToolOn, ServerOn, IsTool

\* Every step keeps what is shown, and what is asked for, in step with the gateway.
LEMMA ScreenStep == ScreenIInv /\ [Next]_vars => ScreenIInv'
  <1> SUFFICES ASSUME ScreenIInv, [Next]_vars PROVE ScreenIInv'
    OBVIOUS
  <1> USE DEF ScreenIInv, CleanScreensAreTrue, RefreshIsTrue, AsksTurnOver
  <1>0. UNCHANGED <<conn, offered, off, kept>> =>
          /\ ServerRows' = ServerRows /\ ToolRows' = ToolRows
          /\ \A item : ItemOn(item)' = ItemOn(item)
    <2>1. UNCHANGED <<conn, offered, off, kept>> => \A item : ItemOn(item)' = ItemOn(item)
      BY DEF ItemOn, ToolOn, ServerOn, IsTool
    <2>2. UNCHANGED <<offered, kept>> => InOrder(offered \cup kept)' = InOrder(offered \cup kept)
      OBVIOUS
    <2>3. QED
      BY <2>1, <2>2 DEF ServerRows, ToolRows, Rows
  <1> USE DEF gateway, shown, cursor, bounds, Goto
  <1>1. CASE RefreshServers
    BY <1>0, <1>1 DEF RefreshServers, Fails
  <1>2. CASE RefreshTools
    BY <1>0, <1>2 DEF RefreshTools, Fails, ScreenIsTrue
  <1>3. CASE Tick \/ QuitKey
    BY <1>3 DEF Tick, QuitKey
  <1>4. ASSUME HelpKey \/ TabKey \/ \E delta \in {-1, 1} : MoveKey(delta) PROVE ScreenIInv'
    <2>1. UNCHANGED <<alive, conn, offered, off, kept, rows, toolRows, error, vouched, pc, ask>>
      BY <1>4 DEF HelpKey, TabKey, MoveKey
    <2>2. QED
      BY <1>0, <2>1 DEF ScreenIsTrue
  <1>5. ASSUME NEW keep \in BOOLEAN, ToggleKey(keep) PROVE ScreenIInv'
    <2>1. UNCHANGED <<alive, conn, offered, off, kept, rows, toolRows>> /\ pc = "idle"
      BY <1>5 DEF ToggleKey
    <2>2. CASE UNCHANGED <<pc, ask>> /\ vouched' = (vouched /\ ~ error)
      BY <1>0, <2>1, <2>2 DEF ScreenIsTrue
    <2>3. CASE /\ \E row \in Under :
                    ask' = [item |-> row.name, to |-> ~ row.on, keep |-> keep,
                            sure |-> vouched /\ ~ error]
               /\ pc' = "asking" /\ vouched' = vouched
      <3>1. PICK row \in Under : /\ ask'.item = row.name /\ ask'.to = ~ row.on
                                 /\ ask'.sure = (vouched /\ ~ error)
        BY <2>3
      <3>2. ASSUME ask'.sure PROVE row.on = ItemOn(row.name)
        BY <2>1, <3>1, <3>2, RowFacts
      <3>3. QED
        BY <1>0, <2>1, <2>3, <3>1, <3>2
    <2>4. QED
      BY <1>5, <2>2, <2>3 DEF ToggleKey
  <1>6. CASE DoAction
    BY <1>6 DEF DoAction, Answered, Refused, Fails
  <1>7. CASE Disturb
    BY <1>7 DEF Disturb
  <1>8. CASE UNCHANGED vars
    BY <1>0, <1>8 DEF vars, ScreenIsTrue
  <1>9. QED
    BY <1>1, <1>2, <1>3, <1>4, <1>5, <1>6, <1>7, <1>8 DEF Next, Refresh, HandleEvent

\* The invariant of the screen: a screen without an error that nobody else has changed
\* anything behind is true, and so is half a refresh.
THEOREM ScreenInductive == Spec => []ScreenIInv
  BY InitScreen, ScreenStep, PTL DEF Spec

\* A screen without an error is true, and its gateway runs.
THEOREM ScreenTheorem == Spec => []CleanScreensAreTrue
  <1>1. ScreenIInv => CleanScreensAreTrue
    BY DEF ScreenIInv
  <1>2. QED
    BY <1>1, ScreenInductive, PTL

\* A toggle that succeeds turns its item over.
THEOREM ToggleTheorem == Spec => TogglesTurnOver
  <1>1. ASSUME ScreenIInv, [Next]_vars, NEW item \in Items,
               pc = "asking", ask.item = item, ask.sure, vouched, pc' # pc, ~ error'
        PROVE  ItemOn(item)' # ItemOn(item)
    <2>1. ask.to = ~ ItemOn(item)
      BY <1>1 DEF ScreenIInv, AsksTurnOver
    <2>2. Answered
      BY <1>1 DEF Next, vars, Refresh, RefreshServers, RefreshTools, Tick, HandleEvent, HelpKey,
                  QuitKey, TabKey, MoveKey, ToggleKey, DoAction, Refused, Fails, Disturb
    <2>3. Switch(item, ask.to, ask.keep) /\ ask.to \in BOOLEAN
      BY <1>1, <2>1, <2>2 DEF Answered
    <2>4. ItemOn(item)' = ask.to
      BY <2>3, SwitchFacts
    <2>5. QED
      BY <2>1, <2>4
  <1>2. ScreenIInv /\ [Next]_vars =>
          [\A item \in Items :
             (pc = "asking" /\ ask.item = item /\ ask.sure /\ vouched /\ pc' # pc /\ ~ error')
               => (ItemOn(item))' # ItemOn(item)]_vars
    BY <1>1
  <1>3. QED
    BY <1>2, ScreenInductive, PTL DEF Spec, TogglesTurnOver
==============================================================================
