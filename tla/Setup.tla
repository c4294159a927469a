--------------------------------- MODULE Setup ---------------------------------
(***************************************************************************)
(* `codemcp setup opencode` (src/src/setup.rs): back up the harness's      *)
(* config and codemcp's own mcp.json, move the harness's servers into      *)
(* mcp.json, and make codemcp the harness's only server.                   *)
(*                                                                         *)
(* A file is truncated and then filled, a backup is named after the second *)
(* it is made in, and the command may fail or be killed between any two    *)
(* steps.  It may be run again, after what it has left.                    *)
(***************************************************************************)
EXTENDS Naturals, Sequences

CONSTANTS Servers,  \* the servers a config may name
          Self,     \* the entry that launches codemcp
          MaxRuns,  \* how often the command is run
          MaxClock  \* seconds that pass meanwhile

ASSUME SetupParameters == Self \notin Servers /\ MaxRuns \in Nat /\ MaxClock \in Nat

\* A file by its name and the second in its name; 0 is the file itself.
Files == [file : {"harness", "own"}, second : 0 .. MaxClock + 1]
Harness == [file |-> "harness", second |-> 0]
Own     == [file |-> "own", second |-> 0]

\* What a file holds: nothing at all, half of something, JSON that is no object,
\* or a config that names servers.
Contents ==
  [shape : {"absent", "torn", "other"}, servers : {{}}]
    \cup [shape : {"config"}, servers : SUBSET (Servers \cup {Self})]

NoFile  == [file |-> "none", second |-> 0]

Absent == [shape |-> "absent", servers |-> {}]
Torn   == [shape |-> "torn", servers |-> {}]
Other  == [shape |-> "other", servers |-> {}]
Config(servers) == [shape |-> "config", servers |-> servers]

VARIABLES
  files,    \* what each file holds
  clock,    \* the second
  todo,     \* what the command still has to write; empty if it does not run
  into,     \* the file that is open, if one is
  root,     \* the harness's config as it was read
  runs,
  ever,     \* history: the servers configured before the first run
  moving,   \* history: the servers of the last harness config without codemcp
  again,    \* history: the command found codemcp in the harness's config
  collided  \* history: a backup was made over another

setupHistory == <<ever, moving, again, collided>>
setupVars == <<files, clock, todo, into, root, runs, setupHistory>>

\* A slip: mcp.json is backed up after it was written.
WritesOwnFirst == <<"harness.bak", "own", "own.bak", "harness">>

\* A slip: the harness is rewired before its servers are moved.
WritesHarnessFirst == <<"harness.bak", "own.bak", "harness", "own">>

\* setup_opencode, file by file.
Writes == <<"harness.bak", "own.bak", "own", "harness">>

\* What is left of it.
Remaining == {<<>>, <<"harness">>, <<"own", "harness">>, <<"own.bak", "own", "harness">>, Writes}

SetupTypeOK ==
  /\ files \in [Files -> Contents]
  /\ clock \in 1 .. MaxClock + 1
  /\ todo \in Remaining
  /\ into \in Files \cup {NoFile}
  /\ root \in Contents
  /\ runs \in 0 .. MaxRuns
  /\ ever \in SUBSET Servers /\ moving \in SUBSET Servers
  /\ again \in BOOLEAN /\ collided \in BOOLEAN

SetupInit ==
  /\ \E servers \in SUBSET Servers, own \in {Absent, Torn} \cup {Config(s) : s \in SUBSET Servers} :
       \E config \in {Config(servers), Other} :
         /\ files = [f \in Files |-> CASE f = Harness -> config [] f = Own -> own [] OTHER -> Absent]
         /\ ever = config.servers \cup own.servers
  /\ clock = 1
  /\ todo = <<>> /\ into = NoFile /\ root = Absent
  /\ runs = 0
  /\ moving = {} /\ again = FALSE /\ collided = FALSE

Running == todo # <<>>
Exists(f) == files[f].shape # "absent"
Parses(f) == files[f].shape \in {"config", "other"}

\* The harness's config is read, or the command ends here.
Read ==
  /\ ~ Running /\ runs < MaxRuns
  /\ runs' = runs + 1
  /\ IF Parses(Harness)
     THEN /\ todo' = Writes
          /\ root' = files[Harness]
          /\ again' = (again \/ Self \in files[Harness].servers)
          /\ moving' = IF Self \in files[Harness].servers THEN moving ELSE files[Harness].servers
     ELSE UNCHANGED <<todo, root, again, moving>>
  /\ UNCHANGED <<files, clock, into, ever, collided>>

\* Where a write goes: a backup's name is made of the second it begins in.
Target(write) ==
  CASE write = "harness.bak" -> [file |-> "harness", second |-> clock]
    [] write = "own.bak"     -> [file |-> "own", second |-> clock]
    [] write = "own"         -> Own
    [] write = "harness"     -> Harness

\* What it writes.  The section is moved verbatim; one that is no object is empty.
Written(write) ==
  CASE write = "harness.bak" -> files[Harness]
    [] write = "own.bak"     -> files[Own]
    [] write = "own"         -> Config(root.servers)
    [] write = "harness"     -> Config({Self})

\* An own config that does not exist is not backed up.
Skip ==
  /\ Running /\ into = NoFile
  /\ Head(todo) = "own.bak" /\ ~ Exists(Own)
  /\ todo' = Tail(todo)
  /\ UNCHANGED <<files, clock, into, root, runs, setupHistory>>

\* backup_file and write_json open and truncate ...  (Only a config can be
\* rewired; one of another shape is found out after mcp.json was written.)
OpenFile ==
  /\ Running /\ into = NoFile
  /\ Head(todo) = "own.bak" => Exists(Own)
  /\ Head(todo) = "harness" => root.shape = "config"
  /\ into' = Target(Head(todo))
  /\ files' = [files EXCEPT ![into'] = Torn]
  /\ collided' = (collided \/ (into'.second # 0 /\ Exists(into')))
  /\ UNCHANGED <<clock, todo, root, runs, ever, moving, again>>

\* ... and fill.
Fill ==
  /\ Running /\ into # NoFile
  /\ files' = [files EXCEPT ![into] = Written(Head(todo))]
  /\ into' = NoFile
  /\ todo' = Tail(todo)
  /\ UNCHANGED <<clock, root, runs, setupHistory>>

\* The command fails, or is killed.
Stop ==
  /\ Running
  /\ todo' = <<>> /\ into' = NoFile
  /\ UNCHANGED <<files, clock, root, runs, setupHistory>>

\* Somebody puts a backup back in place of a harness config left in pieces.
Restore ==
  /\ ~ Running
  /\ files[Harness] = Torn
  /\ \E f \in Files :
       /\ f.file = "harness" /\ files[f].shape = "config"
       /\ files' = [files EXCEPT ![Harness] = files[f]]
  /\ UNCHANGED <<clock, todo, into, root, runs, setupHistory>>

ClockTicks ==
  /\ clock <= MaxClock
  /\ clock' = clock + 1
  /\ UNCHANGED <<files, todo, into, root, runs, setupHistory>>

SetupNext == Read \/ Skip \/ OpenFile \/ Fill \/ Stop \/ Restore \/ ClockTicks

SetupSpec == SetupInit /\ [][SetupNext]_setupVars

-----------------------------------------------------------------------------

\* Whenever the command is stopped and however often it is run, every server once
\* configured is still in a whole file, be it a backup; only two backups of one
\* second can lose one (setup_opencode, backup_file).
ServersAreKept ==
  ~ collided => \A s \in ever : \E f \in Files : s \in files[f].servers

\* A harness that launches codemcp finds the servers it had: it is rewired only
\* when mcp.json is whole and has them, unless the command is run on a harness
\* that is rewired already.
WiredHarnessHasServers ==
  (Self \in files[Harness].servers /\ ~ again) =>
    files[Own].shape = "config" /\ moving \subseteq files[Own].servers

-----------------------------------------------------------------------------
(* The invariant behind these.                                             *)

Backup(f) == f.second # 0
Due(write) == Running /\ Head(todo) = write

\* The file that is open is the one to be written next, and holds half of it.
OpenFileFits ==
  /\ ~ Running => into = NoFile
  /\ into # NoFile =>
       /\ files[into] = Torn
       /\ Due("harness") => into = Harness
       /\ Due("own") => into = Own
       /\ Due("harness.bak") => Backup(into) /\ into.file = "harness"
       /\ Due("own.bak") => Backup(into) /\ into.file = "own"

\* What is about to be overwritten is somewhere else too.
NothingIsOnlyHere ==
  /\ Running /\ into # Harness => files[Harness] = root
  /\ Due("own") /\ into = NoFile =>
       \A s \in files[Own].servers : \E f \in Files : Backup(f) /\ s \in files[f].servers
  /\ Due("harness") => files[Own] = Config(root.servers)

\* The command has not yet found codemcp in a harness, nor backed such a one up.
WiredOnce ==
  ~ again =>
    /\ Running => moving = root.servers /\ Self \notin root.servers
    /\ \A f \in Files : Backup(f) /\ f.file = "harness" => Self \notin files[f].servers

SetupIInv ==
  /\ SetupTypeOK /\ OpenFileFits /\ NothingIsOnlyHere /\ WiredOnce
  /\ ServersAreKept /\ WiredHarnessHasServers

-----------------------------------------------------------------------------
(* What the documentation says, and the code does not do.                  *)

\* "moves its MCP servers verbatim into codemcp's own mcp.json" (setup.rs:3): what
\* is moved are the harness's servers, never codemcp itself.
CodemcpIsNoUpstream == Self \notin files[Own].servers
=============================================================================
