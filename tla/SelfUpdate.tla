------------------------------- MODULE SelfUpdate -------------------------------
(***************************************************************************)
(* `codemcp update` (src/src/update.rs): the latest release is downloaded, *)
(* verified if a checksum is there, copied to codemcp.new beside the       *)
(* binary that runs, and renamed over it.  An update may fail or be killed *)
(* between any two steps, and others may run beside it.                    *)
(***************************************************************************)
EXTENDS Integers, Sequences, SequencesExt

CONSTANTS Updaters,  \* runs of the command
          Versions,  \* releases, as sequences of numbers; -1 is no number
          Chunks,    \* the parts a binary is written in: 1 .. Chunks
          Nothing

ASSUME UpdateParameters ==
  /\ Versions \subseteq Seq(Int) \ {<<>>}
  /\ Chunks \in Nat \ {0}
  /\ Nothing \notin Updaters

VARIABLES
  stage,    \* where each run is
  release,  \* the version each run installs
  data,     \* each inode: the version each chunk is from
  exe,      \* the inode of the binary
  new,      \* the inode of codemcp.new, if there is one
  fd,       \* the inode each run writes to
  shared    \* history: codemcp.new was opened while another run had it

updateVars == <<stage, release, data, exe, new, fd, shared>>

\* Inodes are named after the run that made them; the first binary is Nothing's.
Inodes == Updaters \cup {Nothing}
Empty == [c \in 1 .. Chunks |-> <<>>]
Binary(v) == [c \in 1 .. Chunks |-> v]
Whole(inode) == \E v \in Versions : data[inode] = Binary(v)

Stages == {"idle", "fetching", "opening", "renaming", "done", "failed"}
Writing == {<<"writing", c>> : c \in 1 .. Chunks}

UpdateTypeOK ==
  /\ stage \in [Updaters -> {<<x, 0>> : x \in Stages} \cup Writing]
  /\ release \in [Updaters -> Versions \cup {<<>>}]
  /\ data \in [Inodes -> [1 .. Chunks -> Versions \cup {<<>>}]]
  /\ exe \in Inodes /\ new \in Inodes /\ fd \in [Updaters -> Inodes]
  /\ shared \in BOOLEAN

UpdateInit ==
  /\ stage = [u \in Updaters |-> <<"idle", 0>>]
  /\ release = [u \in Updaters |-> <<>>]
  /\ \E v \in Versions : data = [i \in Inodes |-> IF i = Nothing THEN Binary(v) ELSE Empty]
  /\ exe = Nothing /\ new = Nothing
  /\ fd = [u \in Updaters |-> Nothing]
  /\ shared = FALSE

At(u, x) == stage[u] = <<x, 0>>
Active(u) == stage[u][1] \notin {"idle", "done", "failed"}
Reach(u, x) == stage' = [stage EXCEPT ![u] = <<x, 0>>]

\* version_parts and is_outdated: the first part that differs decides, then length.
Parts(v) == SelectSeq(v, LAMBDA part : part >= 0)
Common(v, w) == 1 .. (IF Len(v) < Len(w) THEN Len(v) ELSE Len(w))

IsOutdated(installed, latest) ==
  LET i == Parts(installed)
      l == Parts(latest)
      differ == {k \in Common(i, l) : i[k] # l[k]}
  IN IF differ = {} THEN Len(l) > Len(i)
     ELSE \E k \in differ : l[k] > i[k] /\ \A j \in differ : k <= j

\* The command is started from the binary there is, if it runs at all.  The version
\* compiled into it is compared with the latest one.
Begin(u) ==
  /\ At(u, "idle")
  /\ Whole(exe)
  /\ \E latest \in Versions :
       IF IsOutdated(data[exe][1], latest)
       THEN Reach(u, "fetching") /\ release' = [release EXCEPT ![u] = latest]
       ELSE Reach(u, "done") /\ UNCHANGED release
  /\ UNCHANGED <<data, exe, new, fd, shared>>

\* Downloaded, not refuted by a checksum, and unpacked into a directory of its own.
Fetch(u) ==
  /\ At(u, "fetching")
  /\ Reach(u, "opening")
  /\ UNCHANGED <<release, data, exe, new, fd, shared>>

\* A slip: the binary itself is copied over.
OpenBinary(u) ==
  /\ At(u, "opening")
  /\ stage' = [stage EXCEPT ![u] = <<"writing", 1>>]
  /\ fd' = [fd EXCEPT ![u] = exe]
  /\ data' = [data EXCEPT ![exe] = Empty]
  /\ UNCHANGED <<release, exe, new, shared>>

Copying(u) == stage[u] \in Writing \cup {<<"renaming", 0>>}

\* std::fs::copy creates codemcp.new, or truncates the one that is there.
OpenNew(u) ==
  /\ At(u, "opening")
  /\ stage' = [stage EXCEPT ![u] = <<"writing", 1>>]
  /\ LET inode == IF new = Nothing THEN u ELSE new IN
       /\ new' = inode
       /\ fd' = [fd EXCEPT ![u] = inode]
       /\ data' = [data EXCEPT ![inode] = Empty]
  /\ shared' = (shared \/ \E other \in Updaters \ {u} : Copying(other))
  /\ UNCHANGED <<release, exe>>

WriteChunk(u) ==
  /\ stage[u] \in Writing
  /\ LET c == stage[u][2] IN
       /\ data' = [data EXCEPT ![fd[u]][c] = release[u]]
       /\ stage' = [stage EXCEPT ![u] = IF c = Chunks THEN <<"renaming", 0>> ELSE <<"writing", c + 1>>]
  /\ UNCHANGED <<release, exe, new, fd, shared>>

\* The rename fails if another run has renamed the file.
Rename(u) ==
  /\ At(u, "renaming")
  /\ IF new = Nothing
     THEN Reach(u, "failed") /\ UNCHANGED <<exe, new>>
     ELSE Reach(u, "done") /\ exe' = new /\ new' = Nothing
  /\ UNCHANGED <<release, data, fd, shared>>

\* The run fails, or is killed.
Abort(u) ==
  /\ Active(u)
  /\ Reach(u, "failed")
  /\ UNCHANGED <<release, data, exe, new, fd, shared>>

UpdateNext ==
  \E u \in Updaters :
    Begin(u) \/ Fetch(u) \/ OpenNew(u) \/ WriteChunk(u) \/ Rename(u) \/ Abort(u)

UpdateSpec == UpdateInit /\ [][UpdateNext]_updateVars

-----------------------------------------------------------------------------

\* Whenever updates are stopped, the binary is whole, of one version, unless two
\* of them wrote codemcp.new at once (std::fs::copy, then rename).
ExecutableIsWhole == ~ shared => Whole(exe)

-----------------------------------------------------------------------------
(* The invariant behind it.                                                *)

Chosen(u) == stage[u][1] \in {"fetching", "opening", "writing", "renaming"}
Unopened(u) == stage[u][1] \in {"idle", "fetching", "opening"}

\* The chunks a run has written since it opened codemcp.new.
WrittenBy(u) == IF At(u, "renaming") THEN 1 .. Chunks ELSE {c \in 1 .. Chunks : c < stage[u][2]}

ReleasesAreChosen == \A u \in Updaters : Chosen(u) => release[u] \in Versions

\* An inode is new to the run it is named after, and codemcp.new is not the binary.
InodesAreFresh ==
  /\ \A u \in Updaters : Unopened(u) => exe # u /\ new # u
  /\ new # Nothing => new # exe

\* As long as no two copied at once: the one that copies has codemcp.new, with
\* what it wrote so far.
CopyIsMine ==
  \A u \in Updaters : Copying(u) =>
    /\ new # Nothing /\ fd[u] = new
    /\ \A other \in Updaters : Copying(other) => other = u
    /\ \A c \in WrittenBy(u) : data[new][c] = release[u]

UpdateIInv ==
  /\ UpdateTypeOK /\ ReleasesAreChosen /\ InodesAreFresh
  /\ ~ shared => CopyIsMine
  /\ ExecutableIsWhole

-----------------------------------------------------------------------------
(* What a comment says, and the code does not do.                          *)

\* "Atomic replace: copy to a temp file in the same directory, then rename"
\* (update.rs:200): the binary is whole whoever else updates it.
ReplaceIsAtomic == Whole(exe)
=============================================================================
