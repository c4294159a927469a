------------------------------- MODULE AuthStore -------------------------------
(***************************************************************************)
(* The credentials file mcp-auth.json (src/src/auth/store.rs), shared by   *)
(* the tasks of every gateway of a user.  Each operation takes an advisory *)
(* lock, reads the file, and writes it anew by way of a temporary file     *)
(* with a fixed name.  Any write may fail halfway and any process may die. *)
(***************************************************************************)
EXTENDS AuthEntries

CONSTANTS Procs,
          ProcOf,   \* Tasks -> Procs
          Absent,   \* no file
          Blank,    \* a file that was created or truncated and not yet filled
          Torn      \* a file filled in part

ASSUME FilesDiffer ==
  /\ ProcOf \in [Tasks -> Procs]
  /\ {Absent, Blank, Torn} \cap Maps = {}
  /\ Absent # Blank /\ Absent # Torn /\ Blank # Torn
  /\ None \notin Tasks

VARIABLES
  pc,
  holder,  \* the task that holds the advisory lock
  disk,    \* mcp-auth.json
  tmp,     \* mcp-auth.json.tmp
  data,    \* the map each task read and changed
  result,  \* what each task will return
  up       \* the processes that run

files == <<disk, tmp>>
vars == <<pc, holder, files, data, result, up>>

Files == Maps \cup {Absent, Blank, Torn}

Stages == {"start", "locked", "read", "opened", "filled", "unlocking", "done", "failing", "failed",
           "dead", "gone"}

\* What the lock, the files and the tasks may hold.
TypeOK ==
  /\ pc \in [Tasks -> Stages]
  /\ holder \in Tasks \cup {None}
  /\ disk \in Files
  /\ tmp \in Files
  /\ data \in [Tasks -> Maps]
  /\ result \in [Tasks -> Creds \cup {None, "saved", "removed", "nothing"}]
  /\ up \in SUBSET Procs

\* Some earlier gateway left a file, or none, and perhaps died writing it.
Init ==
  /\ pc = [t \in Tasks |-> "start"]
  /\ holder = None
  /\ disk \in Maps \cup {Absent}
  /\ tmp \in {Absent, Blank, Torn}
  /\ data = [t \in Tasks |-> NoTokens]
  /\ result = [t \in Tasks |-> None]
  /\ up = Procs

Goto(t, st) == pc' = [pc EXCEPT ![t] = st]

-----------------------------------------------------------------------------
(* with_lock                                                               *)

\* The lock file is opened and locked ...
Lock(t) ==
  /\ pc[t] = "start"
  /\ holder = None
  /\ holder' = t
  /\ Goto(t, "locked")
  /\ UNCHANGED <<files, data, result, up>>

\* ... unless it cannot be opened.
Refuse(t) ==
  /\ pc[t] = "start"
  /\ Goto(t, "failed")
  /\ UNCHANGED <<holder, files, data, result, up>>

\* Mutant: an error returns before the lock is given up.
UnlockOnSuccess(t) ==
  /\ pc[t] \in {"unlocking", "failing"}
  /\ holder' = IF pc[t] = "unlocking" THEN None ELSE holder
  /\ Goto(t, IF pc[t] = "unlocking" THEN "done" ELSE "failed")
  /\ UNCHANGED <<files, data, result, up>>

\* The lock is given up, whether the operation succeeded or not.
Unlock(t) ==
  /\ pc[t] \in {"unlocking", "failing"}
  /\ holder' = None
  /\ Goto(t, IF pc[t] = "unlocking" THEN "done" ELSE "failed")
  /\ UNCHANGED <<files, data, result, up>>

-----------------------------------------------------------------------------
(* load_entry, save and remove_tokens, with the lock held                  *)

\* read_file: no file and an empty file are no tokens.
Contents(f) == IF f \in {Absent, Blank} THEN NoTokens ELSE f

\* load_entry only reads, and remove_tokens too if there is no file.
ReadOnly(t) == Kind(t) = "load" \/ (Kind(t) = "remove" /\ disk = Absent)

Read(t) ==
  /\ pc[t] = "locked"
  /\ disk # Torn
  /\ data' = [data EXCEPT ![t] = Changed(Contents(disk), t)]
  /\ result' = [result EXCEPT ![t] = Found(Contents(disk), t)]
  /\ Goto(t, IF ReadOnly(t) THEN "unlocking" ELSE "read")
  /\ UNCHANGED <<holder, files, up>>

\* The file cannot be read or parsed.
ReadFails(t) ==
  /\ pc[t] = "locked"
  /\ Goto(t, "failing")
  /\ UNCHANGED <<holder, files, data, result, up>>

\* write_file: std::fs::write creates or truncates the temporary file, ...
OpenTmp(t) ==
  /\ pc[t] = "read"
  /\ tmp' = Blank
  /\ Goto(t, "opened")
  /\ UNCHANGED <<holder, disk, data, result, up>>

\* Mutant: the entries of the other servers are not carried over.
FillStale(t) ==
  /\ pc[t] = "opened"
  /\ tmp' = Changed(NoTokens, t)
  /\ Goto(t, "filled")
  /\ UNCHANGED <<holder, disk, data, result, up>>

\* ... fills it, ...
FillTmp(t) ==
  /\ pc[t] = "opened"
  /\ tmp' = data[t]
  /\ Goto(t, "filled")
  /\ UNCHANGED <<holder, disk, data, result, up>>

\* ... and rename(2) puts it in the file's place.
Rename(t) ==
  /\ pc[t] = "filled"
  /\ disk' = tmp
  /\ tmp' = Absent
  /\ Goto(t, "unlocking")
  /\ UNCHANGED <<holder, data, result, up>>

\* Each of the three may fail.
WriteFails(t) ==
  /\ pc[t] \in {"read", "opened", "filled"}
  /\ tmp' \in IF pc[t] = "opened" THEN {Blank, Torn} ELSE {tmp}
  /\ Goto(t, "failing")
  /\ UNCHANGED <<holder, disk, data, result, up>>

-----------------------------------------------------------------------------

Ended(t) == pc[t] \in {"done", "failed", "dead", "gone"}

\* A process dies, and with it its tasks and their lock.  A task is "gone" if
\* it had only the lock left to give up.
Die(p) ==
  /\ p \in up
  /\ up' = up \ {p}
  /\ pc' = [t \in Tasks |-> IF ProcOf[t] # p \/ Ended(t) THEN pc[t]
                            ELSE IF pc[t] = "unlocking" THEN "gone" ELSE "dead"]
  /\ holder' = IF holder # None /\ ProcOf[holder] = p THEN None ELSE holder
  /\ UNCHANGED <<files, data, result>>

Step(t) ==
  \/ Lock(t) \/ Refuse(t) \/ Unlock(t)
  \/ Read(t) \/ ReadFails(t)
  \/ OpenTmp(t) \/ FillTmp(t) \/ Rename(t) \/ WriteFails(t)

Next == (\E t \in Tasks : Step(t)) \/ (\E p \in Procs : Die(p))

Spec == Init /\ [][Next]_vars

\* Whoever holds the lock goes on, and a free lock is taken in the end.  (There are
\* finitely many operations, so nobody has to be favoured.)
FairSpec == Spec /\ \A t \in Tasks : WF_vars(pc[t] # "start" /\ Step(t)) /\ WF_vars(Lock(t))

-----------------------------------------------------------------------------

\* The file is never seen half written, whoever dies or fails writing it.
FileIsWhole == disk \in Maps \cup {Absent}

\* The lock is with the one task inside with_lock.
LockIsHeld ==
  \A t \in Tasks :
    holder = t <=> pc[t] \in {"locked", "read", "opened", "filled", "unlocking", "failing"}

\* What a writer read is still what the file holds.
NothingStale ==
  \A t \in Tasks :
    /\ pc[t] \in {"read", "opened", "filled"} =>
         /\ data[t] = Changed(Contents(disk), t)
         /\ result[t] = Found(Contents(disk), t)
    /\ pc[t] = "filled" => tmp = data[t]

\* Why the file behaves as one map: with_lock and write_file together.
IInv == TypeOK /\ FileIsWhole /\ LockIsHeld /\ NothingStale

\* The file implements TokenMap: an operation takes effect when it reads, if it
\* only reads, and otherwise when the temporary file is renamed.
StageOf(t) ==
  CASE pc[t] \in {"unlocking", "done", "gone"} -> "settled"
    [] pc[t] = "failed" -> "failed"
    [] pc[t] = "dead" -> "lost"
    [] OTHER -> "pending"

Map == INSTANCE TokenMap
  WITH tokens <- Contents(disk),
       stage  <- [t \in Tasks |-> StageOf(t)],
       answer <- [t \in Tasks |-> IF StageOf(t) = "settled" THEN result[t] ELSE None]

\* Saves, loads and removals by several gateways never lose or mix an update,
\* though each is many steps on the disk and any gateway may die.
Atomic == Map!Spec

\* Every operation ends, even if a gateway dies with the lock.
OperationsEnd == \A t \in Tasks : <>Ended(t)
=============================================================================
