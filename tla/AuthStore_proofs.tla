-------------------------- MODULE AuthStore_proofs --------------------------
(***************************************************************************)
(* Theorems about AuthStore, for any gateways, operations, servers and     *)
(* credentials: the file is always whole, and it implements TokenMap.      *)
(***************************************************************************)
EXTENDS AuthStore, TLAPS

\* What an operation makes of a map is a map.
LEMMA OperationTypes ==
  ASSUME NEW t \in Tasks, NEW map \in Maps
  PROVE  /\ Kind(t) \in Kinds
         /\ Changed(map, t) \in Maps
         /\ Found(map, t) \in Creds \cup {None, "saved", "removed", "nothing"}
         /\ Kind(t) = "load" => Changed(map, t) = map
  <1>1. /\ Request[t] \in [kind : Kinds, server : Servers, url : Urls, creds : Creds]
        /\ [url |-> Request[t].url, creds |-> Request[t].creds] \in Entry
    BY RequestsTyped DEF Entry
  <1>2. map[Server(t)] \in Entry \cup {None}
    BY <1>1 DEF Maps, Server
  <1>3. Lookup(map, t) \in Creds \cup {None}
    BY <1>2 DEF Lookup, Entry
  <1>4. QED
    BY <1>1, <1>3 DEF Changed, Found, Kinds, Kind, Maps

LEMMA ContentsAreMaps ==
  ASSUME disk \in Maps \cup {Absent}
  PROVE  Contents(disk) \in Maps
  BY DEF Contents, NoTokens, Maps

\* A map is not one of the other things a file may be.
LEMMA MapsAreFiles ==
  ASSUME NEW m \in Maps
  PROVE  m \in Files /\ m \notin {Absent, Blank, Torn} /\ Contents(m) = m
  BY FilesDiffer DEF Files, Contents

LEMMA InitIInv == Init => IInv
  <1> SUFFICES ASSUME Init PROVE IInv
    OBVIOUS
  <1> USE FilesDiffer DEF Init
  <1>1. TypeOK
    BY DEF TypeOK, Files, Stages, NoTokens, Maps
  <1>2. QED
    BY <1>1 DEF IInv, FileIsWhole, LockIsHeld, NothingStale

LEMMA StepIInv == IInv /\ [Next]_vars => IInv'
  <1> SUFFICES ASSUME IInv, [Next]_vars PROVE IInv'
    OBVIOUS
  <1> USE DEF IInv, TypeOK, FileIsWhole, LockIsHeld, NothingStale, Goto, Stages, files, Files
  <1>1. ASSUME NEW t \in Tasks, Lock(t) PROVE IInv'
    BY <1>1, FilesDiffer DEF Lock
  <1>2. ASSUME NEW t \in Tasks, Refuse(t) PROVE IInv'
    BY <1>2 DEF Refuse
  <1>3. ASSUME NEW t \in Tasks, Unlock(t) PROVE IInv'
    BY <1>3, FilesDiffer DEF Unlock
  <1>4. ASSUME NEW t \in Tasks, Read(t) PROVE IInv'
    <2>1. /\ Changed(Contents(disk), t) \in Maps
          /\ Found(Contents(disk), t) \in Creds \cup {None, "saved", "removed", "nothing"}
      BY OperationTypes, ContentsAreMaps
    <2>2. TypeOK'
      BY <1>4, <2>1 DEF Read
    <2>3. QED
      BY <1>4, <2>2 DEF Read
  <1>5. ASSUME NEW t \in Tasks, ReadFails(t) PROVE IInv'
    BY <1>5 DEF ReadFails
  <1>6. ASSUME NEW t \in Tasks, OpenTmp(t) PROVE IInv'
    BY <1>6 DEF OpenTmp
  <1>7. ASSUME NEW t \in Tasks, FillTmp(t) PROVE IInv'
    BY <1>7, MapsAreFiles DEF FillTmp
  <1>8. ASSUME NEW t \in Tasks, Rename(t) PROVE IInv'
    BY <1>8, MapsAreFiles DEF Rename
  <1>9. ASSUME NEW t \in Tasks, WriteFails(t) PROVE IInv'
    BY <1>9 DEF WriteFails
  <1>10. ASSUME NEW p \in Procs, Die(p) PROVE IInv'
    BY <1>10, FilesDiffer DEF Die, Ended
  <1>11. CASE UNCHANGED vars
    BY <1>11 DEF vars
  <1>12. QED
    BY <1>1, <1>2, <1>3, <1>4, <1>5, <1>6, <1>7, <1>8, <1>9, <1>10, <1>11 DEF Next, Step

\* What each task read stays true while it writes, for it alone holds the lock.
THEOREM Inductive == Spec => []IInv
  BY InitIInv, StepIInv, PTL DEF Spec

\* No gateway ever finds the file half written, whoever died writing it.
THEOREM NeverTorn == Spec => []FileIsWhole
  <1>1. IInv => FileIsWhole
    BY DEF IInv
  <1>2. QED
    BY Inductive, <1>1, PTL

-----------------------------------------------------------------------------
(* Refinement.                                                             *)

LEMMA InitMaps == Init => Map!Init
  <1> SUFFICES ASSUME Init PROVE Map!Init
    OBVIOUS
  <1>1. Contents(disk) \in Maps
    BY ContentsAreMaps DEF Init
  <1>2. \A t \in Tasks : StageOf(t) = "pending"
    BY DEF Init, StageOf
  <1>3. QED
    BY <1>1, <1>2 DEF Map!Init, Map!Maps, Map!Entry, Maps, Entry

\* A step that leaves the file and every stage alone is a stutter.
LEMMA Stutters ==
  ASSUME Contents(disk') = Contents(disk), UNCHANGED result,
         \A t \in Tasks : StageOf(t)' = StageOf(t)
  PROVE  UNCHANGED Map!vars
  BY DEF Map!vars, Contents

LEMMA StepMaps == IInv /\ [Next]_vars => [Map!Next]_(Map!vars)
  <1> SUFFICES ASSUME IInv, [Next]_vars PROVE [Map!Next]_(Map!vars)
    OBVIOUS
  <1> USE DEF Goto, files
  <1>t. TypeOK /\ FileIsWhole /\ LockIsHeld /\ NothingStale
    BY DEF IInv
  <1>a. ASSUME NEW t \in Tasks, Refuse(t) \/ (Unlock(t) /\ pc[t] = "failing")
        PROVE  Map!Fail(t)
    <2>1. pc' = [pc EXCEPT ![t] = "failed"] /\ UNCHANGED <<disk, result>>
      BY <1>a DEF Refuse, Unlock
    <2>2. StageOf(t) = "pending"
      BY <1>a DEF Refuse, Unlock, StageOf
    <2>3. \A u \in Tasks : StageOf(u)' = IF u = t THEN "failed" ELSE StageOf(u)
      BY <1>t, <2>1 DEF StageOf, TypeOK
    <2>4. Contents(disk') = Contents(disk)
      BY <2>1
    <2>5. QED
      BY <2>1, <2>2, <2>3, <2>4 DEF Map!Fail, Contents
  <1>b. ASSUME NEW t \in Tasks, Lock(t) \/ ReadFails(t) \/ OpenTmp(t) \/ FillTmp(t) \/ WriteFails(t)
                                \/ (Unlock(t) /\ pc[t] = "unlocking")
        PROVE  UNCHANGED Map!vars
    <2>1. UNCHANGED <<disk, result>>
      BY <1>b DEF Lock, ReadFails, OpenTmp, FillTmp, WriteFails, Unlock
    <2>2. \A u \in Tasks : StageOf(u)' = StageOf(u)
      BY <1>t, <1>b DEF Lock, ReadFails, OpenTmp, FillTmp, WriteFails, Unlock, StageOf, TypeOK
    <2>3. QED
      BY <2>1, <2>2, Stutters
  <1>p. ASSUME NEW t \in Tasks, pc[t] \in {"locked", "filled"}, pc' = [pc EXCEPT ![t] = "unlocking"],
               Contents(disk') = Changed(Contents(disk), t),
               result' = [result EXCEPT ![t] = Found(Contents(disk), t)]
        PROVE  Map!Next
    <2>1. StageOf(t) = "pending"
      BY <1>p DEF StageOf
    <2>2. \A u \in Tasks : StageOf(u)' = IF u = t THEN "settled" ELSE StageOf(u)
      BY <1>t, <1>p DEF StageOf, TypeOK
    <2>3. \A u \in Tasks : result'[u] = IF u = t THEN Found(Contents(disk), t) ELSE result[u]
      BY <1>t, <1>p DEF TypeOK
    <2>4. /\ Map!Changed(Contents(disk), t) = Changed(Contents(disk), t)
          /\ Map!Found(Contents(disk), t) = Found(Contents(disk), t)
      BY DEF Map!Changed, Map!Found, Changed, Found, Map!Kind, Map!Server, Map!Lookup, Kind, Server,
             Lookup
    <2>5. Map!Perform(t)
      BY <1>p, <2>1, <2>2, <2>3, <2>4 DEF Map!Perform, Contents
    <2>6. QED
      BY <2>5 DEF Map!Next
  <1>c. ASSUME NEW t \in Tasks, Read(t) PROVE [Map!Next]_(Map!vars)
    <2>1. CASE ReadOnly(t)
      <3>1. /\ UNCHANGED disk
            /\ pc[t] = "locked" /\ pc' = [pc EXCEPT ![t] = "unlocking"]
            /\ result' = [result EXCEPT ![t] = Found(Contents(disk), t)]
        BY <1>c, <2>1 DEF Read
      <3>2. Changed(Contents(disk), t) = Contents(disk)
        <4>1. CASE Kind(t) = "load"
          BY <4>1 DEF Changed
        <4>2. CASE Kind(t) = "remove" /\ disk = Absent
          BY <4>2 DEF Changed, Contents, NoTokens
        <4>3. QED
          BY <2>1, <4>1, <4>2 DEF ReadOnly
      <3>3. Contents(disk') = Contents(disk)
        BY <3>1
      <3>4. QED
        BY <1>p, <3>1, <3>2, <3>3
    <2>2. CASE ~ ReadOnly(t)
      <3>1. UNCHANGED disk /\ pc' = [pc EXCEPT ![t] = "read"] /\ pc[t] = "locked"
        BY <1>c, <2>2 DEF Read
      <3>2. \A u \in Tasks : StageOf(u)' = StageOf(u)
        BY <1>t, <3>1 DEF StageOf, TypeOK
      <3>3. \A u \in Tasks : StageOf(u) = "settled" => result'[u] = result[u]
        BY <1>t, <1>c, <3>1 DEF Read, StageOf, TypeOK
      <3>4. QED
        BY <3>1, <3>2, <3>3 DEF Map!vars, Contents
    <2>3. QED
      BY <2>1, <2>2
  <1>d. ASSUME NEW t \in Tasks, Rename(t) PROVE Map!Next
    <2>1. /\ pc[t] = "filled" /\ pc' = [pc EXCEPT ![t] = "unlocking"]
          /\ disk' = data[t] /\ data[t] = Changed(Contents(disk), t)
          /\ UNCHANGED result /\ result[t] = Found(Contents(disk), t)
      BY <1>t, <1>d DEF Rename, NothingStale
    <2>2. Contents(disk') = Changed(Contents(disk), t)
      BY <1>t, <2>1, MapsAreFiles DEF TypeOK
    <2>3. result' = [result EXCEPT ![t] = Found(Contents(disk), t)]
      BY <1>t, <2>1 DEF TypeOK
    <2>4. QED
      BY <1>p, <2>1, <2>2, <2>3
  <1>e. ASSUME NEW p \in Procs, Die(p) PROVE Map!Next
    <2> DEFINE lost == {t \in Tasks : StageOf(t) = "pending" /\ ProcOf[t] = p}
    <2>1. UNCHANGED <<disk, result>>
      BY <1>e DEF Die
    <2>2. \A t \in Tasks : StageOf(t)' = IF t \in lost THEN "lost" ELSE StageOf(t)
      BY <1>t, <1>e DEF Die, StageOf, Ended, TypeOK
    <2>3. Contents(disk') = Contents(disk)
      BY <2>1
    <2>4. Map!Lose(lost)
      BY <2>1, <2>2, <2>3 DEF Map!Lose, Contents
    <2>5. QED
      BY <2>4 DEF Map!Next
  <1>f. CASE UNCHANGED vars
    BY <1>f, Stutters DEF vars, StageOf
  <1>g. ASSUME NEW t \in Tasks, Unlock(t) PROVE [Map!Next]_(Map!vars)
    BY <1>a, <1>b, <1>g DEF Unlock, Map!Next
  <1>9. QED
    BY <1>a, <1>b, <1>c, <1>d, <1>e, <1>f, <1>g DEF Next, Step, Map!Next

\* Every gateway's locked read, change and rename implements one map whose
\* operations are atomic, whichever of them fail or die.
THEOREM ImplementsTokenMap == Spec => Atomic
  <1>1. QED
    BY InitMaps, StepMaps, Inductive, PTL DEF Spec, Atomic, Map!Spec
=============================================================================
