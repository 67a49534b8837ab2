------------------------- MODULE SettingsStoreProofs -------------------------
(***************************************************************************)
(* What the settings store keeps for any number of processes, operations   *)
(* and faults.                                                             *)
(***************************************************************************)
EXTENDS SettingsStore, TLAPS

-----------------------------------------------------------------------------
(* Types *)

LEMMA Kinds ==
  ASSUME NEW o \in Operations
  PROVE  /\ ProcessOf[o] \in Processes /\ SectionOf[o] \in Sections
         /\ o # None
BY StoreAssumption

LEMMA WithSettings ==
  ASSUME NEW o \in Operations, NEW s \in Settings
  PROVE  /\ With(s, o) \in Settings
         /\ With(s, o)[SectionOf[o]] = s[SectionOf[o]] \cup {o}
         /\ \A e \in Sections : e # SectionOf[o] => With(s, o)[e] = s[e]
BY Kinds DEF With, Settings

LEMMA TypeInit == Init => TypeOK
BY StoreAssumption DEF Init, TypeOK, Settings, Defaults, Phases

LEMMA UndoSettings ==
  ASSUME TypeOK, NEW o \in Operations
  PROVE  Undo(o) \in [Processes -> Settings]
<1>1. snapshot[o][SectionOf[o]] \ {o} \in SUBSET Operations
  BY Kinds DEF TypeOK, Settings
<1>2. CASE o \in Changes
  BY <1>1, <1>2, Kinds DEF TypeOK, Undo, Settings
<1>3. CASE o \notin Changes
  BY <1>3 DEF TypeOK, Undo
<1> QED
  BY <1>2, <1>3

LEMMA StepTypes ==
  ASSUME TypeOK, NEW o \in Operations, Step(o)
  PROVE  TypeOK'
<1>0. ProcessOf[o] \in Processes /\ MaxFaults \in Nat
  BY Kinds, StoreAssumption
<1>1. CASE Start(o) \/ Change(o) \/ Enter(o) \/ TimeOut(o) \/ ReadFails(o)
  BY <1>0, <1>1 DEF TypeOK, Start, Change, Enter, TimeOut, ReadFails, Goto, Phases
<1>2. CASE Save(o)
  <2>1. Refreshed(ProcessOf[o]) \in Settings
    BY <1>0 DEF TypeOK, Refreshed
  <2>2. With(Refreshed(ProcessOf[o]), o) \in Settings
    BY <2>1, WithSettings
  <2> QED
    BY <1>0, <1>2, <2>2 DEF TypeOK, Save, Goto, Phases
<1>3. CASE Locked(o) \/ Unlock(o)
  BY <1>0, <1>3 DEF TypeOK, Locked, Unlock, Goto, Phases, Lock!Acquire, Lock!Release
<1>4. CASE CreateFile(o)
  BY <1>0, <1>4 DEF TypeOK, CreateFile
<1>5. CASE Load(o)
  <2>1. file \in Settings /\ With(file, o) \in Settings
    BY <1>5, WithSettings DEF TypeOK, Load
  <2> QED
    BY <1>0, <1>5, <2>1 DEF TypeOK, Load, Goto, Phases
<1>6. CASE Rebase(o)
  <2>1. With(Persisted(ProcessOf[o]), o) \in Settings
    BY <1>0, WithSettings DEF TypeOK, Persisted
  <2> QED
    BY <1>0, <1>6, <2>1 DEF TypeOK, Rebase, Goto, Phases
<1>7. CASE Write(o)
  BY <1>0, <1>7 DEF TypeOK, Write, Goto, Phases
<1>8. CASE WriteFails(o)
  BY <1>0, <1>8, UndoSettings DEF TypeOK, WriteFails, Goto, Phases
<1> QED
  BY <1>1, <1>2, <1>3, <1>4, <1>5, <1>6, <1>7, <1>8 DEF Step

LEMMA ProcessTypes ==
  ASSUME TypeOK, NEW p \in Processes, Refresh(p) \/ Crash(p)
  PROVE  TypeOK'
<1>1. CASE Refresh(p)
  BY <1>1 DEF TypeOK, Refresh, Refreshed
<1>2. CASE Crash(p)
  <2>1. Defaults \in Settings
    BY DEF Defaults, Settings
  <2> QED
    BY <1>2, <2>1, StoreAssumption DEF TypeOK, Crash, Phases
<1> QED
  BY <1>1, <1>2

(* Every variable keeps its type.                                           *)
THEOREM TypeCorrect == Spec => []TypeOK
<1>1. TypeOK /\ [Next]_vars => TypeOK'
  <2> SUFFICES ASSUME TypeOK, [Next]_vars PROVE TypeOK'
    OBVIOUS
  <2>1. CASE UNCHANGED vars
    BY <2>1 DEF TypeOK, vars
  <2>2. CASE Next
    BY <2>2, StepTypes, ProcessTypes DEF Next
  <2> QED
    BY <2>1, <2>2
<1> QED
  BY TypeInit, <1>1, PTL DEF Spec

-----------------------------------------------------------------------------
(* Who may write *)

Holding == {"locked", "writing", "written", "undone"}

(* Only the one that holds the lock is under the lock. *)
LockKept ==
  /\ \A o \in Operations : phase[o] \in Holding <=> o \in holders
  /\ \A o, u \in holders : o = u

(* A process that is loading does nothing else, and what it does otherwise  *)
(* it does with loaded settings.                                            *)
LoadedFirst ==
  \A o \in Operations : ~Over(o) =>
    IF o \in Loads
    THEN /\ ~loaded[ProcessOf[o]]
         /\ \A u \in Operations : u # o /\ ProcessOf[u] = ProcessOf[o] => Over(u)
    ELSE loaded[ProcessOf[o]]

WriterInv == TypeOK /\ LockKept /\ LoadedFirst

LEMMA WriterInit == Init => WriterInv
BY TypeInit, StoreAssumption
   DEF Init, WriterInv, LockKept, LoadedFirst, Holding, Over

LEMMA StepWriters ==
  ASSUME WriterInv, NEW o \in Operations, Step(o)
  PROVE  LockKept' /\ LoadedFirst'
<1>0. /\ TypeOK /\ LockKept /\ LoadedFirst
      /\ o # None /\ ProcessOf[o] \in Processes
  BY Kinds DEF WriterInv
<1>1. CASE Start(o)
  BY <1>0, <1>1 DEF Start, Goto, LockKept, LoadedFirst, Holding, Over, TypeOK
<1>2. CASE Change(o) \/ Save(o)
  BY <1>0, <1>2, StoreAssumption
     DEF Change, Save, Goto, LockKept, LoadedFirst, Holding, Over, TypeOK
<1>3. CASE Enter(o) \/ TimeOut(o)
  BY <1>0, <1>3 DEF Enter, TimeOut, Goto, LockKept, LoadedFirst, Holding, Over, TypeOK
<1>4. CASE Locked(o)
  <2>1. LockKept'
    BY <1>0, <1>4, Kinds DEF Locked, Goto, Lock!Acquire, LockKept, Holding, TypeOK
  <2>2. LoadedFirst'
    BY <1>0, <1>4 DEF Locked, Goto, LoadedFirst, Over, TypeOK
  <2> QED
    BY <2>1, <2>2
<1>5. CASE CreateFile(o)
  BY <1>0, <1>5 DEF CreateFile, LockKept, LoadedFirst, Over
<1>6. CASE Load(o) \/ Rebase(o) \/ ReadFails(o) \/ Write(o) \/ WriteFails(o)
  <2>1. /\ phase[o] \in Holding
        /\ \E f \in Holding : phase' = [phase EXCEPT ![o] = f]
        /\ UNCHANGED <<holders, loaded>>
    BY <1>6 DEF Load, Rebase, ReadFails, Write, WriteFails, Goto, Holding
  <2> QED
    BY <1>0, <2>1 DEF LockKept, LoadedFirst, Over, Holding, TypeOK
<1>7. CASE Unlock(o)
  <2>1. LockKept'
    BY <1>0, <1>7, Kinds DEF Unlock, Goto, Lock!Release, LockKept, Holding, TypeOK
  <2>2. LoadedFirst'
    BY <1>0, <1>7 DEF Unlock, Goto, LoadedFirst, Over, TypeOK
  <2> QED
    BY <2>1, <2>2
<1> QED
  BY <1>1, <1>2, <1>3, <1>4, <1>5, <1>6, <1>7 DEF Step

LEMMA ProcessWriters ==
  ASSUME WriterInv, NEW p \in Processes, Refresh(p) \/ Crash(p)
  PROVE  LockKept' /\ LoadedFirst'
<1>1. CASE Refresh(p)
  BY <1>1 DEF Refresh, WriterInv, LockKept, LoadedFirst, Over
<1>2. CASE Crash(p)
  BY <1>2, Kinds DEF Crash, WriterInv, LockKept, LoadedFirst, Over, Holding, TypeOK
<1> QED
  BY <1>1, <1>2

LEMMA NextWriters == WriterInv /\ [Next]_vars => WriterInv'
<1> SUFFICES ASSUME WriterInv, [Next]_vars PROVE WriterInv'
  OBVIOUS
<1>1. CASE UNCHANGED vars
  BY <1>1 DEF WriterInv, TypeOK, LockKept, LoadedFirst, Over, vars
<1>2. CASE Next
  BY <1>2, StepTypes, ProcessTypes, StepWriters, ProcessWriters DEF Next, WriterInv
<1> QED
  BY <1>1, <1>2

-----------------------------------------------------------------------------
(* Secrets *)

Generated(settings) == \E l \in Loads : settings[Secrets] = {l}

(* The keys are in the file before any process has loaded; what is about to *)
(* be written has the same keys.                                            *)
FileFirst == file = None => data = [p \in Processes |-> Defaults]

KeysInFile == file # None => file[Secrets] = {} \/ Generated(file)

KeysLoaded ==
  \A p \in Processes : loaded[p] =>
    /\ file # None /\ Generated(file) /\ data[p][Secrets] = file[Secrets]

KeysWritten ==
  \A o \in Operations :
    /\ o \in Loads /\ phase[o] = "writing" =>
         /\ file # None /\ file[Secrets] = {}
         /\ snapshot[o] = With(file, o) /\ data[ProcessOf[o]] = snapshot[o]
    /\ o \in Loads /\ phase[o] = "written" =>
         file # None /\ Generated(file) /\ data[ProcessOf[o]][Secrets] = file[Secrets]
    /\ o \in Saves /\ phase[o] \in {"queued", "locking", "writing"} =>
         file # None /\ snapshot[o][Secrets] = file[Secrets]
    /\ o \in Changes /\ phase[o] = "writing" =>
         file # None /\ snapshot[o][Secrets] = file[Secrets]

SecretInv == WriterInv /\ FileFirst /\ KeysInFile /\ KeysLoaded /\ KeysWritten

LEMMA SecretInit == Init => SecretInv
BY WriterInit DEF Init, SecretInv, FileFirst, KeysInFile, KeysLoaded, KeysWritten

LEMMA OtherSections ==
  ASSUME NEW o \in Operations, o \notin Loads, NEW s \in Settings
  PROVE  With(s, o)[Secrets] = s[Secrets]
BY StoreAssumption DEF With, Settings

LEMMA StepSecrets ==
  ASSUME SecretInv, NEW o \in Operations, Step(o), WriterInv'
  PROVE  SecretInv'
<1>0. /\ TypeOK /\ LockKept /\ LoadedFirst
      /\ FileFirst /\ KeysInFile /\ KeysLoaded /\ KeysWritten
      /\ ProcessOf[o] \in Processes
      /\ Secrets \in Sections
      /\ Loads \cap Changes = {} /\ Loads \cap Saves = {} /\ Changes \cap Saves = {}
  BY Kinds, StoreAssumption DEF SecretInv, WriterInv
<1>1. CASE Start(o) \/ Change(o) \/ Enter(o) \/ Locked(o) \/ TimeOut(o) \/ ReadFails(o)
  <2>1. UNCHANGED <<file, data, loaded, snapshot>>
    BY <1>1 DEF Start, Change, Enter, Locked, TimeOut, ReadFails
  <2>2. \E f \in Phases : phase' = [phase EXCEPT ![o] = f]
    BY <1>1 DEF Start, Change, Enter, Locked, TimeOut, ReadFails, Goto, Phases
  <2>3. /\ phase'[o] \notin {"writing", "written"} \/ o \in Saves
        /\ o \in Saves /\ phase'[o] \in {"queued", "locking", "writing"}
             => phase[o] \in {"queued", "locking", "writing"}
    BY <1>0, <1>1 DEF Start, Change, Enter, Locked, TimeOut, ReadFails, Goto, TypeOK
  <2>4. KeysWritten'
    BY <1>0, <2>1, <2>2, <2>3 DEF KeysWritten, Generated, TypeOK
  <2> QED
    BY <1>0, <2>1, <2>4 DEF SecretInv, FileFirst, KeysInFile, KeysLoaded, Generated
<1>2. CASE Save(o)
  <2> DEFINE p == ProcessOf[o]
  <2>1. loaded[p] /\ o \in Saves /\ UNCHANGED <<file, loaded>>
    BY <1>2 DEF Save
  <2>2. file # None /\ Generated(file) /\ data[p][Secrets] = file[Secrets]
    BY <1>0, <2>1 DEF KeysLoaded
  <2>3. Refreshed(p) \in Settings /\ Refreshed(p)[Secrets] = file[Secrets]
    BY <1>0, <2>2 DEF Refreshed, TypeOK
  <2>4. With(Refreshed(p), o)[Secrets] = file[Secrets]
    BY <1>0, <2>1, <2>3, OtherSections
  <2>5. /\ data' = [data EXCEPT ![p] = With(Refreshed(p), o)]
        /\ snapshot' = [snapshot EXCEPT ![o] = With(Refreshed(p), o)]
        /\ phase' = [phase EXCEPT ![o] = "queued"]
    BY <1>2 DEF Save, Goto
  <2>6. KeysLoaded'
    BY <1>0, <2>1, <2>2, <2>4, <2>5 DEF KeysLoaded, Generated, TypeOK
  <2>7. \A u \in Operations : ~Over(u) /\ ProcessOf[u] = p => u \notin Loads
    BY <1>0, <2>1 DEF LoadedFirst
  <2>8. KeysWritten'
    BY <1>0, <2>1, <2>2, <2>4, <2>5, <2>7 DEF KeysWritten, Generated, TypeOK, Over
  <2> QED
    BY <1>0, <2>1, <2>2, <2>6, <2>8 DEF SecretInv, FileFirst, KeysInFile, Generated
<1>3. CASE CreateFile(o)
  <2>1. /\ o \in Loads /\ file = None /\ UNCHANGED <<data, loaded, phase, snapshot>>
        /\ file' = data[ProcessOf[o]]
    BY <1>3 DEF CreateFile
  <2>2. file' = Defaults
    BY <1>0, <2>1 DEF FileFirst
  <2>3. file' \in Settings
    BY <1>0, <2>1 DEF TypeOK
  <2>4. file' # None /\ file'[Secrets] = {}
    BY <1>0, <2>2, <2>3, NoneAssumption DEF Defaults
  <2> QED
    BY <1>0, <2>1, <2>4
       DEF SecretInv, FileFirst, KeysInFile, KeysLoaded, KeysWritten
<1>4. CASE Load(o)
  <2> DEFINE p == ProcessOf[o]
             read == IF file[Secrets] = {} THEN With(file, o) ELSE file
  <2>1. /\ o \in Loads /\ file # None /\ UNCHANGED <<file, loaded>>
        /\ data' = [data EXCEPT ![p] = read]
        /\ snapshot' = [snapshot EXCEPT ![o] = read]
        /\ phase' = [phase EXCEPT ![o] = IF read = file THEN "written" ELSE "writing"]
        /\ phase[o] = "locked"
    BY <1>4 DEF Load, Goto
  <2>2. file \in Settings /\ SectionOf[o] = Secrets
    BY <1>0, <2>1, StoreAssumption DEF TypeOK
  <2>3. file[Secrets] = {} => With(file, o)[Secrets] = {o}
    BY <2>2, WithSettings
  <2>4. read # file => file[Secrets] = {} /\ read = With(file, o)
    OBVIOUS
  <2>5. read = file => Generated(file)
    BY <1>0, <2>1, <2>3 DEF KeysInFile
  <2>6. ~loaded[p] /\ \A u \in Operations : u # o /\ ProcessOf[u] = p => Over(u)
    BY <1>0, <2>1 DEF LoadedFirst, Over
  <2>7. KeysLoaded'
    BY <1>0, <2>1, <2>6 DEF KeysLoaded, Generated, TypeOK
  <2>8. KeysWritten'
    BY <1>0, <2>1, <2>4, <2>5, <2>6 DEF KeysWritten, Generated, TypeOK, Over
  <2> QED
    BY <1>0, <2>1, <2>7, <2>8 DEF SecretInv, FileFirst, KeysInFile, Generated
<1>5. CASE Rebase(o)
  <2> DEFINE p == ProcessOf[o]
  <2>1. /\ o \in Changes /\ o \notin Loads /\ phase[o] = "locked"
        /\ UNCHANGED <<file, loaded>>
        /\ data' = [data EXCEPT ![p] = With(Persisted(p), o)]
        /\ snapshot' = [snapshot EXCEPT ![o] = With(Persisted(p), o)]
        /\ phase' = [phase EXCEPT ![o] = "writing"]
    BY <1>0, <1>5 DEF Rebase, Goto
  <2>2. loaded[p] /\ \A u \in Operations : ~Over(u) /\ ProcessOf[u] = p => u \notin Loads
    BY <1>0, <2>1 DEF LoadedFirst, Over
  <2>3. file # None /\ Generated(file)
    BY <1>0, <2>2 DEF KeysLoaded
  <2>4. Persisted(p) \in Settings /\ Persisted(p)[Secrets] = file[Secrets]
    BY <1>0, <2>3 DEF Persisted, TypeOK
  <2>5. With(Persisted(p), o)[Secrets] = file[Secrets]
    BY <2>1, <2>4, OtherSections
  <2>6. KeysLoaded'
    BY <1>0, <2>1, <2>3, <2>5 DEF KeysLoaded, Generated, TypeOK
  <2>7. KeysWritten'
    BY <1>0, <2>1, <2>2, <2>3, <2>5 DEF KeysWritten, Generated, TypeOK, Over
  <2> QED
    BY <1>0, <2>1, <2>3, <2>6, <2>7 DEF SecretInv, FileFirst, KeysInFile, Generated
<1>6. CASE Write(o)
  <2>1. /\ phase[o] = "writing" /\ UNCHANGED <<data, loaded, snapshot>>
        /\ file' = snapshot[o] /\ file' \in Settings /\ file' # None
        /\ phase' = [phase EXCEPT ![o] = "written"]
    BY <1>0, <1>6, NoneAssumption DEF Write, Goto, TypeOK
  <2>2. \A u \in Operations : u # o => phase[u] \notin {"writing", "written"}
    BY <1>0, <2>1 DEF LockKept, Holding
  <2>3. CASE o \in Loads
    <3>1. /\ file # None /\ file[Secrets] = {} /\ file' = With(file, o)
          /\ data[ProcessOf[o]] = file'
      BY <1>0, <2>1, <2>3 DEF KeysWritten
    <3>2. file'[Secrets] = {o}
      BY <1>0, <2>3, <3>1, WithSettings, StoreAssumption DEF TypeOK
    <3>3. \A p \in Processes : ~loaded[p]
      BY <1>0, <3>1 DEF KeysLoaded, Generated
    <3>4. \A u \in Operations : ~Over(u) => u \in Loads
      BY <1>0, <3>3, Kinds DEF LoadedFirst
    <3>5. KeysWritten'
      BY <1>0, <2>1, <2>2, <2>3, <3>1, <3>2, <3>4 DEF KeysWritten, Generated, TypeOK, Over
    <3> QED
      BY <1>0, <2>1, <2>3, <3>2, <3>3, <3>5
         DEF SecretInv, FileFirst, KeysInFile, KeysLoaded, Generated
  <2>4. CASE o \notin Loads
    <3>1. file # None /\ file'[Secrets] = file[Secrets]
      BY <1>0, <2>1, <2>4 DEF KeysWritten, Operations
    <3>2. KeysWritten'
      BY <1>0, <2>1, <2>2, <2>4, <3>1 DEF KeysWritten, Generated, TypeOK
    <3> QED
      BY <1>0, <2>1, <2>4, <3>1, <3>2
         DEF SecretInv, FileFirst, KeysInFile, KeysLoaded, Generated
  <2> QED
    BY <2>3, <2>4
<1>7. CASE WriteFails(o)
  <2>1. /\ phase[o] = "writing" /\ UNCHANGED <<file, loaded, snapshot>>
        /\ phase' = [phase EXCEPT ![o] = "undone"] /\ data' = Undo(o)
    BY <1>7 DEF WriteFails, Goto
  <2>2. file # None
    BY <1>0, <2>1 DEF KeysWritten, Operations
  <2>3. \A p \in Processes : Undo(o)[p][Secrets] = data[p][Secrets]
    BY <1>0, StoreAssumption DEF Undo, TypeOK, Settings
  <2>4. \A u \in Operations : u # o => phase[u] \notin {"writing", "written"}
    BY <1>0, <2>1 DEF LockKept, Holding
  <2>5. KeysWritten'
    BY <1>0, <2>1, <2>2, <2>4 DEF KeysWritten, Generated, TypeOK
  <2> QED
    BY <1>0, <2>1, <2>2, <2>3, <2>5
       DEF SecretInv, FileFirst, KeysInFile, KeysLoaded, Generated
<1>8. CASE Unlock(o)
  <2>1. /\ UNCHANGED <<file, data, snapshot>>
        /\ loaded' = [loaded EXCEPT ![ProcessOf[o]] = @ \/ phase[o] = "written"]
        /\ \E f \in {"saved", "failed"} : phase' = [phase EXCEPT ![o] = f]
        /\ phase[o] \in {"written", "undone"}
    BY <1>8 DEF Unlock, Goto
  <2>2. CASE o \in Loads /\ phase[o] = "written"
    <3>1. file # None /\ Generated(file) /\ data[ProcessOf[o]][Secrets] = file[Secrets]
      BY <1>0, <2>2 DEF KeysWritten
    <3>2. KeysLoaded'
      BY <1>0, <2>1, <3>1 DEF KeysLoaded, Generated, TypeOK
    <3>3. KeysWritten'
      BY <1>0, <2>1, <2>2 DEF KeysWritten, Generated, TypeOK
    <3> QED
      BY <1>0, <2>1, <3>2, <3>3 DEF SecretInv, FileFirst, KeysInFile, Generated
  <2>3. CASE ~(o \in Loads /\ phase[o] = "written")
    <3>1. loaded' = loaded
      BY <1>0, <2>1, <2>3 DEF LoadedFirst, Over, TypeOK
    <3>2. KeysWritten'
      BY <1>0, <2>1, <2>3 DEF KeysWritten, Generated, TypeOK
    <3> QED
      BY <1>0, <2>1, <3>1, <3>2 DEF SecretInv, FileFirst, KeysInFile, KeysLoaded, Generated
  <2> QED
    BY <2>2, <2>3
<1> QED
  BY <1>1, <1>2, <1>3, <1>4, <1>5, <1>6, <1>7, <1>8 DEF Step

LEMMA ProcessSecrets ==
  ASSUME SecretInv, NEW p \in Processes, Refresh(p) \/ Crash(p), WriterInv'
  PROVE  SecretInv'
<1>0. /\ TypeOK /\ LockKept /\ LoadedFirst
      /\ FileFirst /\ KeysInFile /\ KeysLoaded /\ KeysWritten
  BY DEF SecretInv, WriterInv
<1>1. CASE Refresh(p)
  <2>1. /\ loaded[p] /\ data' = [data EXCEPT ![p] = Refreshed(p)]
        /\ UNCHANGED <<file, loaded, phase, snapshot>>
    BY <1>1 DEF Refresh
  <2>2. file # None /\ Generated(file) /\ Refreshed(p)[Secrets] = file[Secrets]
    BY <1>0, <2>1 DEF KeysLoaded, Refreshed
  <2>3. KeysLoaded'
    BY <1>0, <2>1, <2>2 DEF KeysLoaded, Generated, TypeOK
  <2>4. \A u \in Operations : ~Over(u) /\ ProcessOf[u] = p => u \notin Loads
    BY <1>0, <2>1 DEF LoadedFirst
  <2>5. KeysWritten'
    BY <1>0, <2>1, <2>4, Kinds DEF KeysWritten, Generated, TypeOK, Over
  <2> QED
    BY <1>0, <2>1, <2>2, <2>3, <2>5 DEF SecretInv, FileFirst, KeysInFile, Generated
<1>2. CASE Crash(p)
  <2>1. /\ data' = [data EXCEPT ![p] = Defaults]
        /\ loaded' = [loaded EXCEPT ![p] = FALSE]
        /\ UNCHANGED <<file, snapshot>>
    BY <1>2 DEF Crash
  <2>2. \A u \in Operations :
          /\ phase'[u] = phase[u] \/ phase'[u] = "gone"
          /\ ProcessOf[u] = p => Over(u)'
    BY <1>2 DEF Crash, Over
  <2>3. KeysLoaded'
    BY <1>0, <2>1 DEF KeysLoaded, Generated, TypeOK
  <2>4. KeysWritten'
    BY <1>0, <2>1, <2>2, Kinds DEF KeysWritten, Generated, TypeOK, Over
  <2>5. FileFirst'
    BY <1>0, <2>1 DEF FileFirst
  <2> QED
    BY <1>0, <2>1, <2>3, <2>4, <2>5 DEF SecretInv, KeysInFile, Generated
<1> QED
  BY <1>1, <1>2

LEMMA NextSecrets == SecretInv /\ [Next]_vars => SecretInv'
<1> SUFFICES ASSUME SecretInv, [Next]_vars PROVE SecretInv'
  OBVIOUS
<1>1. WriterInv'
  BY NextWriters DEF SecretInv
<1>2. CASE UNCHANGED vars
  BY <1>1, <1>2
     DEF SecretInv, FileFirst, KeysInFile, KeysLoaded, KeysWritten, Generated, vars
<1>3. CASE Next
  BY <1>1, <1>3, StepSecrets, ProcessSecrets DEF Next
<1> QED
  BY <1>2, <1>3

(* A process that is up has the keys of the file, which one start generated, *)
(* however many processes start together, crash or fail to write.           *)
THEOREM SecretsShared == Spec => []SharedSecrets
<1>1. SecretInv => SharedSecrets
  BY DEF SecretInv, KeysLoaded, Generated, SharedSecrets
<1> QED
  BY SecretInit, NextSecrets, <1>1, PTL DEF Spec

-----------------------------------------------------------------------------
(* Changes *)

Untouched == \A o \in Saves : phase[o] = "idle"

(* The file has the changes written to it, and no other.                    *)
ChangesIn ==
  \A o \in Changes :
    /\ phase[o] \in {"written", "saved"} => InFile(o)
    /\ phase[o] \notin {"written", "saved", "gone"} => ~InFile(o)

(* What a change is about to write is the file with that change.            *)
Rebased == \A o \in Changes : phase[o] = "writing" => snapshot[o] = With(file, o)

(* The memory of a process that read the file last written is that file, or *)
(* the file with the change that the process is writing.                    *)
Backed(p) ==
  \/ data[p] = file
  \/ \E o \in Changes :
       ProcessOf[o] = p /\ phase[o] = "writing" /\ data[p] = With(file, o)

MemoryKept ==
  \A p \in Processes : fresh[p] => loaded[p] /\ Backed(p)

ChangeInv == SecretInv /\ (Untouched => ChangesIn /\ Rebased /\ MemoryKept)

LEMMA ChangeInit == Init => ChangeInv
BY SecretInit DEF Init, ChangeInv, ChangesIn, Rebased, MemoryKept, InFile, Operations

LEMMA WithMember ==
  ASSUME NEW o \in Operations, NEW u \in Operations, NEW s \in Settings
  PROVE  u \in With(s, o)[SectionOf[u]] <=> u = o \/ u \in s[SectionOf[u]]
<1>1. SectionOf[u] \in Sections /\ SectionOf[o] \in Sections
  BY Kinds
<1>2. CASE SectionOf[u] = SectionOf[o]
  BY <1>2, WithSettings
<1>3. CASE SectionOf[u] # SectionOf[o]
  BY <1>1, <1>3, WithSettings
<1> QED
  BY <1>2, <1>3

(* Taking a change back that was applied to the file gives the file.        *)
LEMMA UndoneChange ==
  ASSUME TypeOK, file # None, NEW o \in Changes, o \notin file[SectionOf[o]],
         snapshot[o] = With(file, o), NEW s \in Settings, s = file \/ s = With(file, o)
  PROVE  [s EXCEPT ![SectionOf[o]] = snapshot[o][SectionOf[o]] \ {o}] = file
<1>1. o \in Operations /\ SectionOf[o] \in Sections /\ file \in Settings
  BY Kinds DEF Operations, TypeOK
<1>2. snapshot[o][SectionOf[o]] \ {o} = file[SectionOf[o]]
  BY <1>1, WithSettings
<1>3. \A e \in Sections : e # SectionOf[o] => s[e] = file[e]
  BY <1>1, WithSettings
<1> QED
  BY <1>1, <1>2, <1>3 DEF Settings

LEMMA StepChanges ==
  ASSUME ChangeInv, NEW o \in Operations, Step(o), SecretInv', Untouched'
  PROVE  ChangesIn' /\ Rebased' /\ MemoryKept'
<1>0. /\ TypeOK /\ LockKept /\ LoadedFirst
      /\ FileFirst /\ KeysLoaded /\ KeysWritten
      /\ ProcessOf[o] \in Processes
      /\ Changes \subseteq Operations
      /\ Loads \cap Changes = {} /\ Loads \cap Saves = {} /\ Changes \cap Saves = {}
  BY Kinds, StoreAssumption DEF ChangeInv, SecretInv, WriterInv, Operations
<1>1. phase' = [phase EXCEPT ![o] = phase'[o]]
  BY <1>0 DEF Step, Start, Change, Save, Enter, Locked, TimeOut, CreateFile, Load,
              Rebase, ReadFails, Write, WriteFails, Unlock, Goto, TypeOK
<1>2. o \notin Saves
  <2>1. ASSUME o \in Saves PROVE phase'[o] # "idle"
    BY <1>0, <2>1 DEF Step, Start, Change, Save, Enter, Locked, TimeOut, CreateFile,
          Load, Rebase, ReadFails, Write, WriteFails, Unlock, Goto, TypeOK
  <2> QED
    BY <2>1 DEF Untouched
<1>3. Untouched
  BY <1>0, <1>1, <1>2 DEF Untouched, Operations, TypeOK
<1>4. ChangesIn /\ Rebased /\ MemoryKept
  BY <1>3 DEF ChangeInv
<1>5. CASE Start(o) \/ Change(o) \/ Enter(o) \/ Locked(o) \/ TimeOut(o) \/ ReadFails(o)
  <2>1. /\ UNCHANGED <<file, data, loaded, fresh, snapshot>>
        /\ phase[o] \notin {"writing", "written", "saved", "gone"}
        /\ phase'[o] \notin {"writing", "written", "saved", "gone"}
    BY <1>0, <1>2, <1>5
       DEF Start, Change, Enter, Locked, TimeOut, ReadFails, Goto, TypeOK
  <2>2. ChangesIn' /\ Rebased'
    BY <1>0, <1>1, <1>4, <2>1 DEF ChangesIn, Rebased, InFile, TypeOK
  <2>3. MemoryKept'
    BY <1>0, <1>1, <1>4, <2>1 DEF MemoryKept, Backed, TypeOK
  <2> QED
    BY <2>2, <2>3
<1>6. CASE Save(o)
  BY <1>2, <1>6 DEF Save
<1>7. CASE CreateFile(o)
  <2>1. /\ file = None /\ file' = Defaults /\ UNCHANGED <<phase, snapshot>>
        /\ fresh' = [p \in Processes |-> FALSE]
    BY <1>0, <1>7 DEF CreateFile, FileFirst
  <2>2. ChangesIn'
    BY <1>0, <1>4, <2>1, Kinds DEF ChangesIn, InFile, Defaults
  <2>3. Rebased'
    BY <1>0, <2>1 DEF Rebased, KeysWritten
  <2> QED
    BY <2>1, <2>2, <2>3 DEF MemoryKept
<1>8. CASE Load(o)
  <2>1. /\ o \in Loads /\ o \notin Changes /\ ~loaded[ProcessOf[o]]
        /\ UNCHANGED <<file, loaded, fresh>>
        /\ \A u \in Operations : u # o => snapshot'[u] = snapshot[u]
        /\ \A p \in Processes : p # ProcessOf[o] => data'[p] = data[p]
    BY <1>0, <1>8 DEF Load, LoadedFirst, Over, TypeOK
  <2>2. ChangesIn' /\ Rebased'
    BY <1>0, <1>1, <1>4, <2>1 DEF ChangesIn, Rebased, InFile, TypeOK
  <2>3. MemoryKept'
    BY <1>0, <1>1, <1>4, <2>1 DEF MemoryKept, Backed, TypeOK
  <2> QED
    BY <2>2, <2>3
<1>9. CASE Rebase(o)
  <2>1. /\ o \in Changes /\ phase[o] = "locked" /\ phase'[o] = "writing"
        /\ UNCHANGED <<file, loaded, fresh>>
        /\ \A u \in Operations : u # o => snapshot'[u] = snapshot[u]
        /\ \A p \in Processes : p # ProcessOf[o] => data'[p] = data[p]
        /\ loaded[ProcessOf[o]]
    BY <1>0, <1>9 DEF Rebase, Goto, LoadedFirst, Over, TypeOK
  <2>2. file # None
    BY <1>0, <2>1 DEF KeysLoaded
  <2>3. snapshot'[o] = With(file, o) /\ data'[ProcessOf[o]] = With(file, o)
    BY <1>0, <1>9, <2>2 DEF Rebase, Persisted, TypeOK
  <2>4. ChangesIn' /\ Rebased'
    BY <1>0, <1>1, <1>4, <2>1, <2>3 DEF ChangesIn, Rebased, InFile, TypeOK
  <2>5. ASSUME NEW p \in Processes, fresh'[p] PROVE loaded'[p] /\ Backed(p)'
    <3>1. fresh[p] /\ loaded[p] /\ Backed(p)
      BY <1>4, <2>1, <2>5 DEF MemoryKept
    <3>2. CASE p = ProcessOf[o]
      BY <2>1, <2>3, <3>1, <3>2 DEF Backed
    <3>3. CASE p # ProcessOf[o]
      BY <1>0, <1>1, <2>1, <3>1, <3>3 DEF Backed, TypeOK
    <3> QED
      BY <3>2, <3>3
  <2> QED
    BY <2>4, <2>5 DEF MemoryKept
<1>10. CASE Write(o)
  <2>1. /\ phase[o] = "writing" /\ phase'[o] = "written" /\ UNCHANGED snapshot
        /\ file' = snapshot[o] /\ fresh' = [p \in Processes |-> FALSE]
    BY <1>0, <1>10 DEF Write, Goto, TypeOK
  <2>2. o \in Loads \/ o \in Changes
    BY <1>2 DEF Operations
  <2>3. file # None /\ file' = With(file, o)
    BY <1>0, <1>4, <2>1, <2>2 DEF KeysWritten, Rebased
  <2>4. file \in Settings /\ file' \in Settings /\ file' # None
    BY <1>0, <2>3, WithSettings, NoneAssumption DEF TypeOK
  <2>5. \A u \in Changes : InFile(u)' <=> u = o \/ InFile(u)
    BY <1>0, <2>3, <2>4, WithMember DEF InFile
  <2>6. \A u \in Operations : u # o => phase[u] \notin {"writing", "written"}
    BY <1>0, <2>1 DEF LockKept, Holding
  <2>7. ChangesIn'
    BY <1>0, <1>1, <1>4, <2>1, <2>5 DEF ChangesIn, TypeOK
  <2>8. Rebased'
    BY <1>0, <1>1, <2>1, <2>6 DEF Rebased, TypeOK
  <2> QED
    BY <2>1, <2>7, <2>8 DEF MemoryKept
<1>11. CASE WriteFails(o)
  <2>1. /\ phase[o] = "writing" /\ phase'[o] = "undone" /\ data' = Undo(o)
        /\ UNCHANGED <<file, loaded, fresh, snapshot>>
    BY <1>0, <1>11 DEF WriteFails, Goto, TypeOK
  <2>2. ChangesIn' /\ Rebased'
    BY <1>0, <1>1, <1>4, <2>1 DEF ChangesIn, Rebased, InFile, TypeOK
  <2>3. \A u \in Operations : u # o => phase[u] # "writing"
    BY <1>0, <2>1 DEF LockKept, Holding
  <2>4. CASE o \in Loads
    <3>1. data' = data /\ ~loaded[ProcessOf[o]]
      BY <1>0, <2>1, <2>4 DEF Undo, LoadedFirst, Over
    <3> QED
      BY <1>0, <1>1, <1>4, <2>1, <2>2, <2>3, <2>4, <3>1 DEF MemoryKept, Backed, TypeOK
  <2>5. CASE o \in Changes
    <3>1. file # None /\ snapshot[o] = With(file, o) /\ o \notin file[SectionOf[o]]
      BY <1>0, <1>4, <2>1, <2>5 DEF KeysWritten, Rebased, ChangesIn, InFile
    <3>2. ASSUME NEW p \in Processes, fresh'[p] PROVE loaded'[p] /\ Backed(p)'
      <4>1. fresh[p] /\ loaded[p] /\ Backed(p) /\ data[p] \in Settings
        BY <1>0, <1>4, <2>1, <3>2 DEF MemoryKept, TypeOK
      <4>2. CASE p = ProcessOf[o]
        <5>1. data[p] = file \/ data[p] = With(file, o)
          BY <1>0, <2>3, <4>1 DEF Backed
        <5>2. data'[p] = [data[p] EXCEPT ![SectionOf[o]] = snapshot[o][SectionOf[o]] \ {o}]
          BY <1>0, <2>1, <2>5, <4>2 DEF Undo, TypeOK
        <5>3. data'[p] = file
          BY <1>0, <2>5, <3>1, <4>1, <5>1, <5>2, UndoneChange
        <5> QED
          BY <2>1, <4>1, <5>3 DEF Backed
      <4>3. CASE p # ProcessOf[o]
        <5>1. data'[p] = data[p]
          BY <1>0, <2>1, <2>5, <4>3 DEF Undo, TypeOK
        <5>2. data[p] = file
          BY <1>0, <2>3, <4>1, <4>3 DEF Backed
        <5> QED
          BY <2>1, <4>1, <5>1, <5>2 DEF Backed
      <4> QED
        BY <4>2, <4>3
    <3> QED
      BY <2>2, <3>2 DEF MemoryKept
  <2> QED
    BY <1>2, <2>4, <2>5 DEF Operations
<1>12. CASE Unlock(o)
  <2>1. /\ UNCHANGED <<file, data, fresh, snapshot>>
        /\ loaded' = [loaded EXCEPT ![ProcessOf[o]] = @ \/ phase[o] = "written"]
        /\ \/ phase[o] = "written" /\ phase'[o] = "saved"
           \/ phase[o] = "undone" /\ phase'[o] = "failed"
    BY <1>0, <1>12 DEF Unlock, Goto, TypeOK
  <2>2. ChangesIn' /\ Rebased'
    BY <1>0, <1>1, <1>4, <2>1 DEF ChangesIn, Rebased, InFile, TypeOK
  <2>3. \A p \in Processes : loaded[p] => loaded'[p]
    BY <1>0, <2>1 DEF TypeOK
  <2>4. MemoryKept'
    BY <1>0, <1>1, <1>4, <2>1, <2>3 DEF MemoryKept, Backed, TypeOK
  <2> QED
    BY <2>2, <2>4
<1> QED
  BY <1>5, <1>6, <1>7, <1>8, <1>9, <1>10, <1>11, <1>12 DEF Step

LEMMA ProcessChanges ==
  ASSUME ChangeInv, NEW p \in Processes, Refresh(p) \/ Crash(p), SecretInv', Untouched'
  PROVE  ChangesIn' /\ Rebased' /\ MemoryKept'
<1>0. /\ TypeOK /\ KeysLoaded /\ LockKept
      /\ Changes \subseteq Operations /\ Saves \subseteq Operations
  BY DEF ChangeInv, SecretInv, WriterInv, Operations
<1>1. CASE Refresh(p)
  <2>1. /\ loaded[p] /\ UNCHANGED <<file, loaded, phase, snapshot>>
        /\ fresh' = [fresh EXCEPT ![p] = TRUE]
        /\ data' = [data EXCEPT ![p] = Refreshed(p)]
    BY <1>1 DEF Refresh
  <2>2. ChangesIn /\ Rebased /\ MemoryKept
    BY <2>1 DEF ChangeInv, Untouched
  <2>3. Refreshed(p) = file
    BY <1>0, <1>1, <2>1 DEF Refresh, Refreshed, KeysLoaded
  <2>4. ChangesIn' /\ Rebased'
    BY <2>1, <2>2 DEF ChangesIn, Rebased, InFile
  <2>5. MemoryKept'
    BY <1>0, <2>1, <2>2, <2>3 DEF MemoryKept, Backed, TypeOK
  <2> QED
    BY <2>4, <2>5
<1>2. CASE Crash(p)
  <2>1. /\ UNCHANGED <<file, snapshot>>
        /\ loaded' = [loaded EXCEPT ![p] = FALSE]
        /\ fresh' = [fresh EXCEPT ![p] = FALSE]
        /\ data' = [data EXCEPT ![p] = Defaults]
        /\ \A u \in Operations : 
             phase'[u] = phase[u] \/ (ProcessOf[u] = p /\ phase'[u] = "gone")
    BY <1>2 DEF Crash
  <2>2. ChangesIn /\ Rebased /\ MemoryKept
    BY <1>0, <2>1 DEF ChangeInv, Untouched
  <2>3. ChangesIn' /\ Rebased'
    BY <1>0, <2>1, <2>2 DEF ChangesIn, Rebased, InFile
  <2>4. MemoryKept'
    BY <1>0, <2>1, <2>2 DEF MemoryKept, Backed, TypeOK
  <2> QED
    BY <2>3, <2>4
<1> QED
  BY <1>1, <1>2

LEMMA NextChanges == ChangeInv /\ [Next]_vars => ChangeInv'
<1> SUFFICES ASSUME ChangeInv, [Next]_vars PROVE ChangeInv'
  OBVIOUS
<1>1. SecretInv'
  BY NextSecrets DEF ChangeInv
<1>2. CASE UNCHANGED vars
  BY <1>1, <1>2
     DEF ChangeInv, Untouched, ChangesIn, Rebased, MemoryKept, Backed, InFile, vars
<1>3. CASE Next
  BY <1>1, <1>3, StepChanges, ProcessChanges DEF Next, ChangeInv
<1> QED
  BY <1>2, <1>3

(* Until somebody calls save(), a change that was answered stays in the     *)
(* file, whichever processes change it, and a refused one never enters it.  *)
THEOREM ChangesStay == Spec => []ChangesKeptUnsaved
<1>1. ChangeInv => ChangesKeptUnsaved
  BY DEF ChangeInv, Untouched, ChangesIn, ChangesKept, ChangesKeptUnsaved
<1> QED
  BY ChangeInit, NextChanges, <1>1, PTL DEF Spec

(* Until then no process serves settings that are not in the file it read.  *)
THEOREM MemoryStays == Spec => []MemoryBackedUnsaved
<1>1. ChangeInv => MemoryBackedUnsaved
  <2> SUFFICES ASSUME ChangeInv, Untouched, NEW p \in Processes, fresh[p], ~Persisting(p)
               PROVE  data[p] = file
    BY DEF MemoryBackedUnsaved, MemoryBacked, Untouched
  <2>1. Backed(p)
    BY DEF ChangeInv, MemoryKept
  <2> QED
    BY <2>1 DEF Backed, Persisting, Operations
<1> QED
  BY ChangeInit, NextChanges, <1>1, PTL DEF Spec
=============================================================================
