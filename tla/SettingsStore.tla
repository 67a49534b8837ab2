----------------------------- MODULE SettingsStore -----------------------------
(***************************************************************************)
(* The settings that every server process keeps in memory and all of them  *)
(* share in settings.json.                                                 *)
(*                                                                         *)
(* There are three ways to the file.  load() reads it when a process       *)
(* starts, and writes the secrets that are missing.  persistSection() and  *)
(* persistChanges() read the file again under its lock, apply a change to  *)
(* what they read and write the result.  save() writes a snapshot of the   *)
(* memory taken when it is called.  getSettings() reads the file again     *)
(* when it is not the one read last and no operation of the process is     *)
(* about to write it.                                                      *)
(*                                                                         *)
(* The value of a section is the set of operations whose change it holds,  *)
(* so that a lost change is one that is missing.  The lock of the file is  *)
(* the one that SettingsFileLock implements.                               *)
(***************************************************************************)
EXTENDS Naturals

CONSTANTS
  Processes,   \* server processes sharing the file
  Loads,       \* starts of a process
  Changes,     \* calls of persistSection() and persistChanges()
  Saves,       \* handlers that change the memory and call save()
  ProcessOf,   \* the process that each of these runs in
  Sections,    \* sections of the settings
  Secrets,     \* the section of the keys generated at the first start
  SectionOf,   \* the section each operation changes
  MaxFaults,   \* bound on failed writes, lock timeouts and crashes
  None         \* no file, nobody

Operations == Loads \cup Changes \cup Saves

ASSUME StoreAssumption ==
  /\ ProcessOf \in [Operations -> Processes]
  /\ SectionOf \in [Operations -> Sections] /\ Secrets \in Sections
  /\ \A o \in Operations : SectionOf[o] = Secrets <=> o \in Loads
  /\ Loads \cap Changes = {} /\ Loads \cap Saves = {} /\ Changes \cap Saves = {}
  /\ MaxFaults \in Nat
  /\ None \notin Operations

VARIABLES
  file,      \* settings.json
  data,      \* the memory of each process
  loaded,    \* loadedFromDisk
  fresh,     \* persistedFileStamp is the stamp of the file
  phase,     \* what each operation is doing
  snapshot,  \* what it writes
  after,     \* the earlier saves that each save is chained to
  holders,   \* those that hold the lock of the file
  faults     \* faults so far

vars == <<file, data, loaded, fresh, phase, snapshot, after, holders, faults>>

-----------------------------------------------------------------------------

Settings == [Sections -> SUBSET Operations]

Defaults == [s \in Sections |-> {}]

ASSUME NoneAssumption == None \notin Settings

Phases == {"idle", "queued", "locking", "locked", "writing", "written",
           "undone", "saved", "failed", "gone"}

TypeOK ==
  /\ file \in Settings \cup {None}
  /\ data \in [Processes -> Settings]
  /\ loaded \in [Processes -> BOOLEAN]
  /\ fresh \in [Processes -> BOOLEAN]
  /\ phase \in [Operations -> Phases]
  /\ snapshot \in [Operations -> Settings]
  /\ after \in [Saves -> SUBSET Saves]
  /\ holders \in SUBSET Operations
  /\ faults \in 0..MaxFaults

Init ==
  /\ file = None
  /\ data = [p \in Processes |-> Defaults]
  /\ loaded = [p \in Processes |-> FALSE]
  /\ fresh = [p \in Processes |-> FALSE]
  /\ phase = [o \in Operations |-> "idle"]
  /\ snapshot = [o \in Operations |-> Defaults]
  /\ after = [o \in Saves |-> {}]
  /\ holders = {}
  /\ faults = 0

(* Its lock is taken to exclude, also when a process has died.             *)
Lock == INSTANCE FileLock WITH faulted <- FALSE

-----------------------------------------------------------------------------

Goto(o, to) == phase' = [phase EXCEPT ![o] = to]

Over(o) == phase[o] \in {"idle", "saved", "failed", "gone"}

(* persistenceOperations > 0 *)
Persisting(p) ==
  \E o \in Operations :
    ProcessOf[o] = p /\ phase[o] \in {"locking", "locked", "writing", "written", "undone"}

With(settings, o) == [settings EXCEPT ![SectionOf[o]] = @ \cup {o}]

(* refreshIfChangedSync() *)
Refreshed(p) == IF Persisting(p) \/ fresh[p] \/ file = None THEN data[p] ELSE file

Refresh(p) ==
  /\ loaded[p] /\ ~Persisting(p) /\ ~fresh[p]
  /\ data' = [data EXCEPT ![p] = Refreshed(p)]
  /\ fresh' = [fresh EXCEPT ![p] = TRUE]
  /\ UNCHANGED <<file, loaded, phase, snapshot, after, holders, faults>>

-----------------------------------------------------------------------------
(* Starting an operation *)

(* A process starts, and nothing else of it runs until it has loaded. *)
Start(o) ==
  /\ o \in Loads /\ phase[o] = "idle" /\ ~loaded[ProcessOf[o]]
  /\ \A u \in Operations : ProcessOf[u] = ProcessOf[o] => Over(u)
  /\ Goto(o, "locking")
  /\ UNCHANGED <<file, data, loaded, fresh, snapshot, after, holders, faults>>

Change(o) ==
  /\ o \in Changes /\ phase[o] = "idle" /\ loaded[ProcessOf[o]]
  /\ Goto(o, "queued")
  /\ UNCHANGED <<file, data, loaded, fresh, snapshot, after, holders, faults>>

(* getSettings(), the change and the call of save(), without an await. *)
Save(o) ==
  LET p == ProcessOf[o] IN
  /\ o \in Saves /\ phase[o] = "idle" /\ loaded[p]
  /\ data' = [data EXCEPT ![p] = With(Refreshed(p), o)]
  /\ fresh' = [fresh EXCEPT ![p] = @ \/ ~Persisting(p)]
  /\ snapshot' = [snapshot EXCEPT ![o] = With(Refreshed(p), o)]
  /\ after' = [after EXCEPT ![o] = {u \in Saves : ProcessOf[u] = p /\ ~Over(u)}]
  /\ Goto(o, "queued")
  /\ UNCHANGED <<file, loaded, holders, faults>>

(* settingsSaveLock admits one change of a process at a time, saveLock its  *)
(* saves in their order; neither waits for the other.                       *)
Enter(o) ==
  /\ phase[o] = "queued"
  /\ IF o \in Saves
     THEN \A u \in after[o] : Over(u)
     ELSE \A u \in Changes : ProcessOf[u] = ProcessOf[o] => Over(u) \/ phase[u] = "queued"
  /\ Goto(o, "locking")
  /\ UNCHANGED <<file, data, loaded, fresh, snapshot, after, holders, faults>>

Locked(o) ==
  /\ phase[o] = "locking"
  /\ Lock!Acquire(o)
  /\ Goto(o, IF o \in Saves THEN "writing" ELSE "locked")
  /\ UNCHANGED <<file, data, loaded, fresh, snapshot, after, faults>>

TimeOut(o) ==
  /\ phase[o] = "locking" /\ faults < MaxFaults
  /\ Goto(o, "failed")
  /\ faults' = faults + 1
  /\ UNCHANGED <<file, data, loaded, fresh, snapshot, after, holders>>

-----------------------------------------------------------------------------
(* Under the lock *)

(* A first start writes the defaults, and then the secrets. *)
CreateFile(o) ==
  /\ o \in Loads /\ phase[o] = "locked" /\ file = None
  /\ file' = data[ProcessOf[o]]
  /\ fresh' = [p \in Processes |-> FALSE]
  /\ UNCHANGED <<data, loaded, phase, snapshot, after, holders, faults>>

LoadMissing(o) ==  \* mutant: a missing file is not noticed
  /\ o \in Loads /\ phase[o] = "locked"
  /\ data' = [data EXCEPT ![ProcessOf[o]] = file]
  /\ Goto(o, "written")
  /\ UNCHANGED <<file, loaded, fresh, snapshot, after, holders, faults>>

LoadAnew(o) ==  \* mutant: keys are generated although the file has them
  /\ o \in Loads /\ phase[o] = "locked" /\ file # None
  /\ data' = [data EXCEPT ![ProcessOf[o]] = With(file, o)]
  /\ snapshot' = [snapshot EXCEPT ![o] = With(file, o)]
  /\ Goto(o, "writing")
  /\ UNCHANGED <<file, loaded, fresh, after, holders, faults>>

Load(o) ==
  LET read == IF file[Secrets] = {} THEN With(file, o) ELSE file IN
  /\ o \in Loads /\ phase[o] = "locked" /\ file # None
  /\ data' = [data EXCEPT ![ProcessOf[o]] = read]
  /\ snapshot' = [snapshot EXCEPT ![o] = read]
  /\ Goto(o, IF read = file THEN "written" ELSE "writing")
  /\ UNCHANGED <<file, loaded, fresh, after, holders, faults>>

RebaseNot(o) ==  \* mutant: the change is applied to the memory
  /\ o \in Changes /\ phase[o] = "locked"
  /\ data' = [data EXCEPT ![ProcessOf[o]] = With(@, o)]
  /\ snapshot' = [snapshot EXCEPT ![o] = With(data[ProcessOf[o]], o)]
  /\ Goto(o, "writing")
  /\ UNCHANGED <<file, loaded, fresh, after, holders, faults>>

(* refreshFromPersistedSettings() *)
Persisted(p) == IF file = None THEN data[p] ELSE file

(* The change is applied to what was read, and the result made JSON. *)
Rebase(o) ==
  LET changed == With(Persisted(ProcessOf[o]), o) IN
  /\ o \in Changes /\ phase[o] = "locked"
  /\ data' = [data EXCEPT ![ProcessOf[o]] = changed]
  /\ snapshot' = [snapshot EXCEPT ![o] = changed]
  /\ Goto(o, "writing")
  /\ UNCHANGED <<file, loaded, fresh, after, holders, faults>>

(* The temporary file is renamed. *)
Write(o) ==
  /\ phase[o] = "writing"
  /\ file' = snapshot[o]
  /\ fresh' = [p \in Processes |-> FALSE]
  /\ Goto(o, "written")
  /\ UNCHANGED <<data, loaded, snapshot, after, holders, faults>>

UndoNothing(o) == data  \* mutant: the candidate stays in memory

(* A change puts the previous section back into the memory. *)
Undo(o) ==
  IF o \in Changes
  THEN [data EXCEPT ![ProcessOf[o]][SectionOf[o]] = snapshot[o][SectionOf[o]] \ {o}]
  ELSE data

(* Also the write of the defaults. *)
ReadFails(o) ==
  /\ phase[o] = "locked" /\ faults < MaxFaults
  /\ Goto(o, "undone")
  /\ faults' = faults + 1
  /\ UNCHANGED <<file, data, loaded, fresh, snapshot, after, holders>>

WriteFails(o) ==
  /\ phase[o] = "writing" /\ faults < MaxFaults
  /\ data' = Undo(o)
  /\ Goto(o, "undone")
  /\ faults' = faults + 1
  /\ UNCHANGED <<file, loaded, fresh, snapshot, after, holders>>

Unlock(o) ==
  /\ phase[o] \in {"written", "undone"}
  /\ Lock!Release(o)
  /\ Goto(o, IF phase[o] = "written" THEN "saved" ELSE "failed")
  /\ loaded' = [loaded EXCEPT ![ProcessOf[o]] = @ \/ phase[o] = "written"]
  /\ UNCHANGED <<file, data, fresh, snapshot, after, faults>>

(* The lock of a dead process is recovered by the next operation. *)
Crash(p) ==
  LET dead == {o \in Operations : ProcessOf[o] = p /\ ~Over(o)} IN
  /\ faults < MaxFaults /\ (loaded[p] \/ dead # {})
  /\ faults' = faults + 1
  /\ data' = [data EXCEPT ![p] = Defaults]
  /\ loaded' = [loaded EXCEPT ![p] = FALSE]
  /\ fresh' = [fresh EXCEPT ![p] = FALSE]
  /\ phase' = [o \in Operations |-> IF o \in dead THEN "gone" ELSE phase[o]]
  /\ holders' = holders \ dead
  /\ UNCHANGED <<file, snapshot, after>>

-----------------------------------------------------------------------------

Step(o) ==
  \/ Start(o) \/ Change(o) \/ Save(o) \/ Enter(o) \/ Locked(o) \/ TimeOut(o)
  \/ CreateFile(o) \/ Load(o) \/ Rebase(o) \/ ReadFails(o)
  \/ Write(o) \/ WriteFails(o) \/ Unlock(o)

Next ==
  \/ \E o \in Operations : Step(o)
  \/ \E p \in Processes : Refresh(p) \/ Crash(p)

Spec == Init /\ [][Next]_vars

-----------------------------------------------------------------------------
(* Properties *)

(* Processes that start together end up with the same keys, and nobody      *)
(* replaces them.                                                           *)
SharedSecrets ==
  \A p \in Processes : loaded[p] =>
    /\ file # None /\ data[p][Secrets] = file[Secrets]
    /\ \E o \in Loads : file[Secrets] = {o}

InFile(o) == file # None /\ o \in file[SectionOf[o]]

(* A change that was answered is in the file, whatever other processes      *)
(* changed since, and one that was refused is not.                          *)
ChangesKept ==
  \A o \in Changes : (phase[o] = "saved" => InFile(o)) /\ (phase[o] = "failed" => ~InFile(o))

(* As long as nobody calls save(), which does not read the file again.      *)
ChangesKeptUnsaved == (\A o \in Saves : phase[o] = "idle") => ChangesKept

(* A process that has read the file last written and is not about to write  *)
(* has the settings of the file in its memory: no refused change lingers.   *)
MemoryBacked ==
  \A p \in Processes : loaded[p] /\ fresh[p] /\ ~Persisting(p) => data[p] = file

MemoryBackedUnsaved == (\A o \in Saves : phase[o] = "idle") => MemoryBacked
=============================================================================
