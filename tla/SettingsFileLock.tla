-------------------------- MODULE SettingsFileLock --------------------------
(***************************************************************************)
(* withSettingsFileLock(): the lock file beside settings.json that         *)
(* serializes the operations of all processes on the settings.             *)
(*                                                                         *)
(* An operation creates the lock file exclusively, then writes its host,   *)
(* process id and a token into it.  When the file exists already it looks  *)
(* who owns it: a process of the same host is asked for by its id, anyone  *)
(* else is taken for dead when the file has not been touched for a while.  *)
(* The lock of a dead owner is unlinked by its path, and the creation      *)
(* tried again.                                                            *)
(***************************************************************************)
EXTENDS Naturals

CONSTANTS
  Operations,   \* mutations and saves of the settings
  ProcessOf,    \* the process that each runs in
  Processes,
  Hosts,
  HostOf,       \* the host of each process, by its name
  Pids,
  PidOf,        \* the id each process starts with
  RestartPids,  \* the ids it may have after a restart
  MaxCrashes,   \* bound on crashes
  MaxStalls,    \* bound on late heartbeats
  None          \* nobody

ASSUME LockAssumption ==
  /\ ProcessOf \in [Operations -> Processes]
  /\ HostOf \in [Processes -> Hosts]
  /\ PidOf \in [Processes -> Pids]
  /\ RestartPids \subseteq Pids
  /\ MaxCrashes \in Nat /\ MaxStalls \in Nat
  /\ None \notin Operations

VARIABLES
  phase,   \* what each operation is doing
  old,     \* whether it saw a file untouched for a while
  lock,    \* the file at the lock's path
  pid,     \* the id of each process
  up,      \* whether it runs
  crashes, stalls  \* how many so far

vars == <<phase, old, lock, pid, up, crashes, stalls>>

-----------------------------------------------------------------------------

Phases == {"idle", "opening", "statting", "reading", "unlinking", "waiting",
           "writing", "inside", "closing", "removing"}

(* by stands for the token: nobody's when the operation died with its       *)
(* process.  stale: not touched within SETTINGS_LOCK_STALE_MS.              *)
File == [by : Operations \cup {None}, host : Hosts, pid : Pids,
         written : BOOLEAN, stale : BOOLEAN]

ASSUME NoneAssumption == None \notin File

TypeOK ==
  /\ phase \in [Operations -> Phases]
  /\ old \in [Operations -> BOOLEAN]
  /\ lock \in File \cup {None}
  /\ pid \in [Processes -> Pids]
  /\ up \in [Processes -> BOOLEAN]
  /\ crashes \in 0..MaxCrashes
  /\ stalls \in 0..MaxStalls

Init ==
  /\ phase = [o \in Operations |-> "idle"]
  /\ old = [o \in Operations |-> FALSE]
  /\ lock = None
  /\ pid = PidOf
  /\ up = [p \in Processes |-> TRUE]
  /\ crashes = 0 /\ stalls = 0

Host(o) == HostOf[ProcessOf[o]]

Goto(o, from, to) == phase[o] = from /\ phase' = [phase EXCEPT ![o] = to]

Owns(o) == lock # None /\ lock.by = o

-----------------------------------------------------------------------------
(* Taking the lock *)

Begin(o) ==
  /\ up[ProcessOf[o]]
  /\ Goto(o, "idle", "opening")
  /\ UNCHANGED <<old, lock, pid, up, crashes, stalls>>

OpenUnstamped(o) ==  \* mutant: the file carries no time
  /\ lock = None
  /\ Goto(o, "opening", "writing")
  /\ lock' = [by |-> o, host |-> Host(o), pid |-> pid[ProcessOf[o]], written |-> FALSE]
  /\ UNCHANGED <<old, pid, up, crashes, stalls>>

(* O_CREAT | O_EXCL *)
Open(o) ==
  /\ IF lock = None
     THEN /\ Goto(o, "opening", "writing")
          /\ lock' = [by |-> o, host |-> Host(o), pid |-> pid[ProcessOf[o]],
                      written |-> FALSE, stale |-> FALSE]
     ELSE Goto(o, "opening", "statting") /\ UNCHANGED lock
  /\ UNCHANGED <<old, pid, up, crashes, stalls>>

Stat(o) ==
  /\ IF lock = None
     THEN Goto(o, "statting", "opening") /\ UNCHANGED old
     ELSE /\ Goto(o, "statting", "reading")
          /\ old' = [old EXCEPT ![o] = lock.stale]
  /\ UNCHANGED <<lock, pid, up, crashes, stalls>>

IsProcessAliveUnasked(file) == FALSE  \* mutant: the id is not looked up

(* process.kill(pid, 0) finds a process of this host with that id. *)
IsProcessAlive(file) ==
  \E p \in Processes : up[p] /\ HostOf[p] = file.host /\ pid[p] = file.pid

AbandonedKnown(o) ==  \* mutant: an owner that cannot be asked is alive
  lock # None /\ lock.written /\ lock.host = Host(o) /\ ~IsProcessAlive(lock)

AbandonedUnwritten(o) ==  \* mutant: a file without an owner is abandoned, whatever its age
  IF lock = None THEN old[o]
  ELSE IF ~lock.written THEN TRUE
  ELSE IF lock.host = Host(o) THEN ~IsProcessAlive(lock)
  ELSE old[o]

(* The owner just read, with the age of the file found before. *)
Abandoned(o) ==
  IF lock = None THEN old[o]
  ELSE IF lock.written /\ lock.host = Host(o)
  THEN ~IsProcessAlive(lock)
  ELSE old[o]

Judge(o) ==
  /\ Goto(o, "reading", IF Abandoned(o) THEN "unlinking" ELSE "waiting")
  /\ old' = [old EXCEPT ![o] = FALSE]
  /\ UNCHANGED <<lock, pid, up, crashes, stalls>>

(* Unlinks the file that is at the path now. *)
Unlink(o) ==
  /\ Goto(o, "unlinking", "opening")
  /\ lock' = None
  /\ UNCHANGED <<old, pid, up, crashes, stalls>>

Retry(o) ==
  /\ Goto(o, "waiting", "opening")
  /\ UNCHANGED <<old, lock, pid, up, crashes, stalls>>

TimeOut(o) ==
  /\ Goto(o, "waiting", "idle")
  /\ UNCHANGED <<old, lock, pid, up, crashes, stalls>>

(* Writes through the handle: into its own file, wherever that is. *)
WriteOwner(o) ==
  /\ Goto(o, "writing", "inside")
  /\ lock' = IF Owns(o) THEN [lock EXCEPT !.written = TRUE] ELSE lock
  /\ UNCHANGED <<old, pid, up, crashes, stalls>>

WriteFails(o) ==
  /\ Goto(o, "writing", "idle")
  /\ lock' = None
  /\ UNCHANGED <<old, pid, up, crashes, stalls>>

-----------------------------------------------------------------------------
(* Giving it back *)

(* The callback ends and the handle with its heartbeat is closed. *)
Finish(o) ==
  /\ Goto(o, "inside", "closing")
  /\ UNCHANGED <<old, lock, pid, up, crashes, stalls>>

CheckOwnerInverted(o) ==  \* mutant: keeps its own lock
  /\ Goto(o, "closing", IF Owns(o) THEN "idle" ELSE "removing")
  /\ UNCHANGED <<old, lock, pid, up, crashes, stalls>>

CheckOwnerUnasked(o) ==  \* mutant: removes the lock of whoever holds it
  /\ Goto(o, "closing", "removing")
  /\ UNCHANGED <<old, lock, pid, up, crashes, stalls>>

CheckOwner(o) ==
  /\ Goto(o, "closing", IF Owns(o) /\ lock.written THEN "removing" ELSE "idle")
  /\ UNCHANGED <<old, lock, pid, up, crashes, stalls>>

Remove(o) ==
  /\ Goto(o, "removing", "idle")
  /\ lock' = None
  /\ UNCHANGED <<old, pid, up, crashes, stalls>>

-----------------------------------------------------------------------------
(* The environment *)

(* Nobody touches the file of a dead owner.                                 *)
Age ==
  /\ lock # None /\ lock.by = None /\ ~lock.stale
  /\ lock' = [lock EXCEPT !.stale = TRUE]
  /\ UNCHANGED <<phase, old, pid, up, crashes, stalls>>

(* The owner's heartbeat is late, or its clock is behind. *)
Stall ==
  /\ stalls < MaxStalls
  /\ lock # None /\ lock.by # None /\ ~lock.stale
  /\ lock' = [lock EXCEPT !.stale = TRUE]
  /\ stalls' = stalls + 1
  /\ UNCHANGED <<phase, old, pid, up, crashes>>

Heartbeat ==
  /\ lock # None /\ lock.by # None /\ lock.stale
  /\ phase[lock.by] = "inside"
  /\ lock' = [lock EXCEPT !.stale = FALSE]
  /\ UNCHANGED <<phase, old, pid, up, crashes, stalls>>

Crash(p) ==
  LET gone == {o \in Operations : ProcessOf[o] = p} IN
  /\ crashes < MaxCrashes /\ up[p]
  /\ crashes' = crashes + 1
  /\ up' = [up EXCEPT ![p] = FALSE]
  /\ phase' = [o \in Operations |-> IF o \in gone THEN "idle" ELSE phase[o]]
  /\ old' = [o \in Operations |-> IF o \in gone THEN FALSE ELSE old[o]]
  /\ lock' = IF lock # None /\ lock.by \in gone THEN [lock EXCEPT !.by = None] ELSE lock
  /\ UNCHANGED <<pid, stalls>>

Restart(p) ==
  /\ ~up[p]
  /\ up' = [up EXCEPT ![p] = TRUE]
  /\ \E i \in RestartPids :
       /\ \A q \in Processes : up[q] /\ HostOf[q] = HostOf[p] => pid[q] # i
       /\ pid' = [pid EXCEPT ![p] = i]
  /\ UNCHANGED <<phase, old, lock, crashes, stalls>>

-----------------------------------------------------------------------------

Step(o) ==
  \/ Begin(o) \/ Open(o) \/ Stat(o) \/ Judge(o) \/ Unlink(o) \/ Retry(o)
  \/ TimeOut(o) \/ WriteOwner(o) \/ WriteFails(o) \/ Finish(o)
  \/ CheckOwner(o) \/ Remove(o)

Next ==
  \/ \E o \in Operations : Step(o)
  \/ \E p \in Processes : Crash(p) \/ Restart(p)
  \/ Age \/ Stall \/ Heartbeat

Spec == Init /\ [][Next]_vars

(* Promises are resumed, time passes, a dead process is started again, and  *)
(* settings go on being saved.                                              *)
Fairness ==
  /\ \A o \in Operations : WF_vars(Step(o))
  /\ \A p \in Processes : WF_vars(Restart(p))
  /\ WF_vars(Age)

FairSpec == Spec /\ Fairness

-----------------------------------------------------------------------------
(* Properties *)

Faulted == crashes > 0 \/ stalls > 0

(* Until a process dies or a heartbeat is late, two operations never change *)
(* the settings file at once.                                               *)
MutualExclusion ==
  ~Faulted =>
    \A o, u \in Operations : phase[o] = "inside" /\ phase[u] = "inside" => o = u

(* Until then, when every operation is over, the lock file is gone: nothing *)
(* left behind makes the next operation wait.                               *)
LockRemoved ==
  ~Faulted => ((\A o \in Operations : phase[o] = "idle") => lock = None)

(* A lock that a dead process left is removed, and settings can be saved    *)
(* and loaded again.                                                        *)
Orphaned == lock # None /\ lock.by = None

LockRecovered == Orphaned ~> ~Orphaned

(* A late heartbeat or a death costs exclusion for a while only: the        *)
(* removals by path that it sets off do not go on for ever.                 *)
ExclusionRegained ==
  <>[](\A o, u \in Operations : phase[o] = "inside" /\ phase[u] = "inside" => o = u)

(* The protocol implements the lock that it promises: an operation has the  *)
(* file from the moment it has created the lock file until it is through    *)
(* with removing it, though all that it knows of the others is the file at  *)
(* that path, which they judge and unlink in steps of their own.            *)
Holders == {o \in Operations : phase[o] \in {"writing", "inside", "closing", "removing"}}

Exclusive == INSTANCE FileLock WITH holders <- Holders, faulted <- Faulted

Implements == Exclusive!Spec
=============================================================================
