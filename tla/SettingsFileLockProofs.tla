----------------------- MODULE SettingsFileLockProofs -----------------------
(***************************************************************************)
(* What the lock file of the settings keeps until a process dies or a      *)
(* heartbeat is late, for any number of processes and operations: its file *)
(* always names the operation that is inside, so nobody takes it for       *)
(* abandoned.  The run shows what is regained after such a fault.          *)
(***************************************************************************)
EXTENDS SettingsFileLock, TLAPS

Constants == LockAssumption /\ NoneAssumption

LEMMA ConstantsHold == Constants
BY LockAssumption, NoneAssumption DEF Constants

-----------------------------------------------------------------------------
(* Types *)

LEMMA InitTypes == Init => TypeOK
BY ConstantsHold DEF Constants, LockAssumption, Init, TypeOK, Phases

LEMMA NewFile ==
  ASSUME NEW o \in Operations
  PROVE  LET i == pid[ProcessOf[o]] IN
         TypeOK => [by |-> o, host |-> Host(o), pid |-> i,
                    written |-> FALSE, stale |-> FALSE] \in File
<1> SUFFICES ASSUME TypeOK
             PROVE  [by |-> o, host |-> Host(o), pid |-> pid[ProcessOf[o]],
                     written |-> FALSE, stale |-> FALSE] \in File
  OBVIOUS
<1>1. ProcessOf[o] \in Processes
  BY ConstantsHold DEF Constants, LockAssumption
<1>2. Host(o) \in Hosts /\ pid[ProcessOf[o]] \in Pids
  BY <1>1, ConstantsHold DEF TypeOK, Host, Constants, LockAssumption
<1> QED
  BY <1>2 DEF File

LEMMA StepTypes ==
  ASSUME TypeOK, NEW o \in Operations, Step(o)
  PROVE  TypeOK'
<1>0. Constants
  BY ConstantsHold
<1>1. CASE Begin(o)
  BY <1>0, <1>1 DEF TypeOK, Begin, Goto, Phases
<1>2. CASE Open(o)
  <2>1. phase' \in [Operations -> Phases]
    BY <1>2 DEF TypeOK, Open, Goto, Phases
  <2>2. lock' \in File \cup {None}
    BY <1>2, NewFile DEF TypeOK, Open
  <2> QED
    BY <1>2, <2>1, <2>2 DEF TypeOK, Open
<1>3. CASE Stat(o)
  <2>1. lock # None => lock.stale \in BOOLEAN
    BY DEF TypeOK, File
  <2>2. phase' \in [Operations -> Phases] /\ old' \in [Operations -> BOOLEAN]
    BY <1>3, <2>1 DEF TypeOK, Stat, Goto, Phases
  <2> QED
    BY <1>3, <2>2 DEF TypeOK, Stat
<1>4. CASE Judge(o)
  <2>1. phase' \in [Operations -> Phases] /\ old' \in [Operations -> BOOLEAN]
    BY <1>4 DEF TypeOK, Judge, Goto, Phases
  <2> QED
    BY <1>4, <2>1 DEF TypeOK, Judge
<1>5. CASE Unlink(o)
  BY <1>5 DEF TypeOK, Unlink, Goto, Phases
<1>6. CASE Retry(o)
  BY <1>6 DEF TypeOK, Retry, Goto, Phases
<1>7. CASE TimeOut(o)
  BY <1>7 DEF TypeOK, TimeOut, Goto, Phases
<1>8. CASE WriteOwner(o)
  <2>1. phase' \in [Operations -> Phases]
    BY <1>8 DEF TypeOK, WriteOwner, Goto, Phases
  <2>2. lock' \in File \cup {None}
    BY <1>8 DEF TypeOK, WriteOwner, Owns, File
  <2> QED
    BY <1>8, <2>1, <2>2 DEF TypeOK, WriteOwner
<1>9. CASE WriteFails(o)
  BY <1>9 DEF TypeOK, WriteFails, Goto, Phases
<1>10. CASE Finish(o)
  BY <1>10 DEF TypeOK, Finish, Goto, Phases
<1>11. CASE CheckOwner(o)
  BY <1>11 DEF TypeOK, CheckOwner, Goto, Phases
<1>12. CASE Remove(o)
  BY <1>12 DEF TypeOK, Remove, Goto, Phases
<1> QED
  BY <1>1, <1>2, <1>3, <1>4, <1>5, <1>6, <1>7, <1>8, <1>9, <1>10, <1>11, <1>12
     DEF Step

LEMMA EnvironmentTypes ==
  ASSUME TypeOK,
         (\E p \in Processes : Crash(p) \/ Restart(p)) \/ Age \/ Stall \/ Heartbeat
  PROVE  TypeOK'
<1>0. Constants
  BY ConstantsHold
<1>1. ASSUME NEW p \in Processes, Crash(p) PROVE TypeOK'
  <2>1. lock' \in File \cup {None}
    BY <1>1 DEF TypeOK, Crash, File
  <2>2. phase' \in [Operations -> Phases] /\ old' \in [Operations -> BOOLEAN]
    BY <1>1 DEF TypeOK, Crash, Phases
  <2>3. crashes' \in 0..MaxCrashes
    BY <1>0, <1>1 DEF TypeOK, Crash, Constants, LockAssumption
  <2> QED
    BY <1>1, <2>1, <2>2, <2>3 DEF TypeOK, Crash
<1>2. ASSUME NEW p \in Processes, Restart(p) PROVE TypeOK'
  BY <1>0, <1>2 DEF TypeOK, Restart, Constants, LockAssumption
<1>3. CASE Age
  BY <1>3 DEF TypeOK, Age, File
<1>4. CASE Stall
  <2>1. lock' \in File \cup {None}
    BY <1>4 DEF TypeOK, Stall, File
  <2>2. stalls' \in 0..MaxStalls
    BY <1>0, <1>4 DEF TypeOK, Stall, Constants, LockAssumption
  <2> QED
    BY <1>4, <2>1, <2>2 DEF TypeOK, Stall
<1>5. CASE Heartbeat
  BY <1>5 DEF TypeOK, Heartbeat, File
<1> QED
  BY <1>1, <1>2, <1>3, <1>4, <1>5

LEMMA NextTypes == TypeOK /\ [Next]_vars => TypeOK'
<1> SUFFICES ASSUME TypeOK, [Next]_vars PROVE TypeOK'
  OBVIOUS
<1>1. CASE UNCHANGED vars
  BY <1>1 DEF vars, TypeOK
<1>2. CASE Next
  BY <1>2, StepTypes, EnvironmentTypes DEF Next
<1> QED
  BY <1>1, <1>2

(* The variables keep their types, whatever dies.                           *)
THEOREM TypeCorrect == Spec => []TypeOK
BY InitTypes, NextTypes, PTL DEF Spec

-----------------------------------------------------------------------------
(* The file names who is inside *)

Holding(o) == phase[o] \in {"writing", "inside", "closing", "removing"}

(* Exactly the operation between its creation of the file and its removal   *)
(* is the file's owner.                                                     *)
OwnerHolds ==
  \A o \in Operations :
    /\ Holding(o) <=> Owns(o)
    /\ phase[o] \in {"inside", "closing"} => lock.written

(* The owner is found alive by its host and id; its file is young.          *)
OwnerKnown ==
  lock # None => /\ lock.by \in Operations
                 /\ lock.host = Host(lock.by)
                 /\ lock.pid = pid[ProcessOf[lock.by]]
                 /\ ~lock.stale

AllUp == \A p \in Processes : up[p]

(* Nobody holds the file for abandoned.                                     *)
NobodyUnlinks == \A o \in Operations : ~old[o] /\ phase[o] # "unlinking"

LockInv == TypeOK /\ OwnerHolds /\ OwnerKnown /\ AllUp /\ NobodyUnlinks

(* What holds throughout: the above until the first fault.                  *)
CleanInv == TypeOK /\ (~Faulted => LockInv)

LEMMA InitLock == Init => LockInv
BY InitTypes
   DEF Init, LockInv, OwnerHolds, Holding, Owns, OwnerKnown, AllUp, NobodyUnlinks

(* A live owner's file is not judged abandoned.                             *)
LEMMA NotAbandoned ==
  ASSUME LockInv, NEW o \in Operations
  PROVE  ~Abandoned(o)
<1>1. ~old[o]
  BY DEF LockInv, NobodyUnlinks
<1>2. ASSUME lock # None PROVE IsProcessAlive(lock)
  <2>1. ProcessOf[lock.by] \in Processes
    BY <1>2, ConstantsHold DEF LockInv, OwnerKnown, Constants, LockAssumption
  <2> QED
    BY <1>2, <2>1 DEF LockInv, OwnerKnown, AllUp, IsProcessAlive, Host
<1> QED
  BY <1>1, <1>2 DEF Abandoned

LEMMA StepLock ==
  ASSUME LockInv, NEW o \in Operations, Step(o)
  PROVE  LockInv'
<1> USE DEF LockInv
<1>0. TypeOK'
  BY StepTypes
<1>a. None \notin Operations /\ None \notin File
  BY ConstantsHold DEF Constants, LockAssumption, NoneAssumption
<1>b. \A u \in Operations : phase[u] \in Phases
  BY DEF TypeOK
<1>1. CASE Begin(o)
  BY <1>0, <1>1 DEF TypeOK, Begin, Goto, OwnerHolds, Holding, Owns, OwnerKnown,
                    Host, AllUp, NobodyUnlinks
<1>2. CASE Open(o)
  <2>1. CASE lock = None
    <3>1. lock' \in File /\ lock' # None
      BY <1>2, <1>a, <2>1, NewFile DEF Open
    <3>2. lock'.by = o
      BY <1>2, <2>1 DEF Open
    <3>3. \A u \in Operations : ~Holding(u)
      BY <2>1 DEF OwnerHolds, Owns
    <3>4. OwnerHolds'
      BY <1>2, <2>1, <3>1, <3>2, <3>3 DEF Open, Goto, TypeOK, OwnerHolds, Holding, Owns
    <3>5. OwnerKnown'
      BY <1>2, <2>1, <3>2 DEF Open, OwnerKnown, Host
    <3> QED
      BY <1>0, <1>2, <2>1, <3>4, <3>5 DEF Open, Goto, TypeOK, AllUp, NobodyUnlinks
  <2>2. CASE lock # None
    BY <1>0, <1>2, <2>2 DEF TypeOK, Open, Goto, OwnerHolds, Holding, Owns, OwnerKnown,
                            Host, AllUp, NobodyUnlinks
  <2> QED
    BY <2>1, <2>2
<1>3. CASE Stat(o)
  <2>1. \A u \in Operations : ~old'[u]
    BY <1>3 DEF TypeOK, Stat, OwnerKnown, NobodyUnlinks
  <2>2. OwnerHolds' /\ \A u \in Operations : phase'[u] # "unlinking"
    BY <1>3 DEF TypeOK, Stat, Goto, OwnerHolds, Holding, Owns, NobodyUnlinks
  <2> QED
    BY <1>0, <1>3, <2>1, <2>2 DEF Stat, OwnerKnown, Host, AllUp, NobodyUnlinks
<1>4. CASE Judge(o)
  <2>1. Goto(o, "reading", "waiting")
    BY <1>4, NotAbandoned DEF Judge
  <2>2. \A u \in Operations : ~old'[u]
    BY <1>4 DEF TypeOK, Judge, NobodyUnlinks
  <2>3. OwnerHolds' /\ \A u \in Operations : phase'[u] # "unlinking"
    BY <1>4, <2>1 DEF TypeOK, Judge, Goto, OwnerHolds, Holding, Owns, NobodyUnlinks
  <2> QED
    BY <1>0, <1>4, <2>2, <2>3 DEF Judge, OwnerKnown, Host, AllUp, NobodyUnlinks
<1>5. CASE Unlink(o)
  BY <1>5 DEF Unlink, Goto, NobodyUnlinks
<1>6. CASE Retry(o)
  BY <1>0, <1>6 DEF TypeOK, Retry, Goto, OwnerHolds, Holding, Owns, OwnerKnown,
                    Host, AllUp, NobodyUnlinks
<1>7. CASE TimeOut(o)
  BY <1>0, <1>7 DEF TypeOK, TimeOut, Goto, OwnerHolds, Holding, Owns, OwnerKnown,
                    Host, AllUp, NobodyUnlinks
<1>8. CASE WriteOwner(o)
  <2>1. Owns(o)
    BY <1>8 DEF WriteOwner, Goto, OwnerHolds, Holding
  <2>2. lock \in File
    BY <2>1 DEF TypeOK, Owns
  <2>3. /\ lock' # None /\ lock'.by = lock.by /\ lock'.host = lock.host
        /\ lock'.pid = lock.pid /\ lock'.stale = lock.stale /\ lock'.written
    BY <1>0, <1>8, <1>a, <2>1, <2>2 DEF WriteOwner, File, TypeOK
  <2>4. OwnerHolds'
    BY <1>8, <2>1, <2>3 DEF TypeOK, WriteOwner, Goto, OwnerHolds, Holding, Owns
  <2>5. OwnerKnown'
    BY <1>8, <2>1, <2>3 DEF WriteOwner, OwnerKnown, Owns, Host
  <2> QED
    BY <1>0, <1>8, <2>4, <2>5 DEF TypeOK, WriteOwner, Goto, AllUp, NobodyUnlinks
<1>9. CASE WriteFails(o)
  <2>1. Owns(o)
    BY <1>9 DEF WriteFails, Goto, OwnerHolds, Holding
  <2>2. \A u \in Operations : Holding(u) => u = o
    BY <2>1 DEF OwnerHolds, Owns
  <2> QED
    BY <1>0, <1>9, <2>2 DEF TypeOK, WriteFails, Goto, OwnerHolds, Holding, Owns,
                            OwnerKnown, AllUp, NobodyUnlinks
<1>10. CASE Finish(o)
  BY <1>0, <1>10 DEF TypeOK, Finish, Goto, OwnerHolds, Holding, Owns, OwnerKnown,
                     Host, AllUp, NobodyUnlinks
<1>11. CASE CheckOwner(o)
  BY <1>0, <1>11 DEF TypeOK, CheckOwner, Goto, OwnerHolds, Holding, Owns, OwnerKnown,
                     Host, AllUp, NobodyUnlinks
<1>12. CASE Remove(o)
  <2>1. Owns(o)
    BY <1>12 DEF Remove, Goto, OwnerHolds, Holding
  <2>2. \A u \in Operations : Holding(u) => u = o
    BY <2>1 DEF OwnerHolds, Owns
  <2> QED
    BY <1>0, <1>12, <2>2 DEF TypeOK, Remove, Goto, OwnerHolds, Holding, Owns,
                             OwnerKnown, AllUp, NobodyUnlinks
<1> QED
  BY <1>1, <1>2, <1>3, <1>4, <1>5, <1>6, <1>7, <1>8, <1>9, <1>10, <1>11, <1>12
     DEF Step

LEMMA EnvironmentLock ==
  ASSUME LockInv, ~Faulted',
         (\E p \in Processes : Crash(p) \/ Restart(p)) \/ Age \/ Stall \/ Heartbeat
  PROVE  FALSE
<1>a. MaxCrashes \in Nat /\ MaxStalls \in Nat /\ None \notin Operations
  BY ConstantsHold DEF Constants, LockAssumption
<1>b. crashes \in Nat /\ stalls \in Nat
  BY <1>a DEF LockInv, TypeOK
<1>1. ASSUME NEW p \in Processes PROVE ~Crash(p) /\ ~Restart(p)
  <2>1. ASSUME Crash(p) PROVE FALSE
    <3>1. crashes' = crashes + 1
      BY <2>1 DEF Crash
    <3> QED
      BY <1>b, <3>1 DEF Faulted
  <2>2. ~Restart(p)
    BY DEF LockInv, AllUp, Restart
  <2> QED
    BY <2>1, <2>2
<1>2. ~Age /\ ~Stall /\ ~Heartbeat
  BY <1>a, <1>b DEF LockInv, Faulted, OwnerKnown, Age, Stall, Heartbeat
<1> QED
  BY <1>1, <1>2

LEMMA NextLock ==
  ASSUME LockInv, ~Faulted', [Next]_vars
  PROVE  LockInv'
<1>1. CASE UNCHANGED vars
  BY <1>1 DEF vars, LockInv, TypeOK, OwnerHolds, Holding, Owns, OwnerKnown, Host,
              AllUp, NobodyUnlinks
<1>2. CASE Next
  BY <1>2, StepLock, EnvironmentLock DEF Next
<1> QED
  BY <1>1, <1>2

(* A fault is never forgotten.                                              *)
LEMMA FaultsStay ==
  ASSUME TypeOK, [Next]_vars, Faulted
  PROVE  Faulted'
<1>a. crashes \in Nat /\ stalls \in Nat
  BY ConstantsHold DEF TypeOK, Constants, LockAssumption
<1>1. CASE UNCHANGED vars
  BY <1>1 DEF vars, Faulted
<1>2. ASSUME NEW o \in Operations, Step(o) PROVE Faulted'
  <2>1. UNCHANGED <<crashes, stalls>>
    BY <1>2 DEF Step, Begin, Open, Stat, Judge, Unlink, Retry, TimeOut, WriteOwner,
                WriteFails, Finish, CheckOwner, Remove
  <2> QED
    BY <2>1 DEF Faulted
<1>3. ASSUME NEW p \in Processes, Crash(p) \/ Restart(p) PROVE Faulted'
  <2>1. crashes' \in {crashes, crashes + 1} /\ UNCHANGED stalls
    BY <1>3 DEF Crash, Restart
  <2> QED
    BY <1>a, <2>1 DEF Faulted
<1>4. CASE Age \/ Stall \/ Heartbeat
  BY <1>a, <1>4 DEF Age, Stall, Heartbeat, Faulted
<1> QED
  BY <1>1, <1>2, <1>3, <1>4 DEF Next

LEMMA NextClean == CleanInv /\ [Next]_vars => CleanInv'
<1> SUFFICES ASSUME CleanInv, [Next]_vars PROVE CleanInv'
  OBVIOUS
<1>1. TypeOK'
  BY NextTypes DEF CleanInv
<1>2. ~Faulted' => LockInv'
  BY FaultsStay, NextLock DEF CleanInv
<1> QED
  BY <1>1, <1>2 DEF CleanInv

LEMMA AlwaysClean == Spec => []CleanInv
<1>1. Init => CleanInv
  BY InitLock DEF CleanInv, LockInv
<1> QED
  BY <1>1, NextClean, PTL DEF Spec

(* Until a process dies or a heartbeat is late, two operations are never    *)
(* inside at once.                                                          *)
THEOREM FileLockExcludes == Spec => []MutualExclusion
<1>1. CleanInv => MutualExclusion
  BY DEF CleanInv, LockInv, OwnerHolds, Holding, Owns, MutualExclusion
<1> QED
  BY <1>1, AlwaysClean, PTL

(* Nor does the lock file outlive the operations.                           *)
THEOREM FileLockRemoved == Spec => []LockRemoved
<1>1. CleanInv => LockRemoved
  BY DEF CleanInv, LockInv, OwnerHolds, OwnerKnown, Holding, Owns, LockRemoved
<1> QED
  BY <1>1, AlwaysClean, PTL

-----------------------------------------------------------------------------
(* Refinement *)

(* Until the first fault who holds the lock owns the file: the step that    *)
(* lets one in found no file, hence no other in; only its own steps end it. *)
LEMMA StepImplements ==
  ASSUME LockInv, NEW o \in Operations, Step(o)
  PROVE  Exclusive!Acquire(o) \/ Exclusive!Release(o) \/ UNCHANGED Holders
<1>1. CASE Open(o) /\ lock = None
  <2>1. Holders = {} /\ Holders' = {o}
    <3>1. \A u \in Operations : ~Holding(u)
      BY <1>1 DEF LockInv, OwnerHolds, Owns
    <3>2. phase' = [phase EXCEPT ![o] = "writing"] /\ phase \in [Operations -> Phases]
      BY <1>1 DEF Open, Goto, LockInv, TypeOK
    <3> QED
      BY <3>1, <3>2 DEF Holders, Holding
  <2> QED
    BY <2>1 DEF Exclusive!Acquire
<1>2. CASE \/ WriteFails(o) \/ Remove(o)
           \/ (CheckOwner(o) /\ ~(Owns(o) /\ lock.written))
  <2>1. /\ phase \in [Operations -> Phases] /\ Holding(o)
        /\ phase' = [phase EXCEPT ![o] = "idle"]
    BY <1>2 DEF WriteFails, Remove, CheckOwner, Goto, Holding, LockInv, TypeOK
  <2>2. o \in Holders /\ Holders' = Holders \ {o}
    BY <2>1 DEF Holders, Holding
  <2> QED
    BY <2>2 DEF Exclusive!Release
<1>3. CASE \/ WriteOwner(o) \/ Finish(o)
           \/ (CheckOwner(o) /\ Owns(o) /\ lock.written)
  <2>1. /\ phase \in [Operations -> Phases] /\ Holding(o)
        /\ \E to \in {"inside", "closing", "removing"} : phase' = [phase EXCEPT ![o] = to]
    BY <1>3 DEF WriteOwner, Finish, CheckOwner, Goto, Holding, LockInv, TypeOK
  <2> QED
    BY <2>1 DEF Holders, Holding
<1>4. CASE \/ Begin(o) \/ (Open(o) /\ lock # None) \/ Stat(o) \/ Judge(o)
           \/ Unlink(o) \/ Retry(o) \/ TimeOut(o)
  <2>1. /\ phase \in [Operations -> Phases] /\ ~Holding(o)
        /\ \E to \in {"idle", "opening", "statting", "reading", "unlinking", "waiting"} :
             phase' = [phase EXCEPT ![o] = to]
    BY <1>4 DEF Begin, Open, Stat, Judge, Unlink, Retry, TimeOut, Goto, Holding, LockInv, TypeOK
  <2> QED
    BY <2>1 DEF Holders, Holding
<1> QED
  BY <1>1, <1>2, <1>3, <1>4 DEF Step

(* After it an operation is let in by its own step and by no more than one  *)
(* operation at a time, and its hold ends with its own step or its process. *)
LEMMA FaultedStep ==
  ASSUME TypeOK, Faulted, NEW o \in Operations, Step(o)
  PROVE  Exclusive!Acquire(o) \/ Exclusive!Release(o) \/ UNCHANGED Holders
<1>1. phase \in [Operations -> Phases] /\ \E to \in Phases : phase' = [phase EXCEPT ![o] = to]
  BY DEF TypeOK, Phases, Step, Begin, Open, Stat, Judge, Unlink, Retry, TimeOut,
         WriteOwner, WriteFails, Finish, CheckOwner, Remove, Goto
<1>2. \A u \in Operations \ {o} : phase'[u] = phase[u]
  BY <1>1
<1>3. \/ Holders' = Holders \/ (o \notin Holders /\ Holders' = Holders \cup {o})
      \/ (o \in Holders /\ Holders' = Holders \ {o})
  BY <1>1, <1>2 DEF Holders
<1> QED
  BY <1>3 DEF Exclusive!Acquire, Exclusive!Release

LEMMA EnvironmentImplements ==
  ASSUME TypeOK,
         \/ \E p \in Processes : Crash(p) \/ Restart(p)
         \/ Age \/ Stall \/ Heartbeat
  PROVE  Exclusive!Fault \/ UNCHANGED <<Holders, Faulted>>
<1>1. ASSUME NEW p \in Processes, Crash(p)
      PROVE  Exclusive!Fault
  <2> DEFINE dead == {o \in Operations : ProcessOf[o] = p}
  <2>1. /\ dead \in SUBSET Operations /\ phase \in [Operations -> Phases]
        /\ phase' = [o \in Operations |-> IF o \in dead THEN "idle" ELSE phase[o]]
    BY <1>1 DEF Crash, TypeOK
  <2>2. Holders' = Holders \ dead
    BY <2>1 DEF Holders
  <2>3. Faulted'
    BY <1>1 DEF Crash, Faulted, TypeOK
  <2> QED
    BY <2>1, <2>2, <2>3 DEF Exclusive!Fault
<1>2. CASE Stall
  <2>1. UNCHANGED Holders /\ Faulted'
    BY <1>2 DEF Stall, Holders, Faulted, TypeOK
  <2>2. {} \in SUBSET Operations /\ Holders' = Holders \ {}
    BY <2>1
  <2> QED
    BY <2>1, <2>2 DEF Exclusive!Fault
<1>3. CASE Age \/ Heartbeat \/ \E p \in Processes : Restart(p)
  BY <1>3 DEF Age, Heartbeat, Restart, Holders, Faulted
<1> QED
  BY <1>1, <1>2, <1>3

(* The lock file implements the lock withSettingsFileLock() promises: until *)
(* a fault an operation has it from the creation of the file until it is    *)
(* through with the removal, whatever the others judge and unlink by path.  *)
THEOREM FileLockImplements == Spec => Implements
<1>1. Init => Exclusive!Init
  BY DEF Init, Faulted, Holders, Exclusive!Init
<1>2. CleanInv /\ [Next]_vars => [Exclusive!Next]_<<Holders, Faulted>>
  <2> SUFFICES ASSUME CleanInv, Next
               PROVE  Exclusive!Next \/ UNCHANGED <<Holders, Faulted>>
    BY DEF vars, Holders, Faulted
  <2>1. ASSUME NEW o \in Operations, Step(o)
        PROVE  Exclusive!Next \/ UNCHANGED <<Holders, Faulted>>
    <3>1. Exclusive!Acquire(o) \/ Exclusive!Release(o) \/ UNCHANGED Holders
      BY <2>1, StepImplements, FaultedStep DEF CleanInv
    <3>2. UNCHANGED Faulted
      BY <2>1 DEF Step, Begin, Open, Stat, Judge, Unlink, Retry, TimeOut, WriteOwner,
                  WriteFails, Finish, CheckOwner, Remove, Faulted
    <3> QED
      BY <3>1, <3>2 DEF Exclusive!Next
  <2>2. CASE \/ \E p \in Processes : Crash(p) \/ Restart(p)
             \/ Age \/ Stall \/ Heartbeat
    BY <2>2, EnvironmentImplements DEF CleanInv, Exclusive!Next
  <2> QED
    BY <2>1, <2>2 DEF Next
<1> QED
  BY <1>1, <1>2, AlwaysClean, PTL DEF Spec, Implements, Exclusive!Spec
=============================================================================
