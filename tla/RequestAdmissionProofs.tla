----------------------- MODULE RequestAdmissionProofs -----------------------
(***************************************************************************)
(* Proofs about RequestAdmission, for every number of processes, tasks and *)
(* keys and every nest of scopes.                                          *)
(*                                                                         *)
(* Inside one process exclusion rests on the AsyncLocks alone and holds    *)
(* whatever the database and whatever runs in the background.  Across      *)
(* processes it rests on the advisory locks, and holds as long as the      *)
(* session that they belong to.                                            *)
(*                                                                         *)
(* A circle of waiting tasks always has one in it that takes its locks     *)
(* against the order of the others, or waits for a slot with locks in hand.*)
(***************************************************************************)
EXTENDS RequestAdmission, WellFoundedInduction, TLAPS

-----------------------------------------------------------------------------
(* Types *)

(* A task that is doing something is at one of the scopes of a program. *)
Placed(t) ==
  IF phase[t] = "idle" THEN at[t] = 0 /\ program[t] = <<>>
  ELSE at[t] \in 1..Len(program[t]) /\ program[t] \in Programs[t]

AtScope == \A t \in Tasks : Placed(t)

TypeInv == TypeOK /\ AtScope

LEMMA ProgramIsSeq ==
  ASSUME NEW t \in Tasks, TypeOK
  PROVE  program[t] \in Seq(Scope) /\ Len(program[t]) \in Nat
<1>1. program[t] \in Seq(Scope)
  BY DEF TypeOK
<1> QED
  BY <1>1

LEMMA HereIsScope ==
  ASSUME NEW t \in Tasks, TypeInv, phase[t] # "idle"
  PROVE  /\ at[t] \in 1..Len(program[t])
         /\ Here(t) \in Scope
<1>1. at[t] \in 1..Len(program[t])
  BY DEF TypeInv, AtScope, Placed
<1> QED
  BY <1>1, ProgramIsSeq DEF TypeInv, Here

LEMMA TypeInit == Init => TypeInv
<1> SUFFICES ASSUME Init PROVE TypeInv
  OBVIOUS
<1>1. None \notin Tasks
  BY AdmissionAssumption
<1>2. Len(<<>>) = 0
  OBVIOUS
<1> QED
  BY <1>1, <1>2 DEF Init, TypeInv, TypeOK, AtScope, Placed, Phases, Connection, NoConnection,
    Holder, Nobody

LEMMA TypeNext == TypeInv /\ [Next]_vars => TypeInv'
<1> SUFFICES ASSUME TypeInv, [Next]_vars PROVE TypeInv'
  OBVIOUS
<1> USE DEF TypeInv
<1>1. ASSUME NEW t \in Tasks, Start(t) PROVE TypeInv'
  <2>1. PICK scopes \in Programs[t] : program' = [program EXCEPT ![t] = scopes]
    BY <1>1 DEF Start
  <2>2. scopes \in Seq(Scope) /\ scopes # <<>>
    BY <2>1, AdmissionAssumption
  <2>3. Len(scopes) \in Nat /\ 1 <= Len(scopes)
    BY <2>2
  <2>4. context' \in [Tasks -> Tasks \cup {None}]
    BY <1>1 DEF Start, TypeOK
  <2>5. /\ phase' \in [Tasks -> Phases] /\ at' \in [Tasks -> Nat]
        /\ UNCHANGED <<connection, advisory, local, slot>>
    BY <1>1 DEF Start, TypeOK, Phases
  <2>6. ASSUME NEW u \in Tasks
        PROVE  /\ at'[u] <= Len(program'[u])
               /\ Placed(u)'
    BY <1>1, <2>1, <2>3, <2>5 DEF Start, TypeOK, AtScope, Placed
  <2> QED
    BY <2>1, <2>2, <2>4, <2>5, <2>6 DEF TypeOK, AtScope
<1>2. ASSUME NEW t \in Tasks, LockLocal(t) PROVE TypeInv'
  <2>1. [task |-> t, scope |-> at[t]] \in Holder
    BY DEF Holder, TypeOK
  <2>2. PICK k \in First(LocalsMissing(t)) :
          local' = [local EXCEPT ![ProcessOf[t]][k] = [task |-> t, scope |-> at[t]]]
    BY <1>2 DEF LockLocal
  <2>3. local' \in [Processes -> [Keys -> Holder]]
    BY <2>1, <2>2 DEF TypeOK
  <2> QED
    BY <1>2, <2>3 DEF LockLocal, TypeOK, AtScope, Placed
<1>3. ASSUME NEW t \in Tasks, OpenConnection(t) PROVE TypeInv'
  <2>1. connection' \in [Tasks -> Connection]
    BY <1>3 DEF OpenConnection, TypeOK, Connection
  <2>2. slot' \in [Processes -> [Slots -> Tasks \cup {None}]]
    BY <1>3 DEF OpenConnection, TypeOK
  <2> QED
    BY <1>3, <2>1, <2>2 DEF OpenConnection, TypeOK, AtScope, Placed
<1>4. ASSUME NEW t \in Tasks, LockAdvisory(t) PROVE TypeInv'
  <2>1. context[t] \in Tasks
    BY <1>4 DEF LockAdvisory, NeedsAdvisory, TypeOK
  <2>2. PICK k \in First(AdvisoriesMissing(t)) :
          /\ connection' = [connection EXCEPT ![context[t]].acquired = @ \cup {k}]
          /\ advisory' = [advisory EXCEPT ![k] =
               IF connection[context[t]].state = "open" THEN context[t] ELSE @]
    BY <1>4 DEF LockAdvisory
  <2>3. Here(t) \in Scope
    BY <1>4, HereIsScope DEF LockAdvisory, NeedsAdvisory, NeedsCoordinator
  <2>4. k \in Keys
    BY <2>2, <2>3 DEF First, AdvisoriesMissing, Scope
  <2>5. connection' \in [Tasks -> Connection]
    BY <2>1, <2>2, <2>4 DEF TypeOK, Connection
  <2>6. advisory' \in [Keys -> Tasks \cup {None}]
    BY <2>1, <2>2, <2>4 DEF TypeOK
  <2> QED
    BY <1>4, <2>5, <2>6 DEF LockAdvisory, TypeOK, AtScope, Placed
<1>5. ASSUME NEW t \in Tasks, ConnectionGone(t) PROVE TypeInv'
  BY <1>5 DEF ConnectionGone, NeedsAdvisory, NeedsCoordinator, TypeOK, AtScope, Placed, Phases
<1>6. ASSUME NEW t \in Tasks, Enter(t) PROVE TypeInv'
  <2>1. at[t] \in 1..Len(program[t]) /\ Len(program[t]) \in Nat
    BY <1>6, HereIsScope, ProgramIsSeq DEF Enter
  <2>2. CASE at[t] < Len(program[t])
    <3>1. /\ at' = [at EXCEPT ![t] = at[t] + 1]
          /\ UNCHANGED <<phase, program, context, connection, advisory, local, slot>>
      BY <1>6, <2>2 DEF Enter
    <3>2. at' \in [Tasks -> Nat]
      BY <3>1 DEF TypeOK
    <3>3. ASSUME NEW u \in Tasks PROVE Placed(u)' /\ at'[u] <= Len(program'[u])
      <4>1. CASE u = t
        BY <1>6, <2>1, <2>2, <3>1, <4>1 DEF Enter, TypeOK, AtScope, Placed
      <4>2. CASE u # t
        BY <3>1, <4>2 DEF TypeOK, AtScope, Placed
      <4> QED
        BY <4>1, <4>2
    <3> QED
      BY <3>1, <3>2, <3>3 DEF TypeOK, AtScope
  <2>3. CASE ~(at[t] < Len(program[t]))
    BY <1>6, <2>1, <2>3 DEF Enter, TypeOK, AtScope, Placed, Phases
  <2> QED
    BY <2>2, <2>3
<1>7. ASSUME NEW t \in Tasks, Return(t) PROVE TypeInv'
  BY <1>7 DEF Return, TypeOK, AtScope, Placed, Phases
<1>8. ASSUME NEW t \in Tasks, UnlockLocal(t) PROVE TypeInv'
  <2>1. Nobody \in Holder
    BY DEF Nobody, Holder
  <2>2. local' \in [Processes -> [Keys -> Holder]]
    BY <1>8, <2>1 DEF UnlockLocal, TypeOK
  <2> QED
    BY <1>8, <2>2 DEF UnlockLocal, TypeOK, AtScope, Placed
<1>9. ASSUME NEW t \in Tasks, EndTransaction(t) PROVE TypeInv'
  <2>1. connection' \in [Tasks -> Connection]
    BY <1>9 DEF EndTransaction, TypeOK, Connection
  <2>2. advisory' \in [Keys -> Tasks \cup {None}]
    BY <1>9 DEF EndTransaction, TypeOK
  <2> QED
    BY <1>9, <2>1, <2>2 DEF EndTransaction, TypeOK, AtScope, Placed
<1>10. ASSUME NEW t \in Tasks, ReleaseConnection(t) PROVE TypeInv'
  <2>1. connection' \in [Tasks -> Connection]
    BY <1>10 DEF ReleaseConnection, TypeOK, Connection
  <2>2. slot' \in [Processes -> [Slots -> Tasks \cup {None}]]
    BY <1>10 DEF ReleaseConnection, TypeOK
  <2> QED
    BY <1>10, <2>1, <2>2 DEF ReleaseConnection, TypeOK, AtScope, Placed
<1>11. ASSUME NEW t \in Tasks, Leave(t) PROVE TypeInv'
  <2>1. at[t] \in 1..Len(program[t]) /\ Len(program[t]) \in Nat
    BY <1>11, HereIsScope, ProgramIsSeq DEF Leave
  <2>2. Len(<<>>) = 0
    OBVIOUS
  <2>3. CASE at[t] > 1
    BY <1>11, <2>1, <2>3 DEF Leave, TypeOK, AtScope, Placed
  <2>4. CASE ~(at[t] > 1)
    <3>0. <<>> \in Seq(Scope)
      OBVIOUS
    <3>5. at[t] = 1
      BY <2>1, <2>4
    <3>1. /\ at' = [at EXCEPT ![t] = 0]
          /\ phase' = [phase EXCEPT ![t] = "idle"]
          /\ program' = [program EXCEPT ![t] = <<>>]
          /\ context' = [context EXCEPT ![t] = None]
          /\ UNCHANGED <<connection, advisory, local, slot>>
      BY <1>11, <3>5 DEF Leave
    <3>2. /\ at' \in [Tasks -> Nat]
          /\ phase' \in [Tasks -> Phases]
          /\ context' \in [Tasks -> Tasks \cup {None}]
      BY <3>1 DEF TypeOK, Phases
    <3>3. ASSUME NEW u \in Tasks
          PROVE  Placed(u)' /\ at'[u] <= Len(program'[u])
      <4>1. CASE u = t
        <5>1. program'[u] = <<>> /\ at'[u] = 0 /\ phase'[u] = "idle"
          BY <3>1, <4>1 DEF TypeOK
        <5> QED
          BY <5>1, <2>2 DEF Placed
      <4>2. CASE u # t
        <5>1. program'[u] = program[u] /\ at'[u] = at[u] /\ phase'[u] = phase[u]
          BY <3>1, <4>2 DEF TypeOK
        <5> QED
          BY <5>1 DEF TypeOK, AtScope, Placed
      <4> QED
        BY <4>1, <4>2
    <3> QED
      BY <3>1, <3>2, <3>3 DEF TypeOK, AtScope
  <2> QED
    BY <2>3, <2>4
<1>12. ASSUME NEW p \in Processes, Crash(p) PROVE TypeInv'
  <2>1. Len(<<>>) = 0
    OBVIOUS
  <2>2. Nobody \in Holder /\ NoConnection \in Connection
    BY DEF Nobody, Holder, NoConnection, Connection
  <2>3. /\ local' \in [Processes -> [Keys -> Holder]]
        /\ slot' \in [Processes -> [Slots -> Tasks \cup {None}]]
        /\ connection' \in [Tasks -> Connection]
        /\ advisory' \in [Keys -> Tasks \cup {None}]
    BY <1>12, <2>2 DEF Crash, TypeOK
  <2>4. /\ phase' \in [Tasks -> Phases]
        /\ at' \in [Tasks -> Nat]
        /\ context' \in [Tasks -> Tasks \cup {None}]
    BY <1>12 DEF Crash, TypeOK, Phases
  <2>5. AtScope' /\ \A t \in Tasks : at'[t] <= Len(program'[t])
    BY <1>12, <2>1 DEF Crash, TypeOK, AtScope, Placed
  <2>6. program' \in [Tasks -> Seq(Scope)]
    <3>1. <<>> \in Seq(Scope)
      OBVIOUS
    <3> QED
      BY <1>12, <3>1 DEF Crash, TypeOK
  <2> QED
    BY <2>3, <2>4, <2>5, <2>6 DEF TypeOK
<1>13. ASSUME NEW t \in Tasks, Disconnect(t) PROVE TypeInv'
  <2>1. connection' \in [Tasks -> Connection]
    BY <1>13 DEF Disconnect, TypeOK, Connection
  <2>2. advisory' \in [Keys -> Tasks \cup {None}]
    BY <1>13 DEF Disconnect, TypeOK
  <2> QED
    BY <1>13, <2>1, <2>2 DEF Disconnect, TypeOK, AtScope, Placed
<1>14. CASE UNCHANGED vars
  BY <1>14 DEF vars, TypeOK, AtScope, Placed
<1> QED
  BY <1>1, <1>2, <1>3, <1>4, <1>5, <1>6, <1>7, <1>8, <1>9, <1>10, <1>11, <1>12, <1>13,
    <1>14 DEF Next, Step

(* The variables keep their types. *)
THEOREM TypesCorrect == Spec => []TypeOK
<1>1. Spec => []TypeInv
  BY TypeInit, TypeNext, PTL DEF Spec
<1>2. TypeInv => TypeOK
  BY DEF TypeInv
<1> QED
  BY <1>1, <1>2, PTL

-----------------------------------------------------------------------------
(* Exclusion inside a process *)

(* A scope that runs still has the AsyncLock of every one of its keys. *)
LocalsKept ==
  \A t \in Tasks : \A n \in Running(t), k \in Keys :
    k \in program[t][n].keys =>
      local[ProcessOf[t]][k] = [task |-> t, scope |-> n]

(* What a step may do to the running scopes: it starts none but the one     *)
(* just entered, whose program stays the same.                              *)
LEMMA RunningIdle ==
  ASSUME NEW t \in Tasks, TypeInv, phase[t] = "idle"
  PROVE  Running(t) = {}
<1>1. program[t] = <<>>
  BY DEF TypeInv, AtScope, Placed
<1>2. Len(<<>>) = 0
  OBVIOUS
<1> QED
  BY <1>1, <1>2 DEF Running

LEMMA LocalsKeptInit == Init => LocalsKept
<1>1. Len(<<>>) = 0
  OBVIOUS
<1> QED
  BY <1>1 DEF Init, LocalsKept, Running

LEMMA LocalsKeptNext == TypeInv /\ LocalsKept /\ [Next]_vars => LocalsKept'
<1> SUFFICES ASSUME TypeInv, LocalsKept, [Next]_vars,
                    NEW u \in Tasks, NEW n \in Running(u)', NEW k \in Keys,
                    k \in program'[u][n].keys
             PROVE  local'[ProcessOf[u]][k] = [task |-> u, scope |-> n]
  BY DEF LocalsKept
<1>a. ProcessOf \in [Tasks -> Processes]
  BY AdmissionAssumption
<1>b. ASSUME n \in Running(u), program'[u] = program[u]
      PROVE  local[ProcessOf[u]][k] = [task |-> u, scope |-> n]
  BY <1>b DEF LocalsKept
<1>c. ASSUME UNCHANGED <<phase, program, at, local>>
      PROVE  local'[ProcessOf[u]][k] = [task |-> u, scope |-> n]
  BY <1>b, <1>c DEF Running
<1>1. ASSUME NEW t \in Tasks, Start(t)
      PROVE  local'[ProcessOf[u]][k] = [task |-> u, scope |-> n]
  <2>1. CASE u = t
    <3>1. phase'[u] = "entering" /\ at'[u] = 1
      BY <1>1, <2>1 DEF Start, TypeInv, TypeOK
    <3> QED
      BY <3>1 DEF Running
  <2>2. CASE u # t
    <3>1. /\ phase'[u] = phase[u] /\ at'[u] = at[u] /\ program'[u] = program[u]
          /\ local' = local
      BY <1>1, <2>2 DEF Start, TypeInv, TypeOK
    <3> QED
      BY <3>1, <1>b DEF Running
  <2> QED
    BY <2>1, <2>2
<1>2. ASSUME NEW t \in Tasks, LockLocal(t)
      PROVE  local'[ProcessOf[u]][k] = [task |-> u, scope |-> n]
  <2>1. PICK j \in First(LocalsMissing(t)) :
          /\ local[ProcessOf[t]][j] = Nobody
          /\ local' = [local EXCEPT ![ProcessOf[t]][j] = [task |-> t, scope |-> at[t]]]
    BY <1>2 DEF LockLocal
  <2>2. local[ProcessOf[u]][k] = [task |-> u, scope |-> n]
    BY <1>2, <1>b DEF LockLocal, Running
  <2>3. [task |-> u, scope |-> n] # Nobody
    BY AdmissionAssumption DEF Nobody
  <2>4. ~(ProcessOf[u] = ProcessOf[t] /\ k = j)
    BY <2>1, <2>2, <2>3
  <2>5. local'[ProcessOf[u]][k] = local[ProcessOf[u]][k]
    BY <2>1, <2>4, <1>a DEF TypeInv, TypeOK
  <2> QED
    BY <2>2, <2>5
<1>3. ASSUME NEW t \in Tasks, Enter(t)
      PROVE  local'[ProcessOf[u]][k] = [task |-> u, scope |-> n]
  <2>1. /\ at[t] \in 1..Len(program[t]) /\ Len(program[t]) \in Nat
        /\ program' = program /\ local' = local
    BY <1>3, HereIsScope, ProgramIsSeq DEF Enter, TypeInv
  <2>2. CASE n \in Running(u)
    BY <1>b, <2>1, <2>2
  <2>3. CASE n \notin Running(u)
    <3>1. u = t /\ n = at[t]
      BY <1>3, <2>1, <2>3 DEF Enter, Running, TypeInv, TypeOK
    <3>2. k \in Here(t).keys
      BY <2>1, <3>1 DEF Here
    <3>3. k \in LocalsHeld(t)
      BY <1>3, <3>2 DEF Enter, LocalsMissing
    <3> QED
      BY <2>1, <3>1, <3>3 DEF LocalsHeld
  <2> QED
    BY <2>2, <2>3
<1>4. ASSUME NEW t \in Tasks, Return(t) \/ ConnectionGone(t)
      PROVE  local'[ProcessOf[u]][k] = [task |-> u, scope |-> n]
  <2>1. /\ phase' = [phase EXCEPT ![t] = "leaving"] /\ at' = at
        /\ program' = program /\ local' = local
    BY <1>4 DEF Return, ConnectionGone
  <2>2. n \in Running(u)
    BY <2>1 DEF Running, TypeInv, TypeOK
  <2> QED
    BY <1>b, <2>1, <2>2
<1>5. ASSUME NEW t \in Tasks, UnlockLocal(t)
      PROVE  local'[ProcessOf[u]][k] = [task |-> u, scope |-> n]
  <2>1. /\ phase' = phase /\ at' = at /\ program' = program
        /\ phase[t] = "leaving"
        /\ local' = [local EXCEPT ![ProcessOf[t]] = [j \in Keys |->
              IF j \in LocalsHeld(t) THEN Nobody ELSE local[ProcessOf[t]][j]]]
    BY <1>5 DEF UnlockLocal
  <2>2. local[ProcessOf[u]][k] = [task |-> u, scope |-> n]
    BY <1>b, <2>1 DEF Running
  <2>3. ~(ProcessOf[u] = ProcessOf[t] /\ k \in LocalsHeld(t))
    <3>1. SUFFICES ASSUME ProcessOf[u] = ProcessOf[t], k \in LocalsHeld(t) PROVE FALSE
      OBVIOUS
    <3>2. u = t /\ n = at[t]
      BY <2>2, <3>1 DEF LocalsHeld
    <3>3. at[t] \in Nat /\ n < at[t]
      BY <2>1, <3>2 DEF Running, TypeInv, TypeOK
    <3> QED
      BY <3>2, <3>3
  <2>4. local'[ProcessOf[u]][k] = local[ProcessOf[u]][k]
    BY <2>1, <2>3, <1>a DEF TypeInv, TypeOK
  <2> QED
    BY <2>2, <2>4
<1>6. ASSUME NEW t \in Tasks, Leave(t)
      PROVE  local'[ProcessOf[u]][k] = [task |-> u, scope |-> n]
  <2>1. CASE u # t
    <3>1. /\ phase'[u] = phase[u] /\ at'[u] = at[u] /\ program'[u] = program[u]
          /\ local' = local
      BY <1>6, <2>1 DEF Leave, TypeInv, TypeOK
    <3> QED
      BY <3>1, <1>b DEF Running
  <2>2. CASE u = t /\ at[t] > 1
    <3>1. /\ phase' = phase /\ at'[u] = at[u] - 1 /\ program' = program
          /\ local' = local /\ phase[u] = "leaving" /\ at[u] \in Nat
      BY <1>6, <2>2 DEF Leave, TypeInv, TypeOK
    <3>2. n \in Running(u)
      BY <3>1 DEF Running
    <3> QED
      BY <3>1, <3>2, <1>b
  <2>3. CASE u = t /\ ~(at[t] > 1)
    <3>1. program'[u] = <<>>
      BY <1>6, <2>3 DEF Leave, TypeInv, TypeOK
    <3>2. Len(<<>>) = 0
      OBVIOUS
    <3> QED
      BY <3>1, <3>2 DEF Running
  <2> QED
    BY <2>1, <2>2, <2>3
<1>7. ASSUME NEW p \in Processes, Crash(p)
      PROVE  local'[ProcessOf[u]][k] = [task |-> u, scope |-> n]
  <2>1. CASE ProcessOf[u] = p
    <3>1. program'[u] = <<>>
      BY <1>7, <2>1 DEF Crash
    <3>2. Len(<<>>) = 0
      OBVIOUS
    <3> QED
      BY <3>1, <3>2 DEF Running
  <2>2. CASE ProcessOf[u] # p
    <3>1. /\ phase'[u] = phase[u] /\ at'[u] = at[u] /\ program'[u] = program[u]
          /\ local'[ProcessOf[u]] = local[ProcessOf[u]]
      BY <1>7, <2>2, <1>a DEF Crash, TypeInv, TypeOK
    <3> QED
      BY <3>1, <1>b DEF Running
  <2> QED
    BY <2>1, <2>2
<1>8. ASSUME NEW t \in Tasks,
             \/ OpenConnection(t) \/ LockAdvisory(t)
             \/ EndTransaction(t) \/ ReleaseConnection(t) \/ Disconnect(t)
      PROVE  local'[ProcessOf[u]][k] = [task |-> u, scope |-> n]
  BY <1>8, <1>c
    DEF OpenConnection, LockAdvisory, EndTransaction, ReleaseConnection, Disconnect
<1>9. CASE UNCHANGED vars
  BY <1>9, <1>c DEF vars
<1> QED
  BY <1>1, <1>2, <1>3, <1>4, <1>5, <1>6, <1>7, <1>8, <1>9 DEF Next, Step

(* Two tasks of one process never run under the same key, whatever the      *)
(* database and whatever was started in the background.                     *)
LocalExclusion ==
  \A t, u \in Tasks :
    t # u /\ ProcessOf[t] = ProcessOf[u] => Guarded(t) \cap Guarded(u) = {}

LEMMA GuardedByScope ==
  ASSUME NEW t \in Tasks, NEW k \in Guarded(t), TypeInv
  PROVE  k \in Keys /\ \E n \in Running(t) : k \in program[t][n].keys
<1>1. PICK n \in Running(t) : k \in program[t][n].keys
  BY DEF Guarded
<1>2. program[t][n] \in Scope
  BY ProgramIsSeq DEF TypeInv, Running
<1> QED
  BY <1>1, <1>2 DEF Scope

LEMMA LocalsExclude == TypeInv /\ LocalsKept => LocalExclusion
<1> SUFFICES ASSUME TypeInv, LocalsKept,
                    NEW t \in Tasks, NEW u \in Tasks, t # u,
                    ProcessOf[t] = ProcessOf[u],
                    NEW k \in Guarded(t), k \in Guarded(u)
             PROVE  FALSE
  BY DEF LocalExclusion
<1>1. PICK n \in Running(t) : k \in program[t][n].keys
  BY GuardedByScope
<1>2. PICK m \in Running(u) : k \in program[u][m].keys
  BY GuardedByScope
<1>3. /\ local[ProcessOf[t]][k] = [task |-> t, scope |-> n]
      /\ local[ProcessOf[u]][k] = [task |-> u, scope |-> m]
  BY <1>1, <1>2, GuardedByScope DEF LocalsKept
<1> QED
  BY <1>3

THEOREM ProcessesExclude == Spec => []LocalExclusion
<1>1. Spec => [](TypeInv /\ LocalsKept)
  BY TypeInit, TypeNext, LocalsKeptInit, LocalsKeptNext, PTL DEF Spec
<1> QED
  BY <1>1, LocalsExclude, PTL

-----------------------------------------------------------------------------
(* Waiting in turn *)

InUse == {"open", "ended", "broken"}

(* A connection in use is that of a busy task, and only an outermost scope  *)
(* waits for a slot.                                                        *)
Connected(t) ==
  /\ connection[t].state \in InUse => context[t] = t /\ phase[t] # "idle"
  /\ Coordinated /\ phase[t] = "entering" /\ at[t] > 1 => context[t] # None

(* Nobody inherits a context before its owner is inside. *)
Inherited(t) ==
  context[t] \notin {None, t} =>
    phase[context[t]] # "entering" /\ ProcessOf[context[t]] = ProcessOf[t]

(* A task that is entering has acquired its advisory locks in turn... *)
AcquiredInTurn(t) ==
  context[t] = t /\ phase[t] = "entering" =>
    \A k \in connection[t].acquired : \E n \in 1..at[t] :
      /\ k \in program[t][n].keys
      /\ n = at[t] =>
           /\ Here(t).first = "local" => LocalsMissing(t) = {}
           /\ \A j \in Here(t).keys : Rank[j] < Rank[k] => j \in connection[t].acquired

(* ...and its AsyncLocks. *)
LockedInTurn(p, k) ==
  LET u == local[p][k].task  n == local[p][k].scope IN
  u # None =>
    /\ ProcessOf[u] = p /\ phase[u] # "idle"
    /\ n \in 1..at[u] /\ k \in program[u][n].keys
    /\ n = at[u] /\ phase[u] = "entering" =>
         /\ Here(u).first = "advisory" => Admitted(u)
         /\ \A j \in Here(u).keys : Rank[j] < Rank[k] => j \in LocalsHeld(u)

(* Advisory locks and slots belong to connections in use. *)
HeldByConnection ==
  /\ \A k \in Keys : advisory[k] # None =>
       connection[advisory[k]].state = "open" /\ k \in connection[advisory[k]].acquired
  /\ \A p \in Processes, s \in Slots : slot[p][s] # None =>
       ProcessOf[slot[p][s]] = p /\ connection[slot[p][s]].state \in InUse

TurnInv ==
  /\ \A t \in Tasks : Connected(t) /\ Inherited(t) /\ AcquiredInTurn(t)
  /\ \A p \in Processes, k \in Keys : LockedInTurn(p, k)
  /\ HeldByConnection

LEMMA TurnInit == Init => TurnInv
<1>1. None \notin Tasks
  BY AdmissionAssumption
<1> QED
  BY <1>1 DEF Init, TurnInv, Connected, Inherited, AcquiredInTurn, LockedInTurn,
    HeldByConnection, NoConnection, Nobody, InUse

-----------------------------------------------------------------------------
(* What a step leaves alone *)

LEMMA OthersStay ==
  ASSUME NEW t \in Tasks, NEW u \in Tasks, u # t, TypeInv, Step(t)
  PROVE  /\ phase'[u] = phase[u] /\ at'[u] = at[u]
         /\ program'[u] = program[u] /\ context'[u] = context[u]
<1> USE DEF TypeInv, TypeOK
<1>1. CASE Start(t)
  BY <1>1 DEF Start
<1>2. CASE Enter(t)
  BY <1>2 DEF Enter
<1>3. CASE Leave(t)
  BY <1>3 DEF Leave
<1>4. CASE OpenConnection(t) \/ ReleaseConnection(t)
  BY <1>4 DEF OpenConnection, ReleaseConnection
<1>5. CASE ConnectionGone(t) \/ Return(t)
  BY <1>5 DEF ConnectionGone, Return
<1>6. CASE LockLocal(t) \/ LockAdvisory(t) \/ UnlockLocal(t) \/ EndTransaction(t)
  BY <1>6 DEF LockLocal, LockAdvisory, UnlockLocal, EndTransaction
<1> QED
  BY <1>1, <1>2, <1>3, <1>4, <1>5, <1>6 DEF Step

LEMMA Disconnected ==
  ASSUME NEW t \in Tasks, TypeInv, Disconnect(t)
  PROVE  /\ UNCHANGED <<phase, program, at, context, local, slot>>
         /\ connection[t].state \in {"open", "ended"} /\ connection'[t].state = "broken"
         /\ \A u \in Tasks : u # t => connection'[u] = connection[u]
         /\ \A u \in Tasks : connection'[u].acquired = connection[u].acquired
         /\ \A k \in Keys : advisory'[k] = IF advisory[k] = t THEN None ELSE advisory[k]
<1> USE DEF TypeInv, TypeOK
<1>1. /\ connection' = [connection EXCEPT ![t].state = "broken"]
      /\ UNCHANGED <<phase, program, at, context, local, slot>>
      /\ connection[t].state \in {"open", "ended"}
      /\ \A k \in Keys : advisory'[k] = IF advisory[k] = t THEN None ELSE advisory[k]
  BY DEF Disconnect
<1>2. \A u \in Tasks : u # t => connection'[u] = connection[u]
  BY <1>1
<1>3. connection[t] \in Connection
  OBVIOUS
<1>4. connection'[t].state = "broken" /\ connection'[t].acquired = connection[t].acquired
  BY <1>1, <1>3 DEF Connection
<1> QED
  BY <1>1, <1>2, <1>4

LEMMA AtPositive ==
  ASSUME NEW t \in Tasks, TypeInv, phase[t] # "idle"
  PROVE  at[t] \in Nat /\ 1 <= at[t] /\ at[t] \in 1..at[t]
<1>1. at[t] \in 1..Len(program[t]) /\ Len(program[t]) \in Nat
  BY HereIsScope, ProgramIsSeq DEF TypeInv
<1> QED
  BY <1>1

LEMMA CrashStays ==
  ASSUME NEW p \in Processes, NEW u \in Tasks, TypeInv, Crash(p)
  PROVE  /\ ProcessOf[u] = p =>
              /\ phase'[u] = "idle" /\ at'[u] = 0 /\ program'[u] = <<>>
              /\ context'[u] = None /\ connection'[u] = NoConnection
         /\ ProcessOf[u] # p =>
              /\ phase'[u] = phase[u] /\ at'[u] = at[u] /\ program'[u] = program[u]
              /\ context'[u] = context[u] /\ connection'[u] = connection[u]
BY DEF Crash

(* A task of which a step says that it is entering has just started, has    *)
(* moved to its next scope, or was at this scope before.                    *)
LEMMA EnteringBefore ==
  ASSUME NEW u \in Tasks, TypeInv, [Next]_vars, phase'[u] = "entering"
  PROVE  \/ Start(u)
         \/ Enter(u) /\ at'[u] = at[u] + 1 /\ program'[u] = program[u]
         \/ phase[u] = "entering" /\ at'[u] = at[u] /\ program'[u] = program[u]
<1> USE DEF TypeInv, TypeOK
<1>1. CASE UNCHANGED vars
  BY <1>1 DEF vars
<1>2. ASSUME NEW p \in Processes, Crash(p)
      PROVE  phase[u] = "entering" /\ at'[u] = at[u] /\ program'[u] = program[u]
  BY <1>2, CrashStays
<1>3. ASSUME NEW t \in Tasks, Step(t), t # u
      PROVE  phase[u] = "entering" /\ at'[u] = at[u] /\ program'[u] = program[u]
  BY <1>3, OthersStay
<1>4. ASSUME Step(u)
      PROVE  \/ Start(u)
             \/ Enter(u) /\ at'[u] = at[u] + 1 /\ program'[u] = program[u]
             \/ phase[u] = "entering" /\ at'[u] = at[u] /\ program'[u] = program[u]
  <2>1. CASE LockLocal(u) \/ LockAdvisory(u) \/ OpenConnection(u)
    BY <2>1 DEF LockLocal, LockAdvisory, OpenConnection
  <2>2. CASE Enter(u)
    BY <2>2 DEF Enter
  <2>3. CASE ConnectionGone(u) \/ Return(u)
    BY <2>3 DEF ConnectionGone, Return
  <2>4. CASE UnlockLocal(u) \/ EndTransaction(u) \/ ReleaseConnection(u)
    BY <2>4 DEF UnlockLocal, EndTransaction, ReleaseConnection
  <2>5. CASE Leave(u)
    BY <2>5 DEF Leave
  <2> QED
    BY <1>4, <2>1, <2>2, <2>3, <2>4, <2>5 DEF Step
<1>5. ASSUME NEW t \in Tasks, Disconnect(t)
      PROVE  phase[u] = "entering" /\ at'[u] = at[u] /\ program'[u] = program[u]
  BY <1>5, Disconnected
<1> QED
  BY <1>1, <1>2, <1>3, <1>4, <1>5 DEF Next

(* Whoever is entering keeps the AsyncLocks of its scope. *)
LEMMA HeldStays ==
  ASSUME NEW u \in Tasks, TypeInv, [Next]_vars,
         phase[u] = "entering", phase'[u] = "entering", at'[u] = at[u]
  PROVE  LocalsHeld(u) \subseteq LocalsHeld(u)'
<1> SUFFICES ASSUME NEW k \in Keys,
                    local[ProcessOf[u]][k] = [task |-> u, scope |-> at[u]]
             PROVE  local'[ProcessOf[u]][k] = local[ProcessOf[u]][k]
  BY DEF LocalsHeld
<1> USE DEF TypeInv, TypeOK
<1>a. ProcessOf \in [Tasks -> Processes] /\ None \notin Tasks
  BY AdmissionAssumption
<1>1. ASSUME NEW t \in Tasks, LockLocal(t)
      PROVE  local'[ProcessOf[u]][k] = local[ProcessOf[u]][k]
  <2>1. local[ProcessOf[u]][k] # Nobody
    BY <1>a DEF Nobody
  <2> QED
    BY <1>1, <1>a, <2>1 DEF LockLocal
<1>2. ASSUME NEW t \in Tasks, UnlockLocal(t)
      PROVE  local'[ProcessOf[u]][k] = local[ProcessOf[u]][k]
  <2>1. t # u
    BY <1>2 DEF UnlockLocal
  <2>2. k \notin LocalsHeld(t) \/ ProcessOf[t] # ProcessOf[u]
    BY <2>1 DEF LocalsHeld
  <2> QED
    BY <1>2, <1>a, <2>2 DEF UnlockLocal
<1>3. ASSUME NEW p \in Processes, Crash(p)
      PROVE  local'[ProcessOf[u]][k] = local[ProcessOf[u]][k]
  BY <1>3, <1>a, CrashStays DEF Crash
<1>4. CASE UNCHANGED local
  BY <1>4
<1> QED
  BY <1>1, <1>2, <1>3, <1>4
    DEF Next, Step, vars, Start, OpenConnection, LockAdvisory, ConnectionGone, Enter,
      Return, EndTransaction, ReleaseConnection, Leave, Disconnect

(* Meanwhile nobody else touches the connection it locks through. *)
LEMMA ContextStays ==
  ASSUME NEW u \in Tasks, TypeInv, TurnInv, [Next]_vars,
         phase[u] = "entering", phase'[u] = "entering", at'[u] = at[u],
         context[u] # None
  PROVE  /\ context'[u] = context[u]
         /\ connection[context[u]].acquired \subseteq connection'[context[u]].acquired
<1> USE DEF TypeInv, TypeOK
<1>0. context[u] \in Tasks
  OBVIOUS
<1>1. ASSUME NEW t \in Tasks, OpenConnection(t)
      PROVE  /\ context'[u] = context[u]
             /\ connection'[context[u]] = connection[context[u]]
  <2>1. /\ context[t] = None /\ phase[t] = "entering"
        /\ context' = [context EXCEPT ![t] = t]
        /\ connection' = [connection EXCEPT ![t] = [state |-> "open", acquired |-> {}]]
    BY <1>1 DEF OpenConnection, NeedsSlot, NeedsCoordinator
  <2>2. t # u /\ t # context[u]
    BY <2>1 DEF TurnInv, Inherited
  <2> QED
    BY <1>0, <2>1, <2>2
<1>2. ASSUME NEW t \in Tasks, LockAdvisory(t)
      PROVE  /\ context'[u] = context[u]
             /\ connection[context[u]].acquired \subseteq connection'[context[u]].acquired
  <2>1. context' = context /\ context[t] \in Tasks
    BY <1>2 DEF LockAdvisory, NeedsAdvisory
  <2>2. PICK k : connection' = [connection EXCEPT ![context[t]].acquired = @ \cup {k}]
    BY <1>2 DEF LockAdvisory
  <2> QED
    BY <1>0, <2>1, <2>2 DEF Connection
<1>3. ASSUME NEW t \in Tasks, ReleaseConnection(t) \/ EndTransaction(t)
      PROVE  /\ context'[u] = context[u]
             /\ connection[context[u]].acquired = connection'[context[u]].acquired
  <2>1. t # u
    BY <1>3 DEF ReleaseConnection, EndTransaction
  <2>2. context'[u] = context[u]
    BY <1>3, <2>1, OthersStay DEF Step
  <2>3. PICK x : connection' = [connection EXCEPT ![t].state = x]
    BY <1>3 DEF ReleaseConnection, EndTransaction
  <2> QED
    BY <1>0, <2>2, <2>3 DEF Connection
<1>4. ASSUME NEW t \in Tasks, Start(t) \/ Leave(t)
      PROVE  /\ context'[u] = context[u]
             /\ connection[context[u]].acquired = connection'[context[u]].acquired
  <2>1. t # u
    BY <1>4 DEF Start, Leave
  <2> QED
    BY <1>4, <2>1, OthersStay DEF Start, Leave, Step
<1>5. ASSUME NEW p \in Processes, Crash(p)
      PROVE  /\ context'[u] = context[u]
             /\ connection[context[u]].acquired = connection'[context[u]].acquired
  <2>1. ProcessOf[u] # p
    BY <1>5, CrashStays
  <2>2. ProcessOf[context[u]] = ProcessOf[u]
    BY DEF TurnInv, Inherited
  <2> QED
    BY <1>0, <1>5, <2>1, <2>2, CrashStays
<1>6. CASE UNCHANGED <<context, connection>>
  BY <1>6
<1>7. ASSUME NEW t \in Tasks, Disconnect(t)
      PROVE  /\ context'[u] = context[u]
             /\ connection[context[u]].acquired = connection'[context[u]].acquired
  BY <1>0, <1>7, Disconnected
<1> QED
  BY <1>1, <1>2, <1>3, <1>4, <1>5, <1>6, <1>7
    DEF Next, Step, vars, LockLocal, ConnectionGone, Enter, Return, UnlockLocal

LEMMA ConnectedNext ==
  ASSUME NEW u \in Tasks, TypeInv, TurnInv, [Next]_vars
  PROVE  Connected(u)'
<1> USE DEF TypeInv, TypeOK, InUse
<1>0. Connected(u) /\ None \notin Tasks
  BY AdmissionAssumption DEF TurnInv
<1>a. ASSUME phase'[u] = phase[u], at'[u] = at[u], context'[u] = context[u],
             connection'[u].state = connection[u].state
      PROVE  Connected(u)'
  BY <1>0, <1>a DEF Connected
<1>b. ASSUME NEW t \in Tasks, Step(t), t # u,
             connection'[u].state = connection[u].state
      PROVE  Connected(u)'
  BY <1>a, <1>b, OthersStay
<1>1. ASSUME NEW t \in Tasks, Start(t) PROVE Connected(u)'
  <2>1. connection' = connection /\ phase' = [phase EXCEPT ![t] = "entering"]
        /\ at' = [at EXCEPT ![t] = 1] /\ phase[t] = "idle"
    BY <1>1 DEF Start
  <2>2. CASE u = t
    BY <1>0, <2>1, <2>2 DEF Connected
  <2> QED
    BY <1>1, <1>b, <2>1, <2>2 DEF Step
<1>2. ASSUME NEW t \in Tasks, OpenConnection(t) PROVE Connected(u)'
  <2>1. /\ phase' = phase /\ at' = at /\ phase[t] = "entering"
        /\ context' = [context EXCEPT ![t] = t]
        /\ connection' = [connection EXCEPT ![t] = [state |-> "open", acquired |-> {}]]
    BY <1>2 DEF OpenConnection, NeedsSlot, NeedsCoordinator
  <2>2. CASE u = t
    BY <1>0, <2>1, <2>2 DEF Connected
  <2>3. CASE u # t
    BY <1>2, <1>b, <2>1, <2>3 DEF Step
  <2> QED
    BY <2>2, <2>3
<1>3. ASSUME NEW t \in Tasks, LockAdvisory(t) PROVE Connected(u)'
  <2>1. UNCHANGED <<phase, at, context>> /\ context[t] \in Tasks
    BY <1>3 DEF LockAdvisory, NeedsAdvisory
  <2>2. PICK k : connection' = [connection EXCEPT ![context[t]].acquired = @ \cup {k}]
    BY <1>3 DEF LockAdvisory
  <2>3. connection'[u].state = connection[u].state
    BY <2>1, <2>2 DEF Connection
  <2> QED
    BY <1>a, <2>1, <2>3
<1>4. ASSUME NEW t \in Tasks, ConnectionGone(t) \/ Return(t) PROVE Connected(u)'
  <2>1. /\ phase' = [phase EXCEPT ![t] = "leaving"] /\ phase[t] # "idle"
        /\ UNCHANGED <<at, context, connection>>
    BY <1>4 DEF ConnectionGone, Return, NeedsAdvisory, NeedsCoordinator
  <2> QED
    BY <1>0, <2>1 DEF Connected
<1>5. ASSUME NEW t \in Tasks, Enter(t) PROVE Connected(u)'
  <2>1. CASE u # t
    BY <1>5, <1>b, <2>1 DEF Enter, Step
  <2>2. CASE u = t
    <3>1. /\ UNCHANGED <<context, connection>> /\ phase'[u] \in {"entering", "inside"}
          /\ Coordinated => context[u] # None
      BY <1>5, <2>2 DEF Enter, Admitted
    <3> QED
      BY <1>0, <1>5, <2>2, <3>1 DEF Connected, Enter
  <2> QED
    BY <2>1, <2>2
<1>6. ASSUME NEW t \in Tasks, EndTransaction(t) PROVE Connected(u)'
  <2>1. /\ UNCHANGED <<phase, at, context>> /\ connection[t].state = "open"
        /\ connection' = [connection EXCEPT ![t].state = "ended"]
    BY <1>6 DEF EndTransaction
  <2> QED
    BY <1>0, <2>1 DEF Connected, Connection
<1>7. ASSUME NEW t \in Tasks, ReleaseConnection(t) PROVE Connected(u)'
  <2>1. /\ UNCHANGED <<phase, at>> /\ phase[t] = "leaving"
        /\ connection' = [connection EXCEPT ![t].state = "released"]
    BY <1>7 DEF ReleaseConnection
  <2>2. CASE u = t
    BY <2>1, <2>2 DEF Connected, Connection
  <2>3. CASE u # t
    BY <1>7, <1>b, <2>1, <2>3 DEF Step
  <2> QED
    BY <2>2, <2>3
<1>8. ASSUME NEW t \in Tasks, Leave(t) PROVE Connected(u)'
  <2>1. connection' = connection /\ phase[t] = "leaving" /\ ~Owns(t)
    BY <1>8 DEF Leave
  <2>2. CASE u = t /\ at[t] > 1
    BY <1>0, <1>8, <2>1, <2>2 DEF Connected, Leave
  <2>3. CASE u = t /\ ~(at[t] > 1)
    <3>0. at[t] \in Nat /\ 1 <= at[t]
      BY <2>1, AtPositive
    <3>1. at[t] = 1 /\ context[t] # t
      BY <2>1, <2>3, <3>0 DEF Owns
    <3>2. phase'[u] = "idle"
      BY <1>8, <2>3 DEF Leave
    <3> QED
      BY <1>0, <2>1, <2>3, <3>1, <3>2 DEF Connected
  <2>4. CASE u # t
    BY <1>8, <1>b, <2>1, <2>4 DEF Step
  <2> QED
    BY <2>2, <2>3, <2>4
<1>9. ASSUME NEW p \in Processes, Crash(p) PROVE Connected(u)'
  <2>1. CASE ProcessOf[u] = p
    <3>1. phase'[u] = "idle" /\ connection'[u] = NoConnection
      BY <1>9, <2>1, CrashStays
    <3> QED
      BY <3>1 DEF Connected, NoConnection
  <2>2. CASE ProcessOf[u] # p
    BY <1>9, <2>2, <1>a, CrashStays
  <2> QED
    BY <2>1, <2>2
<1>10. CASE UNCHANGED <<phase, at, context, connection>>
  BY <1>a, <1>10
<1>11. ASSUME NEW t \in Tasks, Disconnect(t) PROVE Connected(u)'
  <2>1. CASE u = t
    BY <1>0, <1>11, <2>1, Disconnected DEF Connected
  <2>2. CASE u # t
    BY <1>a, <1>11, <2>2, Disconnected
  <2> QED
    BY <2>1, <2>2
<1> QED
  BY <1>1, <1>2, <1>3, <1>4, <1>5, <1>6, <1>7, <1>8, <1>9, <1>10, <1>11
    DEF Next, Step, vars, LockLocal, UnlockLocal

LEMMA InheritedNext ==
  ASSUME SpawnsNearby, NEW u \in Tasks, TypeInv, TurnInv, [Next]_vars
  PROVE  Inherited(u)'
<1> USE DEF TypeInv, TypeOK
<1>0. Inherited(u) /\ None \notin Tasks
  BY AdmissionAssumption DEF TurnInv
<1> DEFINE c == context'[u]
<1> SUFFICES ASSUME c \notin {None, u}
             PROVE  phase'[c] # "entering" /\ ProcessOf[c] = ProcessOf[u]
  BY DEF Inherited
<1>1. ASSUME Start(u) PROVE phase'[c] # "entering" /\ ProcessOf[c] = ProcessOf[u]
  <2>1. PICK v \in Tasks : phase[v] = "inside" /\ u \in Spawns[v] /\ c = context[v]
    BY <1>1 DEF Start
  <2>2. phase' = [phase EXCEPT ![u] = "entering"]
    BY <1>1 DEF Start
  <2>3. c \in Tasks /\ phase'[c] = phase[c]
    BY <2>1, <2>2
  <2>4. ProcessOf[v] = ProcessOf[u]
    BY <2>1, AdmissionAssumption DEF SpawnsNearby
  <2>5. Inherited(v)
    BY DEF TurnInv
  <2> QED
    BY <2>1, <2>3, <2>4, <2>5 DEF Inherited
<1>2. ASSUME context[u] = c
      PROVE  phase'[c] # "entering" /\ ProcessOf[c] = ProcessOf[u]
  <2>1. c \in Tasks /\ phase[c] # "entering" /\ ProcessOf[c] = ProcessOf[u]
    BY <1>0, <1>2 DEF Inherited
  <2>2. ~Start(c) /\ ~Enter(c)
    BY <1>2, <2>1 DEF Start, Enter
  <2> QED
    BY <2>1, <2>2, EnteringBefore
<1>3. context[u] = c \/ Start(u)
  <2>1. ASSUME NEW t \in Tasks, Step(t), t # u PROVE context'[u] = context[u]
    BY <2>1, OthersStay
  <2>2. ASSUME Step(u), ~Start(u) PROVE context[u] = c
    <3>1. context'[u] \in {context[u], None, u}
      BY <2>2 DEF Step, LockLocal, OpenConnection, LockAdvisory, ConnectionGone, Enter,
        Return, UnlockLocal, EndTransaction, ReleaseConnection, Leave
    <3> QED
      BY <3>1
  <2>3. ASSUME NEW p \in Processes, Crash(p) PROVE context[u] = c
    BY <2>3, CrashStays
  <2>4. ASSUME NEW t \in Tasks, Disconnect(t) PROVE context[u] = c
    BY <2>4, Disconnected
  <2> QED
    BY <2>1, <2>2, <2>3, <2>4 DEF Next, vars
<1> QED
  BY <1>1, <1>2, <1>3

LEMMA AcquiredNext ==
  ASSUME NEW u \in Tasks, TypeInv, TurnInv, [Next]_vars
  PROVE  AcquiredInTurn(u)'
<1> USE DEF TypeInv, TypeOK
<1>0. None \notin Tasks
  BY AdmissionAssumption
<1> SUFFICES ASSUME context'[u] = u, phase'[u] = "entering",
                    NEW k \in connection'[u].acquired
             PROVE  \E n \in 1..at'[u] :
                      /\ k \in program'[u][n].keys
                      /\ n = at'[u] =>
                           /\ Here(u)'.first = "local" => LocalsMissing(u)' = {}
                           /\ \A j \in Here(u)'.keys : Rank[j] < Rank[k] =>
                                j \in connection'[u].acquired
  BY DEF AcquiredInTurn
<1>1. CASE Start(u)
  <2>1. \A v \in Tasks : context[v] # u
    BY <1>1 DEF Start
  <2>2. context'[u] \in {None} \cup {context[v] : v \in Tasks}
    BY <1>1 DEF Start
  <2> QED
    BY <1>0, <2>1, <2>2
<1>2. CASE Enter(u) /\ at'[u] = at[u] + 1 /\ program'[u] = program[u]
  <2>1. context = context' /\ connection' = connection /\ phase[u] = "entering"
    BY <1>2 DEF Enter
  <2>2. PICK n \in 1..at[u] : k \in program[u][n].keys
    BY <2>1 DEF TurnInv, AcquiredInTurn
  <2>3. n \in 1..at'[u] /\ n # at'[u]
    BY <1>2
  <2> QED
    BY <1>2, <2>2, <2>3
<1>3. CASE phase[u] = "entering" /\ at'[u] = at[u] /\ program'[u] = program[u]
  <2>1. Here(u)' = Here(u) /\ Here(u) \in Scope
    BY <1>3, HereIsScope DEF Here
  <2>2. LocalsMissing(u)' \subseteq LocalsMissing(u)
    BY <1>3, <2>1, HeldStays DEF LocalsMissing
  <2>3. CASE context[u] = u /\ k \in connection[u].acquired
    <3>1. PICK n \in 1..at[u] :
            /\ k \in program[u][n].keys
            /\ n = at[u] =>
                 /\ Here(u).first = "local" => LocalsMissing(u) = {}
                 /\ \A j \in Here(u).keys : Rank[j] < Rank[k] =>
                      j \in connection[u].acquired
      BY <1>3, <2>3 DEF TurnInv, AcquiredInTurn
    <3>2. connection[u].acquired \subseteq connection'[u].acquired
      BY <1>0, <1>3, <2>3, ContextStays
    <3> QED
      BY <1>3, <2>1, <2>2, <3>1, <3>2
  <2>4. CASE ~(context[u] = u /\ k \in connection[u].acquired)
    <3>1. ASSUME NEW t \in Tasks, OpenConnection(t) PROVE FALSE
      <4>1. /\ context' = [context EXCEPT ![t] = t]
            /\ connection' = [connection EXCEPT ![t] = [state |-> "open", acquired |-> {}]]
        BY <3>1 DEF OpenConnection
      <4>2. t # u
        BY <4>1
      <4> QED
        BY <2>4, <4>1, <4>2
    <3>2. ASSUME NEW t \in Tasks, ReleaseConnection(t) \/ EndTransaction(t) PROVE FALSE
      <4>1. t # u
        BY <1>3, <3>2 DEF ReleaseConnection, EndTransaction
      <4>2. connection'[u] = connection[u]
        BY <3>2, <4>1 DEF ReleaseConnection, EndTransaction
      <4> QED
        BY <2>4, <3>2, <4>1, <4>2, OthersStay DEF Step
    <3>3. ASSUME NEW t \in Tasks, Start(t) \/ Leave(t) PROVE FALSE
      <4>1. t # u
        BY <1>3, <3>3 DEF Start, Leave
      <4>2. connection'[u] = connection[u]
        BY <3>3 DEF Start, Leave
      <4> QED
        BY <2>4, <3>3, <4>1, <4>2, OthersStay DEF Step
    <3>4. ASSUME NEW p \in Processes, Crash(p) PROVE FALSE
      BY <2>4, <3>4, CrashStays
    <3>a. ASSUME NEW t \in Tasks, Disconnect(t) PROVE FALSE
      BY <2>4, <3>a, Disconnected
    <3>5. PICK t \in Tasks : LockAdvisory(t)
      BY <2>4, <3>1, <3>2, <3>3, <3>4, <3>a
        DEF Next, Step, vars, LockLocal, ConnectionGone, Enter, Return, UnlockLocal
    <3>6. /\ context' = context /\ NeedsAdvisory(t) /\ context[t] \in Tasks
      BY <3>5 DEF LockAdvisory, NeedsAdvisory
    <3>7. PICK i \in First(AdvisoriesMissing(t)) :
            connection' = [connection EXCEPT ![context[t]].acquired = @ \cup {i}]
      BY <3>5 DEF LockAdvisory
    <3>8. /\ context[u] = u /\ context[t] = u /\ k = i
          /\ connection'[u].acquired = connection[u].acquired \cup {k}
      BY <2>4, <3>6, <3>7 DEF Connection
    <3>9. t = u
      <4>1. Inherited(t)
        BY DEF TurnInv
      <4> QED
        BY <1>0, <1>3, <3>8, <4>1 DEF Inherited
    <3>10. /\ Coordinated /\ AdvisoriesMissing(u) = Here(u).keys \ connection[u].acquired
           /\ Here(u).first = "local" => LocalsMissing(u) = {}
      BY <3>6, <3>8, <3>9 DEF NeedsAdvisory, NeedsCoordinator, AdvisoriesMissing
    <3>11. k \in Here(u).keys
      BY <3>7, <3>8, <3>9, <3>10 DEF First
    <3>12. ASSUME NEW j \in Here(u).keys, Rank[j] < Rank[k]
           PROVE  j \in connection'[u].acquired
      <4>1. j \in Keys /\ k \in Keys
        BY <2>1, <3>11 DEF Scope
      <4>2. Rank[j] \in Nat /\ Rank[k] \in Nat
        BY <4>1, AdmissionAssumption
      <4>3. j \notin AdvisoriesMissing(u)
        BY <3>7, <3>8, <3>9, <3>12, <4>2 DEF First
      <4> QED
        BY <3>8, <3>10, <4>3
    <3>13. at[u] \in 1..at'[u] /\ k \in program'[u][at[u]].keys
      <4>1. at[u] \in 1..at[u]
        BY <1>3, AtPositive
      <4> QED
        BY <1>3, <3>11, <4>1 DEF Here
    <3> QED
      BY <2>1, <2>2, <3>10, <3>12, <3>13
  <2> QED
    BY <2>3, <2>4
<1> QED
  BY <1>1, <1>2, <1>3, EnteringBefore

(* An AsyncLock that is held was held before, or has just been taken. *)
LEMMA LockedBefore ==
  ASSUME NEW p \in Processes, NEW k \in Keys, TypeInv, [Next]_vars,
         local'[p][k].task # None
  PROVE  \/ local'[p][k] = local[p][k] /\ ~Crash(p)
         \/ \E t \in Tasks :
              /\ LockLocal(t) /\ p = ProcessOf[t] /\ k \in First(LocalsMissing(t))
              /\ local'[p][k] = [task |-> t, scope |-> at[t]]
<1> USE DEF TypeInv, TypeOK
<1>0. ProcessOf \in [Tasks -> Processes]
  BY AdmissionAssumption
<1>1. ~Crash(p)
  BY DEF Crash, Nobody
<1>2. ASSUME NEW t \in Tasks, LockLocal(t), local'[p][k] # local[p][k]
      PROVE  /\ LockLocal(t) /\ p = ProcessOf[t] /\ k \in First(LocalsMissing(t))
             /\ local'[p][k] = [task |-> t, scope |-> at[t]]
  <2>1. PICK j \in First(LocalsMissing(t)) :
          local' = [local EXCEPT ![ProcessOf[t]][j] = [task |-> t, scope |-> at[t]]]
    BY <1>2 DEF LockLocal
  <2> QED
    BY <1>0, <1>2, <2>1
<1>3. ASSUME NEW t \in Tasks, UnlockLocal(t) PROVE local'[p][k] = local[p][k]
  BY <1>0, <1>3 DEF UnlockLocal, Nobody
<1>4. ASSUME NEW q \in Processes, Crash(q) PROVE local'[p][k] = local[p][k]
  BY <1>1, <1>4 DEF Crash
<1>5. CASE UNCHANGED local
  BY <1>1, <1>5
<1> QED
  BY <1>1, <1>2, <1>3, <1>4, <1>5
    DEF Next, Step, vars, Start, OpenConnection, LockAdvisory, ConnectionGone, Enter,
      Return, EndTransaction, ReleaseConnection, Leave, Disconnect

LEMMA EnterMoves ==
  ASSUME NEW t \in Tasks, TypeInv, Enter(t)
  PROVE  /\ program'[t] = program[t] /\ at'[t] \in {at[t], at[t] + 1}
         /\ phase'[t] \in {phase[t], "inside"}
BY DEF Enter, TypeInv, TypeOK

LEMMA LockedNext ==
  ASSUME NEW p \in Processes, NEW k \in Keys, TypeInv, TurnInv, [Next]_vars
  PROVE  LockedInTurn(p, k)'
<1> SUFFICES ASSUME NEW u, NEW n, u # None,
                    u = local'[p][k].task, n = local'[p][k].scope
             PROVE  /\ ProcessOf[u] = p /\ phase'[u] # "idle"
                    /\ n \in 1..at'[u] /\ k \in program'[u][n].keys
                    /\ n = at'[u] /\ phase'[u] = "entering" =>
                         /\ Here(u)'.first = "advisory" => Admitted(u)'
                         /\ \A j \in Here(u)'.keys : Rank[j] < Rank[k] =>
                              j \in LocalsHeld(u)'
  BY DEF LockedInTurn
<1>1. CASE local'[p][k] = local[p][k] /\ ~Crash(p)
  <2>1. /\ u \in Tasks /\ n \in Nat
    BY <1>1 DEF TypeInv, TypeOK, Holder
  <2>2. /\ ProcessOf[u] = p /\ phase[u] # "idle"
        /\ n \in 1..at[u] /\ k \in program[u][n].keys
        /\ n = at[u] /\ phase[u] = "entering" =>
             /\ Here(u).first = "advisory" => Admitted(u)
             /\ \A j \in Here(u).keys : Rank[j] < Rank[k] => j \in LocalsHeld(u)
    BY <1>1 DEF TurnInv, LockedInTurn
  <2>3. local[p][k] = [task |-> u, scope |-> n]
    BY <1>1 DEF TypeInv, TypeOK, Holder
  <2>a. at \in [Tasks -> Nat] /\ phase \in [Tasks -> Phases]
    BY DEF TypeInv, TypeOK
  <2>4. phase'[u] # "idle" /\ n \in 1..at'[u] /\ program'[u] = program[u]
    <3>1. ASSUME NEW q \in Processes, Crash(q)
          PROVE  phase'[u] = phase[u] /\ at'[u] = at[u] /\ program'[u] = program[u]
      <4>1. q # p
        BY <1>1, <3>1
      <4> QED
        BY <2>1, <2>2, <3>1, <4>1, CrashStays
    <3>2. ASSUME NEW t \in Tasks, Step(t), t # u
          PROVE  phase'[u] = phase[u] /\ at'[u] = at[u] /\ program'[u] = program[u]
      BY <2>1, <3>2, OthersStay
    <3>3. ASSUME Leave(u)
          PROVE  phase'[u] # "idle" /\ n \in 1..at'[u] /\ program'[u] = program[u]
      <4>1. k \notin LocalsHeld(u)
        BY <3>3 DEF Leave
      <4>2. n # at[u]
        BY <2>2, <2>3, <4>1 DEF LocalsHeld
      <4>3. at[u] > 1 /\ n \in 1..(at[u] - 1)
        BY <2>1, <2>2, <2>a, <4>2
      <4> QED
        BY <2>1, <2>2, <2>a, <3>3, <4>3 DEF Leave
    <3>4. ASSUME Enter(u)
          PROVE  phase'[u] # "idle" /\ n \in 1..at'[u] /\ program'[u] = program[u]
      <4>1. /\ program'[u] = program[u] /\ at'[u] \in {at[u], at[u] + 1}
            /\ phase'[u] \in {phase[u], "inside"}
        BY <2>1, <3>4, EnterMoves DEF TypeInv
      <4>0. at[u] \in Nat /\ n \in 1..at[u]
        BY <2>1, <2>2, <2>a
      <4>2. CASE at'[u] = at[u]
        BY <2>2, <4>0, <4>1, <4>2
      <4>3. CASE at'[u] = at[u] + 1
        <5>1. ASSUME NEW i \in Nat PROVE 1..i \subseteq 1..(i + 1)
          OBVIOUS
        <5> QED
          BY <2>2, <4>0, <4>1, <4>3, <5>1
      <4> QED
        BY <4>1, <4>2, <4>3
    <3>5. ASSUME LockLocal(u) \/ OpenConnection(u) \/ LockAdvisory(u) \/ UnlockLocal(u)
                 \/ EndTransaction(u) \/ ReleaseConnection(u)
          PROVE  UNCHANGED <<phase, at, program>>
      BY <3>5 DEF LockLocal, OpenConnection, LockAdvisory, UnlockLocal, EndTransaction,
        ReleaseConnection
    <3>6. ASSUME ConnectionGone(u) \/ Return(u)
          PROVE  phase'[u] # "idle" /\ n \in 1..at'[u] /\ program'[u] = program[u]
      BY <2>1, <2>2, <2>a, <3>6 DEF ConnectionGone, Return
    <3>7. ~Start(u)
      BY <2>2 DEF Start
    <3>8. CASE UNCHANGED vars
      BY <2>2, <3>8 DEF vars
    <3>9. CASE Step(u)
      BY <2>2, <3>3, <3>4, <3>5, <3>6, <3>7, <3>9 DEF Step
    <3>10. ASSUME NEW t \in Tasks, Disconnect(t)
           PROVE  phase'[u] = phase[u] /\ at'[u] = at[u] /\ program'[u] = program[u]
      BY <2>1, <3>10, Disconnected
    <3> QED
      BY <2>2, <3>1, <3>2, <3>8, <3>9, <3>10 DEF Next
  <2>5. ASSUME n = at'[u], phase'[u] = "entering"
        PROVE  /\ Here(u)'.first = "advisory" => Admitted(u)'
               /\ \A j \in Here(u)'.keys : Rank[j] < Rank[k] => j \in LocalsHeld(u)'
    <3>1. phase[u] = "entering" /\ at'[u] = at[u]
      <4>1. ~Start(u)
        BY <2>2 DEF Start
      <4>2. at'[u] # at[u] + 1
        BY <2>1, <2>2, <2>a, <2>5
      <4> QED
        BY <2>1, <2>5, <4>1, <4>2, EnteringBefore
    <3>2. Here(u)' = Here(u)
      BY <2>4, <3>1 DEF Here
    <3>3. LocalsHeld(u) \subseteq LocalsHeld(u)'
      BY <2>1, <2>5, <3>1, HeldStays
    <3>4. ASSUME Coordinated, Here(u).first = "advisory"
          PROVE  context'[u] # None /\ AdvisoriesMissing(u)' = {}
      <4>1. context[u] # None /\ AdvisoriesMissing(u) = {}
        BY <2>2, <2>5, <3>1, <3>4 DEF Admitted
      <4>2. /\ context'[u] = context[u]
            /\ connection[context[u]].acquired \subseteq connection'[context[u]].acquired
        BY <2>1, <2>5, <3>1, <4>1, ContextStays
      <4> QED
        BY <3>2, <3>4, <4>1, <4>2 DEF AdvisoriesMissing
    <3> QED
      BY <2>2, <2>5, <3>1, <3>2, <3>3, <3>4 DEF Admitted
  <2> QED
    BY <2>2, <2>4, <2>5
<1>2. ASSUME NEW t \in Tasks, LockLocal(t), p = ProcessOf[t],
             k \in First(LocalsMissing(t)),
             local'[p][k] = [task |-> t, scope |-> at[t]]
      PROVE  /\ ProcessOf[u] = p /\ phase'[u] # "idle"
             /\ n \in 1..at'[u] /\ k \in program'[u][n].keys
             /\ n = at'[u] /\ phase'[u] = "entering" =>
                  /\ Here(u)'.first = "advisory" => Admitted(u)'
                  /\ \A j \in Here(u)'.keys : Rank[j] < Rank[k] =>
                       j \in LocalsHeld(u)'
  <2>1. /\ u = t /\ n = at[t] /\ phase[t] = "entering"
        /\ UNCHANGED <<phase, program, at, context, connection>>
        /\ Here(t).first = "advisory" => Admitted(t)
    BY <1>2 DEF LockLocal, NeedsLocal
  <2>2. at[t] \in 1..at[t] /\ Here(t) \in Scope
    BY <2>1, AtPositive, HereIsScope
  <2>3. Here(t)' = Here(t) /\ Admitted(t)' = Admitted(t)
    BY <2>1 DEF Here, Admitted, AdvisoriesMissing
  <2>4. LocalsHeld(t) \subseteq LocalsHeld(t)'
    BY <2>1, HeldStays
  <2>5. ASSUME NEW j \in Here(t).keys, Rank[j] < Rank[k] PROVE j \in LocalsHeld(t)'
    <3>1. j \in Keys /\ k \in Keys
      BY <2>2 DEF Scope
    <3>2. Rank[j] \in Nat /\ Rank[k] \in Nat
      BY <3>1, AdmissionAssumption
    <3>3. j \notin LocalsMissing(t)
      BY <1>2, <2>5, <3>2 DEF First
    <3> QED
      BY <2>4, <3>3 DEF LocalsMissing
  <2>6. k \in Here(t).keys
    BY <1>2 DEF First, LocalsMissing
  <2>7. k \in program[t][at[t]].keys
    BY <2>6 DEF Here
  <2> QED
    BY <1>2, <2>1, <2>2, <2>3, <2>5, <2>7
<1> QED
  BY <1>1, <1>2, LockedBefore

LEMMA HeldNext ==
  ASSUME TypeInv, TurnInv, [Next]_vars
  PROVE  HeldByConnection'
<1> USE DEF TypeInv, TypeOK, InUse
<1>0. None \notin Tasks /\ ProcessOf \in [Tasks -> Processes]
  BY AdmissionAssumption
<1>a. /\ \A k \in Keys : advisory[k] # None =>
           connection[advisory[k]].state = "open" /\ k \in connection[advisory[k]].acquired
      /\ \A p \in Processes, s \in Slots : slot[p][s] # None =>
           ProcessOf[slot[p][s]] = p /\ connection[slot[p][s]].state \in InUse
  BY DEF TurnInv, HeldByConnection
<1>1. ASSUME NEW t \in Tasks, OpenConnection(t) PROVE HeldByConnection'
  <2>1. /\ context[t] = None /\ advisory' = advisory
        /\ connection' = [connection EXCEPT ![t] = [state |-> "open", acquired |-> {}]]
    BY <1>1 DEF OpenConnection, NeedsSlot
  <2>2. connection[t].state \notin InUse
    BY <1>0, <2>1 DEF TurnInv, Connected
  <2>3. ASSUME NEW k \in Keys, advisory'[k] # None
        PROVE  /\ connection'[advisory'[k]].state = "open"
               /\ k \in connection'[advisory'[k]].acquired
    BY <1>a, <2>1, <2>2, <2>3
  <2>4. ASSUME NEW p \in Processes, NEW s \in Slots, slot'[p][s] # None
        PROVE  /\ ProcessOf[slot'[p][s]] = p
               /\ connection'[slot'[p][s]].state \in InUse
    <3>1. slot'[p][s] = slot[p][s] \/ (slot'[p][s] = t /\ p = ProcessOf[t])
      BY <1>0, <1>1 DEF OpenConnection
    <3>2. CASE slot'[p][s] = t /\ p = ProcessOf[t]
      BY <2>1, <3>2
    <3>3. CASE slot'[p][s] = slot[p][s]
      BY <1>a, <2>1, <2>2, <2>4, <3>3
    <3> QED
      BY <3>1, <3>2, <3>3
  <2> QED
    BY <2>3, <2>4 DEF HeldByConnection
<1>2. ASSUME NEW t \in Tasks, LockAdvisory(t) PROVE HeldByConnection'
  <2>1. slot' = slot /\ context[t] \in Tasks
    BY <1>2 DEF LockAdvisory, NeedsAdvisory
  <2>2. PICK k \in First(AdvisoriesMissing(t)) :
          /\ advisory[k] \in {None, context[t]}
          /\ connection' = [connection EXCEPT ![context[t]].acquired = @ \cup {k}]
          /\ advisory' = [advisory EXCEPT ![k] =
               IF connection[context[t]].state = "open" THEN context[t] ELSE @]
    BY <1>2 DEF LockAdvisory
  <2>3. ASSUME NEW v \in Tasks
        PROVE  /\ connection'[v].state = connection[v].state
               /\ connection[v].acquired \subseteq connection'[v].acquired
               /\ v = context[t] => k \in connection'[v].acquired
    BY <2>1, <2>2 DEF Connection
  <2>4. ASSUME NEW j \in Keys, advisory'[j] # None
        PROVE  /\ connection'[advisory'[j]].state = "open"
               /\ j \in connection'[advisory'[j]].acquired
    <3>1. \/ advisory'[j] = advisory[j] /\ advisory[j] \in Tasks
          \/ /\ j = k /\ advisory'[j] = context[t]
             /\ connection[context[t]].state = "open"
      BY <2>2, <2>4
    <3>2. CASE advisory'[j] = advisory[j] /\ advisory[j] \in Tasks
      <4>1. connection[advisory[j]].state = "open" /\ j \in connection[advisory[j]].acquired
        BY <1>a, <1>0, <3>2
      <4> QED
        BY <2>3, <3>2, <4>1
    <3> QED
      BY <2>1, <2>3, <3>1, <3>2
  <2>5. ASSUME NEW p \in Processes, NEW s \in Slots, slot'[p][s] # None
        PROVE  /\ ProcessOf[slot'[p][s]] = p
               /\ connection'[slot'[p][s]].state \in InUse
    <3>1. slot[p][s] \in Tasks
      BY <2>1, <2>5
    <3> QED
      BY <1>a, <2>1, <2>3, <2>5, <3>1
  <2> QED
    BY <2>4, <2>5 DEF HeldByConnection
<1>3. ASSUME NEW t \in Tasks, EndTransaction(t) PROVE HeldByConnection'
  <2>1. /\ slot' = slot /\ connection[t].state = "open"
        /\ connection' = [connection EXCEPT ![t].state = "ended"]
        /\ advisory' = [k \in Keys |-> IF advisory[k] = t THEN None ELSE advisory[k]]
    BY <1>3 DEF EndTransaction
  <2>2. connection'[t].state = "ended" /\ \A v \in Tasks : v # t => connection'[v] = connection[v]
    BY <2>1
  <2>3. ASSUME NEW j \in Keys, advisory'[j] # None
        PROVE  /\ connection'[advisory'[j]].state = "open"
               /\ j \in connection'[advisory'[j]].acquired
    <3>1. advisory'[j] = advisory[j] /\ advisory[j] \in Tasks /\ advisory[j] # t
      BY <2>1, <2>3
    <3> QED
      BY <1>a, <2>2, <3>1, <2>3
  <2>4. ASSUME NEW p \in Processes, NEW s \in Slots, slot'[p][s] # None
        PROVE  /\ ProcessOf[slot'[p][s]] = p
               /\ connection'[slot'[p][s]].state \in InUse
    <3>1. slot[p][s] \in Tasks
      BY <2>1, <2>4
    <3> QED
      BY <1>a, <2>1, <2>2, <2>4, <3>1
  <2> QED
    BY <2>3, <2>4 DEF HeldByConnection
<1>4. ASSUME NEW t \in Tasks, ReleaseConnection(t) PROVE HeldByConnection'
  <2>1. /\ advisory' = advisory /\ connection[t].state \in {"ended", "broken"}
        /\ connection' = [connection EXCEPT ![t].state = "released"]
        /\ slot' = [slot EXCEPT ![ProcessOf[t]] =
             [s \in Slots |-> IF slot[ProcessOf[t]][s] = t THEN None ELSE slot[ProcessOf[t]][s]]]
    BY <1>4 DEF ReleaseConnection
  <2>2. \A v \in Tasks : v # t => connection'[v] = connection[v]
    BY <2>1
  <2>3. ASSUME NEW j \in Keys, advisory'[j] # None
        PROVE  /\ connection'[advisory'[j]].state = "open"
               /\ j \in connection'[advisory'[j]].acquired
    <3>1. advisory[j] \in Tasks /\ connection[advisory[j]].state = "open"
      BY <1>a, <2>1, <2>3
    <3> QED
      BY <1>a, <2>1, <2>2, <2>3, <3>1
  <2>4. ASSUME NEW p \in Processes, NEW s \in Slots, slot'[p][s] # None
        PROVE  /\ ProcessOf[slot'[p][s]] = p
               /\ connection'[slot'[p][s]].state \in InUse
    <3>1. slot'[p][s] = slot[p][s] /\ slot[p][s] \in Tasks
      BY <1>0, <2>1, <2>4
    <3>2. ProcessOf[slot[p][s]] = p
      BY <1>a, <2>4, <3>1
    <3>3. slot[p][s] # t
      BY <1>0, <2>1, <2>4, <3>1, <3>2
    <3> QED
      BY <1>a, <2>2, <2>4, <3>1, <3>3
  <2> QED
    BY <2>3, <2>4 DEF HeldByConnection
<1>5. ASSUME NEW q \in Processes, Crash(q) PROVE HeldByConnection'
  <2>1. ASSUME NEW j \in Keys, advisory'[j] # None
        PROVE  /\ connection'[advisory'[j]].state = "open"
               /\ j \in connection'[advisory'[j]].acquired
    <3>1. /\ advisory'[j] = advisory[j] /\ advisory[j] \in Tasks
          /\ ProcessOf[advisory[j]] # q
      BY <1>5, <2>1 DEF Crash
    <3>2. connection'[advisory[j]] = connection[advisory[j]]
      BY <1>5, <3>1, CrashStays
    <3> QED
      BY <1>a, <2>1, <3>1, <3>2
  <2>2. ASSUME NEW p \in Processes, NEW s \in Slots, slot'[p][s] # None
        PROVE  /\ ProcessOf[slot'[p][s]] = p
               /\ connection'[slot'[p][s]].state \in InUse
    <3>1. p # q
      BY <1>5, <2>2 DEF Crash
    <3>2. slot'[p][s] = slot[p][s] /\ slot[p][s] \in Tasks
      BY <1>5, <2>2, <3>1 DEF Crash
    <3>3. ProcessOf[slot[p][s]] = p
      BY <1>a, <2>2, <3>2
    <3>4. connection'[slot[p][s]] = connection[slot[p][s]]
      BY <1>5, <3>1, <3>2, <3>3, CrashStays
    <3> QED
      BY <1>a, <2>2, <3>2, <3>4
  <2> QED
    BY <2>1, <2>2 DEF HeldByConnection
<1>6. CASE UNCHANGED <<advisory, slot, connection>>
  BY <1>6, <1>a DEF HeldByConnection
<1>7. ASSUME NEW t \in Tasks, Disconnect(t) PROVE HeldByConnection'
  <2>1. ASSUME NEW j \in Keys, advisory'[j] # None
        PROVE  /\ connection'[advisory'[j]].state = "open"
               /\ j \in connection'[advisory'[j]].acquired
    <3>0. advisory'[j] = IF advisory[j] = t THEN None ELSE advisory[j]
      BY <1>7, Disconnected
    <3>1. advisory'[j] = advisory[j] /\ advisory[j] \in Tasks /\ advisory[j] # t
      BY <2>1, <3>0
    <3>2. connection'[advisory[j]] = connection[advisory[j]]
      BY <1>7, <3>1, Disconnected
    <3> QED
      BY <1>a, <2>1, <3>1, <3>2
  <2>2. ASSUME NEW p \in Processes, NEW s \in Slots, slot'[p][s] # None
        PROVE  /\ ProcessOf[slot'[p][s]] = p
               /\ connection'[slot'[p][s]].state \in InUse
    <3>0. slot' = slot
      BY <1>7, Disconnected
    <3>1. slot'[p][s] = slot[p][s] /\ slot[p][s] \in Tasks
      BY <2>2, <3>0
    <3>2. ProcessOf[slot[p][s]] = p /\ connection[slot[p][s]].state \in InUse
      BY <1>a, <2>2, <3>1
    <3>3. CASE slot[p][s] = t
      BY <1>7, <3>1, <3>2, <3>3, Disconnected
    <3>4. CASE slot[p][s] # t
      <4>1. connection'[slot[p][s]] = connection[slot[p][s]]
        BY <1>7, <3>1, <3>4, Disconnected
      <4> QED
        BY <3>1, <3>2, <4>1
    <3> QED
      BY <3>3, <3>4
  <2> QED
    BY <2>1, <2>2 DEF HeldByConnection
<1> QED
  BY <1>1, <1>2, <1>3, <1>4, <1>5, <1>6, <1>7
    DEF Next, Step, vars, Start, LockLocal, ConnectionGone, Enter, Return, UnlockLocal, Leave

LEMMA TurnNext ==
  ASSUME SpawnsNearby
  PROVE  TypeInv /\ TurnInv /\ [Next]_vars => TurnInv'
BY ConnectedNext, InheritedNext, AcquiredNext, LockedNext, HeldNext DEF TurnInv

-----------------------------------------------------------------------------
(* Exclusion across processes *)

(* An open connection holds the advisory locks of all that was acquired     *)
(* through it.  A task's own stays open, or breaks, until its outermost     *)
(* scope is left; and whatever runs under a key has acquired it through the *)
(* task's context.                                                          *)
SessionKept(t) ==
  /\ connection[t].state = "open" =>
       \A k \in connection[t].acquired : advisory[k] = t
  /\ context[t] = t /\ (phase[t] # "leaving" \/ at[t] > 1) =>
       connection[t].state \in {"open", "broken"}
  /\ \A n \in Running(t) :
       context[t] # None /\ program[t][n].keys \subseteq connection[context[t]].acquired

SessionsKept == \A t \in Tasks : SessionKept(t)

LEMMA SessionsKeptInit == Init => SessionsKept
<1>1. Len(<<>>) = 0
  OBVIOUS
<1>2. None \notin Tasks
  BY AdmissionAssumption
<1> QED
  BY <1>1, <1>2 DEF Init, SessionsKept, SessionKept, Running, NoConnection

LEMMA SessionsKeptNext ==
  ASSUME Coordinated
  PROVE  TypeInv /\ TurnInv /\ SessionsKept /\ [Next]_vars => SessionsKept'
<1> SUFFICES ASSUME TypeInv, TurnInv, SessionsKept, [Next]_vars, NEW u \in Tasks
             PROVE  SessionKept(u)'
  BY DEF SessionsKept
<1>0. None \notin Tasks
  BY AdmissionAssumption
<1>a. SessionKept(u)
  BY DEF SessionsKept
<1>t. /\ context \in [Tasks -> Tasks \cup {None}] /\ connection \in [Tasks -> Connection]
      /\ phase \in [Tasks -> Phases] /\ at \in [Tasks -> Nat]
      /\ program \in [Tasks -> Seq(Scope)] /\ advisory \in [Keys -> Tasks \cup {None}]
  BY DEF TypeInv, TypeOK
<1>b. ASSUME /\ phase'[u] = phase[u] /\ at'[u] = at[u] /\ program'[u] = program[u]
             /\ context'[u] = context[u] /\ connection'[u] = connection[u],
             context[u] # None =>
               connection[context[u]].acquired \subseteq connection'[context[u]].acquired,
             \A k \in Keys : advisory[k] = u => advisory'[k] = u
      PROVE  SessionKept(u)'
  <2>1. Running(u)' = Running(u)
    BY <1>b DEF Running
  <2>2. connection[u].acquired \subseteq Keys
    BY <1>t DEF Connection
  <2> QED
    BY <1>a, <1>b, <2>1, <2>2 DEF SessionKept
<1>1. ASSUME NEW t \in Tasks, Start(t) PROVE SessionKept(u)'
  <2>1. /\ \A v \in Tasks : context[v] # t
        /\ context'[t] \in {None} \cup {context[v] : v \in Tasks}
        /\ UNCHANGED <<connection, advisory>>
        /\ phase' = [phase EXCEPT ![t] = "entering"] /\ at' = [at EXCEPT ![t] = 1]
    BY <1>1, <1>t DEF Start
  <2>2. CASE u = t
    <3>1. context'[u] # u
      BY <1>0, <2>1, <2>2
    <3>2. Running(u)' = {}
      BY <1>t, <2>1, <2>2 DEF Running
    <3> QED
      BY <1>a, <2>1, <3>1, <3>2 DEF SessionKept
  <2>3. CASE u # t
    BY <1>1, <1>b, <1>t, <2>1, <2>3 DEF Start
  <2> QED
    BY <2>2, <2>3
<1>2. ASSUME NEW t \in Tasks, LockLocal(t) \/ UnlockLocal(t) PROVE SessionKept(u)'
  BY <1>2, <1>b DEF LockLocal, UnlockLocal
<1>3. ASSUME NEW t \in Tasks, OpenConnection(t) PROVE SessionKept(u)'
  <2>1. /\ phase' = phase /\ at' = at /\ program' = program /\ advisory' = advisory
        /\ connection' = [connection EXCEPT ![t] = [state |-> "open", acquired |-> {}]]
        /\ context' = [context EXCEPT ![t] = t]
        /\ context[t] = None /\ phase[t] = "entering"
    BY <1>3 DEF OpenConnection, NeedsSlot, NeedsCoordinator
  <2>2. CASE u = t
    <3>1. Running(u)' = {}
      BY <1>a, <2>1, <2>2 DEF SessionKept, Running
    <3>2. /\ context'[u] = u
          /\ connection'[u] = [state |-> "open", acquired |-> {}]
      BY <1>t, <2>1, <2>2
    <3> QED
      BY <3>1, <3>2 DEF SessionKept
  <2>3. CASE u # t
    <3>1. context[u] # t
      BY <1>0, <2>1, <2>3 DEF TurnInv, Inherited
    <3>2. context[u] # None => connection'[context[u]] = connection[context[u]]
      BY <1>t, <2>1, <3>1
    <3> QED
      BY <1>b, <1>t, <2>1, <2>3, <3>2
  <2> QED
    BY <2>2, <2>3
<1>4. ASSUME NEW t \in Tasks, LockAdvisory(t) PROVE SessionKept(u)'
  <2> DEFINE c == context[t]
  <2>1. /\ c \in Tasks /\ phase' = phase /\ at' = at /\ program' = program
        /\ context' = context
    BY <1>4, <1>t DEF LockAdvisory, NeedsAdvisory
  <2>2. PICK k \in First(AdvisoriesMissing(t)) :
          /\ advisory[k] \in {None, c}
          /\ connection' = [connection EXCEPT ![c].acquired = @ \cup {k}]
          /\ advisory' = [advisory EXCEPT ![k] =
               IF connection[c].state = "open" THEN c ELSE @]
    BY <1>4 DEF LockAdvisory
  <2>3. k \in Keys
    <3>1. Here(t) \in Scope
      BY <1>4, HereIsScope DEF LockAdvisory, NeedsAdvisory, NeedsCoordinator
    <3> QED
      BY <2>2, <3>1 DEF First, AdvisoriesMissing, Scope
  <2> HIDE DEF c
  <2>4. ASSUME NEW v \in Tasks
        PROVE  /\ connection'[v].state = connection[v].state
               /\ connection[v].acquired \subseteq connection'[v].acquired
               /\ connection'[v].acquired \subseteq connection[v].acquired \cup {k}
               /\ v # c => connection'[v] = connection[v]
    BY <1>t, <2>1, <2>2 DEF Connection
  <2>5. CASE u = c
    <3>1. ASSUME connection[u].state = "open", NEW j \in connection'[u].acquired
          PROVE  advisory'[j] = u
      <4>1. j \in Keys /\ (j = k \/ j \in connection[u].acquired)
        BY <1>t, <2>3, <2>4, <3>1 DEF Connection
      <4> QED
        BY <1>a, <1>t, <2>2, <2>5, <3>1, <4>1 DEF SessionKept
    <3>2. Running(u)' = Running(u)
      BY <2>1 DEF Running
    <3>3. context[u] # None =>
            connection[context[u]].acquired \subseteq connection'[context[u]].acquired
      BY <1>t, <2>4
    <3> QED
      BY <1>a, <2>1, <2>4, <3>1, <3>2, <3>3 DEF SessionKept
  <2>6. CASE u # c
    <3>1. ASSUME NEW j \in Keys, advisory[j] = u PROVE advisory'[j] = u
      BY <1>0, <1>t, <2>2, <2>6, <3>1
    <3>2. context[u] # None =>
            connection[context[u]].acquired \subseteq connection'[context[u]].acquired
      BY <1>t, <2>4
    <3> QED
      BY <1>b, <2>1, <2>4, <2>6, <3>1, <3>2
  <2> QED
    BY <2>5, <2>6
<1>5. ASSUME NEW t \in Tasks, ConnectionGone(t) \/ Return(t) PROVE SessionKept(u)'
  <2>1. /\ phase' = [phase EXCEPT ![t] = "leaving"] /\ phase[t] # "leaving"
        /\ UNCHANGED <<at, program, context, connection, advisory>>
    BY <1>5 DEF ConnectionGone, Return, NeedsAdvisory, NeedsCoordinator
  <2>2. CASE u = t
    <3>1. Running(u)' \subseteq Running(u)
      BY <1>t, <2>1, <2>2 DEF Running
    <3> QED
      BY <1>a, <2>1, <2>2, <3>1 DEF SessionKept
  <2>3. CASE u # t
    BY <1>b, <1>t, <2>1, <2>3
  <2> QED
    BY <2>2, <2>3
<1>6. ASSUME NEW t \in Tasks, Enter(t) PROVE SessionKept(u)'
  <2>1. /\ UNCHANGED <<program, context, connection, advisory>>
        /\ phase[t] = "entering" /\ Admitted(t)
        /\ at[t] \in 1..Len(program[t]) /\ Len(program[t]) \in Nat
    BY <1>6, HereIsScope, ProgramIsSeq DEF Enter, TypeInv
  <2>2. CASE u = t
    <3>1. /\ context[u] # None
          /\ Here(u).keys \subseteq connection[context[u]].acquired
      BY <2>1, <2>2 DEF Admitted, AdvisoriesMissing
    <3>2. ASSUME NEW n \in Running(u)'
          PROVE  program[u][n].keys \subseteq connection[context[u]].acquired
      <4>1. n \in Running(u) \/ n = at[u]
        BY <1>6, <1>t, <2>1, <2>2 DEF Enter, Running
      <4> QED
        BY <1>a, <3>1, <4>1 DEF SessionKept, Here
    <3> QED
      BY <1>a, <2>1, <2>2, <3>1, <3>2 DEF SessionKept
  <2>3. CASE u # t
    BY <1>6, <1>b, <1>t, <2>1, <2>3 DEF Enter
  <2> QED
    BY <2>2, <2>3
<1>7. ASSUME NEW t \in Tasks, EndTransaction(t) PROVE SessionKept(u)'
  <2>1. /\ phase' = phase /\ at' = at /\ program' = program /\ context' = context
        /\ phase[t] = "leaving" /\ at[t] = 1
        /\ connection' = [connection EXCEPT ![t].state = "ended"]
        /\ advisory' = [k \in Keys |-> IF advisory[k] = t THEN None ELSE advisory[k]]
    BY <1>7 DEF EndTransaction, Owns
  <2>2. CASE u = t
    <3>1. Running(u)' = {}
      BY <2>1, <2>2 DEF Running
    <3>2. connection'[u].state = "ended"
      BY <1>t, <2>1, <2>2 DEF Connection
    <3> QED
      BY <2>1, <2>2, <3>1, <3>2 DEF SessionKept
  <2>3. CASE u # t
    <3>1. \A j \in Keys : advisory[j] = u => advisory'[j] = u
      BY <2>1, <2>3
    <3>2. context[u] # None => connection[context[u]].acquired = connection'[context[u]].acquired
      BY <1>t, <2>1 DEF Connection
    <3> QED
      BY <1>b, <1>t, <2>1, <2>3, <3>1, <3>2
  <2> QED
    BY <2>2, <2>3
<1>8. ASSUME NEW t \in Tasks, ReleaseConnection(t) PROVE SessionKept(u)'
  <2>1. /\ phase' = phase /\ at' = at /\ program' = program /\ advisory' = advisory
        /\ phase[t] = "leaving" /\ at[t] = 1
        /\ connection' = [connection EXCEPT ![t].state = "released"]
        /\ context' = [context EXCEPT ![t] = None]
    BY <1>8 DEF ReleaseConnection, Owns
  <2>2. CASE u = t
    <3>1. Running(u)' = {}
      BY <2>1, <2>2 DEF Running
    <3>2. connection'[u].state = "released" /\ context'[u] = None
      BY <1>t, <2>1, <2>2 DEF Connection
    <3> QED
      BY <1>0, <3>1, <3>2 DEF SessionKept
  <2>3. CASE u # t
    <3>1. context[u] # None => connection[context[u]].acquired = connection'[context[u]].acquired
      BY <1>t, <2>1 DEF Connection
    <3> QED
      BY <1>b, <1>t, <2>1, <2>3, <3>1
  <2> QED
    BY <2>2, <2>3
<1>9. ASSUME NEW t \in Tasks, Leave(t) PROVE SessionKept(u)'
  <2>1. /\ phase[t] = "leaving" /\ ~Owns(t)
        /\ UNCHANGED <<connection, advisory>>
        /\ at' = [at EXCEPT ![t] = @ - 1]
    BY <1>9 DEF Leave
  <2>2. CASE u = t /\ at[t] > 1
    <3>1. phase' = phase /\ program' = program /\ context' = context
      BY <1>9, <2>2 DEF Leave
    <3>2. Running(u)' \subseteq Running(u)
      BY <1>t, <2>1, <2>2, <3>1 DEF Running
    <3> QED
      BY <1>a, <1>t, <2>1, <2>2, <3>1, <3>2 DEF SessionKept
  <2>3. CASE u = t /\ ~(at[t] > 1)
    <3>1. program'[u] = <<>> /\ context'[u] = None
      BY <1>9, <1>t, <2>3 DEF Leave
    <3>2. Len(<<>>) = 0
      OBVIOUS
    <3>3. Running(u)' = {}
      BY <3>1, <3>2 DEF Running
    <3> QED
      BY <1>0, <1>a, <2>1, <3>1, <3>3 DEF SessionKept
  <2>4. CASE u # t
    BY <1>9, <1>b, <1>t, <2>1, <2>4 DEF Leave
  <2> QED
    BY <2>2, <2>3, <2>4
<1>10. ASSUME NEW t \in Tasks, Disconnect(t) PROVE SessionKept(u)'
  <2>1. CASE u = t
    <3>1. Running(u)' = Running(u)
      BY <1>10, Disconnected DEF Running
    <3> QED
      BY <1>10, <1>a, <1>t, <2>1, <3>1, Disconnected DEF SessionKept
  <2>2. CASE u # t
    <3>1. \A j \in Keys : advisory[j] = u => advisory'[j] = u
      BY <1>10, <2>2, Disconnected
    <3>2. context[u] # None => connection[context[u]].acquired = connection'[context[u]].acquired
      BY <1>10, <1>t, Disconnected
    <3> QED
      BY <1>10, <1>b, <2>2, <3>1, <3>2, Disconnected
  <2> QED
    BY <2>1, <2>2
<1>11. ASSUME NEW p \in Processes, Crash(p) PROVE SessionKept(u)'
  <2>1. CASE ProcessOf[u] = p
    <3>1. /\ program'[u] = <<>> /\ context'[u] = None
          /\ connection'[u].state = "none"
      BY <1>11, <2>1, CrashStays DEF NoConnection
    <3>2. Len(<<>>) = 0
      OBVIOUS
    <3>3. Running(u)' = {}
      BY <3>1, <3>2 DEF Running
    <3> QED
      BY <1>0, <3>1, <3>3 DEF SessionKept
  <2>2. CASE ProcessOf[u] # p
    <3>1. ASSUME NEW j \in Keys, advisory[j] = u PROVE advisory'[j] = u
      BY <1>11, <2>2, <3>1 DEF Crash
    <3>2. context[u] # None => ProcessOf[context[u]] = ProcessOf[u]
      BY DEF TurnInv, Inherited
    <3>3. context[u] # None => connection'[context[u]] = connection[context[u]]
      BY <1>11, <1>t, <2>2, <3>2, CrashStays
    <3> QED
      BY <1>11, <1>b, <2>2, <3>1, <3>3, CrashStays
  <2> QED
    BY <2>1, <2>2
<1>12. CASE UNCHANGED vars
  BY <1>12, <1>b DEF vars
<1> QED
  BY <1>1, <1>2, <1>3, <1>4, <1>5, <1>6, <1>7, <1>8, <1>9, <1>10, <1>11, <1>12
    DEF Next, Step

LEMMA SessionsExclude ==
  ASSUME Coordinated, TypeInv, TurnInv, SessionsKept, LocalExclusion
  PROVE  ExclusionWhileConnected
<1> SUFFICES ASSUME NEW t \in Tasks, NEW u \in Tasks, t # u,
                    NEW k \in Guarded(t), k \in Guarded(u),
                    ProcessOf[t] = ProcessOf[u] \/ (~Detached(t) /\ ~Detached(u))
             PROVE  FALSE
  BY DEF ExclusionWhileConnected
<1>1. PICK n \in Running(t) : k \in program[t][n].keys
  BY GuardedByScope
<1>2. PICK m \in Running(u) : k \in program[u][m].keys
  BY GuardedByScope
<1>3. ASSUME NEW v \in Tasks, NEW i \in Running(v), k \in program[v][i].keys, ~Detached(v)
      PROVE  context[v] \in Tasks /\ advisory[k] = context[v]
  <2>1. context[v] \in Tasks /\ k \in connection[context[v]].acquired
    BY <1>3 DEF SessionsKept, SessionKept, TypeInv, TypeOK
  <2>2. phase[v] # "leaving" \/ at[v] > 1
    BY DEF Running, TypeInv, TypeOK
  <2>3. connection[context[v]].state = "open"
    <3>1. CASE context[v] = v
      BY <1>3, <2>1, <2>2, <3>1, AdmissionAssumption DEF SessionsKept, SessionKept, Detached
    <3>2. CASE context[v] # v
      BY <1>3, <2>1, <3>2, AdmissionAssumption DEF Detached
    <3> QED
      BY <3>1, <3>2
  <2> QED
    BY <2>1, <2>3 DEF SessionsKept, SessionKept
<1>4. ProcessOf[t] # ProcessOf[u]
  BY DEF LocalExclusion
<1>5. context[t] = context[u] /\ context[t] \in Tasks
  BY <1>1, <1>2, <1>3, <1>4
<1>6. ProcessOf[context[t]] = ProcessOf[t] /\ ProcessOf[context[u]] = ProcessOf[u]
  BY <1>5, AdmissionAssumption DEF TurnInv, Inherited
<1> QED
  BY <1>4, <1>5, <1>6

(* On PostgreSQL two tasks run under one key only in two processes, and     *)
(* only when the session of one of them is gone: it broke under the task,   *)
(* or the task inherited it and its owner has ended it.  What tasks start   *)
(* in the background, which connections break and which processes die is    *)
(* left open.                                                               *)
THEOREM AdmissionExcludes ==
  ASSUME Coordinated, SpawnsNearby
  PROVE  Spec => []ExclusionWhileConnected
<1> DEFINE Inv == TypeInv /\ LocalsKept /\ TurnInv /\ SessionsKept
<1>1. Init => Inv
  BY TypeInit, LocalsKeptInit, TurnInit, SessionsKeptInit
<1>2. Inv /\ [Next]_vars => Inv'
  BY TypeNext, LocalsKeptNext, TurnNext, SessionsKeptNext
<1>3. Inv => ExclusionWhileConnected
  BY LocalsExclude, SessionsExclude
<1> QED
  BY <1>1, <1>2, <1>3, PTL DEF Spec

-----------------------------------------------------------------------------
(* No circle of waiting tasks *)

(* t waits for u at the level that the order gives what it waits for; a     *)
(* slot is below every lock.                                                *)
WaitsAt(order, t, u, level) ==
  \/ /\ NeedsLocal(t)
     /\ \E k \in First(LocalsMissing(t)) :
          local[ProcessOf[t]][k].task = u /\ level = order[<<k, "local">>]
  \/ /\ NeedsSlot(t) /\ slot[ProcessOf[t]][SlotOf[Here(t).keys]] = u
     /\ level = 0
  \/ /\ NeedsAdvisory(t)
     /\ \E k \in First(AdvisoriesMissing(t)) :
          advisory[k] = u /\ level = order[<<k, "advisory">>]

(* The level of the next lock that u needs, whoever holds it *)
NeedsAt(order, u, level) == \E v \in Tasks : WaitsAt(order, u, v, level)

LEMMA MissingKeys ==
  ASSUME NEW t \in Tasks, TypeInv, phase[t] # "idle"
  PROVE  /\ \A k \in First(LocalsMissing(t)) :
              k \in Keys /\ k \in Here(t).keys /\ k \notin LocalsHeld(t)
         /\ Coordinated => \A k \in First(AdvisoriesMissing(t)) :
              /\ k \in Keys /\ k \in Here(t).keys
              /\ k \notin connection[context[t]].acquired
<1>1. Here(t) \in Scope
  BY HereIsScope
<1> QED
  BY <1>1 DEF Scope, First, LocalsMissing, AdvisoriesMissing

(* The order between a lock of a scope already reached and one needed here *)
LEMMA InOrder ==
  ASSUME NEW order \in [Keys \X Halves -> Nat], TypeInv,
         NEW u \in Tasks, phase[u] # "idle", Disciplined(order, program[u]),
         NEW n \in 1..at[u], NEW j, j \in program[u][n].keys,
         NEW k, k \in Here(u).keys, j \in Keys, k \in Keys
  PROVE  /\ n # at[u] => \A g, h \in Halves : order[<<j, g>>] < order[<<k, h>>]
         /\ n = at[u] =>
              /\ Rank[j] < Rank[k] => \A h \in Halves : order[<<j, h>>] < order[<<k, h>>]
              /\ Here(u).first = "local" => order[<<j, "local">>] < order[<<k, "advisory">>]
              /\ Here(u).first = "advisory" => order[<<j, "advisory">>] < order[<<k, "local">>]
<1>1. program[u] \in Programs[u] /\ at[u] \in 1..Len(program[u]) /\ Len(program[u]) \in Nat
  BY ProgramIsSeq DEF TypeInv, AtScope, Placed
<1>2. Follows(order, program[u])
  BY DEF Disciplined
<1>3. n \in 1..Len(program[u]) /\ (n # at[u] => n < at[u])
  BY <1>1
<1>4. CASE n = at[u]
  BY <1>1, <1>2, <1>4 DEF Follows, Here
<1>5. CASE n # at[u]
  BY <1>1, <1>2, <1>3, <1>5 DEF Follows, Here
<1> QED
  BY <1>4, <1>5

LEMMA LocalBelow ==
  ASSUME NEW order \in [Keys \X Halves -> Nat], TypeInv, TurnInv,
         NEW p \in Processes, NEW k \in Keys, NEW u \in Tasks, local[p][k].task = u,
         Disciplined(order, program[u]), NEW level, NeedsAt(order, u, level)
  PROVE  order[<<k, "local">>] < level
<1> DEFINE n == local[p][k].scope
<1>0. None \notin Tasks /\ Rank \in [Keys -> Nat] /\ \A i, j \in Keys : Rank[i] = Rank[j] => i = j
  BY AdmissionAssumption
<1>1. phase[u] = "entering"
  BY DEF NeedsAt, WaitsAt, NeedsLocal, NeedsSlot, NeedsAdvisory, NeedsCoordinator
<1>2. /\ ProcessOf[u] = p
      /\ n \in 1..at[u] /\ k \in program[u][n].keys
      /\ n = at[u] =>
           /\ Here(u).first = "advisory" => Admitted(u)
           /\ \A j \in Here(u).keys : Rank[j] < Rank[k] => j \in LocalsHeld(u)
  BY <1>0, <1>1 DEF TurnInv, LockedInTurn
<1>3. n = at[u] => k \in LocalsHeld(u)
  <2>1. local[p][k] \in Holder
    BY DEF TypeInv, TypeOK
  <2> QED
    BY <1>2, <2>1 DEF LocalsHeld, Holder
<1>4. ASSUME NEW j \in First(LocalsMissing(u))
      PROVE  order[<<k, "local">>] < order[<<j, "local">>]
  <2>1. j \in Keys /\ j \in Here(u).keys /\ j \notin LocalsHeld(u)
    BY <1>1, MissingKeys
  <2>2. n = at[u] => Rank[k] < Rank[j]
    <3>1. SUFFICES ASSUME n = at[u] PROVE Rank[k] < Rank[j]
      OBVIOUS
    <3>2. k # j /\ ~(Rank[j] < Rank[k])
      BY <1>2, <1>3, <2>1, <3>1
    <3> QED
      BY <1>0, <2>1, <3>2
  <2>3. "local" \in Halves
    BY DEF Halves
  <2> QED
    BY <1>1, <1>2, <2>1, <2>2, <2>3, InOrder
<1>5. ASSUME NEW j \in First(AdvisoriesMissing(u)), NeedsAdvisory(u)
      PROVE  order[<<k, "local">>] < order[<<j, "advisory">>]
  <2>1. /\ Coordinated /\ context[u] # None /\ AdvisoriesMissing(u) # {}
        /\ Here(u).first = "local" => LocalsMissing(u) = {}
    BY <1>5 DEF NeedsAdvisory, NeedsCoordinator
  <2>2. j \in Keys /\ j \in Here(u).keys
    BY <1>1, <2>1, MissingKeys
  <2>3. n = at[u] => Here(u).first = "local"
    <3>1. Here(u) \in Scope
      BY <1>1, HereIsScope
    <3> QED
      BY <1>2, <2>1, <3>1 DEF Admitted, Scope
  <2>4. "local" \in Halves /\ "advisory" \in Halves
    BY DEF Halves
  <2> QED
    BY <1>1, <1>2, <2>2, <2>3, <2>4, InOrder
<1>6. ~NeedsSlot(u)
  <2>1. SUFFICES ASSUME NeedsSlot(u) PROVE FALSE
    OBVIOUS
  <2>2. Coordinated /\ context[u] = None
    BY <2>1 DEF NeedsSlot, NeedsCoordinator
  <2>3. at[u] = 1
    <3>1. at[u] \in Nat /\ 1 <= at[u]
      BY <1>1, AtPositive
    <3> QED
      BY <1>1, <2>2, <3>1 DEF TurnInv, Connected
  <2>4. Here(u).first = "advisory"
    BY <2>2, <2>3 DEF Disciplined, Here
  <2>5. n = at[u]
    BY <1>2, <2>3
  <2> QED
    BY <1>2, <2>2, <2>4, <2>5 DEF Admitted
<1> QED
  BY <1>4, <1>5, <1>6 DEF NeedsAt, WaitsAt

LEMMA AdvisoryBelow ==
  ASSUME NEW order \in [Keys \X Halves -> Nat], TypeInv, TurnInv,
         NEW k \in Keys, NEW u \in Tasks, advisory[k] = u, Disciplined(order, program[u]),
         NEW level, NeedsAt(order, u, level)
  PROVE  order[<<k, "advisory">>] < level
<1>0. None \notin Tasks /\ Rank \in [Keys -> Nat] /\ \A i, j \in Keys : Rank[i] = Rank[j] => i = j
  BY AdmissionAssumption
<1>1. phase[u] = "entering"
  BY DEF NeedsAt, WaitsAt, NeedsLocal, NeedsSlot, NeedsAdvisory, NeedsCoordinator
<1>2. connection[u].state = "open" /\ k \in connection[u].acquired
  BY <1>0 DEF TurnInv, HeldByConnection
<1>3. context[u] = u
  BY <1>2 DEF TurnInv, Connected, InUse
<1>4. PICK n \in 1..at[u] :
        /\ k \in program[u][n].keys
        /\ n = at[u] =>
             /\ Here(u).first = "local" => LocalsMissing(u) = {}
             /\ \A j \in Here(u).keys : Rank[j] < Rank[k] => j \in connection[u].acquired
  BY <1>1, <1>2, <1>3 DEF TurnInv, AcquiredInTurn
<1>5. ASSUME NEW j \in First(LocalsMissing(u))
      PROVE  order[<<k, "advisory">>] < order[<<j, "local">>]
  <2>1. j \in Keys /\ j \in Here(u).keys
    BY <1>1, MissingKeys
  <2>2. n = at[u] => Here(u).first = "advisory"
    <3>1. Here(u) \in Scope /\ LocalsMissing(u) # {}
      BY <1>1, HereIsScope DEF First
    <3> QED
      BY <1>4, <3>1 DEF Scope
  <2>3. "local" \in Halves /\ "advisory" \in Halves
    BY DEF Halves
  <2> QED
    BY <1>1, <1>4, <2>1, <2>2, <2>3, InOrder
<1>6. ASSUME NEW j \in First(AdvisoriesMissing(u)), NeedsAdvisory(u)
      PROVE  order[<<k, "advisory">>] < order[<<j, "advisory">>]
  <2>1. j \in Keys /\ j \in Here(u).keys /\ j \notin connection[u].acquired
    BY <1>1, <1>3, <1>6, MissingKeys DEF NeedsAdvisory, NeedsCoordinator
  <2>2. n = at[u] => Rank[k] < Rank[j]
    <3>1. SUFFICES ASSUME n = at[u] PROVE Rank[k] < Rank[j]
      OBVIOUS
    <3>2. k # j /\ ~(Rank[j] < Rank[k])
      BY <1>2, <1>4, <2>1, <3>1
    <3> QED
      BY <1>0, <2>1, <3>2
  <2>3. "advisory" \in Halves
    BY DEF Halves
  <2> QED
    BY <1>1, <1>4, <2>1, <2>2, <2>3, InOrder
<1>7. ~NeedsSlot(u)
  BY <1>0, <1>3 DEF NeedsSlot
<1> QED
  BY <1>5, <1>6, <1>7 DEF NeedsAt, WaitsAt

(* A set of levels that is not empty has a highest one. *)
LEMMA Highest ==
  ASSUME NEW Top \in Nat, NEW levels, levels \subseteq 0..Top, levels # {}
  PROVE  \E m \in levels : \A k \in levels : k <= m
<1> DEFINE below == {Top - k : k \in levels}
<1>1. below \in SUBSET Nat
  OBVIOUS
<1>2. PICK k \in levels : Top - k \in below
  OBVIOUS
<1>3. PICK n \in below : \A j \in below : n <= j
  <2> HIDE DEF below
  <2>1. PICK n \in below : \A j \in below : <<j, n>> \notin OpToRel(<, Nat)
    BY <1>1, <1>2, NatLessThanWellFounded, WFMin
  <2> QED
    <3>1. \A j \in below : ~(j < n)
      BY <1>1, <2>1 DEF OpToRel
    <3> QED
      BY <1>1, <3>1
<1>4. PICK m \in levels : n = Top - m
  OBVIOUS
<1>5. ASSUME NEW j \in levels PROVE j <= m
  <2>1. Top - m <= Top - j
    BY <1>3, <1>4
  <2> QED
    BY <2>1
<1> QED
  BY <1>5

(* Whoever t waits for needs something of a higher level, if anything. *)
LEMMA Climbs ==
  ASSUME NEW Top \in Nat, NEW order \in [Keys \X Halves -> 1..Top], TypeInv, TurnInv,
         NEW t \in Tasks, NEW u \in Tasks, Disciplined(order, program[u]),
         NEW low, NEW high,
         WaitsAt(order, t, u, low), NeedsAt(order, u, high)
  PROVE  low < high
<1>0. /\ None \notin Tasks /\ ProcessOf \in [Tasks -> Processes]
      /\ SlotOf \in [SUBSET Keys -> Slots]
  BY AdmissionAssumption
<1>1. order \in [Keys \X Halves -> Nat]
  OBVIOUS
<1>2. phase[t] = "entering" /\ phase[u] = "entering"
  BY DEF NeedsAt, WaitsAt, NeedsLocal, NeedsSlot, NeedsAdvisory, NeedsCoordinator
<1>3. ASSUME NEW k \in First(LocalsMissing(t)), local[ProcessOf[t]][k].task = u,
             low = order[<<k, "local">>]
      PROVE  low < high
  BY <1>0, <1>1, <1>2, <1>3, MissingKeys, LocalBelow
<1>4. ASSUME NEW k \in First(AdvisoriesMissing(t)), NeedsAdvisory(t), advisory[k] = u,
             low = order[<<k, "advisory">>]
      PROVE  low < high
  <2>1. k \in Keys
    BY <1>2, <1>4, MissingKeys DEF NeedsAdvisory, NeedsCoordinator
  <2> QED
    BY <1>1, <1>4, <2>1, AdvisoryBelow
<1>5. ASSUME slot[ProcessOf[t]][SlotOf[Here(t).keys]] = u, low = 0
      PROVE  low < high
  <2>1. SlotOf[Here(t).keys] \in Slots
    BY <1>0, <1>2, HereIsScope DEF Scope
  <2>2. connection[u].state \in InUse
    BY <1>0, <1>5, <2>1 DEF TurnInv, HeldByConnection
  <2>3. ~NeedsSlot(u)
    BY <1>0, <2>2 DEF TurnInv, Connected, NeedsSlot
  <2>4. high \in 1..Top
    <3>1. ASSUME NEW k \in First(LocalsMissing(u)) PROVE order[<<k, "local">>] \in 1..Top
      BY <1>2, MissingKeys DEF Halves
    <3>2. ASSUME NEW k \in First(AdvisoriesMissing(u)), NeedsAdvisory(u)
          PROVE  order[<<k, "advisory">>] \in 1..Top
      BY <1>2, <3>2, MissingKeys DEF Halves, NeedsAdvisory, NeedsCoordinator
    <3> QED
      BY <2>3, <3>1, <3>2 DEF NeedsAt, WaitsAt
  <2> QED
    BY <1>5, <2>4
<1> QED
  BY <1>3, <1>4, <1>5 DEF WaitsAt

LEMMA WaitsForBusy ==
  ASSUME TypeInv, TurnInv, NEW t \in Tasks, NEW u \in Tasks, WaitsFor(t, u)
  PROVE  phase[u] # "idle"
<1>0. /\ None \notin Tasks /\ ProcessOf \in [Tasks -> Processes]
      /\ SlotOf \in [SUBSET Keys -> Slots]
  BY AdmissionAssumption
<1>1. phase[t] = "entering"
  BY DEF WaitsFor, NeedsLocal, NeedsSlot, NeedsAdvisory, NeedsCoordinator
<1>2. ASSUME NEW k \in First(LocalsMissing(t)), local[ProcessOf[t]][k].task = u
      PROVE  phase[u] # "idle"
  <2>1. k \in Keys
    BY <1>1, MissingKeys
  <2> QED
    BY <1>0, <1>2, <2>1 DEF TurnInv, LockedInTurn
<1>3. ASSUME slot[ProcessOf[t]][SlotOf[Here(t).keys]] = u PROVE phase[u] # "idle"
  <2>1. SlotOf[Here(t).keys] \in Slots
    BY <1>0, <1>1, HereIsScope DEF Scope
  <2>2. connection[u].state \in InUse
    BY <1>0, <1>3, <2>1 DEF TurnInv, HeldByConnection
  <2> QED
    BY <2>2 DEF TurnInv, Connected
<1>4. ASSUME NEW k \in First(AdvisoriesMissing(t)), NeedsAdvisory(t), advisory[k] = u
      PROVE  phase[u] # "idle"
  <2>1. k \in Keys
    BY <1>1, <1>4, MissingKeys DEF NeedsAdvisory, NeedsCoordinator
  <2>2. connection[u].state = "open"
    BY <1>0, <1>4, <2>1 DEF TurnInv, HeldByConnection
  <2> QED
    BY <2>2 DEF TurnInv, Connected, InUse
<1> QED
  BY <1>2, <1>3, <1>4 DEF WaitsFor

LEMMA WaitsForAt ==
  ASSUME NEW Top \in Nat, NEW order \in [Keys \X Halves -> 1..Top], TypeInv,
         NEW t \in Tasks, NEW u \in Tasks, WaitsFor(t, u)
  PROVE  \E level \in 0..Top : WaitsAt(order, t, u, level)
<1>1. phase[t] = "entering"
  BY DEF WaitsFor, NeedsLocal, NeedsSlot, NeedsAdvisory, NeedsCoordinator
<1>2. ASSUME NEW k \in First(LocalsMissing(t)), NeedsLocal(t),
             local[ProcessOf[t]][k].task = u
      PROVE  \E level \in 0..Top : WaitsAt(order, t, u, level)
  <2>1. order[<<k, "local">>] \in 0..Top
    BY <1>1, MissingKeys DEF Halves
  <2> QED
    BY <1>2, <2>1 DEF WaitsAt
<1>3. ASSUME NeedsSlot(t), slot[ProcessOf[t]][SlotOf[Here(t).keys]] = u
      PROVE  \E level \in 0..Top : WaitsAt(order, t, u, level)
  <2>1. 0 \in 0..Top
    OBVIOUS
  <2> QED
    BY <1>3, <2>1 DEF WaitsAt
<1>4. ASSUME NEW k \in First(AdvisoriesMissing(t)), NeedsAdvisory(t), advisory[k] = u
      PROVE  \E level \in 0..Top : WaitsAt(order, t, u, level)
  <2>1. order[<<k, "advisory">>] \in 0..Top
    BY <1>1, <1>4, MissingKeys DEF Halves, NeedsAdvisory, NeedsCoordinator
  <2> QED
    BY <1>4, <2>1 DEF WaitsAt
<1> QED
  BY <1>2, <1>3, <1>4 DEF WaitsFor

LEMMA InTurnUndisciplined ==
  ASSUME NEW Top \in Nat, NEW order \in [Keys \X Halves -> 1..Top], TypeInv, TurnInv
  PROVE  CirclesUndisciplined(order)
<1> SUFFICES ASSUME NEW group \in SUBSET Tasks, Circle(group),
                    \A t \in group : Disciplined(order, program[t])
             PROVE  FALSE
  BY DEF CirclesUndisciplined
<1>0. /\ group # {}
      /\ \A t \in group :
           \E u \in group \cup {v \in Tasks : phase[v] = "idle"} : WaitsFor(t, u)
  BY DEF Circle
<1>1. ASSUME NEW t \in group
      PROVE  \E u \in group : \E level \in 0..Top : WaitsAt(order, t, u, level)
  <2>1. PICK u \in group \cup {v \in Tasks : phase[v] = "idle"} : WaitsFor(t, u)
    BY <1>0
  <2>2. u \in group
    BY <2>1, WaitsForBusy
  <2> QED
    BY <2>1, <2>2, WaitsForAt
<1> DEFINE levels == {level \in 0..Top : \E t, u \in group : WaitsAt(order, t, u, level)}
<1>2. levels \subseteq 0..Top /\ levels # {}
  <2>1. PICK t \in group : TRUE
    BY <1>0
  <2>2. PICK u \in group, level \in 0..Top : WaitsAt(order, t, u, level)
    BY <1>1
  <2>3. level \in levels
    BY <2>2
  <2> QED
    BY <2>3
<1>3. PICK highest \in levels : \A level \in levels : level <= highest
  BY <1>2, Highest
<1>4. PICK t \in group, u \in group : WaitsAt(order, t, u, highest)
  OBVIOUS
<1>5. PICK v \in group, level \in 0..Top : WaitsAt(order, u, v, level)
  BY <1>1
<1>6. highest < level
  BY <1>4, <1>5, Climbs DEF NeedsAt
<1>7. level \in levels
  BY <1>5
<1> QED
  BY <1>3, <1>6, <1>7

(* Whatever order of the locks one looks for, a circle of tasks that wait   *)
(* for one another, or for one that is over, has a task in it whose own     *)
(* nest takes two locks against that order, or starts with AsyncLocks as    *)
(* its outermost scope.  Nothing is asked of the programs of the others,    *)
(* and the system may crash, lose connections and start what it likes in    *)
(* the background of its own process.  Hence no circle without two nests    *)
(* that disagree on an order, or one that waits for its slot with           *)
(* AsyncLocks in hand.                                                      *)
THEOREM CirclesHaveACause ==
  ASSUME NEW Top \in Nat, NEW order \in [Keys \X Halves -> 1..Top], SpawnsNearby
  PROVE  Spec => []CirclesUndisciplined(order)
<1>1. Init => TypeInv /\ TurnInv
  BY TypeInit, TurnInit
<1>2. TypeInv /\ TurnInv /\ [Next]_vars => (TypeInv /\ TurnInv)'
  BY TypeNext, TurnNext
<1>3. TypeInv /\ TurnInv => CirclesUndisciplined(order)
  BY InTurnUndisciplined
<1> QED
  BY <1>1, <1>2, <1>3, PTL DEF Spec
=============================================================================
