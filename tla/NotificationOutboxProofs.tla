----------------------- MODULE NotificationOutboxProofs -----------------------
(***************************************************************************)
(* Theorems about NotificationOutbox, for every number of processes,       *)
(* agents and notifications, over PostgreSQL and over SQLite.              *)
(***************************************************************************)
EXTENDS NotificationOutbox, WellFoundedInduction, TLAPS

(* The task has claimed the row and goes on as if the claim was its own.    *)
Handles(p, n) == task[p][n].pc \notin {"none", "queued"}

(* Before the transaction that raised the notification ends, and after it   *)
(* has committed.                                                           *)
Early == {"none", "entered", "inserted", "open"}

After == {"committed", "delivered", "discarded", "swept"}

(* There is an agent to send to whenever an agent is sent to.               *)
TargetsUntried ==
  \A p \in Processes, n \in Notifications :
    task[p][n].pc \in {"sending", "accepted", "checkpoint"} => Untried(p, n) # {}

TypeInv == TypeOK /\ TargetsUntried

-----------------------------------------------------------------------------
(* Types *)

(* The records the actions build have the types of the columns and fields   *)
(* they are written to.                                                     *)
LEMMA RecordTypes ==
  /\ NoRow \in Row /\ NewRow \in Row /\ NoTask \in Task /\ NotSeen \in Snapshot
  /\ ~NoRow.there /\ NewRow.there /\ NoRow.claim = None /\ NewRow.claim = None
  /\ NoRow.delivered = {} /\ NewRow.delivered = {}
  /\ NoTask.pc = "none" /\ NoTask.delivered = {} /\ NoTask.tried = {}
  /\ ~NotSeen.seen /\ NotSeen.delivered = {}
BY DEF NoRow, NewRow, NoTask, NotSeen, Row, Task, Snapshot, TaskStates

(* The next agent is one that has not been tried.                           *)
LEMMA TargetUntried ==
  ASSUME NEW p, NEW n \in Notifications, Untried(p, n) # {}
  PROVE  Target(p, n) \in Untried(p, n)
<1>1. Untried(p, n) \in SUBSET Nat
  BY ConstantsAssumption DEF Untried
<1>2. PICK a \in Untried(p, n) : \A b \in Untried(p, n) : <<b, a>> \notin OpToRel(<, Nat)
  BY <1>1, NatLessThanWellFounded, WFMin
<1>3. \A b \in Untried(p, n) : ~(b < a)
  BY <1>1, <1>2, Zenon DEF OpToRel
<1>4. \A b \in Untried(p, n) : a <= b
  BY <1>1, <1>3
<1>5. QED BY <1>2, <1>4 DEF Target

LEMMA TaskFields ==
  \A t \in Task : /\ t.pc \in TaskStates /\ t.delivered \in SUBSET Agents
                  /\ t.attempts \in Nat /\ t.tried \in SUBSET Agents
BY DEF Task

LEMMA TaskUpdates ==
  ASSUME NEW t \in Task, NEW pc \in TaskStates, NEW S \in SUBSET Agents
  PROVE  /\ [t EXCEPT !.pc = pc] \in Task
         /\ [t EXCEPT !.pc = pc, !.delivered = S] \in Task
         /\ [t EXCEPT !.pc = pc, !.tried = S] \in Task
BY DEF Task

LEMMA RowFields ==
  \A r \in Row : /\ r.there \in BOOLEAN /\ r.delivered \in SUBSET Agents /\ r.attempts \in Nat
                 /\ r.claim \in Processes \cup {None} /\ r.live \in BOOLEAN
BY DEF Row

LEMMA RowUpdates ==
  ASSUME NEW r \in Row, NEW p \in Processes, NEW S \in SUBSET Agents, NEW k \in Nat,
         NEW b \in BOOLEAN
  PROVE  /\ [r EXCEPT !.claim = p, !.live = TRUE] \in Row
         /\ [r EXCEPT !.live = b] \in Row
         /\ [r EXCEPT !.due = TRUE] \in Row
         /\ [r EXCEPT !.delivered = S] \in Row
         /\ [r EXCEPT !.attempts = k, !.due = FALSE, !.claim = None, !.live = FALSE] \in Row
BY DEF Row

(* A step that concerns one task or one row changes no other.               *)
OwnTask(p, n) ==
  /\ task' \in [Processes -> [Notifications -> Task]]
  /\ \A r \in Processes, m \in Notifications :
       task'[r][m] = task[r][m] \/ (r = p /\ m = n)

OwnRow(n) ==
  /\ row' \in [Notifications -> Row] /\ stage' \in [Notifications -> Stages]
  /\ \A m \in Notifications \ {n} : row'[m] = row[m] /\ stage'[m] = stage[m]

LEMMA TaskSet ==
  ASSUME TypeOK, NEW p \in Processes, NEW n \in Notifications, NEW t \in Task,
         task' = [task EXCEPT ![p][n] = t]
  PROVE  OwnTask(p, n) /\ task'[p][n] = t
BY DEF TypeOK, OwnTask

LEMMA RowSet ==
  ASSUME TypeOK, NEW n \in Notifications, NEW r \in Row, NEW s \in Stages,
         row' = [row EXCEPT ![n] = r], stage' = [stage EXCEPT ![n] = s]
  PROVE  OwnRow(n) /\ row'[n] = r /\ stage'[n] = s
BY DEF TypeOK, OwnRow

LEMMA RowKept ==
  ASSUME TypeOK, NEW n \in Notifications, NEW r \in Row,
         row' = [row EXCEPT ![n] = r], UNCHANGED stage
  PROVE  OwnRow(n) /\ row'[n] = r /\ stage'[n] = stage[n]
BY DEF TypeOK, OwnRow

(* A dispatch queues rows it was given that are not being delivered, and    *)
(* leaves every other task alone.                                           *)
Queued(snapshot, n) ==
  [pc |-> "queued", delivered |-> snapshot[n].delivered,
   attempts |-> snapshot[n].attempts, tried |-> {}]

LEMMA SnapshotFields ==
  \A x \in Snapshot : x.seen \in BOOLEAN /\ x.delivered \in SUBSET Agents /\ x.attempts \in Nat
BY DEF Snapshot

LEMMA DispatchQueues ==
  ASSUME TypeOK, NEW p \in Processes, NEW snapshot \in [Notifications -> Snapshot],
         Dispatch(p, snapshot)
  PROVE  /\ task' \in [Processes -> [Notifications -> Task]]
         /\ \A r \in Processes, n \in Notifications :
              \/ task'[r][n] = task[r][n]
              \/ /\ r = p /\ snapshot[n].seen /\ task[p][n].pc = "none"
                 /\ task'[p][n].pc = "queued" /\ task'[p][n].tried = {}
                 /\ task'[p][n].delivered = snapshot[n].delivered
<1>1. PICK taken \in SUBSET ({n \in Notifications : snapshot[n].seen} \ Active(p)) :
        task' = [task EXCEPT ![p] = [n \in Notifications |->
                   IF n \in taken THEN Queued(snapshot, n) ELSE task[p][n]]]
  BY DEF Dispatch, Queued
<1>2. \A n \in Notifications :
        /\ Queued(snapshot, n) \in Task
        /\ Queued(snapshot, n).pc = "queued" /\ Queued(snapshot, n).tried = {}
        /\ Queued(snapshot, n).delivered = snapshot[n].delivered
  BY SnapshotFields DEF Queued, Task, TaskStates
<1>3. \A n \in taken : n \in Notifications /\ snapshot[n].seen /\ task[p][n].pc = "none"
  BY <1>1 DEF Active
<1>4. task \in [Processes -> [Notifications -> Task]]
  BY DEF TypeOK
<1>5. task' \in [Processes -> [Notifications -> Task]]
  BY <1>1, <1>2, <1>4
<1>6. \A r \in Processes, n \in Notifications :
        task'[r][n] = IF r = p /\ n \in taken THEN Queued(snapshot, n) ELSE task[r][n]
  BY <1>1, <1>4
<1>7. QED BY <1>2, <1>3, <1>5, <1>6

LEMMA FirstRecords ==
  ASSUME NEW S
  PROVE  /\ FirstRecord(S) \in [Notifications -> Snapshot]
         /\ \A n \in Notifications : /\ FirstRecord(S)[n].seen <=> n \in S
                                     /\ FirstRecord(S)[n].delivered = {}
BY RecordTypes DEF FirstRecord, Snapshot

LEMMA InitTypes == Init => TypeInv
BY RecordTypes, ConstantsAssumption
   DEF Init, TypeInv, TypeOK, TargetsUntried, Stages, Transactions, Nothing

(* A step after which a task at an agent is a task that was at it.          *)
LEMMA TasksUntried ==
  ASSUME TypeInv,
         \A p \in Processes, n \in Notifications :
           \/ task'[p][n].pc \notin {"sending", "accepted", "checkpoint"}
           \/ task'[p][n] = task[p][n]
           \/ /\ Untried(p, n) # {}
              /\ task'[p][n].delivered = task[p][n].delivered
              /\ task'[p][n].tried = task[p][n].tried
  PROVE  TargetsUntried'
BY DEF TypeInv, TargetsUntried, Untried

-----------------------------------------------------------------------------
(* The steps of a delivery. *)

LEMMA TaskGoes ==
  ASSUME TypeOK, NEW p \in Processes, NEW n \in Notifications, NEW pc \in TaskStates,
         Goto(p, n, pc)
  PROVE  /\ OwnTask(p, n) /\ task'[p][n].pc = pc
         /\ task'[p][n].delivered = task[p][n].delivered
         /\ task'[p][n].tried = task[p][n].tried
<1>1. task \in [Processes -> [Notifications -> Task]] /\ task[p][n] \in Task
  BY DEF TypeOK
<1>2. [task[p][n] EXCEPT !.pc = pc] \in Task
  BY <1>1, TaskUpdates
<1>3. task' = [task EXCEPT ![p][n] = [task[p][n] EXCEPT !.pc = pc]]
  BY <1>1 DEF Goto
<1>4. OwnTask(p, n) /\ task'[p][n] = [task[p][n] EXCEPT !.pc = pc]
  BY <1>2, <1>3, TaskSet
<1>5. QED BY <1>1, <1>4 DEF Task

LEMMA TaskEnds ==
  ASSUME TypeOK, NEW p \in Processes, NEW n \in Notifications, End(p, n)
  PROVE  OwnTask(p, n) /\ task'[p][n] = NoTask
BY RecordTypes, TaskSet DEF End

LEMMA TaskGivesUp ==
  ASSUME TypeOK, NEW p \in Processes, NEW n \in Notifications, Untried(p, n) # {},
         GiveUp(p, n)
  PROVE  /\ OwnTask(p, n) /\ task'[p][n].pc = "claimed"
         /\ task'[p][n].delivered = task[p][n].delivered
<1> DEFINE tried == task[p][n].tried \cup {Target(p, n)}
<1>1. task \in [Processes -> [Notifications -> Task]] /\ task[p][n] \in Task
  BY DEF TypeOK
<1>2. Target(p, n) \in Agents
  BY TargetUntried, ConstantsAssumption DEF Untried
<1>3. tried \in SUBSET Agents /\ "claimed" \in TaskStates
  BY <1>1, <1>2, TaskFields DEF TaskStates
<1>4. task' = [task EXCEPT ![p][n] = [task[p][n] EXCEPT !.pc = "claimed", !.tried = tried]]
  BY <1>1 DEF GiveUp, Task
<1> HIDE DEF tried
<1>5. [task[p][n] EXCEPT !.pc = "claimed", !.tried = tried] \in Task
  BY <1>1, <1>3, TaskUpdates
<1>6. /\ OwnTask(p, n)
      /\ task'[p][n] = [task[p][n] EXCEPT !.pc = "claimed", !.tried = tried]
  BY <1>4, <1>5, TaskSet
<1>7. QED BY <1>1, <1>6 DEF Task

LEMMA TaskCheckpoints ==
  ASSUME TypeInv, NEW p \in Processes, NEW n \in Notifications, Checkpoint(p, n), Holds(p, n)
  PROVE  /\ OwnTask(p, n) /\ task'[p][n].pc = "claimed"
         /\ task'[p][n].delivered = Delivered(p, n)
         /\ task'[p][n].tried = task[p][n].tried
         /\ [row[n] EXCEPT !.delivered = Delivered(p, n)] \in Row
         /\ row' = [row EXCEPT ![n] = [row[n] EXCEPT !.delivered = Delivered(p, n)]]
<1>1. /\ TypeOK /\ task[p][n] \in Task /\ task \in [Processes -> [Notifications -> Task]]
      /\ row[n] \in Row /\ row \in [Notifications -> Row]
  BY DEF TypeInv, TypeOK
<1>2. Untried(p, n) # {}
  BY DEF TypeInv, TargetsUntried, Checkpoint, At
<1>3. Delivered(p, n) \in SUBSET Agents /\ "claimed" \in TaskStates
  BY <1>1, <1>2, TargetUntried, TaskFields, ConstantsAssumption DEF Untried, Delivered, TaskStates
<1>4. task' = [task EXCEPT ![p][n].pc = "claimed", ![p][n].delivered = Delivered(p, n)]
      /\ row' = [row EXCEPT ![n].delivered = Delivered(p, n)]
  BY <1>1 DEF Checkpoint
<1>5. task' = [task EXCEPT ![p][n] =
                 [task[p][n] EXCEPT !.pc = "claimed", !.delivered = Delivered(p, n)]]
  BY <1>1, <1>4
<1>6. [task[p][n] EXCEPT !.pc = "claimed", !.delivered = Delivered(p, n)] \in Task
  BY <1>1, <1>3, TaskUpdates
<1>7. /\ OwnTask(p, n)
      /\ task'[p][n] = [task[p][n] EXCEPT !.pc = "claimed", !.delivered = Delivered(p, n)]
  BY <1>1, <1>5, <1>6, TaskSet
<1>8. [row[n] EXCEPT !.delivered = Delivered(p, n)] \in Row
  BY <1>1, <1>3, RowUpdates
<1>9. row' = [row EXCEPT ![n] = [row[n] EXCEPT !.delivered = Delivered(p, n)]]
  BY <1>1, <1>4
<1>10. QED BY <1>1, <1>7, <1>8, <1>9 DEF Task

(* What a step of a delivery comes to: it claims the row, leaves it, removes *)
(* it, gives it back, goes on with an agent, gives the agent up, is accepted, *)
(* or stores that.                                                           *)
KeepsRecord(p, n) ==
  task'[p][n].delivered = task[p][n].delivered /\ task'[p][n].tried = task[p][n].tried

KeepsRow(n) ==
  /\ row'[n].there = row[n].there /\ row'[n].delivered = row[n].delivered
  /\ row'[n].claim = row[n].claim /\ (row[n].live => row'[n].live)
  /\ row'[n] = row[n] \/ row[n].there
  /\ stage'[n] = stage[n]

Claims(p, n) ==
  /\ task[p][n].pc = "queued" /\ Visible(n) /\ Unclaimed(n)
  /\ task'[p][n].pc = "claimed" /\ KeepsRecord(p, n)
  /\ row'[n].there /\ row'[n].claim = p /\ row'[n].live
  /\ row'[n].delivered = row[n].delivered /\ stage'[n] = stage[n]
  /\ UNCHANGED sends

Leaves(p, n) ==
  /\ task[p][n].pc # "none" /\ task'[p][n] = NoTask
  /\ Handles(p, n) => ~Holds(p, n) \/ faults' > 0
  /\ row'[n] = row[n] /\ stage'[n] = stage[n] /\ UNCHANGED sends

Removes(p, n) ==
  /\ Handles(p, n) /\ Holds(p, n)
  /\ task'[p][n] = NoTask /\ row'[n] = NoRow
  /\ \/ stage'[n] = "discarded"
     \/ stage'[n] = "delivered" /\ task[p][n].delivered = Targets[n]
  /\ UNCHANGED sends

GivesBack(p, n) ==
  /\ Handles(p, n) /\ Holds(p, n)
  /\ n \in troubled' \/ faults' > 0 \/ (Untried(p, n) = {} /\ task[p][n].delivered # Targets[n])
  /\ task'[p][n] = NoTask
  /\ row'[n].there /\ row'[n].delivered = row[n].delivered /\ row'[n].claim = None
  /\ stage'[n] = stage[n] /\ UNCHANGED sends

GoesOn(p, n) ==
  /\ Untried(p, n) # {} /\ KeepsRecord(p, n) /\ KeepsRow(n)
  /\ \/ task[p][n].pc = "claimed" /\ task'[p][n].pc = "sending"
     \/ task[p][n].pc = "accepted" /\ task'[p][n].pc = "checkpoint"
  /\ UNCHANGED sends

GivesUp(p, n) ==
  /\ Handles(p, n) /\ (n \in troubled' \/ faults' > 0)
  /\ task'[p][n].pc = "claimed" /\ task'[p][n].delivered = task[p][n].delivered
  /\ KeepsRow(n) /\ UNCHANGED sends

Accepted(p, n) ==
  /\ task[p][n].pc = "sending" /\ task'[p][n].pc = "accepted" /\ Untried(p, n) # {}
  /\ KeepsRecord(p, n) /\ row'[n] = row[n] /\ stage'[n] = stage[n]
  /\ sends' = [sends EXCEPT ![n][Target(p, n)] = Min2(@ + 1, 2)]

Stores(p, n) ==
  /\ task[p][n].pc = "checkpoint" /\ Holds(p, n)
  /\ task'[p][n].pc = "claimed" /\ task'[p][n].tried = task[p][n].tried
  /\ task'[p][n].delivered = Delivered(p, n) /\ row'[n].delivered = Delivered(p, n)
  /\ row'[n].there = row[n].there /\ row'[n].claim = row[n].claim
  /\ row'[n].live = row[n].live /\ stage'[n] = stage[n] /\ UNCHANGED sends

Outcome(p, n) ==
  \/ Claims(p, n) \/ Leaves(p, n) \/ Removes(p, n) \/ GivesBack(p, n)
  \/ GoesOn(p, n) \/ GivesUp(p, n) \/ Accepted(p, n) \/ Stores(p, n)

(* What every step of a delivery leaves alone.                              *)
Confined(p, n) ==
  /\ OwnTask(p, n) /\ OwnRow(n)
  /\ UNCHANGED <<instance, raisedBy, undo, tx, deferred, scan, starting>>
  /\ troubled \subseteq troubled' /\ troubled' \subseteq Notifications
  /\ faults' \in Nat /\ faults <= faults'

LEMMA RowRenewed ==
  ASSUME TypeOK, NEW p \in Processes, NEW n \in Notifications, Renewed(p, n), UNCHANGED stage
  PROVE  OwnRow(n) /\ KeepsRow(n)
<1>1. row \in [Notifications -> Row] /\ row[n] \in Row
  BY DEF TypeOK
<1>2. CASE Holds(p, n)
  <2>1. row' = [row EXCEPT ![n] = [row[n] EXCEPT !.live = TRUE]]
    BY <1>1, <1>2 DEF Renewed
  <2>2. [row[n] EXCEPT !.live = TRUE] \in Row
    BY <1>1, RowUpdates
  <2>3. OwnRow(n) /\ row'[n] = [row[n] EXCEPT !.live = TRUE] /\ stage'[n] = stage[n]
    BY <2>1, <2>2, RowKept
  <2>4. row[n].there
    BY <1>2 DEF Holds, Visible
  <2>5. QED BY <1>1, <2>3, <2>4 DEF KeepsRow, Row
<1>3. CASE ~Holds(p, n)
  BY <1>1, <1>3 DEF Renewed, OwnRow, KeepsRow, TypeOK
<1>4. QED BY <1>2, <1>3

(* The recording of a failure removes the row, gives it back or finds the   *)
(* claim lost.                                                              *)
LEMMA FailureRecorded ==
  ASSUME TypeInv, NEW p \in Processes, NEW n \in Notifications, RecordFailure(p, n),
         Handles(p, n), UNCHANGED sends,
         n \in troubled' \/ faults' > 0 \/ (Untried(p, n) = {} /\ task[p][n].delivered # Targets[n])
  PROVE  OwnTask(p, n) /\ OwnRow(n) /\ Outcome(p, n)
<1> DEFINE k == task[p][n].attempts + 1
<1>1. /\ TypeOK /\ row \in [Notifications -> Row] /\ row[n] \in Row /\ k \in Nat
      /\ stage \in [Notifications -> Stages] /\ NoRow \in Row
  BY TaskFields, RecordTypes DEF TypeInv, TypeOK
<1>2. OwnTask(p, n) /\ task'[p][n] = NoTask
  BY <1>1, TaskEnds DEF RecordFailure
<1>3. CASE /\ Holds(p, n) /\ row' = [row EXCEPT ![n] = NoRow]
           /\ stage' = [stage EXCEPT ![n] = "discarded"]
  <2>1. OwnRow(n) /\ row'[n] = NoRow /\ stage'[n] = "discarded"
    BY <1>1, <1>3, RowSet DEF Stages
  <2>2. QED BY <1>2, <1>3, <2>1 DEF Outcome, Removes
<1>4. CASE /\ Holds(p, n) /\ UNCHANGED stage
           /\ row' = [row EXCEPT ![n] = [@ EXCEPT !.attempts = k, !.due = FALSE,
                                                  !.claim = None, !.live = FALSE]]
  <2> DEFINE new == [row[n] EXCEPT !.attempts = k, !.due = FALSE, !.claim = None, !.live = FALSE]
  <2>1. new \in Row /\ new.there = row[n].there /\ new.delivered = row[n].delivered
        /\ new.claim = None
    BY <1>1 DEF Row
  <2>2. row' = [row EXCEPT ![n] = new]
    BY <1>1, <1>4
  <2> HIDE DEF new
  <2>3. OwnRow(n) /\ row'[n] = new /\ stage'[n] = stage[n]
    BY <1>1, <1>4, <2>1, <2>2, RowKept
  <2>4. row[n].there
    BY <1>4 DEF Holds, Visible
  <2>5. QED BY <1>2, <1>4, <2>1, <2>3, <2>4 DEF Outcome, GivesBack
<1>5. CASE ~Holds(p, n) /\ UNCHANGED <<row, stage>>
  BY <1>1, <1>2, <1>5 DEF OwnRow, Outcome, Leaves, Handles
<1>6. QED BY <1>3, <1>4, <1>5 DEF RecordFailure

LEMMA DeliverOutcomes ==
  ASSUME TypeInv, NEW p \in Processes, NEW n \in Notifications,
         Deliver(p, n) \/ DatabaseError(p, n)
  PROVE  Confined(p, n) /\ Outcome(p, n)
<1> DEFINE Goal == Confined(p, n) /\ Outcome(p, n)
<1>1. /\ TypeOK /\ row \in [Notifications -> Row] /\ row[n] \in Row
      /\ stage \in [Notifications -> Stages] /\ NoRow \in Row
      /\ troubled \subseteq Notifications /\ faults \in Nat
      /\ task \in [Processes -> [Notifications -> Task]]
  BY RecordTypes DEF TypeInv, TypeOK
<1>2. Untried(p, n) # {} \/ task[p][n].pc \notin {"sending", "accepted", "checkpoint"}
  BY DEF TypeInv, TargetsUntried
<1>3. \A pc \in {"claimed", "sending", "accepted", "checkpoint"} : pc \in TaskStates
  BY DEF TaskStates
<1>4. UNCHANGED <<row, stage>> => OwnRow(n) /\ KeepsRow(n)
  BY <1>1 DEF OwnRow, KeepsRow
<1>5. UNCHANGED <<troubled, faults>> \/ (troubled' = troubled \cup {n} /\ UNCHANGED faults)
      \/ (UNCHANGED troubled /\ faults' = faults + 1)
      => /\ troubled \subseteq troubled' /\ troubled' \subseteq Notifications
         /\ faults' \in Nat /\ faults <= faults'
  BY <1>1
<1>6. ASSUME Claim(p, n) PROVE Goal
  <2>1. CASE ~(Visible(n) /\ Unclaimed(n)) /\ End(p, n) /\ UNCHANGED row
    BY <1>1, <1>4, <1>5, <1>6, <2>1, TaskEnds
       DEF Claim, At, ghosts, managers, Confined, Outcome, Leaves, Handles
  <2>2. CASE /\ Visible(n) /\ Unclaimed(n) /\ Goto(p, n, "claimed")
             /\ row' = [row EXCEPT ![n].claim = p, ![n].live = TRUE]
    <3> DEFINE new == [row[n] EXCEPT !.claim = p, !.live = TRUE]
    <3>1. new \in Row /\ new.there = row[n].there /\ new.delivered = row[n].delivered
          /\ new.claim = p /\ new.live
      BY <1>1 DEF Row
    <3>2. row' = [row EXCEPT ![n] = new]
      BY <1>1, <2>2
    <3> HIDE DEF new
    <3>3. OwnRow(n) /\ row'[n] = new /\ stage'[n] = stage[n]
      BY <1>1, <1>6, <3>1, <3>2, RowKept DEF Claim
    <3>4. OwnTask(p, n) /\ task'[p][n].pc = "claimed" /\ KeepsRecord(p, n)
      BY <1>1, <1>3, <2>2, TaskGoes DEF KeepsRecord
    <3>5. row[n].there
      BY <2>2 DEF Visible
    <3>6. QED BY <1>5, <1>6, <2>2, <3>1, <3>3, <3>4, <3>5
              DEF Claim, At, ghosts, managers, Confined, Outcome, Claims
  <2>3. QED BY <1>6, <2>1, <2>2 DEF Claim
<1>7. ASSUME Retire(p, n) PROVE Goal
  <2>1. OwnRow(n) /\ row'[n] = NoRow /\ stage'[n] = "discarded"
    BY <1>1, <1>7, RowSet DEF Retire, Stages
  <2>2. QED BY <1>1, <1>5, <1>7, <2>1, TaskEnds
            DEF Retire, At, ghosts, managers, Confined, Outcome, Removes, Handles
<1>8. ASSUME AgentMissing(p, n) PROVE Goal
  BY <1>1, <1>4, <1>5, <1>8, TaskGivesUp
     DEF AgentMissing, At, tables, managers, Confined, Outcome, GivesUp, Handles
<1>9. ASSUME BeginSend(p, n) PROVE Goal
  <2>1. OwnRow(n) /\ KeepsRow(n) /\ UNCHANGED sends /\ task[p][n].pc = "claimed"
        /\ Untried(p, n) # {} /\ UNCHANGED <<instance, raisedBy, undo, managers, faults>>
    BY <1>1, <1>9, RowRenewed DEF BeginSend, At
  <2>2. CASE GiveUp(p, n) /\ troubled' = troubled \cup {n}
    BY <1>1, <1>5, <2>1, <2>2, TaskGivesUp DEF managers, Confined, Outcome, GivesUp, Handles
  <2>3. CASE Goto(p, n, "sending") /\ UNCHANGED troubled
    BY <1>1, <1>3, <1>5, <2>1, <2>3, TaskGoes
       DEF managers, Confined, Outcome, GoesOn, KeepsRecord
  <2>4. QED BY <1>9, <2>2, <2>3 DEF BeginSend
<1>10. ASSUME Refuse(p, n) PROVE Goal
  BY <1>1, <1>2, <1>5, <1>10, RowRenewed, TaskGivesUp
     DEF Refuse, At, managers, Confined, Outcome, GivesUp, Handles
<1>11. ASSUME Accept(p, n) PROVE Goal
  BY <1>1, <1>2, <1>3, <1>4, <1>5, <1>11, TaskGoes
     DEF Accept, At, tables, managers, Confined, Outcome, Accepted, KeepsRecord, KeepsRow
<1>12. ASSUME Recheck(p, n) PROVE Goal
  <2>1. OwnRow(n) /\ KeepsRow(n) /\ UNCHANGED sends /\ task[p][n].pc = "accepted"
        /\ Untried(p, n) # {} /\ UNCHANGED <<instance, raisedBy, undo, managers, faults>>
    BY <1>1, <1>2, <1>12, RowRenewed DEF Recheck, At
  <2>2. CASE GiveUp(p, n) /\ troubled' = troubled \cup {n}
    BY <1>1, <1>5, <2>1, <2>2, TaskGivesUp DEF managers, Confined, Outcome, GivesUp, Handles
  <2>3. CASE Goto(p, n, "checkpoint") /\ UNCHANGED troubled
    BY <1>1, <1>3, <1>5, <2>1, <2>3, TaskGoes
       DEF managers, Confined, Outcome, GoesOn, KeepsRecord
  <2>4. QED BY <1>12, <2>2, <2>3 DEF Recheck
<1>13. ASSUME Checkpoint(p, n) PROVE Goal
  <2>1. UNCHANGED <<instance, stage, raisedBy, undo, managers, ghosts>>
        /\ task[p][n].pc = "checkpoint"
    BY <1>13 DEF Checkpoint, At
  <2>2. CASE Holds(p, n)
    <3> DEFINE new == [row[n] EXCEPT !.delivered = Delivered(p, n)]
    <3>1. /\ OwnTask(p, n) /\ task'[p][n].pc = "claimed"
          /\ task'[p][n].delivered = Delivered(p, n)
          /\ task'[p][n].tried = task[p][n].tried
          /\ new \in Row /\ row' = [row EXCEPT ![n] = new]
      BY <1>13, <2>2, TaskCheckpoints
    <3>2. new.there = row[n].there /\ new.claim = row[n].claim /\ new.live = row[n].live
          /\ new.delivered = Delivered(p, n)
      BY <1>1 DEF Row
    <3> HIDE DEF new
    <3>3. OwnRow(n) /\ row'[n] = new /\ stage'[n] = stage[n]
      BY <1>1, <2>1, <3>1, RowKept
    <3>4. QED BY <1>5, <2>1, <2>2, <3>1, <3>2, <3>3
              DEF ghosts, managers, Confined, Outcome, Stores
  <2>3. CASE ~Holds(p, n)
    BY <1>1, <1>4, <1>5, <1>13, <2>1, <2>3, TaskEnds
       DEF Checkpoint, ghosts, managers, Confined, Outcome, Leaves, Handles
  <2>4. QED BY <2>2, <2>3
<1>14. ASSUME Complete(p, n) PROVE Goal
  <2>1. CASE Holds(p, n)
    <3>1. OwnRow(n) /\ row'[n] = NoRow /\ stage'[n] = "delivered"
      BY <1>1, <1>14, <2>1, RowSet DEF Complete, Stages
    <3>2. QED BY <1>1, <1>5, <1>14, <2>1, <3>1, TaskEnds
              DEF Complete, At, ghosts, managers, Confined, Outcome, Removes, Handles
  <2>2. CASE ~Holds(p, n)
    BY <1>1, <1>4, <1>5, <1>14, <2>2, TaskEnds
       DEF Complete, At, ghosts, managers, Confined, Outcome, Leaves, Handles
  <2>3. QED BY <2>1, <2>2
<1>15. ASSUME Incomplete(p, n) PROVE Goal
  BY <1>1, <1>5, <1>15, FailureRecorded DEF Incomplete, At, ghosts, managers, Confined, Handles
<1>16. ASSUME HydrationFails(p, n) PROVE Goal
  BY <1>1, <1>5, <1>16, FailureRecorded DEF HydrationFails, At, managers, Confined, Handles
<1>17. ASSUME DatabaseError(p, n) PROVE Goal
  <2>1. /\ Handles(p, n) /\ faults' = faults + 1 /\ faults' > 0
        /\ UNCHANGED <<instance, raisedBy, undo, managers, sends, troubled>>
    BY <1>1, <1>17 DEF DatabaseError, RenewalFails, At, Fault, Handles
  <2>2. CASE RecordFailure(p, n)
    BY <1>5, <2>1, <2>2, FailureRecorded DEF managers, Confined
  <2>3. CASE End(p, n) /\ UNCHANGED <<row, stage>>
    BY <1>1, <1>4, <1>5, <2>1, <2>3, TaskEnds
       DEF managers, Confined, Outcome, Leaves, Handles
  <2>4. CASE RenewalFails(p, n)
    BY <1>1, <1>2, <1>4, <1>5, <2>1, <2>4, TaskGivesUp
       DEF RenewalFails, At, managers, Confined, Outcome, GivesUp, Handles
  <2>5. QED BY <1>17, <2>2, <2>3, <2>4 DEF DatabaseError
<1>18. QED
  BY <1>6, <1>7, <1>8, <1>9, <1>10, <1>11, <1>12, <1>13, <1>14, <1>15, <1>16, <1>17
     DEF Deliver, Answer

LEMMA DeliverTypes ==
  ASSUME TypeInv, NEW p \in Processes, NEW n \in Notifications,
         Deliver(p, n) \/ DatabaseError(p, n)
  PROVE  TypeInv'
<1>1. Confined(p, n) /\ Outcome(p, n) /\ NoTask.pc = "none"
  BY DeliverOutcomes, RecordTypes
<1>2. sends' \in [Notifications -> [Agents -> 0..2]]
  <2>1. sends \in [Notifications -> [Agents -> 0..2]]
    BY DEF TypeInv, TypeOK
  <2>2. CASE UNCHANGED sends
    BY <2>1, <2>2
  <2>3. CASE sends' = [sends EXCEPT ![n][Target(p, n)] = Min2(@ + 1, 2)]
    <3>1. \A k \in 0..2 : Min2(k + 1, 2) \in 0..2
      BY DEF Min2
    <3>2. QED BY <2>1, <2>3, <3>1
  <2>4. QED
    BY <1>1, <2>2, <2>3 DEF Outcome, Claims, Leaves, Removes, GivesBack, GoesOn, GivesUp,
                            Accepted, Stores
<1>3. TypeOK'
  BY <1>1, <1>2 DEF TypeInv, TypeOK, Confined, OwnTask, OwnRow
<1>4. TargetsUntried'
  BY <1>1, TasksUntried DEF Confined, OwnTask, Outcome, Claims, Leaves, Removes, GivesBack, GoesOn,
                            GivesUp, Accepted, Stores, KeepsRecord
<1>5. QED BY <1>3, <1>4 DEF TypeInv

-----------------------------------------------------------------------------
(* The other steps. *)

LEMMA UpProcesses == Up \subseteq Processes
BY ConstantsAssumption DEF Up

(* A lease that ends or a delay that elapses changes nothing else.          *)
LEMMA TimePasses ==
  ASSUME TypeOK, NEW n \in Notifications, LeaseExpires(n) \/ BackoffElapses(n)
  PROVE  /\ OwnRow(n) /\ faults' \in Nat /\ faults <= faults'
         /\ UNCHANGED <<instance, stage, raisedBy, undo, managers, task, sends, troubled>>
         /\ row'[n].there = row[n].there /\ row'[n].delivered = row[n].delivered
         /\ row'[n].claim = row[n].claim
         /\ row'[n].live \/ ~row[n].live \/ ~Handles(row[n].claim, n) \/ faults' > 0
         /\ row[n].there \/ row[n].live
<1>1. row \in [Notifications -> Row] /\ row[n] \in Row /\ faults \in Nat
  BY DEF TypeOK
<1>2. CASE LeaseExpires(n)
  <2> DEFINE new == [row[n] EXCEPT !.live = FALSE]
  <2>1. new \in Row /\ new.there = row[n].there /\ new.delivered = row[n].delivered
        /\ new.claim = row[n].claim
    BY <1>1 DEF Row
  <2>2. row' = [row EXCEPT ![n] = new] /\ row[n].live
        /\ ((~Handles(row[n].claim, n) /\ UNCHANGED faults) \/ faults' = faults + 1)
        /\ UNCHANGED <<instance, stage, raisedBy, undo, managers, task, sends, troubled>>
    BY <1>1, <1>2 DEF LeaseExpires, Fault, Handles
  <2> HIDE DEF new
  <2>3. OwnRow(n) /\ row'[n] = new
    BY <2>1, <2>2, RowKept
  <2>4. QED BY <1>1, <2>1, <2>2, <2>3
<1>3. CASE BackoffElapses(n)
  <2> DEFINE new == [row[n] EXCEPT !.due = TRUE]
  <2>1. new \in Row /\ new.there = row[n].there /\ new.delivered = row[n].delivered
        /\ new.claim = row[n].claim /\ (row[n].live => new.live)
    BY <1>1 DEF Row
  <2>2. row' = [row EXCEPT ![n] = new] /\ row[n].there
        /\ UNCHANGED <<instance, stage, raisedBy, undo, managers, task, ghosts>>
    BY <1>1, <1>3 DEF BackoffElapses
  <2> HIDE DEF new
  <2>3. OwnRow(n) /\ row'[n] = new
    BY <2>1, <2>2, RowKept DEF ghosts
  <2>4. row'[n].live \/ ~row[n].live
    BY <2>1, <2>3, Zenon
  <2>5. UNCHANGED <<sends, troubled, faults>> /\ faults <= faults'
    BY <1>1, <2>2 DEF ghosts
  <2>6. /\ row'[n].there = row[n].there /\ row'[n].delivered = row[n].delivered
        /\ row'[n].claim = row[n].claim
    BY <2>1, <2>3
  <2>7. QED BY <1>1, <2>2, <2>3, <2>4, <2>5, <2>6
<1>4. QED BY <1>2, <1>3

(* What the database forgets with a transaction.                            *)
LEMMA UndoneEffect ==
  ASSUME TypeOK, NEW p \in Processes, Undone(p)
  PROVE  /\ row' \in [Notifications -> Row] /\ stage' \in [Notifications -> Stages]
         /\ troubled' \subseteq Notifications /\ troubled \subseteq troubled'
         /\ \A n \in Notifications :
              LET own == raisedBy[n] = p /\ Uncommitted(n)
              IN  /\ row'[n] = IF shared THEN undo[n] ELSE IF own THEN NoRow ELSE row[n]
                  /\ stage'[n] =
                       IF own \/ (raisedBy[n] = p /\ stage[n] = "entered") THEN "undone"
                       ELSE IF shared /\ stage[n] = "committed" /\ ~undo[n].there THEN "swept"
                       ELSE IF shared /\ stage[n] \in {"delivered", "discarded"} /\ undo[n].there
                            THEN "committed" ELSE stage[n]
                  /\ own \/ row'[n] = row[n] \/ n \in troubled'
BY RecordTypes DEF TypeOK, Undone, Own, Stages, Uncommitted

(* A scan reads visible rows nobody holds, and removes some of them.        *)
LEMMA ScanEffect ==
  ASSUME TypeOK, NEW p \in Processes, ScanRead(p)
  PROVE  /\ row' \in [Notifications -> Row] /\ stage' \in [Notifications -> Stages]
         /\ scan' \in [Processes -> [Notifications -> Snapshot]] /\ ~Enqueuing(p)
         /\ starting' \in SUBSET Processes
         /\ UNCHANGED <<instance, raisedBy, undo, tx, deferred, task, ghosts>>
         /\ \A n \in Notifications :
              \/ row'[n] = row[n] /\ stage'[n] = stage[n]
              \/ /\ Visible(n) /\ Unclaimed(n) /\ row'[n] = NoRow /\ stage'[n] = "discarded"
         /\ \A r \in Processes, n \in Notifications :
              \/ scan'[r][n] = scan[r][n]
              \/ scan'[r][n] = NotSeen
              \/ r = p /\ Visible(n) /\ scan'[r][n].delivered = row[n].delivered
<1> DEFINE idle == {n \in Notifications : Visible(n) /\ Unclaimed(n)}
           found(old) == [n \in Notifications |->
                           IF n \in Oldest(idle) \ old /\ (row[n].due \/ p \in starting)
                           THEN [seen |-> TRUE, delivered |-> row[n].delivered,
                                 attempts |-> row[n].attempts]
                           ELSE NotSeen]
<1>1. PICK old \in SUBSET idle :
        /\ ~Enqueuing(p)
        /\ scan' = [scan EXCEPT ![p] = found(old)]
        /\ starting' = starting \ {p}
        /\ row' = [n \in Notifications |-> IF n \in old THEN NoRow ELSE row[n]]
        /\ stage' = [n \in Notifications |-> IF n \in old THEN "discarded" ELSE stage[n]]
        /\ UNCHANGED <<instance, raisedBy, undo, tx, deferred, task, ghosts>>
  BY DEF ScanRead
<1>2. /\ row \in [Notifications -> Row] /\ stage \in [Notifications -> Stages]
      /\ scan \in [Processes -> [Notifications -> Snapshot]] /\ starting \subseteq Processes
      /\ NoRow \in Row /\ NotSeen \in Snapshot /\ "discarded" \in Stages
  BY RecordTypes DEF TypeOK, Stages
<1>3. \A n \in Notifications :
        LET read == [seen |-> TRUE, delivered |-> row[n].delivered, attempts |-> row[n].attempts]
        IN  read \in Snapshot /\ read.delivered = row[n].delivered
  BY <1>2, RowFields DEF Snapshot
<1>4. \A n \in Oldest(idle) : n \in Notifications /\ Visible(n)
  BY DEF Oldest
<1>5. \A n \in old : Visible(n) /\ Unclaimed(n)
  BY <1>1
<1>6. found(old) \in [Notifications -> Snapshot]
  BY <1>2, <1>3
<1>7. \A n \in Notifications :
        found(old)[n] = NotSeen \/ (Visible(n) /\ found(old)[n].delivered = row[n].delivered)
  BY <1>3, <1>4
<1> HIDE DEF found, idle
<1>8. row' \in [Notifications -> Row] /\ stage' \in [Notifications -> Stages]
      /\ \A n \in Notifications :
           \/ row'[n] = row[n] /\ stage'[n] = stage[n]
           \/ /\ Visible(n) /\ Unclaimed(n) /\ row'[n] = NoRow /\ stage'[n] = "discarded"
  BY <1>1, <1>2, <1>5
<1>9. scan' \in [Processes -> [Notifications -> Snapshot]]
      /\ \A r \in Processes, n \in Notifications :
           \/ scan'[r][n] = scan[r][n]
           \/ scan'[r][n] = NotSeen
           \/ r = p /\ Visible(n) /\ scan'[r][n].delivered = row[n].delivered
  BY <1>1, <1>2, <1>6, <1>7
<1>10. QED BY <1>1, <1>2, <1>8, <1>9

(* The records of a scan are dispatched but for the deferred ones.          *)
LEMMA ScanDispatches ==
  ASSUME TypeOK, NEW p \in Processes, ScanDispatch(p)
  PROVE  /\ scan' \in [Processes -> [Notifications -> Snapshot]]
         /\ task' \in [Processes -> [Notifications -> Task]]
         /\ UNCHANGED <<instance, stage, raisedBy, tables, tx, deferred, starting, ghosts>>
         /\ \A r \in Processes, n \in Notifications :
              /\ scan'[r][n] = scan[r][n] \/ scan'[r][n] = NotSeen
              /\ \/ task'[r][n] = task[r][n]
                 \/ /\ r = p /\ scan[p][n].seen /\ n \notin deferred[p] /\ ~Enqueuing(p)
                    /\ task[p][n].pc = "none"
                    /\ task'[p][n].pc = "queued" /\ task'[p][n].tried = {}
                    /\ task'[p][n].delivered = scan[p][n].delivered
<1> DEFINE records == [n \in Notifications |-> IF NotDeferred(p, n) THEN scan[p][n] ELSE NotSeen]
<1>1. /\ scan \in [Processes -> [Notifications -> Snapshot]]
      /\ task \in [Processes -> [Notifications -> Task]]
  BY DEF TypeOK
<1>2. records \in [Notifications -> Snapshot]
      /\ \A n \in Notifications : records[n].seen =>
           n \notin deferred[p] /\ records[n] = scan[p][n]
  BY <1>1, RecordTypes DEF NotDeferred
<1>3. scan' \in [Processes -> [Notifications -> Snapshot]]
      /\ \A r \in Processes, n \in Notifications : scan'[r][n] = scan[r][n] \/ scan'[r][n] = NotSeen
  BY <1>1, RecordTypes DEF ScanDispatch, Nothing
<1>4. UNCHANGED task \/ (~Enqueuing(p) /\ Dispatch(p, records))
  BY DEF ScanDispatch
<1>5. UNCHANGED <<instance, stage, raisedBy, tables, tx, deferred, starting, ghosts>>
  BY DEF ScanDispatch
<1> HIDE DEF records
<1>6. CASE UNCHANGED task
  BY <1>1, <1>3, <1>5, <1>6
<1>7. CASE ~Enqueuing(p) /\ Dispatch(p, records)
  <2>1. task' \in [Processes -> [Notifications -> Task]]
        /\ \A r \in Processes, n \in Notifications :
             \/ task'[r][n] = task[r][n]
             \/ /\ r = p /\ records[n].seen /\ task[p][n].pc = "none"
                /\ task'[p][n].pc = "queued" /\ task'[p][n].tried = {}
                /\ task'[p][n].delivered = records[n].delivered
    BY <1>2, <1>7, DispatchQueues
  <2>2. QED BY <1>2, <1>3, <1>5, <1>7, <2>1
<1>8. QED BY <1>4, <1>6, <1>7

(* A dispatch right after the insertion or the commit.                      *)
LEMMA FirstDispatches ==
  ASSUME TypeOK, NEW p \in Processes, NEW S, Dispatch(p, FirstRecord(S))
  PROVE  /\ task' \in [Processes -> [Notifications -> Task]]
         /\ \A r \in Processes, n \in Notifications :
              \/ task'[r][n] = task[r][n]
              \/ /\ r = p /\ n \in S /\ task[p][n].pc = "none"
                 /\ task'[p][n].pc = "queued" /\ task'[p][n].tried = {}
                 /\ task'[p][n].delivered = {}
<1>1. FirstRecord(S) \in [Notifications -> Snapshot]
      /\ \A n \in Notifications : (FirstRecord(S)[n].seen <=> n \in S)
                                  /\ FirstRecord(S)[n].delivered = {}
  BY FirstRecords
<1>2. /\ task' \in [Processes -> [Notifications -> Task]]
      /\ \A r \in Processes, n \in Notifications :
           \/ task'[r][n] = task[r][n]
           \/ /\ r = p /\ FirstRecord(S)[n].seen /\ task[p][n].pc = "none"
              /\ task'[p][n].pc = "queued" /\ task'[p][n].tried = {}
              /\ task'[p][n].delivered = FirstRecord(S)[n].delivered
  BY <1>1, DispatchQueues
<1>3. QED BY <1>1, <1>2

-----------------------------------------------------------------------------
(* Type correctness *)

LEMMA TransactionTypes ==
  ASSUME TypeInv, NEW p \in Processes, Transaction(p)
  PROVE  TypeInv'
<1>1. TypeOK /\ NoRow \in Row
  BY RecordTypes DEF TypeInv
<1>2. {"open", "failing", "committed", "rolledback", "none"} \subseteq Transactions
      /\ "committed" \in Stages
  BY DEF Transactions, Stages
<1>3. CASE Begin(p)
  BY <1>1, <1>2, <1>3, TasksUntried DEF Begin, TypeInv, TypeOK, ghosts
<1>4. CASE Commit(p)
  BY <1>1, <1>2, <1>4, TasksUntried DEF Commit, Ended, TypeInv, TypeOK, ghosts
<1>5. CASE AfterCommit(p)
  BY <1>1, <1>2, <1>5, FirstDispatches, TasksUntried
     DEF AfterCommit, Lifted, TypeInv, TypeOK, ghosts, tables
<1>6. CASE Rollback(p)
  <2>1. faults' \in Nat /\ Undone(p)
    BY <1>1, <1>6 DEF Rollback, TypeOK
  <2>2. QED BY <1>1, <1>2, <1>6, <2>1, UndoneEffect, TasksUntried
            DEF Rollback, Ended, TypeInv, TypeOK
<1>7. CASE AfterRollback(p)
  BY <1>1, <1>2, <1>7, TasksUntried DEF AfterRollback, Lifted, TypeInv, TypeOK, ghosts, tables
<1>8. QED BY <1>3, <1>4, <1>5, <1>6, <1>7 DEF Transaction

LEMMA PersistTypes ==
  ASSUME TypeInv, NEW p \in Processes, NEW n \in Notifications, Persist(p, n)
  PROVE  TypeInv'
<1>1. TypeOK /\ NewRow \in Row
  BY RecordTypes DEF TypeInv
<1>2. {"entered", "inserted", "open", "undone", "committed"} \subseteq Stages
      /\ {"open", "failing"} \subseteq Transactions
  BY DEF Transactions, Stages
<1>3. CASE Enter(p, n)
  BY <1>1, <1>2, <1>3, TasksUntried DEF Enter, TypeInv, TypeOK, ghosts, tables
<1>4. CASE Insert(p, n)
  BY <1>1, <1>2, <1>4, TasksUntried DEF Insert, TypeInv, TypeOK, ghosts, managers
<1>5. CASE InsertRefused(p, n)
  BY <1>1, <1>2, <1>5, TasksUntried DEF InsertRefused, TypeInv, TypeOK, ghosts, tables
<1>6. CASE Defer(p, n)
  BY <1>1, <1>2, <1>6, TasksUntried DEF Defer, TypeInv, TypeOK, ghosts, tables
<1>7. CASE Send(p, n)
  <2>1. raisedBy' \in [Notifications -> Processes \cup {None}]
        /\ row' \in [Notifications -> Row] /\ stage' \in [Notifications -> Stages]
        /\ UNCHANGED <<instance, undo, managers, ghosts>>
        /\ (Dispatch(p, FirstRecord({n})) \/ UNCHANGED task)
    BY <1>1, <1>2, <1>7 DEF Send, TypeOK
  <2>2. task' \in [Processes -> [Notifications -> Task]] /\ TargetsUntried'
    BY <1>1, <2>1, FirstDispatches, TasksUntried DEF TypeOK
  <2>3. QED BY <1>1, <2>1, <2>2 DEF TypeInv, TypeOK, ghosts, managers
<1>8. QED BY <1>3, <1>4, <1>5, <1>6, <1>7 DEF Persist

LEMMA ScanTypes ==
  ASSUME TypeInv, NEW p \in Processes, ScanRead(p) \/ ScanDispatch(p) \/ Crash(p)
  PROVE  TypeInv'
<1>1. TypeOK /\ NoRow \in Row /\ NotSeen \in Snapshot /\ NoTask \in Task /\ NoTask.pc = "none"
  BY RecordTypes DEF TypeInv
<1>2. CASE ScanRead(p)
  BY <1>1, <1>2, ScanEffect, TasksUntried DEF TypeInv, TypeOK, ghosts
<1>3. CASE ScanDispatch(p)
  BY <1>1, <1>3, ScanDispatches, TasksUntried DEF TypeInv, TypeOK, ghosts, tables
<1>4. CASE Crash(p)
  <2>1. /\ faults' \in Nat /\ UNCHANGED <<instance, raisedBy, sends>>
        /\ tx' \in [Processes -> Transactions] /\ deferred' \in [Processes -> SUBSET Notifications]
        /\ scan' \in [Processes -> [Notifications -> Snapshot]]
        /\ starting' \in SUBSET Processes
    BY <1>1, <1>4 DEF Crash, Fault, Lifted, Nothing, Transactions, TypeOK
  <2>2. task' \in [Processes -> [Notifications -> Task]]
        /\ \A r \in Processes, n \in Notifications : task'[r][n] = task[r][n] \/ task'[r][n] = NoTask
    BY <1>1, <1>4 DEF Crash, TypeOK
  <2>3. /\ row' \in [Notifications -> Row] /\ undo' \in [Notifications -> Row]
        /\ stage' \in [Notifications -> Stages] /\ troubled' \subseteq Notifications
    BY <1>1, <1>4, UndoneEffect DEF Crash, Ended, tables, TypeOK
  <2>4. TargetsUntried'
    BY <1>1, <2>2, TasksUntried
  <2>5. QED BY <1>1, <2>1, <2>2, <2>3, <2>4 DEF TypeInv, TypeOK
<1>5. QED BY <1>2, <1>3, <1>4

LEMMA TimeTypes ==
  ASSUME TypeInv, NEW n \in Notifications, LeaseExpires(n) \/ BackoffElapses(n)
  PROVE  TypeInv'
<1>1. TypeOK
  BY DEF TypeInv
<1>2. QED BY <1>1, TimePasses, TasksUntried DEF TypeInv, TypeOK, OwnRow, managers

LEMMA StepTypes == TypeInv /\ [Next]_vars => TypeInv'
<1> SUFFICES ASSUME TypeInv, [Next]_vars PROVE TypeInv'
  OBVIOUS
<1>1. CASE UNCHANGED vars
  BY <1>1 DEF vars, TypeInv, TypeOK, TargetsUntried, Untried
<1>2. ASSUME NEW p \in Up, Transaction(p) \/ ScanRead(p) \/ ScanDispatch(p) \/ Crash(p)
      PROVE  TypeInv'
  BY <1>2, UpProcesses, TransactionTypes, ScanTypes
<1>3. ASSUME NEW p \in Up, NEW n \in Notifications,
             Persist(p, n) \/ Deliver(p, n) \/ DatabaseError(p, n)
      PROVE  TypeInv'
  BY <1>3, UpProcesses, PersistTypes, DeliverTypes
<1>4. QED BY <1>1, <1>2, <1>3, TimeTypes DEF Next

(* Every variable has its type, for every number of processes,              *)
(* notifications and agents: queued deliveries, snapshots and rows are      *)
(* always records of the kind a later step expects.                         *)
THEOREM TypeCorrect == Spec => []TypeOK
<1>1. TypeInv => TypeOK
  BY DEF TypeInv
<1>2. QED BY <1>1, InitTypes, StepTypes, PTL DEF Spec

-----------------------------------------------------------------------------
(* The inductive invariant of SentAfterCommit and the first half of         *)
(* NoSilentLoss: what the table holds follows from the stages, ...          *)

RowsStaged ==
  \A n \in Notifications :
    /\ row[n].there <=> stage[n] \in {"inserted", "open", "committed"}
    /\ ~row[n].there => row[n] = NoRow
    /\ ~undo[n].there => undo[n] = NoRow
    /\ undo[n].there => stage[n] \in {"committed", "delivered", "discarded"}

(* ... the stages from the transactions and their deferrals, ...            *)
TransactionsStaged ==
  \A n \in Notifications :
    /\ stage[n] # "none" => raisedBy[n] \in Up
    /\ stage[n] \in {"entered", "inserted"} => tx[raisedBy[n]] = "open"
    /\ stage[n] = "open" => /\ tx[raisedBy[n]] \in {"open", "failing"}
                            /\ n \in deferred[raisedBy[n]]

OneEnqueue ==
  \A m, n \in Notifications :
    /\ stage[m] \in {"entered", "inserted"} /\ stage[n] \in {"entered", "inserted"}
    /\ raisedBy[m] = raisedBy[n]
    => m = n

DeferralsOwned ==
  \A p \in Processes : \A n \in deferred[p] :
    raisedBy[n] = p /\ stage[n] \notin {"none", "entered", "inserted"}

(* ... and no scan, task or agent is ahead of the commit.                   *)
ScansStaged ==
  \A p \in Processes, n \in Notifications :
    scan[p][n].seen => /\ stage[n] \notin {"none", "entered", "inserted"}
                       /\ stage[n] = "open" => shared

TasksStaged ==
  \A p \in Processes, n \in Notifications :
    /\ task[p][n].pc # "none" => stage[n] \notin Early
    /\ Handles(p, n) => stage[n] \in After

StageInv ==
  /\ RowsStaged /\ TransactionsStaged /\ OneEnqueue /\ DeferralsOwned
  /\ ScansStaged /\ TasksStaged /\ SentAfterCommit

StageTypes ==
  /\ stage \in [Notifications -> Stages] /\ raisedBy \in [Notifications -> Processes \cup {None}]
  /\ row \in [Notifications -> Row] /\ undo \in [Notifications -> Row]
  /\ tx \in [Processes -> Transactions] /\ deferred \in [Processes -> SUBSET Notifications]

LEMMA StageTyped == TypeInv => StageTypes
BY DEF TypeInv, TypeOK, StageTypes

LEMMA SameInstance == UNCHANGED instance => (shared' <=> shared) /\ Up' = Up
BY DEF shared, Up

LEMMA InitStages == Init => StageInv
BY RecordTypes
   DEF Init, StageInv, RowsStaged, TransactionsStaged, OneEnqueue, DeferralsOwned, ScansStaged,
       TasksStaged, SentAfterCommit, Nothing, Handles, After, Early

(* Most steps change no stage but of a row they remove.                     *)
Settles ==
  /\ UNCHANGED <<instance, raisedBy, undo, tx, deferred>>
  /\ \A n \in Notifications :
       \/ /\ stage'[n] = stage[n] /\ (row'[n].there <=> row[n].there)
          /\ row'[n] = row[n] \/ row[n].there
       \/ /\ stage[n] \in {"open", "committed"} /\ stage'[n] \in {"delivered", "discarded"}
          /\ row'[n] = NoRow

LEMMA SettledStages ==
  ASSUME StageTypes, StageInv, Settles
  PROVE  RowsStaged' /\ TransactionsStaged' /\ OneEnqueue' /\ DeferralsOwned'
<1>1. ~NoRow.there
  BY RecordTypes
<1>2. RowsStaged'
  BY <1>1 DEF StageInv, RowsStaged, Settles
<1>3. TransactionsStaged'
  BY SameInstance DEF StageInv, TransactionsStaged, Settles
<1>4. OneEnqueue'
  BY DEF StageInv, OneEnqueue, Settles
<1>5. DeferralsOwned'
  BY DEF StageInv, DeferralsOwned, Settles, StageTypes
<1>6. QED BY <1>2, <1>3, <1>4, <1>5

(* No record runs ahead when none is made, and no notification goes back to *)
(* an early stage.                                                          *)
LEMMA FollowersStaged ==
  ASSUME StageInv,
         \A n \in Notifications :
           /\ stage[n] \notin {"none", "entered", "inserted"} =>
                stage'[n] \notin {"none", "entered", "inserted"}
           /\ stage[n] \notin Early => stage'[n] \notin Early
           /\ stage[n] \in After => stage'[n] \in After,
         UNCHANGED instance,
         \A p \in Processes, n \in Notifications :
           /\ scan'[p][n].seen =>
                \/ scan[p][n].seen
                \/ /\ stage'[n] \notin {"none", "entered", "inserted"}
                   /\ stage'[n] = "open" => shared
           /\ task'[p][n].pc # "none" => task[p][n].pc # "none" \/ stage'[n] \notin Early
           /\ Handles(p, n)' => Handles(p, n) \/ stage'[n] \in After,
         \A n \in Notifications, a \in Agents :
           sends'[n][a] > 0 => sends[n][a] > 0 \/ stage'[n] \in After,
         \A n \in Notifications : stage'[n] = "open" /\ stage[n] # "open" =>
           \A p \in Processes : ~scan[p][n].seen
  PROVE  ScansStaged' /\ TasksStaged' /\ SentAfterCommit'
<1>1. ScansStaged'
  BY SameInstance DEF StageInv, ScansStaged
<1>2. TasksStaged'
  BY DEF StageInv, TasksStaged
<1>3. SentAfterCommit'
  BY DEF StageInv, SentAfterCommit, After
<1>4. QED BY <1>1, <1>2, <1>3

LEMMA DeliverStages ==
  ASSUME TypeInv, StageInv, NEW p \in Processes, NEW n \in Notifications,
         Deliver(p, n) \/ DatabaseError(p, n)
  PROVE  StageInv'
<1>1. /\ Confined(p, n) /\ Outcome(p, n) /\ StageTypes /\ NoTask.pc = "none" /\ ~NoRow.there
      /\ sends \in [Notifications -> [Agents -> 0..2]]
  BY DeliverOutcomes, StageTyped, RecordTypes DEF TypeInv, TypeOK
<1>2. Handles(p, n) => stage[n] \in After
  BY DEF StageInv, TasksStaged
<1>3. Visible(n) => row[n].there /\ stage[n] \in {"inserted", "open", "committed"}
  BY DEF Visible, StageInv, RowsStaged
<1>4. task[p][n].pc # "none" /\ Visible(n) => stage[n] = "committed"
  BY <1>3 DEF StageInv, TasksStaged, Early
<1>5. \/ /\ stage'[n] = stage[n] /\ (row'[n].there <=> row[n].there)
         /\ row'[n] = row[n] \/ row[n].there
      \/ /\ stage[n] = "committed" /\ stage'[n] \in {"delivered", "discarded"}
         /\ row'[n] = NoRow
  BY <1>1, <1>3, <1>4 DEF Outcome, Claims, Leaves, Removes, GivesBack, GoesOn, GivesUp, Accepted,
                          Stores, KeepsRow, Holds, Handles
<1>6. /\ task'[p][n].pc # "none" => task[p][n].pc # "none"
      /\ Handles(p, n)' => Handles(p, n) \/ (task[p][n].pc = "queued" /\ Visible(n))
  BY <1>1 DEF Outcome, Claims, Leaves, Removes, GivesBack, GoesOn, GivesUp, Accepted, Stores, Handles
<1>7. \A m \in Notifications, a \in Agents :
        sends'[m][a] # sends[m][a] => m = n /\ Handles(p, n)
  BY <1>1 DEF Outcome, Claims, Leaves, Removes, GivesBack, GoesOn, GivesUp, Accepted, Stores, Handles
<1>8. \A m \in Notifications \ {n} : row'[m] = row[m] /\ stage'[m] = stage[m]
  BY <1>1 DEF Confined, OwnRow
<1>9. \A r \in Processes, m \in Notifications : task'[r][m] = task[r][m] \/ (r = p /\ m = n)
  BY <1>1 DEF Confined, OwnTask
<1>10. Settles
  BY <1>1, <1>5, <1>8 DEF Settles, Confined
<1>11. ScansStaged' /\ TasksStaged' /\ SentAfterCommit'
  <2>1. \A m \in Notifications :
          /\ stage[m] \notin {"none", "entered", "inserted"} =>
               stage'[m] \notin {"none", "entered", "inserted"}
          /\ stage[m] \notin Early => stage'[m] \notin Early
          /\ stage[m] \in After => stage'[m] \in After
          /\ stage'[m] = "open" => stage[m] = "open"
    BY <1>5, <1>8 DEF Early, After
  <2>2. \A r \in Processes, m \in Notifications :
          /\ scan'[r][m].seen => scan[r][m].seen
          /\ task'[r][m].pc # "none" => task[r][m].pc # "none"
          /\ Handles(r, m)' => Handles(r, m) \/ stage'[m] \in After
    BY <1>1, <1>4, <1>6, <1>9, <2>1 DEF Confined, Handles, After
  <2>3. \A m \in Notifications, a \in Agents :
          sends'[m][a] > 0 => sends[m][a] > 0 \/ stage'[m] \in After
    BY <1>2, <1>7, <2>1
  <2>4. UNCHANGED instance
    BY <1>1 DEF Confined
  <2>5. QED BY <2>1, <2>2, <2>3, <2>4, FollowersStaged
<1>12. QED BY <1>1, <1>10, <1>11, SettledStages DEF StageInv

LEMMA TimeStages ==
  ASSUME TypeInv, StageInv, NEW n \in Notifications, LeaseExpires(n) \/ BackoffElapses(n)
  PROVE  StageInv'
<1>1. TypeOK /\ StageTypes
  BY StageTyped DEF TypeInv
<1>2. row[n].there
  BY <1>1, TimePasses, RecordTypes DEF StageInv, RowsStaged, NoRow
<1>3. Settles /\ UNCHANGED <<scan, task, sends, stage, instance>>
  BY <1>1, <1>2, TimePasses DEF Settles, OwnRow, managers
<1>4. ScansStaged' /\ TasksStaged' /\ SentAfterCommit'
  BY <1>3, FollowersStaged DEF Handles
<1>5. QED BY <1>1, <1>3, <1>4, SettledStages DEF StageInv

(* Over SQLite a scan may see the rows of the open transaction, but none of *)
(* a notification that is being enqueued.                                   *)
LEMMA ScansSee ==
  ASSUME TypeInv, StageInv, NEW p \in Up, ~Enqueuing(p), NEW n \in Notifications, Visible(n)
  PROVE  stage[n] = "committed" \/ (stage[n] = "open" /\ shared)
<1>1. row[n].there /\ (shared \/ ~Uncommitted(n))
  BY DEF Visible
<1>2. stage[n] \in {"inserted", "open", "committed"}
  BY <1>1 DEF StageInv, RowsStaged
<1>3. CASE stage[n] = "inserted"
  <2>1. shared /\ raisedBy[n] \in Up
    BY <1>1, <1>3 DEF Uncommitted, StageInv, TransactionsStaged
  <2>2. raisedBy[n] = p
    BY <2>1 DEF Up
  <2>3. QED BY <1>3, <2>2 DEF Enqueuing, Own
<1>4. CASE stage[n] = "open"
  BY <1>1, <1>4 DEF Uncommitted
<1>5. QED BY <1>2, <1>3, <1>4

LEMMA ScanStages ==
  ASSUME TypeInv, StageInv, NEW p \in Up, ScanRead(p)
  PROVE  StageInv'
<1>1. TypeOK /\ StageTypes /\ p \in Processes /\ ~NotSeen.seen
  BY StageTyped, UpProcesses, RecordTypes DEF TypeInv
<1>2. /\ ~Enqueuing(p)
      /\ UNCHANGED <<instance, raisedBy, undo, tx, deferred, task, ghosts>>
      /\ \A n \in Notifications :
           \/ row'[n] = row[n] /\ stage'[n] = stage[n]
           \/ Visible(n) /\ row'[n] = NoRow /\ stage'[n] = "discarded"
      /\ \A r \in Processes, n \in Notifications :
           scan'[r][n] = scan[r][n] \/ scan'[r][n] = NotSeen \/ Visible(n)
  BY <1>1, ScanEffect
<1>3. \A n \in Notifications : Visible(n) => stage[n] = "committed" \/ (stage[n] = "open" /\ shared)
  BY <1>2, ScansSee
<1>4. Settles
  BY <1>2, <1>3 DEF Settles
<1>5. ScansStaged' /\ TasksStaged' /\ SentAfterCommit'
  <2>1. \A n \in Notifications :
          /\ stage[n] \notin {"none", "entered", "inserted"} =>
               stage'[n] \notin {"none", "entered", "inserted"}
          /\ stage[n] \notin Early => stage'[n] \notin Early
          /\ stage[n] \in After => stage'[n] \in After
          /\ stage'[n] = "open" => stage[n] = "open"
    BY <1>2 DEF Early, After
  <2>2. \A r \in Processes, n \in Notifications :
          scan'[r][n].seen =>
            \/ scan[r][n].seen
            \/ /\ stage'[n] \notin {"none", "entered", "inserted"}
               /\ stage'[n] = "open" => shared
    BY <1>1, <1>2, <1>3, <2>1
  <2>3. UNCHANGED <<instance, task, sends>>
    BY <1>2 DEF ghosts
  <2>4. QED BY <2>1, <2>2, <2>3, FollowersStaged DEF Handles
<1>6. QED BY <1>1, <1>4, <1>5, SettledStages DEF StageInv

(* The deferral keeps the rows of an open transaction from being sent.      *)
LEMMA ScanDispatchStages ==
  ASSUME TypeInv, StageInv, NEW p \in Up, ScanDispatch(p)
  PROVE  StageInv'
<1>1. TypeOK /\ StageTypes /\ p \in Processes /\ ~NotSeen.seen
  BY StageTyped, UpProcesses, RecordTypes DEF TypeInv
<1>2. /\ UNCHANGED <<instance, stage, raisedBy, tables, tx, deferred, starting, ghosts>>
      /\ \A r \in Processes, n \in Notifications :
           /\ scan'[r][n] = scan[r][n] \/ scan'[r][n] = NotSeen
           /\ \/ task'[r][n] = task[r][n]
              \/ /\ r = p /\ scan[p][n].seen /\ n \notin deferred[p] /\ task'[p][n].pc = "queued"
  BY <1>1, ScanDispatches
<1>3. \A n \in Notifications : scan[p][n].seen /\ n \notin deferred[p] => stage[n] \notin Early
  <2> SUFFICES ASSUME NEW n \in Notifications, scan[p][n].seen, n \notin deferred[p]
               PROVE  stage[n] \notin Early
    OBVIOUS
  <2>1. stage[n] \notin {"none", "entered", "inserted"} /\ (stage[n] = "open" => shared)
    BY <1>1 DEF StageInv, ScansStaged
  <2>2. stage[n] # "open"
    BY <2>1 DEF StageInv, TransactionsStaged, Up
  <2>3. QED BY <2>1, <2>2 DEF Early
<1>4. Settles
  BY <1>2 DEF Settles, tables
<1>5. ScansStaged' /\ TasksStaged' /\ SentAfterCommit'
  <2>1. \A r \in Processes, n \in Notifications :
          /\ scan'[r][n].seen => scan[r][n].seen
          /\ task'[r][n].pc # "none" => task[r][n].pc # "none" \/ stage'[n] \notin Early
          /\ Handles(r, n)' => Handles(r, n)
    BY <1>1, <1>2, <1>3 DEF Handles
  <2>2. UNCHANGED <<instance, stage, sends>>
    BY <1>2 DEF ghosts
  <2>3. QED BY <2>1, <2>2, FollowersStaged
<1>6. QED BY <1>1, <1>4, <1>5, SettledStages DEF StageInv

(* The steps of raising a notification. *)
LEMMA PersistStages ==
  ASSUME TypeInv, StageInv, NEW p \in Up, NEW n \in Notifications, Persist(p, n)
  PROVE  StageInv'
<1>1. /\ TypeOK /\ StageTypes /\ p \in Processes /\ ~NoRow.there /\ NewRow.there /\ NoTask.pc = "none"
  BY StageTyped, UpProcesses, RecordTypes DEF TypeInv
<1>2. /\ RowsStaged /\ TransactionsStaged /\ OneEnqueue /\ DeferralsOwned
      /\ ScansStaged /\ TasksStaged /\ SentAfterCommit
  BY DEF StageInv
<1>3. CASE Enter(p, n)
  <2>1. /\ tx' = [tx EXCEPT ![p] = "open"] /\ stage' = [stage EXCEPT ![n] = "entered"]
        /\ raisedBy' = [raisedBy EXCEPT ![n] = p] /\ stage[n] = "none" /\ ~Enqueuing(p)
        /\ UNCHANGED <<instance, row, undo, deferred, scan, task, sends>>
    BY <1>3 DEF Enter, Raises, tables, ghosts
  <2>2. RowsStaged'
    BY <1>1, <1>2, <2>1 DEF StageTypes, RowsStaged
  <2>3. TransactionsStaged'
    BY <1>1, <1>2, <2>1, SameInstance DEF StageTypes, TransactionsStaged
  <2>4. OneEnqueue'
    BY <1>1, <1>2, <2>1 DEF StageTypes, OneEnqueue, Enqueuing, Own
  <2>5. DeferralsOwned'
    BY <1>1, <1>2, <2>1 DEF StageTypes, DeferralsOwned
  <2>6. \A m \in Notifications : stage'[m] = stage[m] \/ (stage[m] = "none" /\ stage'[m] = "entered")
    BY <1>1, <2>1 DEF StageTypes
  <2>7. ScansStaged' /\ TasksStaged' /\ SentAfterCommit'
    BY <2>1, <2>6, FollowersStaged DEF Handles, Early, After
  <2>8. QED BY <2>2, <2>3, <2>4, <2>5, <2>7 DEF StageInv
<1>4. CASE Insert(p, n)
  <2>1. /\ stage' = [stage EXCEPT ![n] = "inserted"] /\ row' = [row EXCEPT ![n] = NewRow]
        /\ stage[n] = "entered" /\ raisedBy[n] = p
        /\ UNCHANGED <<instance, raisedBy, undo, tx, deferred, scan, task, sends>>
    BY <1>4 DEF Insert, managers, ghosts
  <2>2. RowsStaged'
    BY <1>1, <1>2, <2>1 DEF StageTypes, RowsStaged
  <2>3. TransactionsStaged'
    BY <1>1, <1>2, <2>1, SameInstance DEF StageTypes, TransactionsStaged
  <2>4. OneEnqueue'
    BY <1>1, <1>2, <2>1 DEF StageTypes, OneEnqueue
  <2>5. DeferralsOwned'
    BY <1>1, <1>2, <2>1 DEF StageTypes, DeferralsOwned
  <2>6. \A m \in Notifications :
          stage'[m] = stage[m] \/ (stage[m] = "entered" /\ stage'[m] = "inserted")
    BY <1>1, <2>1 DEF StageTypes
  <2>7. ScansStaged' /\ TasksStaged' /\ SentAfterCommit'
    BY <2>1, <2>6, FollowersStaged DEF Handles, Early, After
  <2>8. QED BY <2>2, <2>3, <2>4, <2>5, <2>7 DEF StageInv
<1>5. CASE InsertRefused(p, n)
  <2>1. /\ stage' = [stage EXCEPT ![n] = "undone"] /\ tx' = [tx EXCEPT ![p] = "failing"]
        /\ stage[n] = "entered" /\ raisedBy[n] = p
        /\ UNCHANGED <<instance, raisedBy, row, undo, deferred, scan, task, sends>>
    BY <1>5 DEF InsertRefused, tables, ghosts
  <2>2. RowsStaged'
    BY <1>1, <1>2, <2>1 DEF StageTypes, RowsStaged
  <2>3. TransactionsStaged'
    BY <1>1, <1>2, <2>1, SameInstance DEF StageTypes, TransactionsStaged, OneEnqueue
  <2>4. OneEnqueue'
    BY <1>1, <1>2, <2>1 DEF StageTypes, OneEnqueue
  <2>5. DeferralsOwned'
    BY <1>1, <1>2, <2>1 DEF StageTypes, DeferralsOwned
  <2>6. \A m \in Notifications : stage'[m] = stage[m] \/ (stage[m] = "entered" /\ stage'[m] = "undone")
    BY <1>1, <2>1 DEF StageTypes
  <2>7. ScansStaged' /\ TasksStaged' /\ SentAfterCommit'
    BY <2>1, <2>6, FollowersStaged DEF Handles, Early, After
  <2>8. QED BY <2>2, <2>3, <2>4, <2>5, <2>7 DEF StageInv
<1>6. CASE Defer(p, n)
  <2>1. /\ stage' = [stage EXCEPT ![n] = "open"]
        /\ deferred' = [deferred EXCEPT ![p] = deferred[p] \cup {n}]
        /\ stage[n] = "inserted" /\ raisedBy[n] = p
        /\ UNCHANGED <<instance, raisedBy, row, undo, tx, scan, task, sends>>
    BY <1>6 DEF Defer, tables, ghosts
  <2>2. RowsStaged'
    BY <1>1, <1>2, <2>1 DEF StageTypes, RowsStaged
  <2>3. TransactionsStaged'
    BY <1>1, <1>2, <2>1, SameInstance DEF StageTypes, TransactionsStaged
  <2>4. OneEnqueue'
    BY <1>1, <1>2, <2>1 DEF StageTypes, OneEnqueue
  <2>5. DeferralsOwned'
    BY <1>1, <1>2, <2>1 DEF StageTypes, DeferralsOwned
  <2>6. \A m \in Notifications : stage'[m] = stage[m] \/ (stage[m] = "inserted" /\ stage'[m] = "open")
    BY <1>1, <2>1 DEF StageTypes
  <2>7. \A m \in Notifications : stage[m] = "inserted" => \A r \in Processes : ~scan[r][m].seen
    BY <1>2 DEF ScansStaged
  <2>8. ScansStaged' /\ TasksStaged' /\ SentAfterCommit'
    BY <2>1, <2>6, <2>7, FollowersStaged DEF Handles, Early, After
  <2>9. QED BY <2>2, <2>3, <2>4, <2>5, <2>8 DEF StageInv
<1>7. CASE Send(p, n)
  <2>1. /\ raisedBy' = [raisedBy EXCEPT ![n] = p] /\ stage[n] = "none"
        /\ \/ /\ row' = [row EXCEPT ![n] = NewRow] /\ stage' = [stage EXCEPT ![n] = "committed"]
              /\ Dispatch(p, FirstRecord({n}))
           \/ stage' = [stage EXCEPT ![n] = "undone"] /\ UNCHANGED <<row, task>>
        /\ UNCHANGED <<instance, undo, tx, deferred, scan, sends>>
    BY <1>7 DEF Send, Raises, managers, ghosts
  <2>2. RowsStaged'
    BY <1>1, <1>2, <2>1 DEF StageTypes, RowsStaged
  <2>3. TransactionsStaged'
    BY <1>1, <1>2, <2>1, SameInstance DEF StageTypes, TransactionsStaged
  <2>4. OneEnqueue'
    BY <1>1, <1>2, <2>1 DEF StageTypes, OneEnqueue
  <2>5. DeferralsOwned'
    BY <1>1, <1>2, <2>1 DEF StageTypes, DeferralsOwned
  <2>6. \A m \in Notifications :
          stage'[m] = stage[m] \/ (stage[m] = "none" /\ stage'[m] \in {"committed", "undone"})
    BY <1>1, <2>1 DEF StageTypes
  <2>7. \A r \in Processes, m \in Notifications :
          \/ task'[r][m] = task[r][m]
          \/ task'[r][m].pc = "queued" /\ stage'[m] = "committed"
    BY <1>1, <2>1, FirstDispatches DEF StageTypes
  <2>8. ScansStaged' /\ TasksStaged' /\ SentAfterCommit'
    BY <2>1, <2>6, <2>7, FollowersStaged DEF Handles, Early, After
  <2>9. QED BY <2>2, <2>3, <2>4, <2>5, <2>8 DEF StageInv
<1>8. QED BY <1>3, <1>4, <1>5, <1>6, <1>7 DEF Persist

(* A rollback leaves a table that the stages account for, also over SQLite, *)
(* where it is the table of the time the transaction began.                 *)
LEMMA UndoneStages ==
  ASSUME TypeInv, StageInv, NEW p \in Up, Undone(p), Ended, UNCHANGED <<instance, raisedBy>>,
         \A r \in Processes \ {p} : tx'[r] = tx[r] /\ deferred'[r] = deferred[r],
         deferred'[p] \subseteq deferred[p]
  PROVE  /\ RowsStaged' /\ TransactionsStaged' /\ OneEnqueue' /\ DeferralsOwned'
         /\ \A n \in Notifications :
              /\ stage[n] \notin {"none", "entered", "inserted"} =>
                   stage'[n] \notin {"none", "entered", "inserted"}
              /\ stage[n] \notin Early => stage'[n] \notin Early
              /\ stage[n] \in After => stage'[n] \in After
              /\ stage'[n] = "open" => stage[n] = "open"
<1>1. /\ TypeOK /\ StageTypes /\ p \in Processes /\ ~NoRow.there
  BY StageTyped, UpProcesses, RecordTypes DEF TypeInv
<1>2. /\ RowsStaged /\ TransactionsStaged /\ OneEnqueue /\ DeferralsOwned
  BY DEF StageInv
<1>3. \A n \in Notifications :
        LET own == raisedBy[n] = p /\ Uncommitted(n)
        IN  /\ row'[n] = IF shared THEN undo[n] ELSE IF own THEN NoRow ELSE row[n]
            /\ stage'[n] =
                 IF own \/ (raisedBy[n] = p /\ stage[n] = "entered") THEN "undone"
                 ELSE IF shared /\ stage[n] = "committed" /\ ~undo[n].there THEN "swept"
                 ELSE IF shared /\ stage[n] \in {"delivered", "discarded"} /\ undo[n].there
                      THEN "committed" ELSE stage[n]
  BY <1>1, UndoneEffect
<1>4. \A n \in Notifications : undo'[n] = NoRow
  BY DEF Ended
<1>5. ASSUME NEW n \in Notifications, shared, stage[n] \in {"entered", "inserted", "open"}
      PROVE  raisedBy[n] = p
  BY <1>2, <1>5 DEF TransactionsStaged, Up
<1>6. ASSUME NEW n \in Notifications
      PROVE  /\ row'[n].there <=> stage'[n] \in {"inserted", "open", "committed"}
             /\ ~row'[n].there => row'[n] = NoRow
  <2>1. CASE shared
    <3>1. /\ row'[n] = undo[n] /\ (~undo[n].there => undo[n] = NoRow)
          /\ undo[n].there => stage[n] \in {"committed", "delivered", "discarded"}
      BY <1>2, <1>3, <2>1 DEF RowsStaged
    <3>2. QED BY <1>3, <1>5, <2>1, <3>1 DEF Uncommitted
  <2>2. CASE ~shared
    BY <1>1, <1>2, <1>3, <2>2 DEF RowsStaged, Uncommitted
  <2>3. QED BY <2>1, <2>2
<1>7. RowsStaged'
  BY <1>1, <1>4, <1>6 DEF RowsStaged
<1>8. \A n \in Notifications :
        stage'[n] \in {"entered", "inserted", "open"} => stage'[n] = stage[n] /\ raisedBy[n] # p
  BY <1>3 DEF Uncommitted
<1>9. TransactionsStaged'
  <2>1. \A n \in Notifications : stage'[n] # "none" => stage[n] # "none"
    BY <1>3 DEF Uncommitted
  <2>2. QED BY <1>1, <1>2, <1>8, <2>1, SameInstance, UpProcesses DEF TransactionsStaged
<1>10. OneEnqueue'
  BY <1>2, <1>8 DEF OneEnqueue
<1>11. DeferralsOwned'
  BY <1>1, <1>2, <1>8, <1>3 DEF DeferralsOwned, StageTypes, Uncommitted
<1>12. QED BY <1>3, <1>7, <1>8, <1>9, <1>10, <1>11 DEF Early, After, Uncommitted

LEMMA TransactionStages ==
  ASSUME TypeInv, StageInv, NEW p \in Up, Transaction(p)
  PROVE  StageInv'
<1>1. /\ TypeOK /\ StageTypes /\ p \in Processes /\ ~NoRow.there
  BY StageTyped, UpProcesses, RecordTypes DEF TypeInv
<1>2. /\ RowsStaged /\ TransactionsStaged /\ OneEnqueue /\ DeferralsOwned
  BY DEF StageInv
<1>3. CASE Begin(p)
  <2>1. /\ tx' = [tx EXCEPT ![p] = "open"] /\ undo' = row /\ shared /\ tx[p] = "none"
        /\ UNCHANGED <<instance, stage, raisedBy, row, deferred, scan, task, sends>>
    BY <1>3 DEF Begin, ghosts
  <2>2. \A n \in Notifications : stage[n] \notin {"entered", "inserted", "open"}
    BY <1>2, <2>1 DEF TransactionsStaged, Up
  <2>3. RowsStaged'
    BY <1>1, <1>2, <2>1, <2>2 DEF StageTypes, RowsStaged
  <2>4. TransactionsStaged'
    BY <1>2, <2>1, <2>2, SameInstance DEF TransactionsStaged
  <2>5. OneEnqueue' /\ DeferralsOwned'
    BY <1>2, <2>1 DEF OneEnqueue, DeferralsOwned
  <2>6. ScansStaged' /\ TasksStaged' /\ SentAfterCommit'
    BY <2>1, FollowersStaged DEF Handles
  <2>7. QED BY <2>3, <2>4, <2>5, <2>6 DEF StageInv
<1>4. CASE Commit(p)
  <2>1. /\ tx' = [tx EXCEPT ![p] = "committed"] /\ ~Enqueuing(p) /\ Ended
        /\ stage' = [n \in Notifications |->
             IF n \in Own(p, "open") THEN "committed" ELSE stage[n]]
        /\ UNCHANGED <<instance, raisedBy, row, deferred, scan, task, sends>>
    BY <1>4 DEF Commit, ghosts
  <2>2. \A n \in Notifications :
          \/ stage'[n] = stage[n] /\ (stage[n] = "open" => raisedBy[n] # p)
          \/ stage[n] = "open" /\ stage'[n] = "committed"
    BY <2>1 DEF Own
  <2>3. \A n \in Notifications : raisedBy[n] = p => stage[n] \notin {"entered", "inserted"}
    BY <2>1 DEF Enqueuing, Own
  <2>4. RowsStaged'
    BY <1>1, <1>2, <2>1, <2>2 DEF StageTypes, RowsStaged, Ended
  <2>5. TransactionsStaged'
    BY <1>1, <1>2, <2>1, <2>2, <2>3, SameInstance, UpProcesses DEF StageTypes, TransactionsStaged
  <2>6. OneEnqueue' /\ DeferralsOwned'
    BY <1>1, <1>2, <2>1, <2>2 DEF StageTypes, OneEnqueue, DeferralsOwned
  <2>7. ScansStaged' /\ TasksStaged' /\ SentAfterCommit'
    BY <2>1, <2>2, FollowersStaged DEF Handles, Early, After
  <2>8. QED BY <2>4, <2>5, <2>6, <2>7 DEF StageInv
<1>5. ASSUME tx[p] \in {"committed", "rolledback"}, tx' = [tx EXCEPT ![p] = "none"],
             deferred' = [deferred EXCEPT ![p] = {}],
             UNCHANGED <<instance, stage, raisedBy, row, undo>>
      PROVE  /\ RowsStaged' /\ TransactionsStaged' /\ OneEnqueue' /\ DeferralsOwned'
             /\ \A n \in deferred[p] : stage[n] \notin Early
  <2>1. \A n \in Notifications : raisedBy[n] = p => stage[n] \notin {"entered", "inserted", "open"}
    BY <1>2, <1>5 DEF TransactionsStaged
  <2>2. RowsStaged'
    BY <1>2, <1>5 DEF RowsStaged
  <2>3. TransactionsStaged'
    BY <1>1, <1>2, <1>5, <2>1, SameInstance, UpProcesses DEF StageTypes, TransactionsStaged
  <2>4. OneEnqueue' /\ DeferralsOwned'
    BY <1>1, <1>2, <1>5 DEF StageTypes, OneEnqueue, DeferralsOwned
  <2>5. \A n \in deferred[p] : stage[n] \notin Early
    BY <1>1, <1>2, <2>1 DEF StageTypes, DeferralsOwned, Early
  <2>6. QED BY <2>2, <2>3, <2>4, <2>5
<1>6. CASE AfterCommit(p)
  <2>1. /\ tx[p] = "committed" /\ tx' = [tx EXCEPT ![p] = "none"]
        /\ deferred' = [deferred EXCEPT ![p] = {}] /\ Dispatch(p, FirstRecord(deferred[p]))
        /\ UNCHANGED <<instance, stage, raisedBy, row, undo, scan, sends>>
    BY <1>6 DEF AfterCommit, Lifted, tables, ghosts
  <2>2. /\ RowsStaged' /\ TransactionsStaged' /\ OneEnqueue' /\ DeferralsOwned'
        /\ \A n \in deferred[p] : stage[n] \notin Early
    BY <1>5, <2>1
  <2>3. \A r \in Processes, n \in Notifications :
          \/ task'[r][n] = task[r][n]
          \/ task'[r][n].pc = "queued" /\ stage'[n] \notin Early
    BY <1>1, <2>1, <2>2, FirstDispatches
  <2>4. ScansStaged' /\ TasksStaged' /\ SentAfterCommit'
    BY <2>1, <2>3, FollowersStaged DEF Handles
  <2>5. QED BY <2>2, <2>4 DEF StageInv
<1>7. CASE AfterRollback(p)
  <2>1. /\ tx[p] = "rolledback" /\ tx' = [tx EXCEPT ![p] = "none"]
        /\ deferred' = [deferred EXCEPT ![p] = {}]
        /\ UNCHANGED <<instance, stage, raisedBy, row, undo, scan, task, sends>>
    BY <1>7 DEF AfterRollback, Lifted, tables, ghosts
  <2>2. /\ RowsStaged' /\ TransactionsStaged' /\ OneEnqueue' /\ DeferralsOwned'
    BY <1>5, <2>1
  <2>3. ScansStaged' /\ TasksStaged' /\ SentAfterCommit'
    BY <2>1, FollowersStaged DEF Handles
  <2>4. QED BY <2>2, <2>3 DEF StageInv
<1>8. CASE Rollback(p)
  <2>1. /\ Undone(p) /\ Ended /\ tx' = [tx EXCEPT ![p] = "rolledback"]
        /\ UNCHANGED <<instance, raisedBy, deferred, scan, task, sends>>
    BY <1>8 DEF Rollback
  <2>2. \A r \in Processes \ {p} : tx'[r] = tx[r] /\ deferred'[r] = deferred[r]
    BY <1>1, <2>1 DEF StageTypes
  <2>3. /\ RowsStaged' /\ TransactionsStaged' /\ OneEnqueue' /\ DeferralsOwned'
        /\ \A n \in Notifications :
             /\ stage[n] \notin {"none", "entered", "inserted"} =>
                  stage'[n] \notin {"none", "entered", "inserted"}
             /\ stage[n] \notin Early => stage'[n] \notin Early
             /\ stage[n] \in After => stage'[n] \in After
             /\ stage'[n] = "open" => stage[n] = "open"
    BY <2>1, <2>2, UndoneStages
  <2>4. ScansStaged' /\ TasksStaged' /\ SentAfterCommit'
    BY <2>1, <2>3, FollowersStaged DEF Handles
  <2>5. QED BY <2>3, <2>4 DEF StageInv
<1>9. QED BY <1>3, <1>4, <1>6, <1>7, <1>8 DEF Transaction

LEMMA CrashStages ==
  ASSUME TypeInv, StageInv, NEW p \in Up, Crash(p)
  PROVE  StageInv'
<1>1. /\ TypeOK /\ StageTypes /\ p \in Processes /\ NoTask.pc = "none" /\ ~NotSeen.seen
      /\ scan \in [Processes -> [Notifications -> Snapshot]]
      /\ task \in [Processes -> [Notifications -> Task]]
  BY StageTyped, UpProcesses, RecordTypes DEF TypeInv, TypeOK
<1>2. /\ tx' = [tx EXCEPT ![p] = "none"] /\ deferred' = [deferred EXCEPT ![p] = {}]
      /\ scan' = [scan EXCEPT ![p] = Nothing]
      /\ task' = [task EXCEPT ![p] = [n \in Notifications |-> NoTask]]
      /\ UNCHANGED <<instance, raisedBy, sends>>
  BY DEF Crash, Lifted
<1>3. \A r \in Processes, n \in Notifications :
        /\ scan'[r][n] = scan[r][n] \/ ~scan'[r][n].seen
        /\ task'[r][n] = task[r][n] \/ task'[r][n].pc = "none"
  BY <1>1, <1>2 DEF Nothing
<1>4. /\ RowsStaged' /\ TransactionsStaged' /\ OneEnqueue' /\ DeferralsOwned'
      /\ \A n \in Notifications :
           /\ stage[n] \notin {"none", "entered", "inserted"} =>
                stage'[n] \notin {"none", "entered", "inserted"}
           /\ stage[n] \notin Early => stage'[n] \notin Early
           /\ stage[n] \in After => stage'[n] \in After
           /\ stage'[n] = "open" => stage[n] = "open"
  <2>1. CASE tx[p] \in {"open", "failing"}
    <3>1. Undone(p) /\ Ended
      BY <2>1 DEF Crash
    <3>2. /\ \A r \in Processes \ {p} : tx'[r] = tx[r] /\ deferred'[r] = deferred[r]
          /\ deferred'[p] \subseteq deferred[p]
      BY <1>1, <1>2 DEF StageTypes
    <3>3. QED BY <1>2, <3>1, <3>2, UndoneStages
  <2>2. CASE tx[p] \notin {"open", "failing"}
    <3>1. UNCHANGED <<row, undo, stage>>
      BY <2>2 DEF Crash, tables
    <3>2. \A n \in Notifications : raisedBy[n] = p => stage[n] \notin {"entered", "inserted", "open"}
      BY <2>2 DEF StageInv, TransactionsStaged
    <3>3. RowsStaged' /\ OneEnqueue'
      BY <1>2, <3>1 DEF StageInv, RowsStaged, OneEnqueue
    <3>4. TransactionsStaged'
      BY <1>1, <1>2, <3>1, <3>2, SameInstance, UpProcesses
         DEF StageTypes, StageInv, TransactionsStaged
    <3>5. DeferralsOwned'
      BY <1>1, <1>2, <3>1 DEF StageTypes, StageInv, DeferralsOwned
    <3>6. QED BY <3>1, <3>3, <3>4, <3>5
  <2>3. QED BY <2>1, <2>2
<1>5. ScansStaged' /\ TasksStaged' /\ SentAfterCommit'
  BY <1>2, <1>3, <1>4, FollowersStaged DEF Handles
<1>6. QED BY <1>4, <1>5 DEF StageInv

LEMMA StepStages == TypeInv /\ StageInv /\ [Next]_vars => StageInv'
<1> SUFFICES ASSUME TypeInv, StageInv, [Next]_vars PROVE StageInv'
  OBVIOUS
<1>1. CASE UNCHANGED vars
  BY <1>1, SameInstance
     DEF vars, StageInv, RowsStaged, TransactionsStaged, OneEnqueue, DeferralsOwned, ScansStaged,
         TasksStaged, SentAfterCommit, Handles
<1>2. ASSUME NEW p \in Up, Transaction(p) \/ ScanRead(p) \/ ScanDispatch(p) \/ Crash(p)
      PROVE  StageInv'
  BY <1>2, TransactionStages, ScanStages, ScanDispatchStages, CrashStages
<1>3. ASSUME NEW p \in Up, NEW n \in Notifications,
             Persist(p, n) \/ Deliver(p, n) \/ DatabaseError(p, n)
      PROVE  StageInv'
  BY <1>3, UpProcesses, PersistStages, DeliverStages
<1>4. QED BY <1>1, <1>2, <1>3, TimeStages DEF Next

(* No agent gets a notification before the transaction that raised it has   *)
(* committed, or after it has failed: over PostgreSQL and over SQLite,      *)
(* whatever scans, rollbacks and crashes come between.                      *)
THEOREM NothingSentEarly == Spec => []SentAfterCommit
<1>1. StageInv => SentAfterCommit
  BY DEF StageInv
<1>2. QED BY <1>1, InitTypes, StepTypes, InitStages, StepStages, PTL DEF Spec

-----------------------------------------------------------------------------
(* The inductive invariant of the second half of NoSilentLoss: whatever     *)
(* record is used, the agents in it have accepted the notification.         *)

Had(n) == {a \in Targets[n] : sends[n][a] > 0}

RecordsHad ==
  \A n \in Notifications :
    /\ row[n].delivered \subseteq Had(n)
    /\ undo[n].delivered \subseteq Had(n)
    /\ stage[n] = "delivered" => Targets[n] \subseteq Had(n)

SnapshotsHad ==
  \A p \in Processes, n \in Notifications :
    /\ scan[p][n].delivered \subseteq Had(n)
    /\ task[p][n].delivered \subseteq Had(n)
    /\ task[p][n].pc \in {"accepted", "checkpoint"} => Target(p, n) \in Had(n)

DeliveredInv == RecordsHad /\ SnapshotsHad

Least(S) == CHOOSE a \in S : \A b \in S : a <= b

LEMMA SameTarget ==
  ASSUME NEW p, NEW n, KeepsRecord(p, n)
  PROVE  Untried(p, n)' = Untried(p, n) /\ Target(p, n)' = Target(p, n)
<1>1. Target(p, n) = Least(Untried(p, n)) /\ Target(p, n)' = Least(Untried(p, n)')
  BY DEF Target, Least
<1>2. Untried(p, n)' = Untried(p, n)
  BY DEF KeepsRecord, Untried
<1>3. QED BY <1>1, <1>2

LEMMA InitDelivered == Init => DeliveredInv
BY RecordTypes DEF Init, DeliveredInv, RecordsHad, SnapshotsHad, Nothing

(* Records are copied from each other, or name agents that have accepted.   *)
LEMMA RecordsFollow ==
  ASSUME DeliveredInv,
         \A n \in Notifications :
           /\ Had(n) \subseteq Had(n)'
           /\ \/ row'[n].delivered \in {row[n].delivered, undo[n].delivered, {}}
              \/ row'[n].delivered \subseteq Had(n)'
           /\ undo'[n].delivered \in {row[n].delivered, undo[n].delivered, {}}
           /\ stage'[n] = "delivered" => stage[n] = "delivered" \/ Targets[n] \subseteq Had(n)',
         \A p \in Processes, n \in Notifications :
           /\ scan'[p][n].delivered \in {scan[p][n].delivered, row[n].delivered, {}}
           /\ \/ task'[p][n].delivered \in {task[p][n].delivered, scan[p][n].delivered, {}}
              \/ task'[p][n].delivered \subseteq Had(n)'
           /\ task'[p][n].pc \in {"accepted", "checkpoint"} =>
                task'[p][n] = task[p][n] \/ Target(p, n)' \in Had(n)'
  PROVE  DeliveredInv'
<1>1. RecordsHad /\ SnapshotsHad
  BY DEF DeliveredInv
<1>2. RecordsHad'
  BY <1>1 DEF RecordsHad
<1>3. \A p \in Processes, n \in Notifications :
        task'[p][n] = task[p][n] => Target(p, n)' = Target(p, n)
  BY SameTarget DEF KeepsRecord
<1>4. SnapshotsHad'
  BY <1>1, <1>3 DEF RecordsHad, SnapshotsHad
<1>5. QED BY <1>2, <1>4 DEF DeliveredInv

LEMMA DeliverDelivered ==
  ASSUME TypeInv, DeliveredInv, NEW p \in Processes, NEW n \in Notifications,
         Deliver(p, n) \/ DatabaseError(p, n)
  PROVE  DeliveredInv'
<1>1. /\ Confined(p, n) /\ Outcome(p, n) /\ RecordsHad /\ SnapshotsHad
      /\ NoTask.delivered = {} /\ NoTask.pc = "none" /\ NoRow.delivered = {}
  BY DeliverOutcomes, RecordTypes DEF DeliveredInv
<1>2. sends \in [Notifications -> [Agents -> 0..2]]
  BY DEF TypeInv, TypeOK
<1>3. \A m \in Notifications : Had(m) \subseteq Had(m)'
  <2>1. \A m \in Notifications, a \in Agents : sends[m][a] > 0 => sends'[m][a] > 0
    <3>1. CASE UNCHANGED sends
      BY <3>1
    <3>2. CASE Accepted(p, n)
      <4>1. \A k \in 0..2 : Min2(k + 1, 2) > 0
        BY DEF Min2
      <4>2. QED BY <1>2, <3>2, <4>1 DEF Accepted
    <3>3. QED
      BY <1>1, <3>1, <3>2 DEF Outcome, Claims, Leaves, Removes, GivesBack, GoesOn, GivesUp, Stores
  <2>2. QED BY <2>1, ConstantsAssumption DEF Had
<1>4. Accepted(p, n) => Target(p, n) \in Had(n)'
  <2>1. SUFFICES ASSUME Accepted(p, n) PROVE Target(p, n) \in Had(n)'
    OBVIOUS
  <2>2. Target(p, n) \in Targets[n] /\ Target(p, n) \in Agents
    BY <2>1, TargetUntried, ConstantsAssumption DEF Accepted, Untried
  <2>3. sends'[n][Target(p, n)] = Min2(sends[n][Target(p, n)] + 1, 2)
    BY <1>2, <2>1, <2>2 DEF Accepted
  <2>4. sends'[n][Target(p, n)] > 0
    BY <1>2, <2>2, <2>3 DEF Min2
  <2>5. QED BY <2>2, <2>4 DEF Had
<1>5. task[p][n].delivered \subseteq Had(n)
      /\ (task[p][n].pc \in {"accepted", "checkpoint"} => Target(p, n) \in Had(n))
  BY <1>1 DEF SnapshotsHad
<1>6. /\ row'[n].delivered \in {row[n].delivered, {}} \/ row'[n].delivered \subseteq Had(n)'
      /\ task'[p][n].delivered \in {task[p][n].delivered, {}} \/ task'[p][n].delivered \subseteq Had(n)'
      /\ stage'[n] = "delivered" => stage[n] = "delivered" \/ Targets[n] \subseteq Had(n)'
  BY <1>1, <1>3, <1>5 DEF Outcome, Claims, Leaves, Removes, GivesBack, GoesOn, GivesUp, Accepted,
                          Stores, KeepsRow, KeepsRecord, Delivered
<1>7. task'[p][n].pc \in {"accepted", "checkpoint"} => Target(p, n)' \in Had(n)'
  <2>1. SUFFICES ASSUME task'[p][n].pc \in {"accepted", "checkpoint"}
                 PROVE  Target(p, n)' \in Had(n)'
    OBVIOUS
  <2>2. KeepsRecord(p, n) /\ (Accepted(p, n) \/ task[p][n].pc = "accepted")
    BY <1>1, <2>1 DEF Outcome, Claims, Leaves, Removes, GivesBack, GoesOn, GivesUp, Accepted, Stores
  <2>3. Target(p, n)' = Target(p, n)
    BY <2>2, SameTarget
  <2>4. QED BY <1>3, <1>4, <1>5, <2>2, <2>3
<1>8. \A m \in Notifications \ {n} : row'[m] = row[m] /\ stage'[m] = stage[m]
  BY <1>1 DEF Confined, OwnRow
<1>9. UNCHANGED <<undo, scan>>
      /\ \A r \in Processes, m \in Notifications : task'[r][m] = task[r][m] \/ (r = p /\ m = n)
  BY <1>1 DEF Confined, OwnTask
<1>10. \A m \in Notifications :
         /\ \/ row'[m].delivered \in {row[m].delivered, undo[m].delivered, {}}
            \/ row'[m].delivered \subseteq Had(m)'
         /\ stage'[m] = "delivered" => stage[m] = "delivered" \/ Targets[m] \subseteq Had(m)'
  BY <1>6, <1>8
<1>11. \A r \in Processes, m \in Notifications :
         /\ \/ task'[r][m].delivered \in {task[r][m].delivered, scan[r][m].delivered, {}}
            \/ task'[r][m].delivered \subseteq Had(m)'
         /\ task'[r][m].pc \in {"accepted", "checkpoint"} =>
              task'[r][m] = task[r][m] \/ Target(r, m)' \in Had(m)'
  BY <1>6, <1>7, <1>9
<1>12. QED BY <1>3, <1>9, <1>10, <1>11, RecordsFollow

LEMMA SameHad == UNCHANGED sends => \A n \in Notifications : Had(n)' = Had(n)
BY DEF Had

LEMMA OtherDelivered ==
  ASSUME TypeInv, DeliveredInv, NEW p \in Processes,
         Transaction(p) \/ ScanRead(p) \/ ScanDispatch(p) \/ Crash(p)
  PROVE  DeliveredInv'
<1>1. TypeOK /\ NoRow.delivered = {} /\ NotSeen.delivered = {} /\ NoTask.delivered = {}
      /\ NoTask.pc = "none"
  BY RecordTypes DEF TypeInv
<1>2. /\ row \in [Notifications -> Row] /\ undo \in [Notifications -> Row]
      /\ stage \in [Notifications -> Stages]
      /\ scan \in [Processes -> [Notifications -> Snapshot]]
      /\ task \in [Processes -> [Notifications -> Task]]
  BY <1>1 DEF TypeOK
<1>3. CASE Begin(p)
  BY <1>3, SameHad, RecordsFollow DEF Begin, ghosts
<1>4. CASE Commit(p)
  BY <1>1, <1>4, SameHad, RecordsFollow DEF Commit, Ended, ghosts
<1>5. CASE AfterCommit(p)
  BY <1>1, <1>5, SameHad, FirstDispatches, RecordsFollow DEF AfterCommit, ghosts, tables
<1>6. ASSUME Undone(p)
      PROVE  \A n \in Notifications :
               /\ row'[n].delivered \in {row[n].delivered, undo[n].delivered, {}}
               /\ stage'[n] = "delivered" => stage[n] = "delivered"
  BY <1>1, <1>6, UndoneEffect
<1>7. CASE Rollback(p)
  BY <1>1, <1>6, <1>7, SameHad, RecordsFollow DEF Rollback, Ended
<1>8. CASE AfterRollback(p)
  BY <1>8, SameHad, RecordsFollow DEF AfterRollback, ghosts, tables
<1>9. CASE ScanRead(p)
  BY <1>1, <1>9, SameHad, ScanEffect, RecordsFollow DEF ghosts
<1>10. CASE ScanDispatch(p)
  BY <1>1, <1>10, SameHad, ScanDispatches, RecordsFollow DEF ghosts, tables
<1>11. CASE Crash(p)
  <2>1. \A n \in Notifications :
          /\ row'[n].delivered \in {row[n].delivered, undo[n].delivered, {}}
          /\ undo'[n].delivered \in {undo[n].delivered, {}}
          /\ stage'[n] = "delivered" => stage[n] = "delivered"
    BY <1>1, <1>6, <1>11 DEF Crash, Ended, tables
  <2>2. \A r \in Processes, n \in Notifications :
          /\ scan'[r][n].delivered \in {scan[r][n].delivered, {}}
          /\ task'[r][n] = task[r][n] \/ task'[r][n] = NoTask
    BY <1>1, <1>2, <1>11 DEF Crash, Nothing
  <2>3. UNCHANGED sends
    BY <1>11 DEF Crash
  <2>4. QED BY <1>1, <2>1, <2>2, <2>3, SameHad, RecordsFollow
<1>12. QED BY <1>3, <1>4, <1>5, <1>7, <1>8, <1>9, <1>10, <1>11 DEF Transaction

LEMMA PersistDelivered ==
  ASSUME TypeInv, DeliveredInv, NEW p \in Processes, NEW n \in Notifications, Persist(p, n)
  PROVE  DeliveredInv'
<1>1. TypeOK /\ NewRow.delivered = {}
  BY RecordTypes DEF TypeInv
<1>2. row \in [Notifications -> Row] /\ stage \in [Notifications -> Stages]
  BY <1>1 DEF TypeOK
<1>3. UNCHANGED <<undo, scan, sends>>
  BY DEF Persist, Enter, Insert, InsertRefused, Defer, Send, tables, managers, ghosts
<1>4. \A m \in Notifications :
        /\ row'[m] = row[m] \/ row'[m].delivered = {}
        /\ stage'[m] = "delivered" => stage[m] = "delivered"
  BY <1>1, <1>2 DEF Persist, Enter, Insert, InsertRefused, Defer, Send, tables
<1>5. \A r \in Processes, m \in Notifications :
        \/ task'[r][m] = task[r][m]
        \/ task'[r][m].delivered = {} /\ task'[r][m].pc = "queued"
  BY <1>1, FirstDispatches DEF Persist, Enter, Insert, InsertRefused, Defer, Send
<1>6. QED BY <1>3, <1>4, <1>5, SameHad, RecordsFollow

LEMMA StepDelivered == TypeInv /\ DeliveredInv /\ [Next]_vars => DeliveredInv'
<1> SUFFICES ASSUME TypeInv, DeliveredInv, [Next]_vars PROVE DeliveredInv'
  OBVIOUS
<1>1. CASE UNCHANGED vars
  BY <1>1, SameHad, RecordsFollow DEF vars
<1>2. ASSUME NEW p \in Up, Transaction(p) \/ ScanRead(p) \/ ScanDispatch(p) \/ Crash(p)
      PROVE  DeliveredInv'
  BY <1>2, UpProcesses, OtherDelivered
<1>3. ASSUME NEW p \in Up, NEW n \in Notifications,
             Persist(p, n) \/ Deliver(p, n) \/ DatabaseError(p, n)
      PROVE  DeliveredInv'
  BY <1>3, UpProcesses, PersistDelivered, DeliverDelivered
<1>4. ASSUME NEW n \in Notifications, LeaseExpires(n) \/ BackoffElapses(n)
      PROVE  DeliveredInv'
  <2>1. TypeOK
    BY DEF TypeInv
  <2>2. /\ UNCHANGED <<stage, undo, scan, task, sends>>
        /\ \A m \in Notifications : row'[m].delivered = row[m].delivered
    BY <1>4, <2>1, TimePasses DEF OwnRow, managers
  <2>3. QED BY <2>2, SameHad, RecordsFollow
<1>5. QED BY <1>1, <1>2, <1>3, <1>4 DEF Next

(* A committed notification stays in the table unless a rollback of another *)
(* transaction has swept its row away, and one that counts as               *)
(* delivered was accepted by every agent it is for, whichever record the    *)
(* delivery that completed it was working on.                               *)
THEOREM CommittedKept == Spec => []NoSilentLoss
<1>1. StageInv /\ DeliveredInv => NoSilentLoss
  BY ConstantsAssumption
     DEF StageInv, RowsStaged, DeliveredInv, RecordsHad, NoSilentLoss, Had
<1>2. QED BY <1>1, InitTypes, StepTypes, InitStages, StepStages, InitDelivered, StepDelivered,
             PTL DEF Spec

-----------------------------------------------------------------------------
(* The inductive invariant of SentOnce: while nothing went wrong with a     *)
(* notification its row is claimed by the one task at work, and a row       *)
(* nobody has claimed was never sent.                                       *)

Calm(n) == n \notin troubled /\ faults = 0

ClaimsExact ==
  \A p \in Processes, n \in Notifications :
    Calm(n) =>
      /\ Handles(p, n) => row[n].there /\ row[n].claim = p /\ row[n].live
      /\ row[n].claim = p => Handles(p, n)

UnclaimedUnsent ==
  \A n \in Notifications, a \in Agents :
    Calm(n) /\ row[n].there /\ row[n].claim = None => sends[n][a] = 0

TasksExact ==
  \A p \in Processes, n \in Notifications :
    /\ task[p][n].pc = "queued" => task[p][n].tried = {}
    /\ Calm(n) /\ Handles(p, n) =>
         /\ task[p][n].tried = {}
         /\ \A a \in Agents :
              sends[n][a] > 0 =>
                \/ a \in task[p][n].delivered
                \/ task[p][n].pc \in {"accepted", "checkpoint"} /\ a = Target(p, n)

OnceInv == ClaimsExact /\ UnclaimedUnsent /\ TasksExact /\ SentOnce

LEMMA InitOnce == Init => OnceInv
BY RecordTypes, ConstantsAssumption
   DEF Init, OnceInv, ClaimsExact, UnclaimedUnsent, TasksExact, SentOnce, Handles

(* While all is well a task at work holds its row, and is the only one.     *)
LEMMA HandlersHold ==
  ASSUME TypeInv, StageInv, OnceInv, NEW p \in Processes, NEW n \in Notifications, Calm(n),
         Handles(p, n)
  PROVE  Holds(p, n) /\ ~Unclaimed(n) /\ \A r \in Processes \ {p} : ~Handles(r, n)
<1>1. row[n].there /\ row[n].claim = p /\ row[n].live
  BY DEF OnceInv, ClaimsExact
<1>2. stage[n] \in After
  BY DEF StageInv, TasksStaged
<1>3. Holds(p, n)
  BY <1>1, <1>2 DEF Holds, Visible, Uncommitted, After
<1>4. ~Unclaimed(n)
  BY <1>1, ConstantsAssumption DEF Unclaimed
<1>5. \A r \in Processes \ {p} : ~Handles(r, n)
  BY <1>1 DEF OnceInv, ClaimsExact
<1>6. QED BY <1>3, <1>4, <1>5

(* Steps that send nothing and start no work.                               *)
LEMMA OnceFollows ==
  ASSUME OnceInv, UNCHANGED sends, troubled \subseteq troubled',
         faults \in Nat, faults' \in Nat, faults <= faults',
         \A p \in Processes, n \in Notifications :
           \/ task'[p][n] = task[p][n]
           \/ task'[p][n].pc = "queued" /\ task'[p][n].tried = {} /\ task[p][n].pc = "none"
           \/ task'[p][n].pc = "none" /\ faults' > 0,
         \A n \in Notifications :
           Calm(n)' =>
             \/ /\ row'[n].there <=> row[n].there
                /\ row'[n].claim = row[n].claim
                /\ row'[n].live \/ ~row[n].live \/ ~Handles(row[n].claim, n)
             \/ /\ row'[n].claim = None /\ \A p \in Processes : ~Handles(p, n)
                /\ row'[n].there => \A a \in Agents : sends[n][a] = 0
  PROVE  OnceInv'
<1>1. ClaimsExact /\ UnclaimedUnsent /\ TasksExact /\ SentOnce
  BY DEF OnceInv
<1>2. \A n \in Notifications : Calm(n)' => Calm(n) /\ faults' = 0
  BY DEF Calm
<1>3. \A p \in Processes, n \in Notifications :
        Calm(n)' => (Handles(p, n)' <=> Handles(p, n))
                    /\ (Handles(p, n) => task'[p][n] = task[p][n])
  BY <1>2 DEF Handles
<1>4. ClaimsExact'
  BY <1>1, <1>2, <1>3, ConstantsAssumption DEF ClaimsExact
<1>5. UnclaimedUnsent'
  BY <1>1, <1>2 DEF UnclaimedUnsent
<1>6. TasksExact'
  <2>1. \A p \in Processes, n \in Notifications :
          task'[p][n] = task[p][n] => Target(p, n)' = Target(p, n)
    BY SameTarget DEF KeepsRecord
  <2>2. \A p \in Processes, n \in Notifications :
          task'[p][n].pc = "queued" => task'[p][n].tried = {}
    BY <1>1 DEF TasksExact
  <2>3. QED BY <1>1, <1>2, <1>3, <2>1, <2>2 DEF TasksExact
<1>7. SentOnce'
  BY <1>1 DEF SentOnce
<1>8. QED BY <1>4, <1>5, <1>6, <1>7 DEF OnceInv

(* The one row and task a delivery concerns.                                *)
OnceAt(p, n) ==
  /\ row[n].there /\ row[n].claim = p /\ row[n].live
  /\ \A r \in Processes \ {p} : ~Handles(r, n)
  /\ Handles(p, n) /\ task[p][n].tried = {}
  /\ \A a \in Agents :
       sends[n][a] > 0 =>
         \/ a \in task[p][n].delivered
         \/ task[p][n].pc \in {"accepted", "checkpoint"} /\ a = Target(p, n)

LEMMA DeliverOnce ==
  ASSUME TypeInv, StageInv, DeliveredInv, OnceInv, NEW p \in Processes, NEW n \in Notifications,
         Deliver(p, n) \/ DatabaseError(p, n)
  PROVE  OnceInv'
<1>1. /\ Confined(p, n) /\ Outcome(p, n)
      /\ ClaimsExact /\ UnclaimedUnsent /\ TasksExact /\ SentOnce
      /\ NoTask.pc = "none" /\ NoTask.tried = {} /\ ~NoRow.there /\ NoRow.claim = None
  BY DeliverOutcomes, RecordTypes DEF OnceInv
<1>2. /\ sends \in [Notifications -> [Agents -> 0..2]] /\ None \notin Processes /\ faults \in Nat
      /\ row[n].claim \in Processes \cup {None} /\ Targets[n] \subseteq Agents
  BY RowFields, ConstantsAssumption DEF TypeInv, TypeOK
<1>3. \A m \in Notifications : Calm(m)' => Calm(m) /\ faults' = 0 /\ m \notin troubled'
  BY <1>1, <1>2 DEF Confined, Calm
<1>4. /\ \A m \in Notifications \ {n} : row'[m] = row[m]
      /\ \A r \in Processes, m \in Notifications : task'[r][m] = task[r][m] \/ (r = p /\ m = n)
      /\ \A m \in Notifications \ {n}, a \in Agents : sends'[m][a] = sends[m][a]
  BY <1>1, <1>2 DEF Confined, OwnRow, OwnTask, Outcome, Claims, Leaves, Removes, GivesBack, GoesOn,
                    GivesUp, Accepted, Stores
<1>5. \A r \in Processes, m \in Notifications :
        r # p \/ m # n => /\ Handles(r, m)' <=> Handles(r, m)
                          /\ task'[r][m] = task[r][m] /\ Target(r, m)' = Target(r, m)
  <2>1. ASSUME NEW r \in Processes, NEW m \in Notifications, task'[r][m] = task[r][m]
        PROVE  (Handles(r, m)' <=> Handles(r, m)) /\ Target(r, m)' = Target(r, m)
    BY <2>1, SameTarget DEF Handles, KeepsRecord
  <2>2. QED BY <1>4, <2>1
<1>6. ASSUME Calm(n), Handles(p, n)
      PROVE  OnceAt(p, n) /\ Holds(p, n)
             /\ (Untried(p, n) = {} => task[p][n].delivered = Targets[n])
  <2>1. OnceAt(p, n) /\ Holds(p, n)
    BY <1>1, <1>6, HandlersHold DEF ClaimsExact, TasksExact, OnceAt
  <2>2. task[p][n].delivered \subseteq Targets[n]
    BY DEF DeliveredInv, SnapshotsHad, Had
  <2>3. QED BY <2>1, <2>2 DEF OnceAt, Untried
<1>7. ASSUME Calm(n)'
      PROVE  \/ Claims(p, n) \/ Removes(p, n) \/ GoesOn(p, n) \/ Accepted(p, n) \/ Stores(p, n)
             \/ Leaves(p, n) /\ task[p][n].pc = "queued"
  <2>1. Calm(n) /\ faults' = 0 /\ n \notin troubled'
    BY <1>3, <1>7
  <2>2. ~GivesUp(p, n)
    BY <2>1 DEF GivesUp
  <2>3. ~GivesBack(p, n)
    BY <1>6, <2>1 DEF GivesBack
  <2>4. Leaves(p, n) => task[p][n].pc = "queued"
    BY <1>6, <2>1 DEF Leaves, Handles
  <2>5. QED BY <1>1, <2>2, <2>3, <2>4 DEF Outcome
<1>8. ASSUME Calm(n)', Claims(p, n)
      PROVE  /\ row[n].claim = None /\ \A r \in Processes : ~Handles(r, n)
             /\ \A a \in Agents : sends[n][a] = 0
  <2>1. Calm(n) /\ row[n].there /\ Unclaimed(n)
    BY <1>3, <1>8 DEF Claims, Visible
  <2>2. \A r \in Processes : ~Handles(r, n)
    BY <2>1, HandlersHold
  <2>3. row[n].claim = None
    BY <1>1, <1>2, <2>1, <2>2 DEF ClaimsExact
  <2>4. QED BY <1>1, <2>1, <2>2, <2>3 DEF UnclaimedUnsent
<1>9. ASSUME Calm(n)', Handles(p, n)'
      PROVE  OnceAt(p, n)'
  <2>1. CASE Claims(p, n)
    <3>1. task[p][n].tried = {}
      BY <1>1, <2>1 DEF Claims, TasksExact
    <3>2. QED BY <1>5, <1>8, <1>9, <2>1, <3>1 DEF OnceAt, Claims, KeepsRecord
  <2>2. CASE Removes(p, n) \/ Leaves(p, n)
    BY <1>1, <1>9, <2>2 DEF Removes, Leaves, Handles
  <2>3. CASE GoesOn(p, n)
    <3>1. OnceAt(p, n)
      BY <1>3, <1>6, <1>9, <2>3 DEF GoesOn, Handles
    <3>2. Target(p, n)' = Target(p, n)
      BY <2>3, SameTarget DEF GoesOn
    <3>3. row'[n].there /\ row'[n].claim = p /\ row'[n].live
      BY <2>3, <3>1 DEF OnceAt, GoesOn, KeepsRow
    <3>4. QED BY <1>5, <1>9, <2>3, <3>1, <3>2, <3>3 DEF OnceAt, GoesOn, KeepsRecord
  <2>4. CASE Accepted(p, n)
    <3>1. OnceAt(p, n)
      BY <1>3, <1>6, <1>9, <2>4 DEF Accepted, Handles
    <3>2. Target(p, n)' = Target(p, n)
      BY <2>4, SameTarget DEF Accepted
    <3>3. \A a \in Agents : a # Target(p, n) => sends'[n][a] = sends[n][a]
      BY <1>2, <2>4 DEF Accepted
    <3>4. QED BY <1>5, <1>9, <2>4, <3>1, <3>2, <3>3 DEF OnceAt, Accepted, KeepsRecord
  <2>5. CASE Stores(p, n)
    <3>1. OnceAt(p, n)
      BY <1>3, <1>6, <1>9, <2>5 DEF Stores, Handles
    <3>2. row'[n].there /\ row'[n].claim = p /\ row'[n].live
      BY <2>5, <3>1 DEF OnceAt, Stores
    <3>3. QED BY <1>5, <1>9, <2>5, <3>1, <3>2 DEF OnceAt, Stores, Delivered
  <2>6. QED BY <1>7, <1>9, <2>1, <2>2, <2>3, <2>4, <2>5
<1>10. ASSUME Calm(n)', row'[n].claim = p
       PROVE  Handles(p, n)'
  <2>1. CASE Removes(p, n)
    BY <1>1, <1>2, <1>10, <2>1 DEF Removes
  <2>2. CASE Leaves(p, n) /\ task[p][n].pc = "queued"
    BY <1>1, <1>3, <1>10, <2>2 DEF Leaves, ClaimsExact, Handles
  <2>3. CASE Claims(p, n) \/ GoesOn(p, n) \/ Accepted(p, n) \/ Stores(p, n)
    BY <2>3 DEF Claims, GoesOn, Accepted, Stores, Handles
  <2>4. QED BY <1>7, <1>10, <2>1, <2>2, <2>3
<1>11. ASSUME Calm(n)', NEW r \in Processes \ {p}
       PROVE  /\ Handles(r, n)' => row'[n].there /\ row'[n].claim = r /\ row'[n].live
              /\ row'[n].claim = r => Handles(r, n)'
  <2>1. CASE Handles(p, n)
    <3>1. OnceAt(p, n)
      BY <1>3, <1>6, <1>11, <2>1
    <3>2. row'[n].claim \in {p, None}
      BY <1>1, <1>7, <1>11, <2>1, <3>1
         DEF OnceAt, Claims, Removes, GoesOn, Accepted, Stores, Leaves, Handles, KeepsRow
    <3>3. QED BY <1>2, <1>5, <3>1, <3>2 DEF OnceAt
  <2>2. CASE Claims(p, n)
    BY <1>2, <1>5, <1>8, <1>11, <2>2 DEF Claims
  <2>3. CASE Leaves(p, n)
    BY <1>1, <1>3, <1>5, <1>11, <2>3 DEF Leaves, ClaimsExact
  <2>4. QED BY <1>7, <1>11, <2>1, <2>2, <2>3 DEF Removes, GoesOn, Accepted, Stores, Handles
<1>12. ClaimsExact'
  <2> SUFFICES ASSUME NEW r \in Processes, NEW m \in Notifications, Calm(m)'
               PROVE  /\ Handles(r, m)' => row'[m].there /\ row'[m].claim = r /\ row'[m].live
                      /\ row'[m].claim = r => Handles(r, m)'
    BY DEF ClaimsExact
  <2>1. CASE m # n
    BY <1>1, <1>3, <1>4, <1>5, <2>1 DEF ClaimsExact
  <2>2. CASE m = n /\ r = p
    BY <1>9, <1>10, <2>2 DEF OnceAt
  <2>3. CASE m = n /\ r # p
    BY <1>11, <2>3
  <2>4. QED BY <2>1, <2>2, <2>3
<1>13. UnclaimedUnsent'
  <2> SUFFICES ASSUME NEW m \in Notifications, NEW a \in Agents, Calm(m)', row'[m].there,
                      row'[m].claim = None
               PROVE  sends'[m][a] = 0
    BY DEF UnclaimedUnsent
  <2>1. CASE m # n
    BY <1>1, <1>3, <1>4, <2>1 DEF UnclaimedUnsent
  <2>2. CASE m = n
    <3>1. ~Handles(p, n)'
      BY <1>2, <1>9, <2>2 DEF OnceAt
    <3>2. ~Removes(p, n)
      BY <1>1, <2>2 DEF Removes
    <3>3. Leaves(p, n)
      BY <1>7, <2>2, <3>1, <3>2 DEF Claims, GoesOn, Accepted, Stores, Handles
    <3>4. QED BY <1>1, <1>3, <2>2, <3>3 DEF Leaves, UnclaimedUnsent
  <2>3. QED BY <2>1, <2>2
<1>14. TasksExact'
  <2>1. task'[p][n].pc = "queued" => task'[p][n].tried = {}
    BY <1>1 DEF Outcome, Claims, Leaves, Removes, GivesBack, GoesOn, GivesUp, Accepted, Stores
  <2>2. \A r \in Processes, m \in Notifications :
          task'[r][m].pc = "queued" => task'[r][m].tried = {}
    BY <1>1, <1>4, <2>1 DEF TasksExact
  <2> SUFFICES ASSUME NEW r \in Processes, NEW m \in Notifications, Calm(m)', Handles(r, m)'
               PROVE  /\ task'[r][m].tried = {}
                      /\ \A a \in Agents :
                           sends'[m][a] > 0 =>
                             \/ a \in task'[r][m].delivered
                             \/ /\ task'[r][m].pc \in {"accepted", "checkpoint"}
                                /\ a = Target(r, m)'
    BY <2>2 DEF TasksExact
  <2>3. CASE m # n
    BY <1>1, <1>3, <1>4, <1>5, <2>3 DEF TasksExact
  <2>4. CASE m = n /\ r = p
    BY <1>9, <2>4 DEF OnceAt
  <2>5. CASE m = n /\ r # p
    <3>1. row'[n].claim = r
      BY <1>11, <2>5
    <3>2. Handles(r, n) /\ Calm(n) /\ ~Handles(p, n)
      BY <1>3, <1>5, <2>5, HandlersHold
    <3>3. UNCHANGED sends
      BY <1>7, <2>5, <3>2 DEF Claims, Leaves, Removes, GoesOn, Accepted, Stores, Handles
    <3>4. QED BY <1>1, <1>5, <2>5, <3>2, <3>3 DEF TasksExact
  <2>6. QED BY <2>3, <2>4, <2>5
<1>15. SentOnce'
  <2> SUFFICES ASSUME NEW m \in Notifications, NEW a \in Agents, Calm(m)'
               PROVE  ~(sends'[m][a] > 1)
    BY <1>1, <1>2 DEF SentOnce, Calm, Confined
  <2>1. ~(sends[m][a] > 1)
    BY <1>1, <1>2, <1>3 DEF SentOnce, Calm
  <2>2. CASE m = n /\ Accepted(p, n) /\ a = Target(p, n)
    <3>1. OnceAt(p, n) /\ task[p][n].pc = "sending"
      BY <1>3, <1>6, <2>2 DEF Accepted, Handles
    <3>2. a \notin task[p][n].delivered
      BY <2>2, TargetUntried DEF Accepted, Untried
    <3>3. sends[n][a] = 0
      BY <1>2, <2>2, <3>1, <3>2 DEF OnceAt
    <3>4. sends'[n][a] = Min2(1, 2)
      BY <1>2, <2>2, <3>3 DEF Accepted
    <3>5. QED BY <2>2, <3>4 DEF Min2
  <2>3. CASE ~(m = n /\ Accepted(p, n) /\ a = Target(p, n))
    <3>1. sends'[m][a] = sends[m][a]
      BY <1>1, <1>2, <1>4, <2>3 DEF Outcome, Claims, Leaves, Removes, GivesBack, GoesOn, GivesUp,
                                    Accepted, Stores
    <3>2. QED BY <2>1, <3>1
  <2>4. QED BY <2>2, <2>3
<1>16. QED BY <1>12, <1>13, <1>14, <1>15 DEF OnceInv

(* A row that has just been inserted is nobody's.                           *)
LEMMA EarlyUnsent ==
  ASSUME TypeInv, StageInv, NEW n \in Notifications, stage[n] \in Early
  PROVE  /\ \A p \in Processes : ~Handles(p, n)
         /\ \A a \in Agents : sends[n][a] = 0
<1>1. stage[n] \notin After
  BY DEF Early, After
<1>2. \A p \in Processes : ~Handles(p, n)
  BY <1>1 DEF StageInv, TasksStaged
<1>3. \A a \in Agents : sends[n][a] \in 0..2 /\ ~(sends[n][a] > 0)
  BY <1>1 DEF StageInv, SentAfterCommit, After, TypeInv, TypeOK
<1>4. QED BY <1>2, <1>3

LEMMA PersistOnce ==
  ASSUME TypeInv, StageInv, OnceInv, NEW p \in Processes, NEW n \in Notifications, Persist(p, n)
  PROVE  OnceInv'
<1>1. TypeOK /\ NewRow.there /\ NewRow.claim = None
  BY RecordTypes DEF TypeInv
<1>2. row \in [Notifications -> Row] /\ faults \in Nat
  BY <1>1 DEF TypeOK
<1>3. UNCHANGED <<sends, troubled, faults>>
  BY DEF Persist, Enter, Insert, InsertRefused, Defer, Send, ghosts
<1>4. stage[n] \in Early
  BY DEF Persist, Enter, Insert, InsertRefused, Defer, Send, Raises, Early
<1>5. \A m \in Notifications : row'[m] = row[m] \/ (m = n /\ row'[m] = NewRow)
  BY <1>2 DEF Persist, Enter, Insert, InsertRefused, Defer, Send, tables
<1>6. \A r \in Processes, m \in Notifications :
        \/ task'[r][m] = task[r][m]
        \/ task'[r][m].pc = "queued" /\ task'[r][m].tried = {} /\ task[r][m].pc = "none"
  BY <1>1, FirstDispatches DEF Persist, Enter, Insert, InsertRefused, Defer, Send
<1>7. (\A r \in Processes : ~Handles(r, n)) /\ \A a \in Agents : sends[n][a] = 0
  BY <1>4, EarlyUnsent
<1>8. \A m \in Notifications :
        \/ /\ row'[m].there <=> row[m].there
           /\ row'[m].claim = row[m].claim
           /\ row'[m].live \/ ~row[m].live
        \/ /\ row'[m].claim = None /\ \A r \in Processes : ~Handles(r, m)
           /\ row'[m].there => \A a \in Agents : sends[m][a] = 0
  BY <1>1, <1>5, <1>7
<1>9. QED BY <1>2, <1>3, <1>6, <1>8, OnceFollows

LEMMA OtherOnce ==
  ASSUME TypeInv, StageInv, OnceInv, NEW p \in Processes,
         Transaction(p) \/ ScanRead(p) \/ ScanDispatch(p) \/ Crash(p)
  PROVE  OnceInv'
<1> DEFINE Tasks == \A r \in Processes, n \in Notifications :
             \/ task'[r][n] = task[r][n]
             \/ task'[r][n].pc = "queued" /\ task'[r][n].tried = {} /\ task[r][n].pc = "none"
             \/ task'[r][n].pc = "none" /\ faults' > 0
           Rows == \A n \in Notifications :
             Calm(n)' =>
               \/ /\ row'[n].there <=> row[n].there
                  /\ row'[n].claim = row[n].claim
                  /\ row'[n].live \/ ~row[n].live \/ ~Handles(row[n].claim, n)
               \/ /\ row'[n].claim = None /\ \A r \in Processes : ~Handles(r, n)
                  /\ row'[n].there => \A a \in Agents : sends[n][a] = 0
           Ghosts == /\ troubled \subseteq troubled' /\ faults \in Nat
                     /\ faults' \in Nat /\ faults <= faults' /\ UNCHANGED sends
<1>1. /\ TypeOK /\ ~NoRow.there /\ NoRow.claim = None /\ NoTask.pc = "none" /\ faults \in Nat
      /\ task \in [Processes -> [Notifications -> Task]]
  BY RecordTypes DEF TypeInv, TypeOK
<1>2. UNCHANGED row => Rows
  OBVIOUS
<1>3. UNCHANGED task => Tasks
  OBVIOUS
<1>4. UNCHANGED ghosts => Ghosts
  BY <1>1 DEF ghosts
<1>5. Undone(p) => Rows /\ troubled \subseteq troubled'
  <2> SUFFICES ASSUME Undone(p) PROVE Rows /\ troubled \subseteq troubled'
    OBVIOUS
  <2>1. \A n \in Notifications :
          \/ row'[n] = row[n] \/ n \in troubled'
          \/ Uncommitted(n) /\ row'[n] = IF shared THEN undo[n] ELSE NoRow
    BY <1>1, UndoneEffect
  <2>2. \A n \in Notifications : Uncommitted(n) => stage[n] \in Early /\ undo[n] = NoRow
    BY DEF Uncommitted, Early, StageInv, RowsStaged
  <2>3. \A n \in Notifications : Uncommitted(n) => \A r \in Processes : ~Handles(r, n)
    BY <2>2, EarlyUnsent
  <2>4. ASSUME NEW n \in Notifications, Calm(n)'
        PROVE  \/ row'[n] = row[n]
               \/ row'[n] = NoRow /\ \A r \in Processes : ~Handles(r, n)
    BY <2>1, <2>2, <2>3, <2>4 DEF Calm
  <2>5. Rows
    BY <1>1, <2>4
  <2>6. QED BY <1>1, <2>5, UndoneEffect
<1>6. ASSUME Transaction(p) PROVE Tasks /\ Rows /\ Ghosts
  <2>1. CASE Begin(p) \/ Commit(p) \/ AfterRollback(p)
    BY <1>2, <1>3, <1>4, <2>1 DEF Begin, Commit, AfterRollback, tables
  <2>2. CASE AfterCommit(p)
    <3>1. Tasks
      BY <1>1, <2>2, FirstDispatches DEF AfterCommit
    <3>2. QED BY <1>2, <1>4, <2>2, <3>1 DEF AfterCommit, tables
  <2>3. CASE Rollback(p)
    <3>1. Ghosts
      BY <1>1, <1>5, <2>3 DEF Rollback
    <3>2. QED BY <1>3, <1>5, <2>3, <3>1 DEF Rollback
  <2>4. QED BY <1>6, <2>1, <2>2, <2>3 DEF Transaction
<1>7. ASSUME ScanRead(p) PROVE Tasks /\ Rows /\ Ghosts
  <2>1. /\ UNCHANGED <<task, ghosts>>
        /\ \A n \in Notifications :
             row'[n] = row[n] \/ (Unclaimed(n) /\ row'[n] = NoRow)
    BY <1>1, <1>7, ScanEffect
  <2>2. \A n \in Notifications : Calm(n)' => Calm(n)
    BY <2>1 DEF Calm, ghosts
  <2>3. ASSUME NEW n \in Notifications, Calm(n)'
        PROVE  \/ row'[n] = row[n]
               \/ row'[n] = NoRow /\ \A r \in Processes : ~Handles(r, n)
    BY <2>1, <2>2, <2>3, HandlersHold
  <2>4. Rows
    BY <1>1, <2>3
  <2>5. QED BY <1>3, <1>4, <2>1, <2>4
<1>8. ASSUME ScanDispatch(p) PROVE Tasks /\ Rows /\ Ghosts
  <2>1. Tasks /\ UNCHANGED <<row, ghosts>>
    BY <1>1, <1>8, ScanDispatches DEF tables
  <2>2. QED BY <1>2, <1>4, <2>1
<1>9. ASSUME Crash(p) PROVE Tasks /\ Rows /\ Ghosts
  <2>1. faults' = faults + 1 /\ UNCHANGED sends /\ troubled \subseteq troubled'
    BY <1>5, <1>9 DEF Crash, Fault
  <2>2. faults' \in Nat /\ faults' > 0 /\ faults <= faults'
    BY <1>1, <2>1
  <2>3. Tasks
    BY <1>1, <1>9, <2>2 DEF Crash
  <2>4. Rows
    BY <2>2 DEF Calm
  <2>5. QED BY <1>1, <2>1, <2>2, <2>3, <2>4
<1>10. Tasks /\ Rows /\ Ghosts
  BY <1>6, <1>7, <1>8, <1>9
<1>11. QED BY <1>10, OnceFollows

LEMMA TimeOnce ==
  ASSUME TypeInv, StageInv, OnceInv, NEW n \in Notifications, LeaseExpires(n) \/ BackoffElapses(n)
  PROVE  OnceInv'
<1>1. TypeOK /\ faults \in Nat
  BY DEF TypeInv, TypeOK
<1>2. /\ UNCHANGED <<task, sends, troubled>> /\ faults' \in Nat /\ faults <= faults'
      /\ \A m \in Notifications \ {n} : row'[m] = row[m]
      /\ row'[n].there = row[n].there /\ row'[n].claim = row[n].claim
      /\ row'[n].live \/ ~row[n].live \/ ~Handles(row[n].claim, n) \/ faults' > 0
  BY <1>1, TimePasses DEF OwnRow
<1>3. \A m \in Notifications :
        Calm(m)' => /\ row'[m].there <=> row[m].there
                    /\ row'[m].claim = row[m].claim
                    /\ row'[m].live \/ ~row[m].live \/ ~Handles(row[m].claim, m)
  BY <1>2 DEF Calm
<1>4. QED BY <1>1, <1>2, <1>3, OnceFollows

LEMMA StepOnce ==
  TypeInv /\ StageInv /\ DeliveredInv /\ OnceInv /\ [Next]_vars => OnceInv'
<1> SUFFICES ASSUME TypeInv, StageInv, DeliveredInv, OnceInv, [Next]_vars PROVE OnceInv'
  OBVIOUS
<1>1. CASE UNCHANGED vars
  <2>1. faults \in Nat
    BY DEF TypeInv, TypeOK
  <2>2. QED BY <1>1, <2>1, OnceFollows DEF vars
<1>2. ASSUME NEW p \in Up, Transaction(p) \/ ScanRead(p) \/ ScanDispatch(p) \/ Crash(p)
      PROVE  OnceInv'
  BY <1>2, UpProcesses, OtherOnce
<1>3. ASSUME NEW p \in Up, NEW n \in Notifications,
             Persist(p, n) \/ Deliver(p, n) \/ DatabaseError(p, n)
      PROVE  OnceInv'
  BY <1>3, UpProcesses, PersistOnce, DeliverOnce
<1>4. QED BY <1>1, <1>2, <1>3, TimeOnce DEF Next

(* As long as no agent refused a notification, no claim on it was lost and  *)
(* nothing failed, no agent gets it twice, for every number of processes,   *)
(* scans and tasks at work on the same table.                               *)
THEOREM NoRepeatedDelivery == Spec => []SentOnce
<1>1. OnceInv => SentOnce
  BY DEF OnceInv
<1>2. QED BY <1>1, InitTypes, StepTypes, InitStages, StepStages, InitDelivered, StepDelivered,
             InitOnce, StepOnce, PTL DEF Spec
=============================================================================
